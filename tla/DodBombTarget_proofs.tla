----------------------- MODULE DodBombTarget_proofs -----------------------
(***************************************************************************)
(* Bomb targets, for any number of players, targets and points and any     *)
(* lengths of fuse and defuse.  First the types; then what the clients are *)
(* shown, what a point still needs, and who may end a defuse, each with    *)
(* the inductive invariant it takes.                                       *)
(***************************************************************************)
EXTENDS DodBombTarget, DodPoints_proofs, FiniteSetTheorems

Records == [left : -1 .. DefuseTime, use : -1 .. UseTimeout]

LEMMA NoRecordIsNone == NoRecord \notin Records
BY DEF NoRecord, Records

LEMMA RecordOrNone ==
  ASSUME TypeOK, NEW b \in Targets, NEW p \in Players
  PROVE  /\ defusers[b][p] \in Records \cup {NoRecord}
         /\ p \in Defusers(b) <=> defusers[b][p] \in Records
BY NoRecordIsNone DEF TypeOK, Records, Defusers

\* A record that has aged is a record still.
LEMMA AgeTyped ==
  ASSUME NEW r \in Records
  PROVE  Age(r) \in Records
<1>1. r.left \in -1 .. DefuseTime /\ r.use \in -1 .. UseTimeout
  BY DEF Records
<1>2. Elapse(r.left) \in -1 .. DefuseTime /\ Elapse(r.use) \in -1 .. UseTimeout
  BY <1>1, BombAssumption DEF Elapse, Past
<1> QED BY <1>2 DEF Age, Records

LEMMA AgedTyped ==
  ASSUME TypeOK, NEW b \in Targets
  PROVE  /\ Aged(b) \in [Players -> Records \cup {NoRecord}]
         /\ \A p \in Players : p \in Defusers(b) => Aged(b)[p] = Age(defusers[b][p])
         /\ \A p \in Players : Aged(b)[p] # NoRecord <=> p \in Defusers(b)
<1>1. ASSUME NEW p \in Players, p \in Defusers(b)
      PROVE  Age(defusers[b][p]) \in Records
  BY <1>1, RecordOrNone, AgeTyped
<1> QED BY <1>1, NoRecordIsNone DEF Aged

\* Whose list a think has left as it is or shortened.
LEMMA ResetTyped ==
  ASSUME TypeOK, NEW b \in Targets, NEW S \in SUBSET Players,
         ResetDefuse(b, S, Aged(b))
  PROVE  /\ defusers' \in [Targets -> [Players -> Records \cup {NoRecord}]]
         /\ kept' \in [Targets -> SUBSET Players]
         /\ defusing' \in [Players -> Targets \cup {NoTarget}]
         /\ beingDefused' \in [Points -> BOOLEAN]
<1> DEFINE list == [p \in Players |-> IF p \in S THEN NoRecord ELSE Aged(b)[p]]
<1>1. list \in [Players -> Records \cup {NoRecord}]
  BY AgedTyped
<1>2. defusers' = [defusers EXCEPT ![b] = list]
  BY DEF ResetDefuse
<1>3. defusers \in [Targets -> [Players -> Records \cup {NoRecord}]]
  BY DEF TypeOK, Records
<1>4. defusers' \in [Targets -> [Players -> Records \cup {NoRecord}]]
  <2> HIDE DEF list
  <2> QED BY <1>1, <1>2, <1>3
<1>5. kept' \in [Targets -> SUBSET Players]
  BY DEF ResetDefuse, TypeOK
<1> QED BY <1>4, <1>5 DEF ResetDefuse, TypeOK

LEMMA BurnTyped ==
  ASSUME TypeOK, NEW b \in Targets, NEW c \in BOOLEAN, BurnUnless(b, c)
  PROVE  /\ state' \in [Targets -> {"inactive", "active", "armed"}]
         /\ fuse' \in [Targets -> -1 .. BombTime]
         /\ bombPlanted' \in [Points -> BOOLEAN]
<1>1. fuse[b] \in -1 .. BombTime /\ Elapse(fuse[b]) \in -1 .. BombTime /\ -1 \in -1 .. BombTime
  BY BombAssumption DEF TypeOK, Elapse, Past
<1>2. fuse' = [fuse EXCEPT ![b] = IF c THEN -1 ELSE Elapse(fuse[b])]
  BY DEF BurnUnless
<1>3. fuse' \in [Targets -> -1 .. BombTime]
  BY <1>1, <1>2 DEF TypeOK
<1>4. state' \in [Targets -> {"inactive", "active", "armed"}] /\ bombPlanted' \in [Points -> BOOLEAN]
  BY DEF BurnUnless, TypeOK
<1> QED BY <1>3, <1>4

\* Points and round keep their types when a bomb takes a point.
LEMMA InternalSetOwnerTyped ==
  ASSUME PointsTypeOK, NEW p \in Points, NEW t \in Owners, InternalSetOwner(p, t)
  PROVE  /\ roundState' \in RoundStates /\ wins' \in [Teams -> Nat]
         /\ owner' \in [Points -> Owners]
<1>1. ASSUME NEW w \in Teams, SetWinningTeam(w)
      PROVE  roundState' \in RoundStates /\ wins' \in [Teams -> Nat]
  BY <1>1 DEF SetWinningTeam, WinState, WinStates, RoundStates, PointsTypeOK
<1>2. ASSUME NEW held, CheckWinConditions(held)
      PROVE  roundState' \in RoundStates /\ wins' \in [Teams -> Nat]
  BY <1>1, <1>2 DEF CheckWinConditions, PointsTypeOK
<1>3. owner' \in [Points -> Owners]
  BY DEF InternalSetOwner, PointsTypeOK
<1> QED BY <1>2, <1>3 DEF InternalSetOwner

\* The team that gets the point, as BombExploded finds it.
Taker(b) == IF BomberFor(b) THEN BombingTeam[b]
            ELSE IF owner[PointOf[b]] = "allies" THEN "axis" ELSE "allies"

LEMMA TakerIsATeam ==
  ASSUME NEW b \in Targets
  PROVE  Taker(b) \in Teams
BY BombAssumption DEF Taker, Teams

LEMMA ExplosionTyped ==
  ASSUME TypeOK, NEW b \in Targets, BombExploded(b)
  PROVE  /\ roundState' \in RoundStates /\ wins' \in [Teams -> Nat]
         /\ owner' \in [Points -> Owners] /\ resOwner' \in [Points -> Owners]
         /\ capping' \in [Points -> Owners]
         /\ bombPlanted' \in [Points -> BOOLEAN] /\ remaining' \in [Points -> Int]
         /\ beingDefused' \in [Points -> BOOLEAN]
<1>1. PointOf[b] \in Points /\ Taker(b) \in Owners /\ PointsTypeOK
  BY BombAssumption, TakerIsATeam DEF Owners, TypeOK
<1>2. /\ bombPlanted' \in [Points -> BOOLEAN] /\ remaining' \in [Points -> Int]
      /\ beingDefused' \in [Points -> BOOLEAN]
  BY <1>1 DEF BombExploded, TypeOK
<1>3. CASE remaining[PointOf[b]] - 1 <= 0
  <2>1. InternalSetOwner(PointOf[b], Taker(b)) /\ SetOwningTeam(PointOf[b], Taker(b))
    BY <1>3 DEF BombExploded, Taker
  <2>2. resOwner' \in [Points -> Owners] /\ capping' \in [Points -> Owners]
    BY <1>1, <2>1 DEF SetOwningTeam, PointsTypeOK, Owners
  <2> QED BY <1>1, <1>2, <2>1, <2>2, InternalSetOwnerTyped
<1>4. CASE ~(remaining[PointOf[b]] - 1 <= 0)
  BY <1>1, <1>2, <1>4 DEF BombExploded, PointsTypeOK, pointVars
<1> QED BY <1>3, <1>4

LEMMA DieTyped ==
  ASSUME TypeOK, NEW S \in SUBSET Players, Die(S)
  PROVE  /\ life' \in [Players -> {"alive", "dead", "gone"}]
         /\ bomb' \in [Players -> {"none", "held"} \cup Targets]
         /\ defusing' \in [Players -> Targets \cup {NoTarget}]
BY DEF Die, TypeOK

\* Every variable keeps its range; in particular no fuse and no record runs
\* below its end.
THEOREM BombTypeCorrect == Spec => []TypeOK
<1>1. Init => TypeOK
  <2> SUFFICES ASSUME Init PROVE TypeOK
    OBVIOUS
  <2>1. PointsTypeOK
    BY PointsAssumption DEF Init, PointsInit, PointsTypeOK, RoundStates, Owners
  <2>2. -1 \in -1 .. BombTime /\ BombsRequired \in [Points -> Int]
    BY BombAssumption
  <2> QED BY <2>1, <2>2 DEF Init, TargetsInit, TypeOK
<1>2. TypeOK /\ [Next]_vars => TypeOK'
  <2> SUFFICES ASSUME TypeOK, [Next]_vars PROVE TypeOK'
    OBVIOUS
  <2>1. PointsTypeOK' <=> /\ roundState' \in RoundStates /\ inWarmup' \in BOOLEAN
                          /\ wins' \in [Teams -> Nat] /\ owner' \in [Points -> Owners]
                          /\ resOwner' \in [Points -> Owners] /\ capping' \in [Points -> Owners]
    BY DEF PointsTypeOK
  <2>2. UNCHANGED <<roundVars, pointVars>> => PointsTypeOK'
    BY <2>1 DEF roundVars, pointVars, TypeOK, PointsTypeOK
  <2>3. TypeOK' <=>
          /\ PointsTypeOK'
          /\ life' \in [Players -> {"alive", "dead", "gone"}]
          /\ bomb' \in [Players -> {"none", "held"} \cup Targets]
          /\ defusing' \in [Players -> Targets \cup {NoTarget}]
          /\ state' \in [Targets -> {"inactive", "active", "armed"}]
          /\ fuse' \in [Targets -> -1 .. BombTime]
          /\ defusers' \in [Targets -> [Players -> Records \cup {NoRecord}]]
          /\ kept' \in [Targets -> SUBSET Players]
          /\ bombPlanted' \in [Points -> BOOLEAN]
          /\ remaining' \in [Points -> Int]
          /\ beingDefused' \in [Points -> BOOLEAN]
          /\ timeUp' \in BOOLEAN
    BY DEF TypeOK, Records
  <2>4. /\ life \in [Players -> {"alive", "dead", "gone"}]
        /\ bomb \in [Players -> {"none", "held"} \cup Targets]
        /\ defusing \in [Players -> Targets \cup {NoTarget}]
        /\ state \in [Targets -> {"inactive", "active", "armed"}]
        /\ fuse \in [Targets -> -1 .. BombTime]
        /\ defusers \in [Targets -> [Players -> Records \cup {NoRecord}]]
        /\ kept \in [Targets -> SUBSET Players]
        /\ bombPlanted \in [Points -> BOOLEAN]
        /\ remaining \in [Points -> Int]
        /\ beingDefused \in [Points -> BOOLEAN]
        /\ timeUp \in BOOLEAN
    BY DEF TypeOK, Records
  <2>5. /\ -1 \in -1 .. BombTime /\ BombTime \in -1 .. BombTime /\ NewRecord \in Records
        /\ UseTimeout \in -1 .. UseTimeout
    BY BombAssumption DEF NewRecord, Records
  <2>6. ASSUME NEW b \in Targets, ThinkIdle(b) PROVE TypeOK'
    <3>1. Aged(b) \in [Players -> Records \cup {NoRecord}]
      BY AgedTyped
    <3>2. defusers' \in [Targets -> [Players -> Records \cup {NoRecord}]]
      BY <2>4, <2>6, <3>1 DEF ThinkIdle
    <3> QED BY <2>2, <2>3, <2>4, <2>6, <3>2 DEF ThinkIdle, playerVars, cpBombVars
  <2>7. ASSUME NEW b \in Targets, ThinkDefusers(b) PROVE TypeOK'
    <3>1. PICK S \in SUBSET Players, c \in BOOLEAN : ResetDefuse(b, S, Aged(b)) /\ BurnUnless(b, c)
      BY <2>7 DEF ThinkDefusers, Defusers
    <3> QED BY <2>2, <2>3, <2>4, <2>7, <3>1, ResetTyped, BurnTyped DEF ThinkDefusers
  <2>8. ASSUME NEW b \in Targets, ThinkFuse(b) PROVE TypeOK'
    <3>1. (~Running) \in BOOLEAN
      BY DEF Running
    <3> QED BY <2>2, <2>3, <2>4, <2>8, <3>1, BurnTyped DEF ThinkFuse, playerVars
  <2>9. ASSUME NEW b \in Targets, Explode(b) PROVE TypeOK'
    <3>1. PICK S \in SUBSET Players : Die(S)
      BY <2>9 DEF Explode
    <3>2. timeUp' \in BOOLEAN /\ inWarmup' \in BOOLEAN
      BY <2>4, <2>9 DEF Explode, TypeOK, PointsTypeOK
    <3>3. /\ state' \in [Targets -> {"inactive", "active", "armed"}]
          /\ fuse' \in [Targets -> -1 .. BombTime]
          /\ defusers' = defusers /\ kept' = kept
      BY <2>4, <2>5, <2>9 DEF Explode
    <3>4. BombExploded(b)
      BY <2>9 DEF Explode
    <3> QED BY <2>1, <2>3, <2>4, <3>1, <3>2, <3>3, <3>4, ExplosionTyped, DieTyped
  <2>10. ASSUME NEW p \in Players, NEW b \in Targets, StartPlanting(p, b) PROVE TypeOK'
    BY <2>2, <2>3, <2>4, <2>10 DEF StartPlanting, targetVars, cpBombVars
  <2>11. ASSUME NEW p \in Players, NEW b \in Targets, CompletePlant(p, b) PROVE TypeOK'
    BY <2>2, <2>3, <2>4, <2>5, <2>11 DEF CompletePlant
  <2>12. ASSUME NEW p \in Players, NEW b \in Targets, UseArmed(p, b) PROVE TypeOK'
    <3>1. CASE p \in Defusers(b)
      <4>1. [defusers[b][p] EXCEPT !.use = UseTimeout] \in Records
        BY <2>5, <3>1, RecordOrNone DEF Records
      <4>2. defusers' = [defusers EXCEPT ![b][p].use = UseTimeout]
        BY <2>12, <3>1 DEF UseArmed
      <4>3. defusers' \in [Targets -> [Players -> Records \cup {NoRecord}]]
        BY <2>4, <4>1, <4>2
      <4> QED BY <2>2, <2>3, <2>4, <2>12, <3>1, <4>3 DEF UseArmed
    <3>2. CASE p \notin Defusers(b)
      <4>1. defusers' = [defusers EXCEPT ![b][p] = NewRecord]
        BY <2>12, <3>2 DEF UseArmed
      <4>2. defusers' \in [Targets -> [Players -> Records \cup {NoRecord}]]
        BY <2>4, <2>5, <4>1
      <4>3. defusing' \in [Players -> Targets \cup {NoTarget}] /\ beingDefused' \in [Points -> BOOLEAN]
        BY <2>4, <2>12, <3>2 DEF UseArmed
      <4> QED BY <2>2, <2>3, <2>4, <2>12, <4>2, <4>3 DEF UseArmed
    <3> QED BY <3>1, <3>2
  <2>13. ASSUME NEW p \in Players, TakeBomb(p) \/ CancelPlanting(p) PROVE TypeOK'
    BY <2>2, <2>3, <2>4, <2>13 DEF TakeBomb, CancelPlanting, targetVars, cpBombVars
  <2>14. ASSUME NEW p \in Players, Kill(p) PROVE TypeOK'
    BY <2>2, <2>3, <2>4, <2>14, DieTyped DEF Kill, targetVars, cpBombVars
  <2>15. ASSUME NEW p \in Players, Respawn(p) \/ Leave(p) PROVE TypeOK'
    BY <2>2, <2>3, <2>4, <2>15 DEF Respawn, Leave, targetVars, cpBombVars
  <2>16. ASSUME NEW b \in Targets, InputEnable(b) \/ InputDisable(b) PROVE TypeOK'
    <3>1. kept' \in [Targets -> SUBSET Players]
      BY <2>4, <2>16 DEF InputEnable, InputDisable, Defusers
    <3> QED BY <2>2, <2>3, <2>4, <2>5, <2>16, <3>1 DEF InputEnable, InputDisable, playerVars, cpBombVars
  <2>17. CASE TimeRunsOut
    BY <2>2, <2>3, <2>4, <2>17 DEF TimeRunsOut, playerVars, targetVars, cpBombVars
  <2>18. CASE RoundTimer \/ RoundActive
    <3>1. PointsTypeOK'
      BY <2>1, <2>18, PointsAssumption
      DEF RoundTimer, TimerExpires, SetWinningTeam, RoundActive, StartRound, pointVars,
          RoundStates, WinStates, WinState, TypeOK, PointsTypeOK
    <3> QED BY <2>3, <2>4, <2>18, <3>1 DEF RoundTimer, RoundActive, playerVars, targetVars, cpBombVars
  <2>19. CASE RoundRespawn
    <3>1. PointsTypeOK'
      BY <2>1, <2>19, PointsAssumption DEF RoundRespawn, NewRound, RoundStates, Owners
    <3>2. BombsRequired \in [Points -> Int]
      BY BombAssumption
    <3> QED BY <2>3, <2>4, <2>5, <2>19, <3>1, <3>2 DEF RoundRespawn
  <2>20. CASE UNCHANGED vars
    BY <2>2, <2>3, <2>4, <2>20 DEF vars, playerVars, targetVars, cpBombVars
  <2> QED BY <2>6, <2>7, <2>8, <2>9, <2>10, <2>11, <2>12, <2>13, <2>14, <2>15, <2>16,
             <2>17, <2>18, <2>19, <2>20, BombAssumption DEF Next, Think
<1> QED BY <1>1, <1>2, PTL DEF Spec
---------------------------------------------------------------------------
(* The flags the clients are shown. *)

\* What a think does to the lists: b keeps those who are not reset.
LEMMA ResetShortens ==
  ASSUME TypeOK, NEW b \in Targets, NEW S \in SUBSET Defusers(b),
         ResetDefuse(b, S, Aged(b))
  PROVE  /\ Defusers(b)' = Defusers(b) \ S
         /\ \A c \in Targets \ {b} : defusers'[c] = defusers[c]
         /\ \A c \in Targets \ {b} : Defusers(c)' = Defusers(c)
         /\ \A p \in Players : p \in Defusers(b) \ S => defusers'[b][p] = Age(defusers[b][p])
         /\ kept'[b] = kept[b] \ S
         /\ \A c \in Targets \ {b} : kept'[c] = kept[c]
<1>1. /\ \A p \in Players : defusers'[b][p] = IF p \in S THEN NoRecord ELSE Aged(b)[p]
      /\ \A c \in Targets \ {b} : defusers'[c] = defusers[c]
  BY DEF ResetDefuse, TypeOK
<1>2. Defusers(b)' = Defusers(b) \ S
  BY <1>1, AgedTyped DEF Defusers
<1>3. \A c \in Targets \ {b} : Defusers(c)' = Defusers(c)
  BY <1>1 DEF Defusers
<1>4. \A p \in Players : p \in Defusers(b) \ S => defusers'[b][p] = Age(defusers[b][p])
  BY <1>1, AgedTyped
<1>5. kept'[b] = kept[b] \ S /\ \A c \in Targets \ {b} : kept'[c] = kept[c]
  BY DEF ResetDefuse, TypeOK
<1> QED BY <1>1, <1>2, <1>3, <1>4, <1>5

LEMMA IdleKeepsLists ==
  ASSUME TypeOK, NEW b \in Targets, ThinkIdle(b)
  PROVE  /\ \A c \in Targets : Defusers(c)' = Defusers(c)
         /\ \A c \in Targets \ {b} : defusers'[c] = defusers[c]
<1>1. /\ \A p \in Players : defusers'[b][p] = Aged(b)[p]
      /\ \A c \in Targets \ {b} : defusers'[c] = defusers[c]
  BY DEF ThinkIdle, TypeOK
<1>2. Defusers(b)' = Defusers(b)
  BY <1>1, AgedTyped DEF Defusers
<1>3. \A c \in Targets \ {b} : Defusers(c)' = Defusers(c)
  BY <1>1 DEF Defusers
<1> QED BY <1>1, <1>2, <1>3

\* A use puts the player on the list of b, if he is not there.
LEMMA UseLists ==
  ASSUME TypeOK, NEW p \in Players, NEW b \in Targets, UseArmed(p, b)
  PROVE  /\ Defusers(b)' = Defusers(b) \cup {p}
         /\ \A c \in Targets \ {b} : defusers'[c] = defusers[c]
         /\ \A c \in Targets \ {b} : Defusers(c)' = Defusers(c)
         /\ \A q \in Players : q # p => defusers'[b][q] = defusers[b][q]
         /\ defusers'[b][p] = IF p \in Defusers(b) THEN [defusers[b][p] EXCEPT !.use = UseTimeout]
                              ELSE NewRecord
<1>1. NewRecord \in Records
  BY BombAssumption DEF NewRecord, Records
<1>2. p \in Defusers(b) => [defusers[b][p] EXCEPT !.use = UseTimeout] \in Records
  BY BombAssumption, RecordOrNone DEF Records
<1>3. /\ \A c \in Targets \ {b} : defusers'[c] = defusers[c]
      /\ \A q \in Players : q # p => defusers'[b][q] = defusers[b][q]
      /\ defusers'[b][p] = IF p \in Defusers(b) THEN [defusers[b][p] EXCEPT !.use = UseTimeout]
                           ELSE NewRecord
  <2>1. CASE p \in Defusers(b)
    <3>1. defusers' = [defusers EXCEPT ![b][p].use = UseTimeout]
      BY <2>1 DEF UseArmed
    <3> QED BY <2>1, <3>1 DEF TypeOK
  <2>2. CASE p \notin Defusers(b)
    <3>1. defusers' = [defusers EXCEPT ![b][p] = NewRecord]
      BY <2>2 DEF UseArmed
    <3> QED BY <2>2, <3>1 DEF TypeOK
  <2> QED BY <2>1, <2>2
<1>4. defusers'[b][p] # NoRecord
  BY <1>1, <1>2, <1>3, NoRecordIsNone
<1>5. Defusers(b)' = Defusers(b) \cup {p}
  BY <1>3, <1>4 DEF Defusers
<1>6. \A c \in Targets \ {b} : Defusers(c)' = Defusers(c)
  BY <1>3 DEF Defusers
<1> QED BY <1>3, <1>5, <1>6

\* Countdown and defuse are shown for a bomb that is armed and for a player who
\* is listed: every action that ends either clears the flag of the point, or
\* leaves another.
THEOREM ShownIsReal == Spec => []ShownBombsAreReal
<1>1. Init => ShownBombsAreReal
  BY DEF Init, TargetsInit, ShownBombsAreReal
<1>2. TypeOK /\ ShownBombsAreReal /\ [Next]_vars => ShownBombsAreReal'
  <2> SUFFICES ASSUME TypeOK, ShownBombsAreReal, [Next]_vars, NEW pt \in Points
               PROVE  /\ bombPlanted'[pt]  => \E b \in TargetsOf(pt) : state'[b] = "armed"
                      /\ beingDefused'[pt] => \E b \in TargetsOf(pt) : Defusers(b)' # {}
    BY DEF ShownBombsAreReal, TargetsOf
  <2> DEFINE Goal == /\ bombPlanted'[pt]  => \E b \in TargetsOf(pt) : state'[b] = "armed"
                     /\ beingDefused'[pt] => \E b \in TargetsOf(pt) : Defusers(b)' # {}
  <2>1. /\ bombPlanted[pt]  => \E b \in TargetsOf(pt) : state[b] = "armed"
        /\ beingDefused[pt] => \E b \in TargetsOf(pt) : Defusers(b) # {}
    BY DEF ShownBombsAreReal
  <2>2. TargetsOf(pt) \subseteq Targets /\ \A b \in Targets : b \in TargetsOf(pt) <=> PointOf[b] = pt
    BY DEF TargetsOf
  <2>3. /\ state \in [Targets -> {"inactive", "active", "armed"}]
        /\ bombPlanted \in [Points -> BOOLEAN] /\ beingDefused \in [Points -> BOOLEAN]
    BY DEF TypeOK
  <2>4. \A b \in Targets : PointOf[b] \in Points
    BY BombAssumption
  <2>5. UNCHANGED <<state, fuse, defusers, bombPlanted, remaining, beingDefused>> => Goal
    BY <2>1 DEF Defusers
  <2>6. ASSUME NEW b \in Targets, NEW c \in BOOLEAN, BurnUnless(b, c)
        PROVE  bombPlanted'[pt] => \E d \in TargetsOf(pt) : state'[d] = "armed"
    BY <2>1, <2>2, <2>3, <2>4, <2>6 DEF BurnUnless
  <2>7. ASSUME NEW b \in Targets, ThinkIdle(b) PROVE Goal
    BY <2>1, <2>2, <2>7, IdleKeepsLists DEF ThinkIdle, cpBombVars
  <2>8. ASSUME NEW b \in Targets, ThinkDefusers(b) PROVE Goal
    <3>1. PICK S \in SUBSET Defusers(b), c \in BOOLEAN : ResetDefuse(b, S, Aged(b)) /\ BurnUnless(b, c)
      BY <2>8 DEF ThinkDefusers, Running
    <3>2. bombPlanted'[pt] => \E d \in TargetsOf(pt) : state'[d] = "armed"
      BY <2>6, <3>1
    <3>3. CASE S = Defusers(b)
      <4>1. beingDefused' = [beingDefused EXCEPT ![PointOf[b]] = FALSE]
        BY <3>1, <3>3 DEF ResetDefuse
      <4>2. pt # PointOf[b] => \A d \in TargetsOf(pt) : Defusers(d)' = Defusers(d)
        BY <2>2, <3>1, ResetShortens
      <4> QED BY <2>1, <2>3, <2>4, <3>2, <4>1, <4>2
    <3>4. CASE S # Defusers(b)
      <4>1. beingDefused' = beingDefused
        BY <3>1, <3>4 DEF ResetDefuse
      <4>2. Defusers(b)' # {}
        BY <3>1, <3>4, ResetShortens
      <4>3. \A d \in Targets \ {b} : Defusers(d)' = Defusers(d)
        BY <3>1, ResetShortens
      <4> QED BY <2>1, <2>2, <3>2, <4>1, <4>2, <4>3
    <3> QED BY <3>3, <3>4
  <2>9. ASSUME NEW b \in Targets, ThinkFuse(b) PROVE Goal
    <3>1. BurnUnless(b, ~Running) /\ UNCHANGED <<defusers, beingDefused>>
      BY <2>9 DEF ThinkFuse
    <3> QED BY <2>1, <2>6, <3>1 DEF Running, Defusers
  <2>10. ASSUME NEW b \in Targets, Explode(b) PROVE Goal
    <3>1. /\ state' = [state EXCEPT ![b] = "inactive"]
          /\ bombPlanted' = [bombPlanted EXCEPT ![PointOf[b]] = FALSE]
          /\ beingDefused' = [beingDefused EXCEPT ![PointOf[b]] = FALSE]
          /\ defusers' = defusers
      BY <2>10 DEF Explode, BombExploded
    <3> QED BY <2>1, <2>2, <2>3, <2>4, <3>1 DEF Defusers
  <2>11. ASSUME NEW p \in Players, NEW b \in Targets, CompletePlant(p, b) PROVE Goal
    BY <2>1, <2>2, <2>3, <2>4, <2>11 DEF CompletePlant, Defusers
  <2>12. ASSUME NEW p \in Players, NEW b \in Targets, UseArmed(p, b) PROVE Goal
    <3>1. UNCHANGED <<state, bombPlanted>>
      BY <2>12 DEF UseArmed
    <3>2. \A c \in Targets : Defusers(c) \subseteq Defusers(c)' /\ Defusers(b)' # {}
      BY <2>12, UseLists
    <3>3. beingDefused'[pt] => beingDefused[pt] \/ pt = PointOf[b]
      BY <2>3, <2>4, <2>12 DEF UseArmed
    <3> QED BY <2>1, <2>2, <3>1, <3>2, <3>3
  <2>13. ASSUME NEW b \in Targets, InputEnable(b) PROVE Goal
    BY <2>1, <2>2, <2>3, <2>13 DEF InputEnable, cpBombVars, Defusers
  <2>14. ASSUME NEW b \in Targets, InputDisable(b) PROVE Goal
    BY <2>1, <2>2, <2>3, <2>4, <2>14 DEF InputDisable, Defusers
  <2>15. ASSUME RoundRespawn PROVE Goal
    <3>1. ~bombPlanted'[pt] /\ ~beingDefused'[pt]
      BY <2>15 DEF RoundRespawn
    <3> QED BY <3>1
  <2> HIDE DEF Goal
  <2>16. ASSUME NEW p \in Players, NEW b \in Targets, StartPlanting(p, b) PROVE Goal
    BY <2>5, <2>16 DEF StartPlanting, targetVars, cpBombVars
  <2>17. ASSUME TimeRunsOut \/ RoundTimer \/ RoundActive PROVE Goal
    BY <2>5, <2>17 DEF TimeRunsOut, RoundTimer, RoundActive, targetVars, cpBombVars
  <2>18. ASSUME NEW p \in Players,
                TakeBomb(p) \/ CancelPlanting(p) \/ Kill(p) \/ Respawn(p) \/ Leave(p)
         PROVE  Goal
    BY <2>5, <2>18 DEF TakeBomb, CancelPlanting, Kill, Respawn, Leave, targetVars, cpBombVars
  <2>19. ASSUME UNCHANGED vars PROVE Goal
    BY <2>5, <2>19 DEF vars, targetVars, cpBombVars
  <2>20. Goal
    BY <2>7, <2>8, <2>9, <2>10, <2>11, <2>12, <2>13, <2>14, <2>15, <2>16, <2>17, <2>18,
       <2>19, BombAssumption DEF Next, Think
  <2> QED BY <2>20 DEF Goal
<1> QED BY <1>1, <1>2, BombTypeCorrect, PTL DEF Spec
---------------------------------------------------------------------------
(* Who may end a defuse.  While a round is played the list of a target is   *)
(* emptied with its bomb, except for those a disable leaves on it; a round  *)
(* that is over may leave both, but the next one loads the targets again,   *)
(* and nobody has a bomb before it runs.                                    *)

NoStaleRecord(b) == state[b] # "armed" => Defusers(b) \subseteq kept[b]

RecordsAreYoung(b) ==
  state[b] = "armed" =>
    \A p \in Defusers(b) \ kept[b] : DefuseTime - defusers[b][p].left <= BombTime - fuse[b]

DefuseInv ==
  /\ roundState = "preround" => /\ \A p \in Players : bomb[p] = "none"
                                /\ \A b \in Targets : state[b] # "armed"
  /\ roundState \in {"preround", "running"} =>
       \A b \in Targets : NoStaleRecord(b) /\ RecordsAreYoung(b)

\* A think that leaves the bomb armed takes as much from a record as from the
\* fuse, or less.
LEMMA AgingKeepsYoung ==
  ASSUME NEW left \in -1 .. DefuseTime, NEW burn \in -1 .. BombTime,
         DefuseTime - left <= BombTime - burn
  PROVE  DefuseTime - Elapse(left) <= BombTime - Elapse(burn)
BY BombAssumption DEF Elapse, Past

\* A target keeps what a step says of another.
LEMMA OthersKeepInv ==
  ASSUME NEW b \in Targets, NEW c \in Targets,
         state'[c] = state[c], fuse'[c] = fuse[c], defusers'[c] = defusers[c], kept'[c] = kept[c],
         NoStaleRecord(c), RecordsAreYoung(c)
  PROVE  NoStaleRecord(c)' /\ RecordsAreYoung(c)'
BY DEF NoStaleRecord, RecordsAreYoung, Defusers

LEMMA DefuseInvInit == Init => DefuseInv
BY DEF Init, TargetsInit, DefuseInv, NoStaleRecord, RecordsAreYoung, Defusers

LEMMA DefuseInvStep == TypeOK /\ DefuseInv /\ [Next]_vars => DefuseInv'
<1> SUFFICES ASSUME TypeOK, DefuseInv, [Next]_vars PROVE DefuseInv'
  OBVIOUS
<1> DEFINE Idle == roundState = "preround" => /\ \A p \in Players : bomb[p] = "none"
                                             /\ \A b \in Targets : state[b] # "armed"
           Lists == roundState \in {"preround", "running"} =>
                      \A b \in Targets : NoStaleRecord(b) /\ RecordsAreYoung(b)
<1>1. (DefuseInv <=> Idle /\ Lists) /\ (DefuseInv' <=> Idle' /\ Lists')
  BY DEF DefuseInv
<1>2. Idle /\ Lists
  BY <1>1
<1>3. /\ state \in [Targets -> {"inactive", "active", "armed"}]
      /\ fuse \in [Targets -> -1 .. BombTime] /\ bomb \in [Players -> {"none", "held"} \cup Targets]
      /\ "none" \notin Targets
  BY BombAssumption DEF TypeOK
<1>4. UNCHANGED <<roundState, state, fuse, defusers, kept>> => Lists'
  BY <1>2, OthersKeepInv
<1>5. ASSUME NEW b \in Targets, ThinkIdle(b) PROVE DefuseInv'
  <2>1. UNCHANGED <<roundState, bomb, state, fuse, kept>> /\ state[b] # "armed"
    BY <1>5 DEF ThinkIdle, roundVars, playerVars
  <2>2. ASSUME NEW c \in Targets, NoStaleRecord(c) /\ RecordsAreYoung(c)
        PROVE  NoStaleRecord(c)' /\ RecordsAreYoung(c)'
    BY <1>5, <2>1, <2>2, IdleKeepsLists, OthersKeepInv DEF NoStaleRecord, RecordsAreYoung
  <2> QED BY <1>1, <1>2, <2>1, <2>2
<1>6. ASSUME NEW b \in Targets, ThinkDefusers(b) PROVE DefuseInv'
  <2>1. PICK S \in SUBSET Defusers(b), c \in BOOLEAN :
          /\ ResetDefuse(b, S, Aged(b)) /\ BurnUnless(b, c)
          /\ c => ~Running \/ S = Defusers(b)
    BY <1>6 DEF ThinkDefusers
  <2>2. UNCHANGED <<roundState, bomb>> /\ state[b] = "armed"
    BY <1>6 DEF ThinkDefusers, roundVars
  <2>3. /\ state' = (IF c THEN [state EXCEPT ![b] = "active"] ELSE state)
        /\ fuse' = [fuse EXCEPT ![b] = IF c THEN -1 ELSE Elapse(fuse[b])]
    BY <2>1 DEF BurnUnless
  <2>4. Idle'
    BY <1>2, <1>3, <2>2, <2>3
  <2>5. ASSUME NEW d \in Targets, roundState \in {"preround", "running"}
        PROVE  NoStaleRecord(d)' /\ RecordsAreYoung(d)'
    <3>1. NoStaleRecord(d) /\ RecordsAreYoung(d)
      BY <1>2, <2>5
    <3>2. CASE d # b
      <4>1. state'[d] = state[d] /\ fuse'[d] = fuse[d] /\ defusers'[d] = defusers[d] /\ kept'[d] = kept[d]
        BY <1>3, <2>1, <2>3, <3>2, ResetShortens
      <4> QED BY <3>1, <4>1, OthersKeepInv
    <3>3. CASE d = b
      <4>1. Running
        BY <1>2, <2>2, <2>5, <3>3 DEF Running
      <4>2. CASE c
        <5>1. Defusers(b)' = {}
          BY <2>1, <4>1, <4>2, ResetShortens
        <5>2. state'[b] # "armed"
          BY <1>3, <2>3, <4>2
        <5> QED BY <3>3, <5>1, <5>2 DEF NoStaleRecord, RecordsAreYoung
      <4>3. CASE ~c
        <5>1. state'[b] = "armed" /\ fuse'[b] = Elapse(fuse[b]) /\ fuse[b] \in -1 .. BombTime
          BY <1>3, <2>2, <2>3, <4>3
        <5>2. ASSUME NEW p \in Defusers(b)' \ kept'[b]
              PROVE  DefuseTime - defusers'[b][p].left <= BombTime - fuse'[b]
          <6>1. p \in Players /\ p \in Defusers(b) \ S /\ p \notin kept[b]
            BY <2>1, <5>2, ResetShortens DEF Defusers
          <6>2. defusers'[b][p].left = Elapse(defusers[b][p].left)
            <7>1. defusers'[b][p] = Age(defusers[b][p])
              BY <2>1, <6>1, ResetShortens
            <7> QED BY <7>1 DEF Age
          <6>3. defusers[b][p].left \in -1 .. DefuseTime
            BY <6>1, RecordOrNone DEF Records
          <6>4. DefuseTime - defusers[b][p].left <= BombTime - fuse[b]
            BY <2>2, <3>1, <3>3, <6>1 DEF RecordsAreYoung
          <6> QED BY <5>1, <6>2, <6>3, <6>4, AgingKeepsYoung
        <5> QED BY <3>3, <5>1, <5>2 DEF NoStaleRecord, RecordsAreYoung
      <4> QED BY <4>2, <4>3
    <3> QED BY <3>2, <3>3
  <2> QED BY <1>1, <2>2, <2>4, <2>5
<1>7. ASSUME NEW b \in Targets, ThinkFuse(b) PROVE DefuseInv'
  <2>1. /\ UNCHANGED <<roundState, bomb, defusers, kept>> /\ state[b] = "armed" /\ Defusers(b) = {}
        /\ state' = (IF ~Running THEN [state EXCEPT ![b] = "active"] ELSE state)
        /\ fuse' = [fuse EXCEPT ![b] = IF ~Running THEN -1 ELSE Elapse(fuse[b])]
    BY <1>7 DEF ThinkFuse, BurnUnless, roundVars, playerVars
  <2>2. ASSUME NEW d \in Targets, NoStaleRecord(d), RecordsAreYoung(d)
        PROVE  NoStaleRecord(d)' /\ RecordsAreYoung(d)'
    <3>1. CASE d # b
      <4>1. state'[d] = state[d] /\ fuse'[d] = fuse[d] /\ defusers'[d] = defusers[d] /\ kept'[d] = kept[d]
        BY <1>3, <2>1, <3>1
      <4> QED BY <2>2, <4>1, OthersKeepInv
    <3>2. CASE d = b
      BY <2>1, <3>2 DEF NoStaleRecord, RecordsAreYoung, Defusers
    <3> QED BY <3>1, <3>2
  <2>3. Idle'
    BY <1>2, <1>3, <2>1
  <2> QED BY <1>1, <1>2, <2>1, <2>2, <2>3
<1>8. ASSUME NEW b \in Targets, Explode(b) PROVE DefuseInv'
  <2>1. /\ UNCHANGED <<defusers, kept>> /\ state[b] = "armed" /\ Defusers(b) = {}
        /\ state' = [state EXCEPT ![b] = "inactive"] /\ fuse' = [fuse EXCEPT ![b] = -1]
    BY <1>8 DEF Explode
  <2>2. roundState' = roundState \/ roundState' \in {"allies_win", "axis_win"}
    <3>1. BombExploded(b)
      BY <1>8 DEF Explode
    <3> QED BY <3>1 DEF BombExploded, InternalSetOwner, CheckWinConditions, SetWinningTeam, WinState
  <2>3. \A p \in Players : bomb[p] = "none" => bomb'[p] = "none"
    BY <1>3, <1>8 DEF Explode, Die
  <2>4. ASSUME NEW d \in Targets, NoStaleRecord(d), RecordsAreYoung(d)
        PROVE  NoStaleRecord(d)' /\ RecordsAreYoung(d)'
    <3>1. CASE d # b
      <4>1. state'[d] = state[d] /\ fuse'[d] = fuse[d] /\ defusers'[d] = defusers[d] /\ kept'[d] = kept[d]
        BY <1>3, <2>1, <3>1
      <4> QED BY <2>4, <4>1, OthersKeepInv
    <3>2. CASE d = b
      BY <2>1, <3>2 DEF NoStaleRecord, RecordsAreYoung, Defusers
    <3> QED BY <3>1, <3>2
  <2>5. Idle' /\ Lists'
    BY <1>2, <1>3, <2>1, <2>2, <2>3, <2>4
  <2> QED BY <1>1, <2>5
<1>9. ASSUME NEW p \in Players, NEW b \in Targets, StartPlanting(p, b) PROVE DefuseInv'
  <2>1. UNCHANGED <<roundState, state, fuse, defusers, kept>> /\ roundState # "preround"
    BY <1>9 DEF StartPlanting, roundVars, targetVars, Frozen
  <2> QED BY <1>1, <1>4, <2>1
<1>10. ASSUME NEW p \in Players, NEW b \in Targets, CompletePlant(p, b) PROVE DefuseInv'
  <2>1. /\ UNCHANGED <<roundState, defusers, kept>> /\ state[b] # "armed" /\ bomb[p] = b
        /\ state' = [state EXCEPT ![b] = "armed"] /\ fuse' = [fuse EXCEPT ![b] = BombTime]
    BY <1>10 DEF CompletePlant, CanPlantHere, roundVars
  <2>2. roundState # "preround"
    BY <1>2, <1>3, <2>1
  <2>3. ASSUME NEW d \in Targets, NoStaleRecord(d), RecordsAreYoung(d)
        PROVE  NoStaleRecord(d)' /\ RecordsAreYoung(d)'
    <3>1. CASE d # b
      <4>1. state'[d] = state[d] /\ fuse'[d] = fuse[d] /\ defusers'[d] = defusers[d] /\ kept'[d] = kept[d]
        BY <1>3, <2>1, <3>1
      <4> QED BY <2>3, <4>1, OthersKeepInv
    <3>2. CASE d = b
      <4>1. Defusers(b) \subseteq kept[b] /\ state'[b] = "armed"
        BY <1>3, <2>1, <2>3, <3>2 DEF NoStaleRecord
      <4> QED BY <2>1, <3>2, <4>1 DEF NoStaleRecord, RecordsAreYoung, Defusers
    <3> QED BY <3>1, <3>2
  <2> QED BY <1>1, <1>2, <2>1, <2>2, <2>3
<1>11. ASSUME NEW p \in Players, NEW b \in Targets, UseArmed(p, b) PROVE DefuseInv'
  <2>1. UNCHANGED <<roundState, bomb, state, fuse, kept>> /\ state[b] = "armed"
    BY <1>11 DEF UseArmed, roundVars
  <2>2. ASSUME NEW d \in Targets, NoStaleRecord(d), RecordsAreYoung(d)
        PROVE  NoStaleRecord(d)' /\ RecordsAreYoung(d)'
    <3>1. CASE d # b
      BY <1>11, <2>1, <2>2, <3>1, UseLists, OthersKeepInv
    <3>2. CASE d = b
      <4>1. ASSUME NEW q \in Defusers(b)', q \notin kept[b]
            PROVE  DefuseTime - defusers'[b][q].left <= BombTime - fuse[b]
        <5>1. CASE q \in Defusers(b)
          <6>1. defusers'[b][q].left = defusers[b][q].left
            <7>1. q \in Players /\ defusers[b][q] \in Records
              BY <5>1, RecordOrNone DEF Defusers
            <7>2. CASE q = p
              <8>1. defusers'[b][q] = [defusers[b][q] EXCEPT !.use = UseTimeout]
                BY <1>11, <5>1, <7>2, UseLists
              <8> QED BY <7>1, <8>1 DEF Records
            <7>3. CASE q # p
              <8>1. \A r \in Players : r # p => defusers'[b][r] = defusers[b][r]
                BY <1>11, UseLists
              <8> QED BY <7>1, <7>3, <8>1
            <7> QED BY <7>2, <7>3
          <6>2. q \in Defusers(b) \ kept[b]
            BY <4>1, <5>1
          <6> QED BY <2>1, <2>2, <3>2, <6>1, <6>2 DEF RecordsAreYoung
        <5>2. CASE q \notin Defusers(b)
          <6>1. q = p
            BY <1>11, <4>1, <5>2, UseLists
          <6>2. defusers'[b][p] = NewRecord
            BY <1>11, <5>2, <6>1, UseLists
          <6>3. fuse[b] \in -1 .. BombTime
            BY <1>3
          <6> QED BY <6>1, <6>2, <6>3, BombAssumption DEF NewRecord
        <5> QED BY <5>1, <5>2
      <4> QED BY <2>1, <3>2, <4>1 DEF NoStaleRecord, RecordsAreYoung
    <3> QED BY <3>1, <3>2
  <2> QED BY <1>1, <1>2, <2>1, <2>2
<1>12. ASSUME NEW p \in Players, TakeBomb(p) PROVE DefuseInv'
  <2>1. UNCHANGED <<roundState, state, fuse, defusers, kept>> /\ roundState # "preround"
    BY <1>12 DEF TakeBomb, roundVars, targetVars, Frozen
  <2> QED BY <1>1, <1>4, <2>1
<1>13. ASSUME NEW p \in Players, CancelPlanting(p) \/ Kill(p) \/ Respawn(p) \/ Leave(p)
       PROVE  DefuseInv'
  <2>1. UNCHANGED <<roundState, state, fuse, defusers, kept>>
    BY <1>13 DEF CancelPlanting, Kill, Respawn, Leave, roundVars, targetVars
  <2>2. \A q \in Players : bomb[q] = "none" => bomb'[q] = "none"
    BY <1>3, <1>13 DEF CancelPlanting, Kill, Die, Respawn, Leave
  <2> QED BY <1>1, <1>2, <1>4, <2>1, <2>2
<1>14. ASSUME NEW b \in Switched, InputEnable(b) \/ InputDisable(b) PROVE DefuseInv'
  <2>1. /\ UNCHANGED <<roundState, bomb, defusers>> /\ b \in Targets
        /\ state'[b] # "armed"
        /\ \A d \in Targets : state'[d] = "armed" => state[d] = "armed"
        /\ \A d \in Targets \ {b} : state'[d] = state[d] /\ fuse'[d] = fuse[d]
    BY <1>3, <1>14, BombAssumption DEF InputEnable, InputDisable, roundVars, playerVars
  <2>2. \A d \in Targets \ {b} : kept'[d] = kept[d]
    BY <1>14, <2>1 DEF InputEnable, InputDisable, TypeOK
  <2>3. ASSUME NEW d \in Targets, NoStaleRecord(d), RecordsAreYoung(d)
        PROVE  NoStaleRecord(d)' /\ RecordsAreYoung(d)'
    <3>1. CASE d # b
      BY <2>1, <2>2, <2>3, <3>1, OthersKeepInv
    <3>2. CASE d = b
      <4>1. Defusers(b)' = Defusers(b)
        BY <2>1 DEF Defusers
      <4>2. Defusers(b) \subseteq kept'[b]
        <5>1. CASE InputEnable(b)
          BY <2>3, <3>2, <5>1 DEF InputEnable, NoStaleRecord
        <5>2. CASE InputDisable(b)
          BY <2>1, <5>2 DEF InputDisable, TypeOK
        <5> QED BY <1>14, <5>1, <5>2
      <4> QED BY <2>1, <3>2, <4>1, <4>2 DEF NoStaleRecord, RecordsAreYoung
    <3> QED BY <3>1, <3>2
  <2>4. Idle'
    BY <1>2, <2>1
  <2> QED BY <1>1, <1>2, <2>1, <2>3, <2>4
<1>15. ASSUME TimeRunsOut \/ UNCHANGED vars PROVE DefuseInv'
  <2>1. UNCHANGED <<roundState, bomb, state, fuse, defusers, kept>>
    BY <1>15 DEF TimeRunsOut, vars, roundVars, playerVars, targetVars
  <2> QED BY <1>1, <1>2, <1>4, <2>1
<1>16. ASSUME RoundTimer PROVE DefuseInv'
  <2>1. roundState' \in {"allies_win", "axis_win"}
    BY <1>16, PointsAssumption DEF RoundTimer, TimerExpires, SetWinningTeam, WinState
  <2> QED BY <1>1, <2>1
<1>17. ASSUME RoundActive PROVE DefuseInv'
  <2>1. /\ roundState = "preround" /\ roundState' = "running"
        /\ UNCHANGED <<bomb, state, fuse, defusers, kept>>
    BY <1>17 DEF RoundActive, StartRound, playerVars, targetVars
  <2> QED BY <1>1, <1>2, <2>1, OthersKeepInv
<1>18. ASSUME RoundRespawn PROVE DefuseInv'
  BY <1>18 DEF RoundRespawn, DefuseInv, NoStaleRecord, RecordsAreYoung, Defusers
<1> HIDE DEF Idle, Lists
<1> QED BY <1>5, <1>6, <1>7, <1>8, <1>9, <1>10, <1>11, <1>12, <1>13, <1>14, <1>15, <1>16,
           <1>17, <1>18, BombAssumption DEF Next, Think

\* No defuse of an armed bomb is older than the bomb, at any target, unless its
\* record is one that InputDisable has left: it takes DefuseTime from when the
\* bomb was planted.
THEOREM NobodyDefusesEarly == Spec => []NoEarlyDefuser
<1>1. DefuseInv => NoEarlyDefuser
  BY DEF DefuseInv, NoEarlyDefuser, RecordsAreYoung, Running
<1> QED BY <1>1, DefuseInvInit, DefuseInvStep, BombTypeCorrect, PTL DEF Spec
---------------------------------------------------------------------------
(* The bombs a point still needs. *)

LEMMA BlownIsFinite ==
  ASSUME NEW p \in Points
  PROVE  IsFiniteSet(Blown(p)) /\ Cardinality(Blown(p)) \in Nat
<1>1. Blown(p) \subseteq Targets
  BY DEF Blown, TargetsOf
<1> QED BY <1>1, BombAssumption, FS_Subset, FS_CardinalityType

\* What every action but an explosion and a new round does to the count.
NoneBlown ==
  /\ remaining' = remaining
  /\ \A b \in Targets \ Switched : state'[b] = "inactive" <=> state[b] = "inactive"

LEMMA StepsThatBlowNone ==
  ASSUME TypeOK, [Next]_vars, ~RoundRespawn, \A b \in Targets : ~Explode(b)
  PROVE  NoneBlown
<1>1. state \in [Targets -> {"inactive", "active", "armed"}]
  BY DEF TypeOK
<1>2. UNCHANGED <<state, remaining>> => NoneBlown
  BY DEF NoneBlown
<1>3. ASSUME NEW b \in Targets, NEW c \in BOOLEAN, state[b] = "armed", BurnUnless(b, c),
             UNCHANGED remaining
      PROVE  NoneBlown
  BY <1>1, <1>3 DEF BurnUnless, NoneBlown
<1>4. ASSUME NEW b \in Targets, ThinkIdle(b) PROVE NoneBlown
  BY <1>2, <1>4 DEF ThinkIdle, cpBombVars
<1>5. ASSUME NEW b \in Targets, ThinkDefusers(b) PROVE NoneBlown
  <2>1. PICK c \in BOOLEAN : BurnUnless(b, c)
    BY <1>5 DEF ThinkDefusers, Running
  <2> QED BY <1>3, <1>5, <2>1 DEF ThinkDefusers
<1>6. ASSUME NEW b \in Targets, ThinkFuse(b) PROVE NoneBlown
  BY <1>3, <1>6 DEF ThinkFuse, Running
<1>7. ASSUME NEW p \in Players, NEW b \in Targets,
             StartPlanting(p, b) \/ CompletePlant(p, b) \/ UseArmed(p, b)
      PROVE  NoneBlown
  <2>1. CASE StartPlanting(p, b) \/ UseArmed(p, b)
    BY <1>2, <2>1 DEF StartPlanting, UseArmed, targetVars, cpBombVars
  <2>2. CASE CompletePlant(p, b)
    BY <1>1, <2>2 DEF CompletePlant, CanPlantHere, NoneBlown
  <2> QED BY <1>7, <2>1, <2>2
<1>8. ASSUME NEW p \in Players, TakeBomb(p) \/ CancelPlanting(p) \/ Kill(p) \/ Respawn(p) \/ Leave(p)
      PROVE  NoneBlown
  BY <1>2, <1>8 DEF TakeBomb, CancelPlanting, Kill, Respawn, Leave, targetVars, cpBombVars
<1>9. ASSUME NEW b \in Switched, InputEnable(b) \/ InputDisable(b) PROVE NoneBlown
  BY <1>1, <1>9, BombAssumption DEF InputEnable, InputDisable, cpBombVars, NoneBlown
<1>10. ASSUME TimeRunsOut \/ RoundTimer \/ RoundActive \/ UNCHANGED vars PROVE NoneBlown
  BY <1>2, <1>10 DEF TimeRunsOut, RoundTimer, RoundActive, vars, targetVars, cpBombVars
<1> QED BY <1>4, <1>5, <1>6, <1>7, <1>8, <1>9, <1>10, BombAssumption DEF Next, Think

\* A point needs one bomb less for each of its targets that has gone off, and no
\* target is counted twice unless the map has enabled it again.
THEOREM BombsCountOnce == Spec => []EachBombCountsOnce
<1>1. Init => EachBombCountsOnce
  <2> SUFFICES ASSUME Init PROVE EachBombCountsOnce
    OBVIOUS
  <2>1. ASSUME NEW p \in Points
        PROVE  remaining[p] = BombsRequired[p] - Cardinality(Blown(p)) /\ BombsRequired[p] \in Nat
    <3>1. Blown(p) = {}
      BY DEF Init, TargetsInit, Blown, TargetsOf
    <3> QED BY <3>1, FS_EmptySet, BombAssumption DEF Init, TargetsInit
  <2>2. \A p \in Points : Cardinality(Blown(p)) \in Nat
    BY BlownIsFinite
  <2> QED BY <2>1, <2>2 DEF EachBombCountsOnce
<1>2. TypeOK /\ EachBombCountsOnce /\ [Next]_vars => EachBombCountsOnce'
  <2> SUFFICES ASSUME TypeOK, EachBombCountsOnce, [Next]_vars, NEW p \in Points
               PROVE  /\ remaining'[p] <= BombsRequired[p] - Cardinality(Blown(p)')
                      /\ TargetsOf(p) \cap Switched = {} =>
                           remaining'[p] = BombsRequired[p] - Cardinality(Blown(p)')
    BY DEF EachBombCountsOnce, TargetsOf
  <2>1. /\ remaining[p] <= BombsRequired[p] - Cardinality(Blown(p))
        /\ TargetsOf(p) \cap Switched = {} =>
             remaining[p] = BombsRequired[p] - Cardinality(Blown(p))
    BY DEF EachBombCountsOnce
  <2>2. remaining \in [Points -> Int] /\ BombsRequired[p] \in Nat /\ Cardinality(Blown(p)) \in Nat
    BY BombAssumption, BlownIsFinite DEF TypeOK
  <2>3. CASE NoneBlown
    <3>1. Blown(p)' = Blown(p) /\ remaining' = remaining
      BY <2>3 DEF NoneBlown, Blown, TargetsOf
    <3> QED BY <2>1, <3>1
  <2>4. CASE RoundRespawn
    <3>1. Blown(p)' = {} /\ remaining' = BombsRequired
      BY <2>4 DEF RoundRespawn, Blown, TargetsOf
    <3> QED BY <2>2, <3>1, FS_EmptySet
  <2>5. ASSUME NEW b \in Targets, Explode(b)
        PROVE  /\ remaining'[p] <= BombsRequired[p] - Cardinality(Blown(p)')
               /\ TargetsOf(p) \cap Switched = {} =>
                    remaining'[p] = BombsRequired[p] - Cardinality(Blown(p)')
    <3>1. /\ state[b] = "armed" /\ state' = [state EXCEPT ![b] = "inactive"]
          /\ remaining' = [remaining EXCEPT ![PointOf[b]] = @ - 1]
      BY <2>5 DEF Explode, BombExploded
    <3>2. state \in [Targets -> {"inactive", "active", "armed"}]
      BY DEF TypeOK
    <3>3. CASE PointOf[b] # p
      <4>1. Blown(p)' = Blown(p) /\ remaining'[p] = remaining[p]
        BY <2>2, <3>1, <3>2, <3>3 DEF Blown, TargetsOf
      <4> QED BY <2>1, <4>1
    <3>4. CASE PointOf[b] = p
      <4>1. remaining'[p] = remaining[p] - 1 /\ b \in TargetsOf(p)
        BY <2>2, <3>1, <3>4 DEF TargetsOf
      <4>2. CASE b \in Switched
        <5>1. Blown(p)' = Blown(p)
          BY <3>1, <3>2, <4>2 DEF Blown, TargetsOf
        <5> QED BY <2>1, <2>2, <4>1, <4>2, <5>1
      <4>3. CASE b \notin Switched
        <5>1. Blown(p)' = Blown(p) \cup {b} /\ b \notin Blown(p)
          BY <3>1, <3>2, <4>1, <4>3 DEF Blown, TargetsOf
        <5>2. Cardinality(Blown(p)') = Cardinality(Blown(p)) + 1
          BY <5>1, BlownIsFinite, FS_AddElement
        <5> QED BY <2>1, <2>2, <4>1, <5>2
      <4> QED BY <4>2, <4>3
    <3> QED BY <3>3, <3>4
  <2> QED BY <2>3, <2>4, <2>5, StepsThatBlowNone
<1> QED BY <1>1, <1>2, BombTypeCorrect, PTL DEF Spec
---------------------------------------------------------------------------
(* Overtime.  A bomb holds back the round timer by the owners as they would *)
(* be; a round that is played is never already won by those that are.       *)

Undecided == roundState \in {"preround", "running"} => TeamOwnsAllPoints(owner) \notin Teams

LEMMA PointsKeepUndecided ==
  ASSUME Undecided, NEW p, NEW t, InternalSetOwner(p, t)
  PROVE  Undecided'
<1>1. CheckWinConditions(owner')
  BY DEF InternalSetOwner
<1>2. CASE TeamOwnsAllPoints(owner') \in Teams
  <2>1. roundState' \in {"allies_win", "axis_win"}
    BY <1>1, <1>2 DEF CheckWinConditions, SetWinningTeam, WinState
  <2> QED BY <2>1 DEF Undecided
<1>3. CASE TeamOwnsAllPoints(owner') \notin Teams
  BY <1>3 DEF Undecided
<1> QED BY <1>2, <1>3

\* The steps that leave points, round and credit alone.
LEMMA StepsOffTheRound ==
  ASSUME [Next]_vars, ~RoundRespawn, ~RoundTimer, ~RoundActive, \A b \in Targets : ~Explode(b)
  PROVE  UNCHANGED <<roundState, wins, owner>>
<1>1. ASSUME NEW b \in Targets, ThinkIdle(b) \/ ThinkDefusers(b) \/ ThinkFuse(b)
      PROVE  UNCHANGED <<roundState, wins, owner>>
  BY <1>1 DEF ThinkIdle, ThinkDefusers, ThinkFuse, roundVars, pointVars
<1>2. ASSUME NEW p \in Players, NEW b \in Targets,
             StartPlanting(p, b) \/ CompletePlant(p, b) \/ UseArmed(p, b)
      PROVE  UNCHANGED <<roundState, wins, owner>>
  BY <1>2 DEF StartPlanting, CompletePlant, UseArmed, roundVars, pointVars
<1>3. ASSUME NEW p \in Players, TakeBomb(p) \/ CancelPlanting(p) \/ Kill(p) \/ Respawn(p) \/ Leave(p)
      PROVE  UNCHANGED <<roundState, wins, owner>>
  BY <1>3 DEF TakeBomb, CancelPlanting, Kill, Respawn, Leave, roundVars, pointVars
<1>4. ASSUME NEW b \in Switched, InputEnable(b) \/ InputDisable(b)
      PROVE  UNCHANGED <<roundState, wins, owner>>
  BY <1>4 DEF InputEnable, InputDisable, roundVars, pointVars
<1>5. ASSUME TimeRunsOut \/ UNCHANGED vars
      PROVE  UNCHANGED <<roundState, wins, owner>>
  BY <1>5 DEF TimeRunsOut, vars, roundVars, pointVars
<1> QED BY <1>1, <1>2, <1>3, <1>4, <1>5, BombAssumption DEF Next, Think

LEMMA UndecidedInit == Init => Undecided
BY MapStartsUndecided DEF Init, PointsInit, Undecided, NoTeam, Teams

LEMMA UndecidedStep == Undecided /\ [Next]_vars => Undecided'
<1> SUFFICES ASSUME Undecided, [Next]_vars PROVE Undecided'
  OBVIOUS
<1>1. ASSUME NEW b \in Targets, Explode(b) PROVE Undecided'
  <2>1. \/ \E t : InternalSetOwner(PointOf[b], t)
        \/ UNCHANGED <<roundState, wins, pointVars>>
    BY <1>1 DEF Explode, BombExploded
  <2>2. CASE UNCHANGED <<roundState, wins, pointVars>>
    BY <2>2 DEF Undecided, pointVars
  <2> QED BY <2>1, <2>2, PointsKeepUndecided
<1>2. CASE RoundRespawn
  BY <1>2, MapStartsUndecided DEF RoundRespawn, NewRound, Undecided, NoTeam, Teams
<1>3. CASE RoundTimer
  BY <1>3, PointsAssumption DEF RoundTimer, TimerExpires, SetWinningTeam, WinState, Undecided
<1>4. CASE RoundActive
  BY <1>4 DEF RoundActive, StartRound, Undecided, pointVars
<1> QED BY <1>1, <1>2, <1>3, <1>4, StepsOffTheRound DEF Undecided

\* The test of BombBlocksWin misses no bomb that would win the round.
LEMMA WinnersBlock ==
  ASSUME TypeOK, Undecided, Running, NEW b \in Targets, state[b] = "armed", WouldWin(b)
  PROVE  BombBlocksWin(b)
<1>1. PointOf[b] \in Points /\ BombingTeam[b] \in Teams /\ remaining[PointOf[b]] \in Int
  BY BombAssumption DEF TypeOK
<1>2. CASE remaining[PointOf[b]] - 1 <= 0
  BY <1>1, <1>2 DEF WouldWin, WouldNewCPOwnerWinGame, BombBlocksWin
<1>3. CASE ~(remaining[PointOf[b]] - 1 <= 0)
  <2>1. TeamOwnsAllPoints(owner) \in Teams
    BY <1>1, <1>3 DEF WouldWin
  <2> QED BY <2>1 DEF Undecided, Running
<1> QED BY <1>2, <1>3

\* The round is not lost on time while a bomb is armed that would win it: only
\* the explosion of a bomb credits a round then.
THEOREM OvertimeIsHonoured == Spec => OvertimeHonoured
<1> DEFINE Honoured == \A b \in Targets :
             state[b] = "armed" /\ state'[b] = "armed" /\ WouldWin(b) /\ Running
             => wins' = wins \/ \E c \in Targets : state'[c] = "inactive" /\ state[c] = "armed"
<1>1. TypeOK /\ Undecided /\ [Next]_vars => Honoured
  <2> SUFFICES ASSUME TypeOK, Undecided, [Next]_vars, NEW b \in Targets,
                      state[b] = "armed", state'[b] = "armed", WouldWin(b), Running
               PROVE  wins' = wins \/ \E c \in Targets : state'[c] = "inactive" /\ state[c] = "armed"
    OBVIOUS
  <2>1. ~RoundTimer
    BY WinnersBlock DEF RoundTimer
  <2>2. ~RoundRespawn
    BY DEF RoundRespawn
  <2>3. CASE RoundActive
    BY <2>3 DEF RoundActive, StartRound
  <2>4. ASSUME NEW c \in Targets, Explode(c) PROVE state'[c] = "inactive" /\ state[c] = "armed"
    BY <2>4 DEF Explode, TypeOK
  <2> QED BY <2>1, <2>2, <2>3, <2>4, StepsOffTheRound
<1>2. TypeOK /\ Undecided /\ [Next]_vars => [Honoured]_vars
  BY <1>1
<1>3. Spec => [][Honoured]_vars
  <2> HIDE DEF Honoured
  <2> QED BY <1>2, UndecidedInit, UndecidedStep, BombTypeCorrect, PTL DEF Spec
<1> QED BY <1>3 DEF OvertimeHonoured
===========================================================================
