------------------------ MODULE DodPlantedC4_proofs ------------------------
(***************************************************************************)
(* The planted C4, for any players, charges and times: its types, that one *)
(* bomb at most ticks in a round that is played, and that its countdown    *)
(* runs only for somebody who keeps using it.                              *)
(***************************************************************************)
EXTENDS DodPlantedC4, TLAPS

\* A bomb that somebody has planted, whatever became of it since
Record(r) == r \in C4Records \cup {NoC4}

\* The records of a bomb whose members are in A, B, C, D and E
Members(A, B, C, D, E) == [blow : A, started : B, defuser : C, left : D, use : E]

LEMMA SetClock ==
  ASSUME NEW A, NEW B, NEW C, NEW D, NEW E, NEW a, NEW b \in B, NEW c \in C, NEW d \in D,
         NEW e \in E, NEW x \in A
  PROVE  [[blow |-> a, started |-> b, defuser |-> c, left |-> d, use |-> e] EXCEPT !.blow = x]
           \in Members(A, B, C, D, E)
BY DEF Members

LEMMA NewBombIsRecord == NewC4 \in C4Records /\ NewC4.started = FALSE
<1>1. FuseTime \in 1 .. FuseTime /\ 0 \in 0 .. DefuseTime /\ 0 \in -1 .. UseTimeout
  BY C4Assumption
<1>2. NewC4 \in Members(1 .. FuseTime, {FALSE}, Players \cup {Nobody}, 0 .. DefuseTime,
                       -1 .. UseTimeout)
  BY <1>1, SetClock DEF NewC4, NoC4
<1> QED BY <1>2 DEF Members, C4Records

\* NoC4 is told from a bomb by its clock.
LEMMA TickingIsRecord ==
  ASSUME NEW r, Record(r)
  PROVE  r # NoC4 <=> r \in C4Records
<1>1. NoC4 \notin C4Records
  <2>1. ASSUME NoC4 \in C4Records PROVE FALSE
    <3>1. NoC4.blow \in 1 .. FuseTime
      BY <2>1 DEF C4Records
    <3>2. NoC4.blow = -1
      BY DEF NoC4
    <3> QED BY <3>1, <3>2, C4Assumption
  <2> QED BY <2>1
<1> QED BY <1>1 DEF Record

\* What a think has made of the record of a bomb before it looks at it
ElapsedRecords ==
  [blow : 0 .. FuseTime, started : BOOLEAN, defuser : Players \cup {Nobody},
   left : 0 .. DefuseTime, use : -1 .. UseTimeout]

LEMMA ElapsedIsRecord ==
  ASSUME NEW r \in C4Records
  PROVE  /\ Elapsed(r) \in ElapsedRecords
         /\ Elapsed(r).blow = r.blow - 1
         /\ Elapsed(r).started = r.started /\ Elapsed(r).defuser = r.defuser
         /\ Elapsed(r).left = (IF r.left <= 0 THEN r.left ELSE r.left - 1)
         /\ Elapsed(r).use = (IF r.use <= -1 THEN r.use ELSE r.use - 1)
<1>1. /\ r.blow \in 1 .. FuseTime /\ r.started \in BOOLEAN /\ r.defuser \in Players \cup {Nobody}
      /\ r.left \in 0 .. DefuseTime /\ r.use \in -1 .. UseTimeout
  BY DEF C4Records
<1>2. r.blow - 1 \in 0 .. FuseTime
  BY <1>1, C4Assumption
<1>3. (IF r.left <= 0 THEN r.left ELSE r.left - 1) \in 0 .. DefuseTime
  BY <1>1, C4Assumption
<1>4. (IF r.use <= -1 THEN r.use ELSE r.use - 1) \in -1 .. UseTimeout
  BY <1>1, C4Assumption
<1>5. ASSUME NEW A, NEW B, NEW C, NEW D, NEW E,
             NEW a \in A, NEW d \in D, NEW e \in E, r.started \in B, r.defuser \in C
      PROVE  LET q == [r EXCEPT !.blow = a, !.left = d, !.use = e]
             IN  /\ q \in [blow : A, started : B, defuser : C, left : D, use : E]
                 /\ q.blow = a /\ q.left = d /\ q.use = e
                 /\ q.started = r.started /\ q.defuser = r.defuser
  BY <1>5 DEF C4Records
<1> QED BY <1>1, <1>2, <1>3, <1>4, <1>5 DEF Elapsed, ElapseTo, ElapsedRecords

LEMMA BurningIsRecord ==
  ASSUME NEW r \in ElapsedRecords, r.blow > 0
  PROVE  r \in C4Records
BY C4Assumption DEF ElapsedRecords, C4Records

LEMMA DroppedIsRecord ==
  ASSUME NEW r \in C4Records
  PROVE  NobodyDefuses(r) \in C4Records /\ NobodyDefuses(r).started = FALSE
<1>1. ASSUME NEW A, NEW B, NEW C, NEW D, NEW E, r.blow \in A,
             NEW b \in B, NEW c \in C, NEW d \in D, NEW e \in E
      PROVE  LET q == [r EXCEPT !.started = b, !.defuser = c, !.left = d, !.use = e]
             IN  q \in [blow : A, started : B, defuser : C, left : D, use : E] /\ q.started = b
  BY <1>1 DEF C4Records
<1>2. /\ r.blow \in 1 .. FuseTime /\ FALSE \in BOOLEAN /\ Nobody \in Players \cup {Nobody}
      /\ 0 \in 0 .. DefuseTime /\ 0 \in -1 .. UseTimeout
  BY C4Assumption DEF C4Records
<1> QED BY <1>1, <1>2 DEF C4Records, NobodyDefuses
---------------------------------------------------------------------------
(* The types. *)

\* Each way a think can go leaves every bomb a record.
LEMMA ThinkKeepsTypes ==
  ASSUME TypeOK, NEW c \in Charges, C4Think(c)
  PROVE  TypeOK'
<1> DEFINE r == Elapsed(c4[c])
<1>1. c4 \in [Charges -> C4Records \cup {NoC4}] /\ c4[c] \in C4Records
  BY TickingIsRecord DEF TypeOK, C4Think, Ticks, Record
<1>2. r \in ElapsedRecords
  BY <1>1, ElapsedIsRecord
<1>3. ThinkOn(c, r) \/ ThinkDropped(c, r) \/ ThinkDefused(c, r) \/ Explode(c, r)
  BY DEF C4Think
<1> HIDE DEF r
<1>4. charge \in [Charges -> Players \cup Places] /\ wins \in [Teams -> Nat]
  BY DEF TypeOK
<1>5. CASE ThinkOn(c, r)
  <2>1. r \in C4Records
    BY <1>2, <1>5, BurningIsRecord DEF ThinkOn
  <2>2. c4' \in [Charges -> C4Records \cup {NoC4}]
    BY <1>1, <1>5, <2>1 DEF ThinkOn
  <2> QED BY <1>5, <2>2 DEF ThinkOn, TypeOK, roundVars
<1>6. CASE ThinkDropped(c, r)
  <2>1. NobodyDefuses(r) \in C4Records
    BY <1>2, <1>6, BurningIsRecord, DroppedIsRecord DEF ThinkDropped
  <2>2. c4' \in [Charges -> C4Records \cup {NoC4}]
    BY <1>1, <1>6, <2>1 DEF ThinkDropped
  <2> QED BY <1>6, <2>2 DEF ThinkDropped, TypeOK, roundVars
<1>7. ASSUME Gone(c) PROVE c4' \in [Charges -> C4Records \cup {NoC4}]
                           /\ charge' \in [Charges -> Players \cup Places]
  BY <1>1, <1>4, <1>7 DEF Gone, Places
<1>8. CASE ThinkDefused(c, r)
  <2>1. wins' \in [Teams -> Nat]
    BY <1>4, <1>8 DEF ThinkDefused, Teams
  <2> QED BY <1>7, <1>8, <2>1 DEF ThinkDefused, TypeOK, WinStates
<1>9. CASE Explode(c, r)
  <2>1. wins' \in [Teams -> Nat]
    BY <1>4, <1>9 DEF Explode
  <2>2. roundState' \in WinStates /\ bombPlanted' = FALSE
    BY <1>9 DEF Explode, WinStates
  <2>3. PICK S \in SUBSET {p \in Players : life[p] = "alive"} : Die(S)
    BY <1>9 DEF Explode
  <2>4. life' \in [Players -> {"alive", "dead", "gone"}] /\ arming' \subseteq Charges
    BY <2>3 DEF Die, TypeOK
  <2>5. Gone(c)
    BY <1>9 DEF Explode
  <2> QED BY <1>7, <2>1, <2>2, <2>4, <2>5 DEF TypeOK
<1> QED BY <1>3, <1>5, <1>6, <1>8, <1>9

LEMMA UseKeepsTypes ==
  ASSUME TypeOK, NEW p \in Players, NEW c \in Charges, Use(p, c)
  PROVE  /\ TypeOK' /\ c4[c] \in C4Records
         /\ c4' = [c4 EXCEPT ![c] = c4'[c]] /\ c4'[c] \in C4Records
         /\ c4'[c].use = UseTimeout /\ c4'[c].defuser = p /\ c4'[c].blow = c4[c].blow
         /\ c4'[c].left = IF c4[c].started THEN c4[c].left ELSE DefuseTime
<1> DEFINE r    == c4[c]
           left == IF r.started THEN r.left ELSE DefuseTime
           q    == [r EXCEPT !.started = TRUE, !.defuser = p, !.use = UseTimeout, !.left = left]
<1>1. c4 \in [Charges -> C4Records \cup {NoC4}] /\ r \in C4Records
  BY TickingIsRecord DEF TypeOK, Use, Ticks, Record
<1>2. c4' = [c4 EXCEPT ![c] = q]
  BY <1>1 DEF Use
<1>3. left \in 0 .. DefuseTime /\ UseTimeout \in -1 .. UseTimeout
  BY <1>1, C4Assumption DEF C4Records
<1> HIDE DEF r, left
<1>4. ASSUME NEW A, NEW B, NEW C, NEW D, NEW E, r \in [blow : A, started : B, defuser : C, left : D, use : E],
             TRUE \in B, p \in C, NEW d \in D, NEW e \in E
      PROVE  LET s == [r EXCEPT !.started = TRUE, !.defuser = p, !.use = e, !.left = d]
             IN  /\ s \in [blow : A, started : B, defuser : C, left : D, use : E]
                 /\ s.use = e /\ s.defuser = p /\ s.blow = r.blow /\ s.left = d
  BY <1>4
<1>5. TRUE \in BOOLEAN /\ p \in Players \cup {Nobody}
  OBVIOUS
<1>6. /\ q \in C4Records
      /\ q.use = UseTimeout /\ q.defuser = p /\ q.blow = r.blow /\ q.left = left
  BY <1>1, <1>3, <1>4, <1>5 DEF C4Records
<1> HIDE DEF q
<1>7. c4'[c] = q /\ c4' \in [Charges -> C4Records \cup {NoC4}]
  BY <1>1, <1>2, <1>6
<1>8. TypeOK'
  BY <1>7 DEF Use, TypeOK, roundVars
<1> QED BY <1>1, <1>2, <1>6, <1>7, <1>8 DEF r, left

\* A handle that becomes null changes no other member.
LEMMA LostDefuserIsRecord ==
  ASSUME NEW r \in C4Records
  PROVE  [r EXCEPT !.defuser = Nobody] \in C4Records
<1>1. ASSUME NEW A, NEW B, NEW C, NEW D, NEW E, Nobody \in C,
             r \in [blow : A, started : B, defuser : C, left : D, use : E]
      PROVE  [r EXCEPT !.defuser = Nobody] \in [blow : A, started : B, defuser : C, left : D, use : E]
  BY <1>1
<1>2. Nobody \in Players \cup {Nobody}
  OBVIOUS
<1> QED BY <1>1, <1>2 DEF C4Records

LEMMA TypesInit == Init => TypeOK
<1> SUFFICES ASSUME Init PROVE TypeOK
  OBVIOUS
<1>1. c4 \in [Charges -> C4Records \cup {NoC4}]
  BY DEF Init
<1>2. charge \in [Charges -> Players \cup Places]
  BY DEF Init, Places
<1>3. wins \in [Teams -> Nat] /\ life \in [Players -> {"alive", "dead", "gone"}]
  BY DEF Init
<1> QED BY <1>1, <1>2, <1>3 DEF Init, TypeOK

LEMMA TypesStep == TypeOK /\ [Next]_vars => TypeOK'
<1> SUFFICES ASSUME TypeOK, [Next]_vars PROVE TypeOK'
  OBVIOUS
<1>1. ASSUME NEW c \in Charges, C4Think(c) PROVE TypeOK'
  BY <1>1, ThinkKeepsTypes
<1>2. ASSUME NEW p \in Players, NEW c \in Charges, Use(p, c) PROVE TypeOK'
  BY <1>2, UseKeepsTypes
<1>3. ASSUME NEW c \in Charges, StopArming(c) PROVE TypeOK'
  BY <1>3 DEF StopArming, TypeOK, roundVars
<1>4. ASSUME NEW p \in Players, NEW c \in Charges, TakeCharge(p, c) \/ StartArming(p, c)
      PROVE  TypeOK'
  BY <1>4 DEF TakeCharge, StartArming, TypeOK, roundVars
<1>5. ASSUME NEW p \in Players, NEW c \in Charges, PlaceBomb(p, c) PROVE TypeOK'
  BY <1>5, NewBombIsRecord DEF PlaceBomb, TypeOK, roundVars, Places
<1>6. ASSUME NEW p \in Players, Kill(p) \/ Join(p) PROVE TypeOK'
  BY <1>6 DEF Kill, Join, Die, TypeOK, roundVars
<1>7. ASSUME NEW p \in Players, Respawn(p) PROVE TypeOK'
  BY <1>7 DEF Respawn, DropAll, TypeOK, roundVars, Places
<1>8. ASSUME NEW p \in Leavers, Leave(p) PROVE TypeOK'
  <2>1. c4' \in [Charges -> C4Records \cup {NoC4}]
    <3>1. ASSUME NEW c \in Charges, c4[c].defuser = p
          PROVE  [c4[c] EXCEPT !.defuser = Nobody] \in C4Records
      <4>1. NoC4.defuser = Nobody /\ p # Nobody
        BY C4Assumption DEF NoC4
      <4>2. c4[c] \in C4Records
        BY <3>1, <4>1 DEF TypeOK
      <4> QED BY <4>2, LostDefuserIsRecord
    <3> QED BY <1>8, <3>1 DEF Leave, TypeOK
  <2> QED BY <1>8, <2>1 DEF Leave, DropAll, TypeOK, roundVars, Places
<1>9. ASSUME NEW t \in Teams, OtherWin(t) PROVE TypeOK'
  BY <1>9 DEF OtherWin, TypeOK, WinState, WinStates
<1>10. CASE EnterPregame \/ StartGame \/ StartRound
  BY <1>10 DEF EnterPregame, StartGame, StartRound, TypeOK
<1>11. CASE NewRound \/ Restart
  <2>1. EnterPreround /\ bombPlanted' \in BOOLEAN
    BY <1>11 DEF NewRound, Restart, TypeOK
  <2> QED BY <2>1 DEF EnterPreround, TypeOK, Places
<1>12. CASE UNCHANGED vars
  BY <1>12 DEF vars, roundVars, TypeOK
<1> QED BY <1>1, <1>2, <1>3, <1>4, <1>5, <1>6, <1>7, <1>8, <1>9, <1>10, <1>11, <1>12 DEF Next

\* The types, in every state of every behaviour
THEOREM C4TypeCorrect == Spec => []TypeOK
BY TypesInit, TypesStep, PTL DEF Spec
---------------------------------------------------------------------------
(* One bomb. *)

\* Before a round is played nothing ticks, and nobody has a charge to plant.
FreshRound ==
  roundState = "preround" => \A c \in Charges : ~Ticks(c) /\ charge[c] \notin Players

OneBombInv == FreshRound /\ OneBombTicks

\* What a think leaves behind: the bomb ticks on and all else is as it was, or
\* it is gone and the round is over.
LEMMA ThinkEndsRound ==
  ASSUME TypeOK, NEW c \in Charges, C4Think(c)
  PROVE  \/ /\ UNCHANGED <<roundState, wins, life, charge, arming, bombPlanted>>
            /\ \E q \in C4Records : c4' = [c4 EXCEPT ![c] = q]
         \/ /\ roundState' \in WinStates /\ bombPlanted' = FALSE
            /\ Gone(c)
<1> DEFINE r == Elapsed(c4[c])
<1>1. r \in ElapsedRecords
  BY TickingIsRecord, ElapsedIsRecord DEF TypeOK, C4Think, Ticks, Record
<1>2. ThinkOn(c, r) \/ ThinkDropped(c, r) \/ ThinkDefused(c, r) \/ Explode(c, r)
  BY DEF C4Think
<1> HIDE DEF r
<1>3. CASE ThinkOn(c, r)
  BY <1>1, <1>3, BurningIsRecord DEF ThinkOn, roundVars
<1>4. CASE ThinkDropped(c, r)
  BY <1>1, <1>4, BurningIsRecord, DroppedIsRecord DEF ThinkDropped, roundVars
<1>5. CASE ThinkDefused(c, r)
  BY <1>5 DEF ThinkDefused, WinStates
<1>6. CASE Explode(c, r)
  BY <1>6 DEF Explode, WinStates
<1> QED BY <1>2, <1>3, <1>4, <1>5, <1>6

\* A step that starts no bomb, hands no charge out in a preround and leaves the
\* flag alone while a round is played keeps the invariant.
LEMMA QuietStep ==
  ASSUME OneBombInv,
         roundState' \in {roundState} \cup WinStates \cup {"pregame", "startgame"},
         \A c \in Charges : Ticks(c)' => Ticks(c),
         roundState = "preround" => \A c \in Charges : charge'[c] \notin Players,
         roundState' = "running" => bombPlanted' = bombPlanted
  PROVE  OneBombInv'
BY DEF OneBombInv, FreshRound, OneBombTicks, WinStates

LEMMA OneBombStep == TypeOK /\ OneBombInv /\ [Next]_vars => OneBombInv'
<1> SUFFICES ASSUME TypeOK, OneBombInv, [Next]_vars PROVE OneBombInv'
  OBVIOUS
<1>t. charge \in [Charges -> Players \cup Places] /\ c4 \in [Charges -> C4Records \cup {NoC4}]
  BY DEF TypeOK
<1>u. "removed" \notin Players /\ "planted" \notin Players /\ "ground" \notin Players
  BY C4Assumption DEF Places
<1>1. ASSUME NEW c \in Charges, C4Think(c) PROVE OneBombInv'
  <2>1. CASE /\ UNCHANGED <<roundState, wins, life, charge, arming, bombPlanted>>
             /\ \E q \in C4Records : c4' = [c4 EXCEPT ![c] = q]
    <3>1. Ticks(c)
      BY <1>1 DEF C4Think
    <3>2. \A d \in Charges : Ticks(d)' => Ticks(d)
      BY <2>1, <3>1, <1>t DEF Ticks
    <3>3. roundState' = roundState /\ charge' = charge /\ bombPlanted' = bombPlanted
      BY <2>1
    <3> QED BY <3>2, <3>3, QuietStep DEF OneBombInv, FreshRound
  <2>2. CASE roundState' \in WinStates /\ bombPlanted' = FALSE /\ Gone(c)
    BY <2>2 DEF OneBombInv, FreshRound, OneBombTicks, WinStates
  <2> QED BY <1>1, <2>1, <2>2, ThinkEndsRound
<1>2. ASSUME NEW p \in Players, NEW c \in Charges, Use(p, c) PROVE OneBombInv'
  <2>1. c4' = [c4 EXCEPT ![c] = c4'[c]] /\ Ticks(c)
    BY <1>2, UseKeepsTypes DEF Use
  <2>2. \A d \in Charges : Ticks(d)' => Ticks(d)
    BY <2>1, <1>t DEF Ticks
  <2>3. roundState' = roundState /\ charge' = charge /\ bombPlanted' = bombPlanted
    BY <1>2 DEF Use, roundVars
  <2> QED BY <2>2, <2>3, QuietStep DEF OneBombInv, FreshRound
<1>3. ASSUME NEW p \in Players, NEW c \in Charges,
             TakeCharge(p, c) \/ StartArming(p, c) \/ StopArming(c)
      PROVE  OneBombInv'
  <2>1. roundState' = roundState /\ bombPlanted' = bombPlanted /\ c4' = c4
    BY <1>3 DEF TakeCharge, StartArming, StopArming, roundVars
  <2>2. roundState = "preround" => charge' = charge
    BY <1>3 DEF TakeCharge, StartArming, StopArming
  <2> QED BY <2>1, <2>2 DEF OneBombInv, FreshRound, OneBombTicks, Ticks
<1>4. ASSUME NEW c \in Charges, StopArming(c) PROVE OneBombInv'
  BY <1>4 DEF StopArming, roundVars, OneBombInv, FreshRound, OneBombTicks, Ticks
<1>5. ASSUME NEW p \in Players, NEW c \in Charges, PlaceBomb(p, c) PROVE OneBombInv'
  <2>1. charge[c] = p /\ bombPlanted = FALSE
    BY <1>5 DEF PlaceBomb, InBombZone, TypeOK
  <2>2. roundState # "preround" /\ roundState' = roundState
    BY <1>5, <2>1 DEF PlaceBomb, roundVars, OneBombInv, FreshRound
  <2>3. roundState = "running" => \A d \in Charges : ~Ticks(d)
    BY <2>1 DEF OneBombInv, OneBombTicks
  <2>4. bombPlanted' = TRUE /\ \A d \in Charges \ {c} : c4'[d] = c4[d]
    BY <1>5, <1>t DEF PlaceBomb
  <2> QED BY <2>2, <2>3, <2>4 DEF OneBombInv, FreshRound, OneBombTicks, Ticks
<1>6. ASSUME NEW p \in Players, Kill(p) \/ Join(p) PROVE OneBombInv'
  BY <1>6 DEF Kill, Join, roundVars, OneBombInv, FreshRound, OneBombTicks, Ticks
<1>7. ASSUME NEW p \in Players, Respawn(p) PROVE OneBombInv'
  BY <1>7, <1>u DEF Respawn, DropAll, roundVars, OneBombInv, FreshRound, OneBombTicks, Ticks
<1>8. ASSUME NEW p \in Leavers, Leave(p) PROVE OneBombInv'
  <2>1. \A d \in Charges : Ticks(d)' => Ticks(d)
    <3>1. NoC4.defuser = Nobody /\ p # Nobody
      BY C4Assumption DEF NoC4
    <3> QED BY <1>8, <3>1 DEF Leave, Ticks
  <2>2. \A d \in Charges : charge'[d] \in {charge[d], "removed"}
    BY <1>8 DEF Leave, DropAll
  <2>3. roundState' = roundState /\ bombPlanted' = bombPlanted
    BY <1>8 DEF Leave, roundVars
  <2> QED BY <1>u, <2>1, <2>2, <2>3, QuietStep DEF OneBombInv, FreshRound
<1>9. ASSUME NEW t \in Teams, OtherWin(t) PROVE OneBombInv'
  BY <1>9 DEF OtherWin, WinState, OneBombInv, FreshRound, OneBombTicks
<1>10. CASE EnterPregame \/ StartGame
  BY <1>10 DEF EnterPregame, StartGame, OneBombInv, FreshRound, OneBombTicks
<1>11. CASE NewRound \/ Restart
  <2>1. EnterPreround
    BY <1>11 DEF NewRound, Restart
  <2> QED BY <1>u, <2>1 DEF EnterPreround, OneBombInv, FreshRound, OneBombTicks, Ticks
<1>12. CASE StartRound
  BY <1>12 DEF StartRound, OneBombInv, FreshRound, OneBombTicks, Ticks
<1>13. CASE UNCHANGED vars
  BY <1>13 DEF vars, roundVars, OneBombInv, FreshRound, OneBombTicks, Ticks
<1> QED BY <1>1, <1>2, <1>3, <1>4, <1>5, <1>6, <1>7, <1>8, <1>9, <1>10, <1>11, <1>12, <1>13 DEF Next

\* However many charges a map has and whoever plants, respawns or leaves: one
\* bomb at most ticks in a round that is played, and m_bBombPlanted is set.
THEOREM OneBombAtATime == Spec => []OneBombTicks
<1>1. Init => OneBombInv
  BY C4Assumption DEF Init, OneBombInv, FreshRound, OneBombTicks, Ticks, Places
<1>2. OneBombInv => OneBombTicks
  BY DEF OneBombInv
<1> QED BY <1>1, <1>2, OneBombStep, C4TypeCorrect, PTL DEF Spec
---------------------------------------------------------------------------
(* The defuser. *)

\* DefuserStays of one bomb
Attended(r, alive) ==
  BeingDefused(r) =>
    /\ r.use >= 0
    /\ PlayerTeam[r.defuser] = "allies" /\ alive[r.defuser] # "gone"
    /\ DefuseTime - r.left <= FuseTime - r.blow

LEMMA StaysIsAttended == DefuserStays <=> \A c \in Charges : Attended(c4[c], life)
BY DEF DefuserStays, Attended

LEMMA NoneIsAttended == \A l : Attended(NoC4, l) /\ Attended(NewC4, l)
BY NewBombIsRecord DEF Attended, BeingDefused, NoC4

\* A think that does not end the bomb has found its defuser at it, or drops him.
LEMMA ThinkAttends ==
  ASSUME TypeOK, DefuserStays, NEW c \in Charges, C4Think(c)
  PROVE  DefuserStays'
<1> DEFINE r == Elapsed(c4[c])
<1>1. c4[c] \in C4Records /\ c4 \in [Charges -> C4Records \cup {NoC4}]
  BY TickingIsRecord DEF TypeOK, C4Think, Ticks, Record
<1>2. /\ r \in ElapsedRecords /\ r.blow = c4[c].blow - 1
      /\ r.started = c4[c].started /\ r.defuser = c4[c].defuser
      /\ r.left = (IF c4[c].left <= 0 THEN c4[c].left ELSE c4[c].left - 1)
  BY <1>1, ElapsedIsRecord
<1>3. ThinkOn(c, r) \/ ThinkDropped(c, r) \/ ThinkDefused(c, r) \/ Explode(c, r)
  BY DEF C4Think
<1> HIDE DEF r
<1>4. \A d \in Charges : Attended(c4[d], life)
  BY StaysIsAttended
<1>5. ASSUME NEW q, Attended(q, life'), c4' = [c4 EXCEPT ![c] = q],
             \A p \in Players : life'[p] = "gone" => life[p] = "gone"
      PROVE  DefuserStays'
  <2>1. ASSUME NEW d \in Charges PROVE Attended(c4'[d], life')
    <3>1. CASE d = c
      BY <1>1, <1>5, <3>1
    <3>2. CASE d # c
      <4>1. c4'[d] = c4[d] /\ c4[d] \in C4Records \cup {NoC4}
        BY <1>1, <1>5, <3>2
      <4>2. c4[d].defuser \in Players \cup {Nobody}
        BY <4>1 DEF C4Records, NoC4
      <4> QED BY <1>4, <1>5, <4>1, <4>2 DEF Attended, BeingDefused
    <3> QED BY <3>1, <3>2
  <2> QED BY <2>1, StaysIsAttended DEF DefuserStays, Attended
<1>6. CASE ThinkOn(c, r)
  <2>1. Attended(r, life)
    <3>1. SUFFICES ASSUME BeingDefused(r)
                   PROVE  /\ r.use >= 0 /\ PlayerTeam[r.defuser] = "allies"
                          /\ life[r.defuser] # "gone"
                          /\ DefuseTime - r.left <= FuseTime - r.blow
      BY DEF Attended
    <3>2. r.left > 0 /\ r.use >= 0
      BY <1>6, <3>1 DEF ThinkOn
    <3>3. /\ c4[c].left \in 0 .. DefuseTime /\ c4[c].blow \in 1 .. FuseTime
      BY <1>1 DEF C4Records
    <3>4. /\ PlayerTeam[c4[c].defuser] = "allies" /\ life[c4[c].defuser] # "gone"
          /\ DefuseTime - c4[c].left <= FuseTime - c4[c].blow
      BY <1>2, <1>4, <3>1 DEF Attended, BeingDefused
    <3> QED BY <1>2, <3>2, <3>3, <3>4, C4Assumption
  <2> QED BY <1>5, <1>6, <2>1 DEF ThinkOn
<1>7. CASE ThinkDropped(c, r)
  <2>1. NobodyDefuses(r).started = FALSE
    BY <1>2, <1>7, BurningIsRecord, DroppedIsRecord DEF ThinkDropped
  <2>2. Attended(NobodyDefuses(r), life)
    BY <2>1 DEF Attended, BeingDefused
  <2> QED BY <1>5, <1>7, <2>2 DEF ThinkDropped
<1>8. CASE ThinkDefused(c, r)
  BY <1>5, <1>8, NoneIsAttended DEF ThinkDefused, Gone
<1>9. CASE Explode(c, r)
  <2>1. PICK S \in SUBSET {p \in Players : life[p] = "alive"} : Die(S)
    BY <1>9 DEF Explode
  <2>2. \A p \in Players : life'[p] = "gone" => life[p] = "gone"
    BY <2>1 DEF Die
  <2> QED BY <1>5, <1>9, <2>2, NoneIsAttended DEF Explode, Gone
<1> QED BY <1>3, <1>6, <1>7, <1>8, <1>9

\* A step that leaves the bombs alone and takes nobody off the server
LEMMA OthersAttend ==
  ASSUME TypeOK, DefuserStays, c4' = c4,
         \A p \in Players : life'[p] = "gone" => life[p] = "gone"
  PROVE  DefuserStays'
<1>1. \A c \in Charges : Attended(c4[c], life)
  BY StaysIsAttended
<1>2. \A c \in Charges : c4[c].defuser \in Players \cup {Nobody}
  BY DEF TypeOK, C4Records, NoC4
<1> QED BY <1>1, <1>2 DEF DefuserStays, Attended, BeingDefused

LEMMA DefuserStep == TypeOK /\ DefuserStays /\ [Next]_vars => DefuserStays'
<1> SUFFICES ASSUME TypeOK, DefuserStays, [Next]_vars PROVE DefuserStays'
  OBVIOUS
<1>t. c4 \in [Charges -> C4Records \cup {NoC4}] /\ life \in [Players -> {"alive", "dead", "gone"}]
  BY DEF TypeOK
<1>s. \A c \in Charges : Attended(c4[c], life)
  BY StaysIsAttended
<1>1. ASSUME NEW c \in Charges, C4Think(c) PROVE DefuserStays'
  BY <1>1, ThinkAttends
<1>2. ASSUME NEW p \in Players, NEW c \in Charges, Use(p, c) PROVE DefuserStays'
  <2>1. /\ c4[c] \in C4Records /\ c4' = [c4 EXCEPT ![c] = c4'[c]]
        /\ c4'[c].use = UseTimeout /\ c4'[c].defuser = p /\ c4'[c].blow = c4[c].blow
        /\ c4'[c].left = (IF c4[c].started THEN c4[c].left ELSE DefuseTime)
    BY <1>2, UseKeepsTypes
  <2>2. life' = life /\ life[p] = "alive" /\ PlayerTeam[p] = "allies"
        /\ (c4[c].started => c4[c].defuser = p)
    BY <1>2 DEF Use
  <2>3. c4[c].left \in 0 .. DefuseTime /\ c4[c].blow \in 1 .. FuseTime
    BY <2>1 DEF C4Records
  <2>4. DefuseTime - c4'[c].left <= FuseTime - c4[c].blow
    <3>1. CASE c4[c].started
      <4>1. BeingDefused(c4[c])
        BY <2>2, <3>1, C4Assumption DEF BeingDefused
      <4> QED BY <1>s, <2>1, <3>1, <4>1 DEF Attended
    <3>2. CASE ~c4[c].started
      BY <2>1, <2>3, <3>2, C4Assumption
    <3> QED BY <3>1, <3>2
  <2>5. Attended(c4'[c], life)
    BY <2>1, <2>2, <2>4, C4Assumption DEF Attended
  <2>6. \A d \in Charges \ {c} : c4'[d] = c4[d]
    BY <1>t, <2>1
  <2> QED BY <1>s, <2>2, <2>5, <2>6 DEF DefuserStays, Attended
<1>3. ASSUME NEW p \in Players, NEW c \in Charges, TakeCharge(p, c) \/ StartArming(p, c)
      PROVE  DefuserStays'
  BY <1>3, OthersAttend DEF TakeCharge, StartArming
<1>4. ASSUME NEW c \in Charges, StopArming(c) PROVE DefuserStays'
  BY <1>4, OthersAttend DEF StopArming
<1>5. ASSUME NEW p \in Players, NEW c \in Charges, PlaceBomb(p, c) PROVE DefuserStays'
  <2>1. life' = life /\ \A d \in Charges : c4'[d] = IF d = c THEN NewC4 ELSE c4[d]
    BY <1>5, <1>t DEF PlaceBomb
  <2>2. \A d \in Charges : Attended(c4'[d], life)
    BY <1>s, <2>1, NoneIsAttended
  <2> QED BY <2>1, <2>2 DEF DefuserStays, Attended
<1>6. ASSUME NEW p \in Players, Kill(p) \/ Join(p) \/ Respawn(p) PROVE DefuserStays'
  <2>1. \A q \in Players : life'[q] = "gone" => life[q] = "gone"
    BY <1>6, <1>t DEF Kill, Join, Respawn, Die
  <2> QED BY <1>6, <2>1, OthersAttend DEF Kill, Join, Respawn
<1>7. ASSUME NEW p \in Leavers, Leave(p) PROVE DefuserStays'
  <2>1. /\ \A q \in Players \ {p} : life'[q] = life[q]
        /\ \A d \in Charges : c4'[d] = IF c4[d].defuser = p THEN [c4[d] EXCEPT !.defuser = Nobody]
                                       ELSE c4[d]
    BY <1>7, <1>t DEF Leave
  <2>2. ASSUME NEW d \in Charges PROVE Attended(c4'[d], life')
    <3>1. c4[d].defuser \in Players \cup {Nobody}
      BY <1>t DEF C4Records, NoC4
    <3>2. CASE c4[d].defuser = p
      <4>1. c4[d] \in C4Records
        <5>1. NoC4.defuser = Nobody /\ p # Nobody
          BY C4Assumption DEF NoC4
        <5> QED BY <1>t, <3>2, <5>1
      <4>2. [c4[d] EXCEPT !.defuser = Nobody].defuser = Nobody
        BY <4>1 DEF C4Records
      <4> QED BY <2>1, <3>2, <4>2 DEF Attended, BeingDefused
    <3>3. CASE c4[d].defuser # p
      BY <1>s, <2>1, <3>1, <3>3 DEF Attended, BeingDefused
    <3> QED BY <3>2, <3>3
  <2> QED BY <2>2 DEF DefuserStays, Attended
<1>8. ASSUME NEW t \in Teams, OtherWin(t) PROVE DefuserStays'
  BY <1>8, OthersAttend DEF OtherWin
<1>9. CASE EnterPregame \/ StartGame \/ StartRound
  BY <1>9, OthersAttend DEF EnterPregame, StartGame, StartRound
<1>10. CASE NewRound \/ Restart
  <2>1. \A c \in Charges : c4'[c] = NoC4
    BY <1>10 DEF NewRound, Restart, EnterPreround
  <2>2. \A c \in Charges : Attended(c4'[c], life')
    BY <2>1, NoneIsAttended
  <2> QED BY <2>2 DEF DefuserStays, Attended
<1>11. CASE UNCHANGED vars
  BY <1>11, OthersAttend DEF vars
<1> QED BY <1>1, <1>2, <1>3, <1>4, <1>5, <1>6, <1>7, <1>8, <1>9, <1>10, <1>11 DEF Next

\* Nobody defuses from afar, from off the server or with another's progress.
THEOREM DefusersStay == Spec => []DefuserStays
<1>1. Init => DefuserStays
  BY NoneIsAttended, StaysIsAttended DEF Init
<1> QED BY <1>1, DefuserStep, C4TypeCorrect, PTL DEF Spec
=============================================================================
