----------------------- MODULE DodAreaCapture_proofs -----------------------
(***************************************************************************)
(* Capture areas, for any number of players, areas and points.  First the  *)
(* types; then the round, of which the areas see only a few kinds of steps *)
(* (RoundStep), so that what is said of wins and owners is proved once     *)
(* from those; then the captures shown to the clients.                     *)
(***************************************************************************)
EXTENDS DodAreaCapture, DodPoints_proofs, FiniteSetTheorems

LEMMA PlayersAreFinite == IsFiniteSet(Players)
BY FS_Interval, AreaAssumption DEF Players

LEMMA CountIsANumber ==
  ASSUME NEW a
  PROVE  Count(a) \in [Teams -> Nat]
<1>1. ASSUME NEW t PROVE Cardinality(Present(a, t)) \in Nat
  <2>1. Present(a, t) \in SUBSET Players
    BY DEF Present
  <2> QED BY <2>1, PlayersAreFinite, FS_Subset, FS_CardinalityType
<1> QED BY <1>1 DEF Count

\* Points, owners and round keep their types under what the objectives do.
LEMMA SetOwnerTyped ==
  ASSUME PointsTypeOK, NEW p \in Points, NEW t \in Owners, SetOwner(p, t)
  PROVE  /\ roundState' \in RoundStates /\ wins' \in [Teams -> Nat]
         /\ owner' \in [Points -> Owners]
<1>1. ASSUME NEW w \in Teams, SetWinningTeam(w)
      PROVE  roundState' \in RoundStates /\ wins' \in [Teams -> Nat]
  BY <1>1 DEF SetWinningTeam, WinState, WinStates, RoundStates, PointsTypeOK
<1>2. ASSUME NEW held, CheckWinConditions(held)
      PROVE  roundState' \in RoundStates /\ wins' \in [Teams -> Nat]
  BY <1>1, <1>2 DEF CheckWinConditions, PointsTypeOK
<1>3. CASE CapsAllowed
  BY <1>2, <1>3 DEF SetOwner, InternalSetOwner, PointsTypeOK
<1>4. CASE ~CapsAllowed
  BY <1>4 DEF SetOwner, PointsTypeOK
<1> QED BY <1>3, <1>4

\* Every variable keeps its range; in particular the time left of a capture
\* never passes zero.
THEOREM AreaTypeCorrect == Spec => []TypeOK
<1>1. Init => TypeOK
  BY PointsAssumption, AreaAssumption
  DEF Init, PointsInit, TypeOK, PointsTypeOK, RoundStates, Owners, NoBlock, Idle, Nobody, OnEveryArea
<1>2. TypeOK /\ [Next]_vars => TypeOK'
  <2> SUFFICES ASSUME TypeOK, [Next]_vars PROVE TypeOK'
    OBVIOUS
  <2> USE PointsAssumption, AreaAssumption DEF TypeOK
  <2>1. PointsTypeOK' <=> /\ roundState' \in RoundStates /\ inWarmup' \in BOOLEAN
                          /\ wins' \in [Teams -> Nat] /\ owner' \in [Points -> Owners]
                          /\ resOwner' \in [Points -> Owners] /\ capping' \in [Points -> Owners]
    BY DEF PointsTypeOK
  <2>2. NoTeam \in Owners /\ Teams \subseteq Owners
    BY DEF Owners
  <2>3. ASSUME NEW a \in Areas, NEW b \in BOOLEAN, BreakCapture(a, b)
        PROVE  /\ capture' \in [Areas -> [team : Owners, left : Nat]]
               /\ capping' \in [Points -> Owners] /\ attempt' \in [Areas -> Nat]
    BY <2>2, <2>3 DEF BreakCapture, PointsTypeOK, Idle
  <2>4. ASSUME NEW a \in Areas, CountPlayers(a)
        PROVE  /\ num' \in [Areas -> [Teams -> Nat]]
               /\ UNCHANGED <<inWarmup, alive, signal, sigState, capArea, disabled>>
    BY <2>4, CountIsANumber DEF CountPlayers
  <2>5. ASSUME NEW p \in Players, RotateSignals(p)
        PROVE  /\ signal' \in [Players -> BOOLEAN] /\ sigState' \in [Players -> BOOLEAN]
               /\ capArea' \in [Players -> Areas \cup {NoArea}]
    BY <2>5 DEF RotateSignals
  <2>6. ASSUME NEW a \in Areas, Think(a) PROVE TypeOK'
    <3>1. CASE ThinkNotRunning(a)
      <4>1. capping' \in [Points -> Owners] /\ num' \in [Areas -> [Teams -> Nat]]
        BY <2>2, <3>1 DEF ThinkNotRunning, PointsTypeOK, Nobody
      <4> QED BY <2>1, <3>1, <4>1 DEF ThinkNotRunning, roundVars, playerVars, PointsTypeOK
    <3>2. CASE ThinkContested(a)
      <4>1. /\ capture' \in [Areas -> [team : Owners, left : Nat]]
            /\ capping' \in [Points -> Owners] /\ attempt' \in [Areas -> Nat]
        BY <2>3, <3>2 DEF ThinkContested
      <4>2. lastBlock' \in [Players -> [area : Areas \cup {NoArea}, attempt : Int]]
        <5> DEFINE block == [area |-> a, attempt |-> attempt[a]]
        <5>1. block \in [area : Areas \cup {NoArea}, attempt : Int]
          OBVIOUS
        <5>2. \E p : lastBlock' = [lastBlock EXCEPT ![p] = block] \/ lastBlock' = lastBlock
          BY <3>2 DEF ThinkContested
        <5> HIDE DEF block
        <5> QED BY <5>1, <5>2
      <4> QED BY <2>1, <2>4, <3>2, <4>1, <4>2 DEF ThinkContested, PointsTypeOK
    <3>3. CASE ThinkAbandoned(a)
      <4>1. /\ capture' \in [Areas -> [team : Owners, left : Nat]]
            /\ capping' \in [Points -> Owners] /\ attempt' \in [Areas -> Nat]
        BY <2>3, <3>3 DEF ThinkAbandoned
      <4> QED BY <2>1, <2>4, <3>3, <4>1 DEF ThinkAbandoned, PointsTypeOK
    <3>4. CASE ThinkCapturing(a)
      <4>1. /\ capture' \in [Areas -> [team : Owners, left : Nat]]
            /\ capping' \in [Points -> Owners] /\ attempt' \in [Areas -> Nat]
        <5>1. CASE TooFew(a)
          BY <2>3, <3>4, <5>1 DEF ThinkCapturing
        <5>2. CASE ~TooFew(a)
          <6>1. capture' = [capture EXCEPT ![a].left = @ - 1] /\ capture[a].left - 1 \in Nat
            BY <3>4, <5>2 DEF ThinkCapturing
          <6>2. [capture[a] EXCEPT !.left = @ - 1] \in [team : Owners, left : Nat]
            <7> DEFINE r == capture[a]
            <7>1. r \in [team : Owners, left : Nat] /\ r.left - 1 \in Nat
              BY <6>1
            <7> HIDE DEF r
            <7>2. [r EXCEPT !.left = @ - 1] \in [team : Owners, left : Nat]
              BY ONLY <7>1
            <7> QED BY ONLY <7>2 DEF r
          <6> QED BY <3>4, <5>2, <6>1, <6>2 DEF ThinkCapturing, PointsTypeOK
        <5> QED BY <5>1, <5>2
      <4> QED BY <2>1, <2>4, <3>4, <4>1 DEF ThinkCapturing, PointsTypeOK
    <3>5. CASE EndCapture(a)
      <4>1. PointOf[a] \in Points /\ capture[a].team \in Owners
        BY <2>2, <3>5 DEF EndCapture, Capturing
      <4>2. /\ roundState' \in RoundStates /\ wins' \in [Teams -> Nat]
            /\ owner' \in [Points -> Owners]
        BY <3>5, <4>1, SetOwnerTyped DEF EndCapture
      <4>3. resOwner' \in [Points -> Owners] /\ capping' \in [Points -> Owners]
        BY <2>2, <3>5, <4>1 DEF EndCapture, SetOwningTeam, PointsTypeOK
      <4>4. /\ capture' \in [Areas -> [team : Owners, left : Nat]]
            /\ areaOwner' \in [Areas -> Owners] /\ attempt' \in [Areas -> Nat]
        BY <2>2, <3>5, <4>1 DEF EndCapture, Idle
      <4> QED BY <2>1, <2>4, <3>5, <4>2, <4>3, <4>4 DEF EndCapture, PointsTypeOK
    <3>6. CASE ThinkWaiting(a)
      BY <2>1, <2>4, <3>6 DEF ThinkWaiting, PointsTypeOK, pointVars
    <3>7. ASSUME NEW t \in Teams, StartCapture(a, t) PROVE TypeOK'
      <4>1. /\ capture' \in [Areas -> [team : Owners, left : Nat]]
            /\ capping' \in [Points -> Owners]
        BY <2>2, <3>7 DEF StartCapture, PointsTypeOK
      <4> QED BY <2>1, <2>4, <3>7, <4>1 DEF StartCapture, PointsTypeOK
    <3> QED BY <2>6, <3>1, <3>2, <3>3, <3>4, <3>5, <3>6, <3>7 DEF Think
  <2>7. ASSUME NEW a \in Areas, NEW p \in Players, AreaTouch(a, p) PROVE TypeOK'
    <3>1. areaOwner' \in [Areas -> Owners]
      BY <2>7 DEF AreaTouch, PointsTypeOK
    <3>2. signal' \in [Players -> BOOLEAN] /\ capArea' \in [Players -> Areas \cup {NoArea}]
      BY <2>7 DEF AreaTouch
    <3> QED BY <2>1, <2>7, <3>1, <3>2 DEF AreaTouch, roundVars, pointVars, PointsTypeOK
  <2>8. ASSUME NEW p \in Players, HandleSignals(p) PROVE TypeOK'
    BY <2>1, <2>5, <2>8 DEF HandleSignals, roundVars, pointVars, areaVars, PointsTypeOK
  <2>9. ASSUME NEW p \in Players, Respawn(p) PROVE TypeOK'
    BY <2>1, <2>9 DEF Respawn, roundVars, pointVars, areaVars, PointsTypeOK, NoBlock
  <2>10. ASSUME NEW v \in Players, NEW k \in Players, Kill(v, k) PROVE TypeOK'
    <3>1. /\ capture' \in [Areas -> [team : Owners, left : Nat]]
          /\ capping' \in [Points -> Owners] /\ attempt' \in [Areas -> Nat]
      <4>1. CASE UNCHANGED <<capture, capping, attempt>>
        BY <4>1 DEF PointsTypeOK
      <4>2. CASE \E a \in Areas : BreakCapture(a, FALSE)
        BY <2>3, <4>2
      <4> QED BY <2>10, <4>1, <4>2 DEF Kill
    <3>2. alive' \in [Players -> BOOLEAN] /\ RotateSignals(v)
          /\ UNCHANGED <<roundVars, owner, resOwner, lastBlock, disabled, areaOwner, num>>
      BY <2>10 DEF Kill
    <3> QED BY <2>1, <2>5, <3>1, <3>2 DEF roundVars, PointsTypeOK
  <2>11. ASSUME NEW a \in Areas, NEW b \in BOOLEAN, SetDisabled(a, b) PROVE TypeOK'
    BY <2>1, <2>11 DEF SetDisabled, roundVars, pointVars, playerVars, PointsTypeOK
  <2>12. ASSUME NEW p \in Triggered, NEW t \in Owners, TakePoint(p, t) PROVE TypeOK'
    <3>1. p \in Points /\ SetOwner(p, t) /\ SetOwningTeam(p, t)
      BY <2>12 DEF TakePoint, InputSetOwner, SetOwner
    <3>2. /\ roundState' \in RoundStates /\ wins' \in [Teams -> Nat]
          /\ owner' \in [Points -> Owners]
      BY <3>1, SetOwnerTyped
    <3>3. resOwner' \in [Points -> Owners] /\ capping' \in [Points -> Owners]
      BY <2>2, <3>1 DEF SetOwningTeam, PointsTypeOK
    <3> QED BY <2>1, <2>12, <3>2, <3>3
            DEF TakePoint, InputSetOwner, playerVars, areaVars, PointsTypeOK
  <2>13. CASE RoundActive
    BY <2>1, <2>13
    DEF RoundActive, StartRound, pointVars, playerVars, areaVars, PointsTypeOK, RoundStates
  <2>14. CASE RoundTimer
    BY <2>1, <2>14
    DEF RoundTimer, TimerExpires, SetWinningTeam, WinState, WinStates, RoundStates,
        pointVars, playerVars, areaVars, PointsTypeOK
  <2>15. CASE RoundRespawn
    <3>1. PointsTypeOK'
      BY <2>2, <2>15 DEF RoundRespawn, NewRound, PointsTypeOK, RoundStates
    <3>2. /\ disabled' \in [Areas -> BOOLEAN]
          /\ capture' \in [Areas -> [team : Owners, left : Nat]]
          /\ areaOwner' \in [Areas -> Owners] /\ num' \in [Areas -> [Teams -> Nat]]
          /\ attempt' \in [Areas -> Nat]
      BY <2>2, <2>15 DEF RoundRespawn, OnEveryArea, Idle, Nobody
    <3>3. /\ alive' \in [Players -> BOOLEAN] /\ capArea' \in [Players -> Areas \cup {NoArea}]
          /\ lastBlock' \in [Players -> [area : Areas \cup {NoArea}, attempt : Int]]
          /\ UNCHANGED <<signal, sigState>>
      BY <2>15 DEF RoundRespawn, NoBlock
    <3> QED BY <3>1, <3>2, <3>3
  <2>16. ASSUME NEW b \in BOOLEAN, Warmup(b) PROVE TypeOK'
    BY <2>1, <2>16 DEF Warmup, SetInWarmup, pointVars, playerVars, areaVars, PointsTypeOK
  <2>17. CASE UNCHANGED vars
    BY <2>1, <2>17 DEF vars, roundVars, pointVars, playerVars, areaVars, PointsTypeOK
  <2> QED BY <2>6, <2>7, <2>8, <2>9, <2>10, <2>11, <2>12, <2>13, <2>14, <2>15, <2>16, <2>17
          DEF Next
<1> QED BY <1>1, <1>2, PTL DEF Spec
---------------------------------------------------------------------------
(* The round. *)

\* All that can happen to the round, its wins and the owners of its points.
RoundStep ==
  \/ UNCHANGED <<roundState, wins, owner>>
  \/ /\ roundState = "preround" /\ roundState' = "running"
     /\ UNCHANGED <<wins, owner>>
  \/ /\ roundState = "running" /\ SetWinningTeam(TimerWinTeam)
     /\ UNCHANGED owner
  \/ \E p \in Points, t \in Owners :
       CapsAllowed /\ InternalSetOwner(p, t)
  \/ /\ roundState # "preround" /\ roundState' = "preround"
     /\ wins' = [t \in Teams |-> 0]
     /\ owner' = DefaultOwner

LEMMA StepOfRound ==
  ASSUME TypeOK, [Next]_vars
  PROVE  RoundStep
<1>1. ASSUME NEW a \in Areas, Think(a) PROVE RoundStep
  <2>1. CASE EndCapture(a)
    <3>1. PointOf[a] \in Points /\ capture[a].team \in Owners
      BY <2>1, AreaAssumption DEF EndCapture, Capturing, Owners
    <3>2. SetOwner(PointOf[a], capture[a].team)
      BY <2>1 DEF EndCapture
    <3>3. CASE CapsAllowed
      BY <3>1, <3>2, <3>3 DEF SetOwner, RoundStep
    <3>4. CASE ~CapsAllowed
      BY <3>2, <3>4 DEF SetOwner, RoundStep
    <3> QED BY <3>3, <3>4
  <2>2. CASE ~EndCapture(a)
    <3>1. UNCHANGED <<roundState, wins, owner>>
      BY <1>1, <2>2
      DEF Think, ThinkNotRunning, ThinkContested, ThinkAbandoned, ThinkCapturing,
          ThinkWaiting, StartCapture, roundVars, pointVars
    <3> QED BY <3>1 DEF RoundStep
  <2> QED BY <2>1, <2>2
<1>2. ASSUME NEW p \in Triggered, NEW t \in Owners, TakePoint(p, t) PROVE RoundStep
  BY <1>2, PointsAssumption DEF TakePoint, InputSetOwner, RoundStep
<1>3. CASE RoundActive \/ RoundTimer
  BY <1>3 DEF RoundActive, StartRound, RoundTimer, TimerExpires, pointVars, RoundStep
<1>4. CASE RoundRespawn
  BY <1>4 DEF RoundRespawn, NewRound, RoundStep, WinStates, WinState
<1>5. ASSUME NEW a \in Areas, NEW p \in Players, AreaTouch(a, p)
      PROVE  UNCHANGED <<roundState, wins, owner>>
  BY <1>5 DEF AreaTouch, roundVars, pointVars
<1>6. ASSUME NEW p \in Players, NEW k \in Players,
             HandleSignals(p) \/ Respawn(p) \/ Kill(p, k)
      PROVE  UNCHANGED <<roundState, wins, owner>>
  BY <1>6 DEF HandleSignals, Respawn, Kill, roundVars, pointVars
<1>7. ASSUME NEW b \in BOOLEAN, Warmup(b) \/ UNCHANGED vars
      PROVE  UNCHANGED <<roundState, wins, owner>>
  BY <1>7 DEF Warmup, SetInWarmup, vars, roundVars, pointVars
<1>8. ASSUME NEW a \in Areas, NEW b \in BOOLEAN, SetDisabled(a, b)
      PROVE  UNCHANGED <<roundState, wins, owner>>
  BY <1>8 DEF SetDisabled, roundVars, pointVars
<1>9. ASSUME UNCHANGED <<roundState, wins, owner>>
      PROVE  RoundStep
  BY <1>9 DEF RoundStep
<1> QED BY <1>1, <1>2, <1>3, <1>4, <1>5, <1>6, <1>7, <1>8, <1>9 DEF Next

\* A round that has not been decided has no winner on its points, and counts no
\* win; one that has been counts the one win its state names.
RoundInv ==
  /\ roundState \in RoundStates
  /\ roundState \in {"preround", "running"} => TeamOwnsAllPoints(owner) = NoTeam
  /\ wins = [t \in Teams |-> IF roundState = WinState(t) THEN 1 ELSE 0]

\* A win from a round that runs: it is counted, once.
LEMMA WinOfRunningRound ==
  ASSUME RoundInv, roundState = "running", NEW t \in Teams, SetWinningTeam(t)
  PROVE  RoundInv'
<1>1. wins \in [Teams -> {0}]
  BY DEF RoundInv, WinState
<1>2. \A u \in Teams : wins'[u] = IF u = t THEN 1 ELSE 0
  BY <1>1 DEF SetWinningTeam
<1>3. \A u \in Teams : WinState(t) = WinState(u) <=> t = u
  BY DEF WinState, Teams
<1>4. roundState' = WinState(t) /\ WinState(t) \in RoundStates \ {"preround", "running"}
  BY DEF SetWinningTeam, WinState, RoundStates, WinStates
<1>5. wins' = [u \in Teams |-> IF roundState' = WinState(u) THEN 1 ELSE 0]
  <2>1. wins' = [u \in Teams |-> IF u = t THEN 1 ELSE 0]
    <3>1. wins' \in [Teams -> Nat]
      BY <1>1 DEF SetWinningTeam
    <3> QED BY <1>2, <3>1
  <2> QED BY <1>3, <1>4, <2>1
<1> QED BY <1>4, <1>5 DEF RoundInv, WinState

LEMMA RoundInvariant == Spec => []RoundInv
<1>1. Init => RoundInv
  BY MapStartsUndecided DEF Init, PointsInit, RoundInv, RoundStates, WinState
<1>2. RoundInv /\ RoundStep => RoundInv'
  <2> SUFFICES ASSUME RoundInv, RoundStep PROVE RoundInv'
    OBVIOUS
  <2>1. CASE UNCHANGED <<roundState, wins, owner>>
    BY <2>1 DEF RoundInv, WinState
  <2>2. CASE roundState = "preround" /\ roundState' = "running" /\ UNCHANGED <<wins, owner>>
    BY <2>2 DEF RoundInv, WinState, RoundStates
  <2>3. CASE roundState = "running" /\ SetWinningTeam(TimerWinTeam)
    BY <2>3, WinOfRunningRound, PointsAssumption
  <2>4. ASSUME NEW p \in Points, NEW t \in Owners, CapsAllowed, InternalSetOwner(p, t)
        PROVE  RoundInv'
    <3>1. roundState = "running"
      BY <2>4 DEF CapsAllowed
    <3>2. CASE TeamOwnsAllPoints(owner') \in Teams
      <4>1. SetWinningTeam(TeamOwnsAllPoints(owner'))
        BY <2>4, <3>2 DEF InternalSetOwner, CheckWinConditions
      <4> QED BY <3>1, <3>2, <4>1, WinOfRunningRound
    <3>3. CASE TeamOwnsAllPoints(owner') \notin Teams
      <4>1. UNCHANGED <<wins, roundState>>
        BY <2>4, <3>3 DEF InternalSetOwner, CheckWinConditions
      <4>2. TeamOwnsAllPoints(owner') = NoTeam
        BY <3>3, WinnerIsAnOwner DEF Owners
      <4> QED BY <4>1, <4>2 DEF RoundInv, WinState
    <3> QED BY <3>2, <3>3
  <2>5. CASE /\ roundState # "preround" /\ roundState' = "preround"
             /\ wins' = [t \in Teams |-> 0] /\ owner' = DefaultOwner
    BY <2>5, MapStartsUndecided DEF RoundInv, WinState, RoundStates
  <2> QED BY <2>1, <2>2, <2>3, <2>4, <2>5 DEF RoundStep
<1>3. TypeOK /\ RoundInv /\ [Next]_vars => RoundInv'
  BY <1>2, StepOfRound
<1> QED BY <1>1, <1>3, AreaTypeCorrect, PTL DEF Spec

\* Whatever captures are under way when a round is decided, the round is counted
\* once, for the team whose win state it is in.
THEOREM RoundIsWonOnce == Spec => []OneWinPerRound
<1>1. RoundInv => OneWinPerRound
  BY DEF RoundInv, OneWinPerRound
<1> QED BY <1>1, RoundInvariant, PTL

\* While the round runs, nobody holds all of a group: the capture that completes
\* one wins the round in the same step.
THEOREM WinsAreReported == Spec => []NoUnreportedWin
<1>1. RoundInv => NoUnreportedWin
  BY DEF RoundInv, NoUnreportedWin
<1> QED BY <1>1, RoundInvariant, PTL

\* Points change hands only in a round that runs and is no warmup, or when the
\* map is loaded again.
THEOREM OwnersChangeInRound == Spec => CapsOnlyInRound
<1>1. TypeOK /\ [Next]_vars => [owner' # owner => CapsAllowed \/ roundState' = "preround"]_vars
  BY StepOfRound DEF RoundStep
<1> QED BY <1>1, AreaTypeCorrect, PTL DEF Spec, CapsOnlyInRound
---------------------------------------------------------------------------
(* The contest. *)

\* What a player sees of a round follows from its state.
LEMMA WinnerOfState ==
  ASSUME RoundInv
  PROVE  /\ roundState \in {"preround", "running"} => RoundWinner = NoTeam
         /\ \A t \in Teams : roundState = WinState(t) => RoundWinner = t
<1>1. \A t \in Teams : wins[t] = IF roundState = WinState(t) THEN 1 ELSE 0
  BY DEF RoundInv
<1>2. roundState \in RoundStates
  BY DEF RoundInv
<1> QED BY <1>1, <1>2 DEF RoundWinner, WinState, RoundStates, WinStates, Teams, NoTeam

LEMMA StepOfContest ==
  ASSUME RoundInv, RoundInv', RoundStep
  PROVE  [Contest!Next]_(Contest!vars)
<1> DEFINE phase(s) == CASE s = "preround" -> "preround"
                         [] s = "running" -> "contested" [] OTHER -> "decided"
<1>1. /\ Phase = phase(roundState) /\ Phase' = phase(roundState')
      /\ \A t \in Teams : phase(WinState(t)) = "decided"
      /\ phase("preround") = "preround" /\ phase("running") = "contested"
  BY DEF Phase, WinState
<1>2. /\ roundState' \in {"preround", "running"} => RoundWinner' = NoTeam
      /\ \A t \in Teams : roundState' = WinState(t) => RoundWinner' = t
  <2>1. \A t \in Teams : wins'[t] = IF roundState' = WinState(t) THEN 1 ELSE 0
    BY DEF RoundInv, WinState
  <2>2. roundState' \in RoundStates
    BY DEF RoundInv, RoundStates, WinStates, WinState
  <2> QED BY <2>1, <2>2 DEF RoundWinner, WinState, RoundStates, WinStates, Teams, NoTeam
<1>3. NoTeam \notin Teams
  BY DEF NoTeam, Teams
<1>4. CASE UNCHANGED <<roundState, wins, owner>>
  BY <1>4 DEF Contest!vars, Phase, RoundWinner
<1>5. CASE roundState = "preround" /\ roundState' = "running" /\ UNCHANGED <<wins, owner>>
  <2>1. RoundWinner' = RoundWinner
    BY <1>2, <1>5, WinnerOfState
  <2> QED BY <1>1, <1>5, <2>1 DEF Contest!Begin, Contest!Next
<1>6. CASE roundState = "running" /\ SetWinningTeam(TimerWinTeam) /\ UNCHANGED owner
  <2>1. TimerWinTeam \in Teams /\ roundState' = WinState(TimerWinTeam)
    BY <1>6, PointsAssumption DEF SetWinningTeam
  <2>2. RoundWinner' = TimerWinTeam /\ Phase' = "decided" /\ Phase = "contested"
    BY <1>1, <1>2, <1>6, <2>1
  <2>3. Contest!Decide(TimerWinTeam)
    BY <1>3, <2>1, <2>2 DEF Contest!Decide
  <2> QED BY <1>6, <2>2, <2>3 DEF Contest!TimeUp, Contest!Next
<1>7. ASSUME NEW p \in Points, NEW t \in Owners, CapsAllowed, InternalSetOwner(p, t)
      PROVE  Contest!Next
  <2> DEFINE w == TeamOwnsAllPoints(owner')
  <2>1. Phase = "contested" /\ roundState = "running"
    BY <1>1, <1>7 DEF CapsAllowed
  <2>2. CASE w \in Teams
    <3>1. roundState' = WinState(w)
      BY <1>7, <2>2 DEF InternalSetOwner, CheckWinConditions, SetWinningTeam
    <3> QED BY <1>1, <1>2, <1>3, <2>2, <3>1, <1>7, <2>1
            DEF InternalSetOwner, Contest!Decide, Contest!Take, Contest!Next, Owners
  <2>3. CASE w \notin Teams
    <3>1. roundState' = "running" /\ w = NoTeam
      BY <1>7, <2>1, <2>3, WinnerIsAnOwner
      DEF InternalSetOwner, CheckWinConditions, Owners
    <3> QED BY <1>1, <1>2, <3>1, <1>7, <2>1
            DEF InternalSetOwner, Contest!Decide, Contest!Take, Contest!Next, Owners
  <2> QED BY <2>2, <2>3
<1>8. CASE /\ roundState # "preround" /\ roundState' = "preround"
           /\ wins' = [t \in Teams |-> 0] /\ owner' = DefaultOwner
  <2>1. RoundWinner' = NoTeam /\ Phase' = "preround"
    BY <1>1, <1>2, <1>8
  <2>2. Phase # "preround"
    BY <1>8 DEF Phase
  <2> QED BY <1>8, <2>1, <2>2 DEF Contest!NextRound, Contest!Next
<1> QED BY <1>4, <1>5, <1>6, <1>7, <1>8 DEF RoundStep

\* Areas, timers and triggers keep the promise of a round: only a contested round
\* changes hands, and the change that completes a group decides it at once.
THEOREM AreasKeepTheContest == Spec => ImplementsContest
<1>1. Init => Contest!Init
  BY DEF Init, PointsInit, Contest!Init, Phase, RoundWinner, Teams
<1>2. TypeOK /\ RoundInv /\ RoundInv' /\ [Next]_vars => [Contest!Next]_(Contest!vars)
  BY StepOfRound, StepOfContest
<1> QED BY <1>1, <1>2, AreaTypeCorrect, RoundInvariant, PTL
        DEF Spec, ImplementsContest, Contest!Spec
---------------------------------------------------------------------------
(* What the clients are shown. *)

\* A capture is shown only where an area captures for that team.
HudInv ==
  \A p \in Points : capping[p] \in Teams =>
    \E a \in Areas : PointOf[a] = p /\ capture[a].team = capping[p]

\* What an area does to its own capture disturbs no other, and its own is taken
\* off the HUD or stays that team's.
LEMMA HudStep ==
  ASSUME TypeOK, HudInv, NEW a \in Areas,
         \A b \in Areas \ {a} : capture'[b] = capture[b],
         \/ capping' = [capping EXCEPT ![PointOf[a]] = NoTeam]
         \/ capping' = capping /\ capture'[a].team = capture[a].team
  PROVE  HudInv'
<1> SUFFICES ASSUME NEW p \in Points, capping'[p] \in Teams
             PROVE  \E b \in Areas : PointOf[b] = p /\ capture'[b].team = capping'[p]
  BY DEF HudInv
<1>1. capping \in [Points -> Owners] /\ NoTeam \notin Teams
  BY DEF TypeOK, PointsTypeOK, NoTeam, Teams
<1>2. capping'[p] = capping[p]
  BY <1>1
<1>3. PICK b \in Areas : PointOf[b] = p /\ capture[b].team = capping[p]
  BY <1>2 DEF HudInv
<1>4. CASE b # a
  BY <1>2, <1>3, <1>4
<1>5. CASE b = a
  <2>1. capping' = capping
    BY <1>1, <1>3, <1>5
  <2>2. capping' # [capping EXCEPT ![PointOf[a]] = NoTeam]
    BY <1>1, <1>3, <1>5, <1>2
  <2> QED BY <1>2, <1>3, <1>5, <2>2
<1> QED BY <1>4, <1>5

LEMMA HudInvariant == Spec => []HudInv
<1>1. Init => HudInv
  BY DEF Init, PointsInit, HudInv, NoTeam, Teams
<1>2. TypeOK /\ HudInv /\ [Next]_vars => HudInv'
  <2> SUFFICES ASSUME TypeOK, HudInv, [Next]_vars PROVE HudInv'
    OBVIOUS
  <2>1. /\ capture \in [Areas -> [team : Owners, left : Nat]]
        /\ capping \in [Points -> Owners] /\ NoTeam \notin Teams
    BY DEF TypeOK, PointsTypeOK, NoTeam, Teams
  <2>2. ASSUME UNCHANGED <<capping, capture>> PROVE HudInv'
    BY <2>2 DEF HudInv
  <2>3. ASSUME NEW a \in Areas, NEW b \in BOOLEAN, BreakCapture(a, b) PROVE HudInv'
    <3>1. \A c \in Areas \ {a} : capture'[c] = capture[c]
      BY <2>1, <2>3 DEF BreakCapture
    <3> QED BY <2>3, <3>1, HudStep DEF BreakCapture
  <2>4. ASSUME NEW a \in Areas, Think(a) PROVE HudInv'
    <3>1. CASE ThinkNotRunning(a)
      BY <2>1, <3>1, HudStep DEF ThinkNotRunning
    <3>2. CASE ThinkContested(a) \/ ThinkAbandoned(a)
      BY <2>3, <3>2 DEF ThinkContested, ThinkAbandoned
    <3>3. CASE ThinkCapturing(a)
      <4>1. CASE TooFew(a)
        BY <2>3, <3>3, <4>1 DEF ThinkCapturing
      <4>2. CASE ~TooFew(a)
        <5>1. /\ \A c \in Areas \ {a} : capture'[c] = capture[c]
              /\ capture'[a].team = capture[a].team /\ capping' = capping
          BY <2>1, <3>3, <4>2 DEF ThinkCapturing
        <5> QED BY <5>1, HudStep
      <4> QED BY <4>1, <4>2
    <3>4. CASE EndCapture(a)
      <4>1. /\ \A c \in Areas \ {a} : capture'[c] = capture[c]
            /\ capping' = [capping EXCEPT ![PointOf[a]] = NoTeam]
        BY <2>1, <3>4 DEF EndCapture, SetOwningTeam
      <4> QED BY <4>1, HudStep
    <3>5. CASE ThinkWaiting(a)
      BY <2>2, <3>5 DEF ThinkWaiting, pointVars
    <3>6. ASSUME NEW t \in Teams, StartCapture(a, t) PROVE HudInv'
      <4>1. /\ capture' = [capture EXCEPT ![a] = [team |-> t, left |-> CapTime[a]]]
            /\ capping' = [capping EXCEPT ![PointOf[a]] = t] /\ capture[a].team \notin Teams
        BY <3>6 DEF StartCapture, Capturing
      <4>2. capture'[a].team = t /\ \A c \in Areas \ {a} : capture'[c] = capture[c]
        BY <2>1, <4>1
      <4> SUFFICES ASSUME NEW p \in Points, capping'[p] \in Teams
                   PROVE  \E c \in Areas : PointOf[c] = p /\ capture'[c].team = capping'[p]
        BY DEF HudInv
      <4>3. CASE p = PointOf[a]
        BY <2>1, <4>1, <4>2, <4>3
      <4>4. CASE p # PointOf[a]
        <5>1. capping'[p] = capping[p]
          BY <2>1, <4>1, <4>4
        <5>2. PICK c \in Areas : PointOf[c] = p /\ capture[c].team = capping[p]
          BY <5>1 DEF HudInv
        <5> QED BY <4>1, <4>2, <5>1, <5>2
      <4> QED BY <4>3, <4>4
    <3> QED BY <2>4, <3>1, <3>2, <3>3, <3>4, <3>5, <3>6 DEF Think
  <2>5. ASSUME NEW a \in Areas, NEW p \in Players, AreaTouch(a, p) PROVE HudInv'
    BY <2>2, <2>5 DEF AreaTouch, pointVars
  <2>6. ASSUME NEW p \in Players, HandleSignals(p) \/ Respawn(p) PROVE HudInv'
    BY <2>2, <2>6 DEF HandleSignals, Respawn, pointVars, areaVars
  <2>7. ASSUME NEW v \in Players, NEW k \in Players, Kill(v, k) PROVE HudInv'
    <3>1. UNCHANGED <<capping, capture>> \/ \E a \in Areas : BreakCapture(a, FALSE)
      BY <2>7 DEF Kill
    <3> QED BY <2>2, <2>3, <3>1
  <2>8. ASSUME NEW a \in Areas, NEW b \in BOOLEAN, SetDisabled(a, b) PROVE HudInv'
    BY <2>2, <2>8 DEF SetDisabled, pointVars
  <2>9. ASSUME NEW p \in Triggered, NEW t \in Owners, TakePoint(p, t) PROVE HudInv'
    <3>1. capping' = [capping EXCEPT ![p] = NoTeam] /\ capture' = capture
      BY <2>9 DEF TakePoint, InputSetOwner, SetOwningTeam, areaVars
    <3>2. \A q \in Points : capping'[q] \in Teams => capping'[q] = capping[q]
      BY <2>1, <3>1
    <3> QED BY <3>1, <3>2 DEF HudInv
  <2>10. CASE RoundActive \/ RoundTimer
    BY <2>2, <2>10 DEF RoundActive, StartRound, RoundTimer, TimerExpires, pointVars, areaVars
  <2>11. CASE RoundRespawn
    <3>1. capping' = [p \in Points |-> NoTeam]
      BY <2>11 DEF RoundRespawn, NewRound
    <3> QED BY <2>1, <3>1 DEF HudInv
  <2>12. ASSUME NEW b \in BOOLEAN, Warmup(b) PROVE HudInv'
    BY <2>2, <2>12 DEF Warmup, SetInWarmup, pointVars, areaVars
  <2>13. CASE UNCHANGED vars
    BY <2>2, <2>13 DEF vars, pointVars, areaVars
  <2> QED BY <2>4, <2>5, <2>6, <2>7, <2>8, <2>9, <2>10, <2>11, <2>12, <2>13 DEF Next
<1> QED BY <1>1, <1>2, AreaTypeCorrect, PTL DEF Spec

\* Blocked, broken, completed, killed or restarted: no way a capture ends leaves
\* it on the HUD, even where several areas share a point.
THEOREM NoCaptureIsPhantom == Spec => []NoPhantomCapture
<1>1. HudInv => NoPhantomCapture
  BY DEF HudInv, NoPhantomCapture
<1> QED BY <1>1, HudInvariant, PTL

\* The owner shown comes apart from the owner only by a capture completed in a
\* warmup.
THEOREM OwnersShownAreOwners == Spec => OwnerShownDivergesOnlyInWarmup
<1>1. TypeOK /\ [Next]_vars =>
        [\A p \in Points : resOwner'[p] # owner'[p] => resOwner[p] # owner[p] \/ inWarmup]_vars
  <2> SUFFICES ASSUME TypeOK, Next, NEW p \in Points, ~inWarmup, resOwner[p] = owner[p]
               PROVE  resOwner'[p] = owner'[p]
    BY DEF TypeOK, PointsTypeOK
  <2>1. owner \in [Points -> Owners] /\ resOwner \in [Points -> Owners]
    BY DEF TypeOK, PointsTypeOK
  <2>2. CASE UNCHANGED <<owner, resOwner>>
    BY <2>2
  <2>3. ASSUME NEW a \in Areas, EndCapture(a) PROVE resOwner'[p] = owner'[p]
    <3>1. /\ CapsAllowed /\ resOwner' = [resOwner EXCEPT ![PointOf[a]] = capture[a].team]
          /\ SetOwner(PointOf[a], capture[a].team)
      BY <2>3 DEF EndCapture, SetOwningTeam, CapsAllowed, CountPlayers
    <3>2. owner' = [owner EXCEPT ![PointOf[a]] = capture[a].team]
      BY <3>1 DEF SetOwner, InternalSetOwner
    <3> QED BY <2>1, <3>1, <3>2
  <2>4. ASSUME NEW q \in Triggered, NEW t \in Owners, TakePoint(q, t)
        PROVE  resOwner'[p] = owner'[p]
    BY <2>1, <2>4 DEF TakePoint, InputSetOwner, InternalSetOwner, SetOwningTeam
  <2>5. CASE RoundRespawn
    BY <2>5 DEF RoundRespawn, NewRound
  <2>6. ASSUME NEW a \in Areas, Think(a), ~EndCapture(a)
        PROVE  UNCHANGED <<owner, resOwner>>
    BY <2>6
    DEF Think, ThinkNotRunning, ThinkContested, ThinkAbandoned, ThinkCapturing,
        ThinkWaiting, StartCapture, pointVars
  <2>7. ASSUME NEW a \in Areas, NEW q \in Players, AreaTouch(a, q)
        PROVE  UNCHANGED <<owner, resOwner>>
    BY <2>7 DEF AreaTouch, pointVars
  <2>8. ASSUME NEW q \in Players, HandleSignals(q) \/ Respawn(q)
        PROVE  UNCHANGED <<owner, resOwner>>
    BY <2>8 DEF HandleSignals, Respawn, pointVars
  <2>9. ASSUME NEW v \in Players, NEW k \in Players, Kill(v, k)
        PROVE  UNCHANGED <<owner, resOwner>>
    BY <2>9 DEF Kill
  <2>10. ASSUME NEW a \in Areas, NEW b \in BOOLEAN, SetDisabled(a, b)
         PROVE  UNCHANGED <<owner, resOwner>>
    BY <2>10 DEF SetDisabled, pointVars
  <2>11. ASSUME NEW b \in BOOLEAN, Warmup(b) PROVE UNCHANGED <<owner, resOwner>>
    BY <2>11 DEF Warmup, SetInWarmup, pointVars
  <2>12. CASE RoundActive \/ RoundTimer
    BY <2>12 DEF RoundActive, StartRound, RoundTimer, TimerExpires, pointVars
  <2> QED BY <2>2, <2>3, <2>4, <2>5, <2>6, <2>7, <2>8, <2>9, <2>10, <2>11, <2>12 DEF Next
<1> QED BY <1>1, AreaTypeCorrect, PTL DEF Spec, OwnerShownDivergesOnlyInWarmup
===========================================================================
