-------------------------- MODULE DodRound_proofs --------------------------
(***************************************************************************)
(* The round machine, for any lengths of its waits and any limits: types,  *)
(* the exclusion of the three ways to a restart, and the match, whose      *)
(* rounds never go past the win limit.  That last one needs to know that   *)
(* the check of every second comes before each wait has passed.            *)
(***************************************************************************)
EXTENDS DodRound, TLAPS

LEMMA ElapseTyped ==
  ASSUME NEW t \in Nat \cup {Never}
  PROVE  /\ Elapse(t) \in Nat \cup {Never}
         /\ t \in Nat => Elapse(t) \in Nat /\ Elapse(t) = IF t = 0 THEN 0 ELSE t - 1
         /\ t = Never => Elapse(t) = Never
BY DEF Elapse, Never

\* The preround a restart, a new game or a next round enters
LEMMA PreroundTyped ==
  ASSUME EnterPreround
  PROVE  /\ state' = "preround" /\ stateLeft' \in Nat /\ initialSpawn' \in BOOLEAN
         /\ timer' \in Nat \cup {Never} /\ paused' \in BOOLEAN /\ added' \in Nat
         /\ planted' = 0 /\ ticking' = 0
BY RoundAssumption DEF EnterPreround

LEMMA WinsTyped ==
  ASSUME TypeOK, NEW S \in SUBSET Teams, SetWinningTeams(S)
  PROVE  /\ state' \in WinStates /\ stateLeft' = BonusTime /\ paused' = TRUE
         /\ roundsWon' \in [Teams -> Nat]
         /\ UNCHANGED <<initialSpawn, timer, added>>
BY RoundAssumption DEF SetWinningTeams, TypeOK, WinState, WinStates

LEMMA WinTyped ==
  ASSUME TypeOK, NEW t \in Teams, SetWinningTeam(t)
  PROVE  /\ state' \in WinStates /\ stateLeft' = BonusTime /\ paused' = TRUE
         /\ roundsWon' \in [Teams -> Nat]
         /\ roundsWon' = [roundsWon EXCEPT ![t] = @ + 1]
         /\ UNCHANGED <<initialSpawn, timer, added>>
<1>1. SetWinningTeams({t}) /\ {t} \in SUBSET Teams
  BY DEF SetWinningTeam
<1>2. roundsWon' = [roundsWon EXCEPT ![t] = @ + 1]
  BY <1>1 DEF SetWinningTeams, TypeOK
<1> QED BY <1>1, <1>2, WinsTyped

LEMMA ReadyTyped ==
  ASSUME TypeOK, NEW r \in Nat \cup {Never}, CheckReady(r)
  PROVE  restart' \in Nat \cup {Never} /\ awaiting' \in BOOLEAN /\ heard' \subseteq Teams
BY RoundAssumption DEF CheckReady, TypeOK

\* Every variable keeps its range: no clock passes its end but the restart and
\* the timer that are not there.
THEOREM RoundTypeCorrect == Spec => []TypeOK
<1>1. Init => TypeOK
  <2> SUFFICES ASSUME Init PROVE TypeOK
    OBVIOUS
  <2>1. roundsWon \in [Teams -> Nat]
    BY DEF Init, NoWins
  <2>2. restart \in Nat \cup {Never} /\ timer \in Nat \cup {Never}
    BY DEF Init
  <2> QED BY <2>1, <2>2, RoundAssumption DEF Init, TypeOK
<1>2. TypeOK /\ [Next]_vars => TypeOK'
  <2> SUFFICES ASSUME TypeOK, [Next]_vars PROVE TypeOK'
    OBVIOUS
  <2> USE RoundAssumption DEF TypeOK
  <2>1. CASE PlayersComeOrGo
    BY <2>1 DEF PlayersComeOrGo, Event, roundVars, timerVars, mapVars, warmupVars, restartVars, commandVars, frameVars, bombVars
  <2>2. CASE AddTimerSeconds
    <3>1. timer' \in Nat
      BY <2>2 DEF AddTimerSeconds, Never
    <3> QED BY <2>2, <3>1 DEF AddTimerSeconds, roundVars, mapVars, warmupVars, restartVars,
                              commandVars, frameVars, bombVars
  <2>3. CASE AskTimeLeft
    BY <2>3 DEF AskTimeLeft, Event, RememberWait, WaitsForRound, roundVars, timerVars, warmupVars, restartVars, commandVars, frameVars, bombVars
  <2>4. ASSUME NEW t \in Teams, Objective(t) PROVE TypeOK'
    BY <2>4, WinTyped DEF Objective, Event, mapVars, warmupVars, restartVars, commandVars, frameVars, bombVars
  <2>5. ASSUME NEW t \in Teams, ReadySignal(t) PROVE TypeOK'
    BY <2>5 DEF ReadySignal, Event, roundVars, timerVars, mapVars, warmupVars, commandVars, frameVars, bombVars
  <2>6. ASSUME NEW c \in Commands, SetConsoleVariable(c) PROVE TypeOK'
    BY <2>6 DEF SetConsoleVariable, Event, roundVars, timerVars, mapVars, warmupVars, restartVars,
                frameVars, bombVars
  <2>14. CASE PlantBomb
    BY <2>14 DEF PlantBomb, roundVars, timerVars, mapVars, warmupVars, restartVars, commandVars, frameVars
  <2>15. ASSUME NEW S \in SUBSET Teams, BombEnds(S) PROVE TypeOK'
    <3>1. ticking' \in Nat
      BY <2>15 DEF BombEnds
    <3>2. CASE S = {}
      BY <2>15, <3>1, <3>2
      DEF BombEnds, roundVars, timerVars, mapVars, warmupVars, restartVars, commandVars, frameVars
    <3>3. CASE S # {}
      <4>1. SetWinningTeams(S)
        BY <2>15, <3>3 DEF BombEnds
      <4> QED BY <2>15, <3>1, <4>1, WinsTyped
              DEF BombEnds, mapVars, warmupVars, restartVars, commandVars, frameVars
    <3> QED BY <3>2, <3>3
  <2>7. ASSUME NEW s, ThinkIn(s) PROVE /\ step' \in {"events", "checks", "time"}
                                       /\ UNCHANGED <<over, active, commands, issued>>
    BY <2>7 DEF ThinkIn, commandVars
  <2>8. CASE StateThink
    <3>1. CASE PregameWaits
      BY <2>7, <3>1 DEF PregameWaits, Waits, roundVars, timerVars, mapVars, warmupVars, restartVars, bombVars
    <3>2. CASE EnterStartgame
      BY <2>7, <3>2 DEF EnterStartgame, timerVars, mapVars, warmupVars, restartVars, bombVars
    <3>3. CASE TimedStateWaits
      BY <2>7, <3>3 DEF TimedStateWaits, Waits, roundVars, timerVars, mapVars, warmupVars, restartVars, bombVars
    <3>4. CASE LeaveStartgame
      BY <2>7, <3>4, PreroundTyped DEF LeaveStartgame, SetInWarmup, mapVars, warmupVars, restartVars, bombVars
    <3>5. CASE EnterRunning
      BY <2>7, <3>5 DEF EnterRunning, warmupVars, restartVars, bombVars
    <3>6. CASE RunningGoesOn
      BY <2>7, <3>6, ReadyTyped DEF RunningGoesOn, roundVars, timerVars, mapVars, warmupVars, bombVars
    <3>7. CASE TimerWins
      BY <2>7, <3>7, ReadyTyped, WinTyped DEF TimerWins, mapVars, warmupVars, bombVars
    <3>8. CASE PlayersAreGone
      <4>1. CASE roundsWon' = [roundsWon EXCEPT ![TimerWinTeam] = @ + 1] /\ paused' = TRUE
        <5>1. roundsWon' \in [Teams -> Nat]
          BY <4>1
        <5> QED BY <2>7, <3>8, <4>1, <5>1 DEF PlayersAreGone, mapVars, warmupVars, restartVars, bombVars
      <4>2. CASE UNCHANGED <<roundsWon, paused>>
        BY <2>7, <3>8, <4>2 DEF PlayersAreGone, mapVars, warmupVars, restartVars, bombVars
      <4> QED BY <3>8, <4>1, <4>2 DEF PlayersAreGone
    <3>9. CASE Restart
      <4>1. roundsWon' \in [Teams -> Nat]
        BY <3>9 DEF Restart, NoWins
      <4>2. inWarmup' \in BOOLEAN /\ warmupLeft' \in Nat
        BY <3>9 DEF Restart, SetInWarmup
      <4>3. mapLeft' \in Nat /\ changeLevel' \in BOOLEAN
        BY <3>9 DEF Restart, ResetMapTime, RememberWait, WaitsForRound
      <4>4. restart' \in Nat \cup {Never} /\ awaiting' \in BOOLEAN /\ heard' \subseteq Teams
        BY <3>9, ReadyTyped DEF Restart
      <4>5. EnterPreround /\ UNCHANGED nextCheck
        BY <3>9 DEF Restart
      <4>6. step' \in {"events", "checks", "time"} /\ UNCHANGED <<over, active, commands, issued>>
        BY <2>7, <3>9 DEF Restart
      <4>7. /\ state' = "preround" /\ stateLeft' \in Nat /\ initialSpawn' \in BOOLEAN
            /\ timer' \in Nat \cup {Never} /\ paused' \in BOOLEAN /\ added' \in Nat
            /\ planted' \in Nat /\ ticking' \in Nat
        BY <4>5, PreroundTyped
      <4> QED BY <4>1, <4>2, <4>3, <4>4, <4>5, <4>6, <4>7
    <3>10. CASE NextRound
      BY <2>7, <3>10, PreroundTyped DEF NextRound, mapVars, warmupVars, restartVars, bombVars
    <3> QED BY <2>8, <3>1, <3>2, <3>3, <3>4, <3>5, <3>6, <3>7, <3>8, <3>9, <3>10 DEF StateThink
  <2>9. CASE GoToIntermission
    BY <2>9 DEF GoToIntermission, CheckTimeLimit, RememberWait, WaitsForRound,
                timerVars, warmupVars, restartVars, commandVars, bombVars
  <2>10. CASE Checks
    <3>1. restart' \in Nat \cup {Never}
      BY <2>10 DEF Checks, CheckRestart
    <3>2. inWarmup' \in BOOLEAN /\ warmupLeft' \in Nat
      BY <2>10 DEF Checks, CheckWarmup
    <3>3. changeLevel' \in BOOLEAN
      BY <2>10 DEF Checks, CheckTimeLimit, RememberWait, WaitsForRound
    <3>4. awaiting' \in BOOLEAN /\ heard' \subseteq Teams
      BY <2>10 DEF Checks
    <3> QED BY <2>10, <3>1, <3>2, <3>3, <3>4 DEF Checks, roundVars, timerVars, bombVars
  <2>11. CASE NoChecks
    BY <2>11 DEF NoChecks, roundVars, timerVars, mapVars, warmupVars, restartVars, commandVars, frameVars, bombVars
  <2>12. CASE TimePasses
    BY <2>12, ElapseTyped DEF TimePasses, commandVars, frameVars, bombVars
  <2>13. CASE UNCHANGED vars
    BY <2>13 DEF vars, roundVars, timerVars, mapVars, warmupVars, restartVars, commandVars, frameVars, bombVars
  <2> QED BY <2>1, <2>2, <2>3, <2>4, <2>5, <2>6, <2>8, <2>9, <2>10, <2>11, <2>12, <2>13, <2>14, <2>15
          DEF Next, Frame
<1> QED BY <1>1, <1>2, PTL DEF Spec

\* A think of the state leaves the restart alone, except in a running round.
LEMMA ThinkRestarts ==
  ASSUME StateThink
  PROVE  \/ UNCHANGED restartVars
         \/ CheckReady(restart) /\ restart # 0
         \/ CheckReady(Never) /\ restart = 0
BY DEF StateThink, PregameWaits, EnterStartgame, TimedStateWaits, Waits, LeaveStartgame,
       EnterRunning, RunningGoesOn, TimerWins, PlayersAreGone, Restart, NextRound

\* While the teams are waited for no countdown runs, whatever the operator sets
\* in the same second and however the warmup stands.
THEOREM WaitingIsNoCountdown == Spec => []AwaitingExcludesRestart
<1>1. Init => AwaitingExcludesRestart
  BY DEF Init, AwaitingExcludesRestart
<1>2. TypeOK /\ AwaitingExcludesRestart /\ [Next]_vars => AwaitingExcludesRestart'
  <2> SUFFICES ASSUME TypeOK, AwaitingExcludesRestart, [Next]_vars, awaiting' PROVE restart' = Never
    BY DEF AwaitingExcludesRestart
  <2>1. CASE UNCHANGED restartVars
    BY <2>1 DEF AwaitingExcludesRestart, restartVars
  <2>2. CASE StateThink
    <3>1. CASE CheckReady(restart)
      BY <3>1 DEF CheckReady, AllReady, AwaitingExcludesRestart
    <3>2. CASE CheckReady(Never)
      BY <3>2 DEF CheckReady, AllReady
    <3> QED BY <2>1, <2>2, <3>1, <3>2, ThinkRestarts
  <2>3. CASE Checks
    <3>1. ~Asked("restartround") /\ (awaiting \/ Asked("readyrestart"))
      BY <2>3 DEF Checks
    <3>2. CASE Asked("readyrestart")
      BY <2>3, <3>1, <3>2 DEF Checks, CheckRestart
    <3>3. CASE ~Asked("readyrestart")
      BY <2>3, <3>1, <3>3 DEF Checks, CheckRestart, WarmupRestarts, AwaitingExcludesRestart
    <3> QED BY <3>2, <3>3
  <2>4. CASE TimePasses
    BY <2>4 DEF TimePasses, Elapse, Never, AwaitingExcludesRestart
  <2>5. ASSUME NEW t \in Teams, ReadySignal(t) PROVE restart' = Never
    BY <2>5 DEF ReadySignal, AwaitingExcludesRestart
  <2> QED
    BY <2>1, <2>2, <2>3, <2>4, <2>5
    DEF Next, Frame, PlayersComeOrGo, AddTimerSeconds, AskTimeLeft, Objective,
        PlantBomb, BombEnds, SetConsoleVariable, GoToIntermission, NoChecks, vars
<1> QED BY <1>1, <1>2, RoundTypeCorrect, PTL DEF Spec

---------------------------------------------------------------------------
(* The win limit. *)

\* Once a team has the wins, the check of every second comes before the wait the
\* round is in has passed; so it is not in a round.
CheckComesFirst ==
  /\ nextCheck <= Second
  /\ WinLimitReached =>
       /\ state = "pregame" => nextCheck <= 1
       /\ state \notin {"preround", "running"}
       /\ state \in WinStates \cup {"startgame"} => nextCheck < stateLeft
       /\ step = "time" => nextCheck > 0

THEOREM LimitIsChecked == Spec => []CheckComesFirst
<1>1. Init => CheckComesFirst
  <2> SUFFICES ASSUME Init PROVE CheckComesFirst
    OBVIOUS
  <2>1. ~WinLimitReached
    BY RoundAssumption DEF Init, WinLimitReached, NoWins
  <2> QED BY <2>1, RoundAssumption DEF Init, CheckComesFirst
<1>2. TypeOK /\ CheckComesFirst /\ [Next]_vars => CheckComesFirst'
  <2> SUFFICES ASSUME TypeOK, CheckComesFirst, [Next]_vars PROVE CheckComesFirst'
    OBVIOUS
  <2> USE RoundAssumption DEF TypeOK
  <2>1. UNCHANGED roundsWon => (WinLimitReached' <=> WinLimitReached)
    BY DEF WinLimitReached
  <2>2. CASE UNCHANGED <<step, state, stateLeft, roundsWon, nextCheck>>
    BY <2>1, <2>2 DEF CheckComesFirst
  <2>3. ASSUME NEW t \in Teams, SetWinningTeam(t), UNCHANGED nextCheck,
               step' # "time"
        PROVE  CheckComesFirst'
    <3>0. state' \in WinStates /\ stateLeft' = BonusTime
      BY <2>3, WinTyped
    <3>1. state' \in WinStates /\ nextCheck' < stateLeft'
      BY <2>3, <3>0 DEF CheckComesFirst
    <3> QED BY <2>3, <3>1 DEF CheckComesFirst, WinStates
  <2>10. ASSUME NEW S \in SUBSET Teams, BombEnds(S) PROVE CheckComesFirst'
    <3>1. step' # "time" /\ nextCheck' = nextCheck
      BY <2>10 DEF BombEnds, frameVars
    <3>2. CASE S = {}
      BY <2>2, <2>10, <3>1, <3>2 DEF BombEnds, roundVars, frameVars
    <3>3. CASE S # {}
      <4>1. state' \in WinStates /\ stateLeft' = BonusTime
        BY <2>10, <3>3, WinsTyped DEF BombEnds
      <4>2. nextCheck' < stateLeft'
        BY <3>1, <4>1 DEF CheckComesFirst
      <4> QED BY <3>1, <4>1, <4>2 DEF CheckComesFirst, WinStates
    <3> QED BY <3>2, <3>3
  <2>4. CASE StateThink
    <3>0. step' = "checks"
      BY <2>4 DEF StateThink, ThinkIn, PregameWaits, EnterStartgame, TimedStateWaits, LeaveStartgame,
                  EnterRunning, RunningGoesOn, TimerWins, PlayersAreGone, Restart, NextRound
    <3>1. CASE PregameWaits \/ TimedStateWaits \/ RunningGoesOn
      <4>1. UNCHANGED <<state, stateLeft, roundsWon, nextCheck>>
        BY <3>1 DEF PregameWaits, TimedStateWaits, RunningGoesOn, Waits, roundVars
      <4> QED BY <2>1, <3>0, <4>1 DEF CheckComesFirst
    <3>2. CASE EnterStartgame
      BY <2>1, <3>0, <3>2 DEF EnterStartgame, ThinkIn, CheckComesFirst, WinStates
    <3>3. CASE LeaveStartgame \/ NextRound
      <4>0. state \in WinStates \cup {"startgame"} /\ stateLeft = 0
        BY <3>3 DEF LeaveStartgame, NextRound, ThinkIn
      <4>1. ~WinLimitReached
        BY <4>0 DEF CheckComesFirst
      <4>2. state' = "preround" /\ UNCHANGED <<roundsWon, nextCheck>>
        BY <3>3 DEF LeaveStartgame, NextRound, EnterPreround
      <4> QED BY <2>1, <4>1, <4>2 DEF CheckComesFirst
    <3>4. CASE EnterRunning
      BY <2>1, <3>0, <3>4 DEF EnterRunning, ThinkIn, CheckComesFirst
    <3>5. CASE TimerWins
      BY <2>3, <3>0, <3>5 DEF TimerWins
    <3>6. CASE PlayersAreGone
      BY <3>0, <3>6 DEF PlayersAreGone, CheckComesFirst, WinStates
    <3>7. CASE Restart
      <4>1. roundsWon' = NoWins /\ state' = "preround" /\ nextCheck' = nextCheck
        BY <3>7 DEF Restart, EnterPreround
      <4>2. ~WinLimitReached'
        BY <4>1 DEF WinLimitReached, NoWins
      <4> QED BY <4>1, <4>2 DEF CheckComesFirst
    <3> QED BY <2>4, <3>1, <3>2, <3>3, <3>4, <3>5, <3>6, <3>7 DEF StateThink
  <2>5. CASE GoToIntermission
    BY <2>1, <2>5 DEF GoToIntermission, CheckComesFirst, WinStates
  <2>6. CASE Checks
    <3>1. ~WinLimitReached'
      BY <2>1, <2>6 DEF Checks
    <3> QED BY <2>6, <3>1 DEF Checks, CheckComesFirst, roundVars
  <2>7. CASE NoChecks
    BY <2>1, <2>7 DEF NoChecks, CheckComesFirst, roundVars
  <2>8. CASE TimePasses
    <3>1. /\ stateLeft' = IF stateLeft = 0 THEN 0 ELSE stateLeft - 1
          /\ nextCheck' = IF nextCheck = 0 THEN 0 ELSE nextCheck - 1
      BY <2>8, ElapseTyped DEF TimePasses
    <3>2. UNCHANGED <<state, roundsWon>> /\ step = "time" /\ step' = "events"
      BY <2>8 DEF TimePasses
    <3> QED BY <2>1, <2>8, <3>1, <3>2 DEF CheckComesFirst
  <2>9. ASSUME NEW t \in Teams, Objective(t) PROVE CheckComesFirst'
    BY <2>3, <2>9 DEF Objective, Event, frameVars
  <2> QED
    BY <2>2, <2>4, <2>5, <2>6, <2>7, <2>8, <2>9, <2>10
    DEF Next, Frame, PlayersComeOrGo, PlantBomb, AddTimerSeconds, AskTimeLeft, ReadySignal,
        SetConsoleVariable, vars, roundVars, frameVars
<1> QED BY <1>1, <1>2, RoundTypeCorrect, PTL DEF Spec

\* No round is played past the win limit, whatever the limit and the waits, as
\* long as a bonus round is longer than the second between two checks.
THEOREM NoRoundIsPastTheLimit == Spec => []NoRoundPastWinLimit
<1>1. CheckComesFirst /\ TypeOK => NoRoundPastWinLimit
  BY RoundAssumption DEF CheckComesFirst, NoRoundPastWinLimit, WinLimitReached, TypeOK
<1> QED BY <1>1, LimitIsChecked, RoundTypeCorrect, PTL

---------------------------------------------------------------------------
(* The end of the map, and the match. *)

LEMMA WholeSeconds ==
  ASSUME NEW x \in Nat, NEW n \in Nat \ {0}, x \div n <= 0
  PROVE  x < n
OBVIOUS

\* The map never ends by its clock with a second or more of its time left.
THEOREM MapKeepsItsTime == Spec => []MapNotCutShort
<1>1. Init => MapNotCutShort
  BY DEF Init, MapNotCutShort
<1>2. TypeOK /\ MapNotCutShort /\ [Next]_vars => MapNotCutShort'
  <2> SUFFICES ASSUME TypeOK, MapNotCutShort, [Next]_vars, over'
               PROVE  WinLimitReached' \/ mapLeft' < Second
    BY DEF MapNotCutShort
  <2> USE RoundAssumption
  <2>1. UNCHANGED roundsWon => (WinLimitReached' <=> WinLimitReached)
    BY DEF WinLimitReached
  <2>2. CASE GoToIntermission
    <3>1. UNCHANGED <<roundsWon, mapLeft>> /\ (TimeLimitReached \/ WinLimitReached)
      BY <2>2 DEF GoToIntermission
    <3>2. CASE TimeLimitReached
      <4>1. timer # Never /\ mapLeft <= timer => timer \in Nat
        BY DEF TypeOK
      <4>2. CASE WaitsForRound(mapLeft)
        <5>1. timer \in Nat /\ mapLeft <= timer
          BY <4>1, <4>2 DEF WaitsForRound
        <5>2. timer \div Second <= 0
          BY <3>2, <4>2 DEF TimeLimitReached, GetTimeLeft
        <5>3. timer < Second
          BY <5>1, <5>2, WholeSeconds
        <5> QED BY <3>1, <5>1, <5>3 DEF TypeOK
      <4>3. CASE ~WaitsForRound(mapLeft)
        <5>1. mapLeft \div Second <= 0
          BY <3>2, <4>3 DEF TimeLimitReached, GetTimeLeft
        <5> QED BY <3>1, <5>1, WholeSeconds DEF TypeOK
      <4> QED BY <4>2, <4>3
    <3> QED BY <2>1, <3>1, <3>2
  <2>3. CASE UNCHANGED <<over, roundsWon, mapLeft>>
    BY <2>1, <2>3 DEF MapNotCutShort
  <2>4. CASE Frame /\ ~GoToIntermission
    <3>1. ~over /\ over' = over
      BY <2>4
      DEF Frame, StateThink, ThinkIn, PregameWaits, EnterStartgame, TimedStateWaits, LeaveStartgame,
          EnterRunning, RunningGoesOn, TimerWins, PlayersAreGone, Restart, NextRound,
          Checks, NoChecks, TimePasses
    <3> QED BY <3>1
  <2>5. ASSUME NEW S \in SUBSET Teams, SetWinningTeams(S), UNCHANGED <<over, mapLeft>>
        PROVE  WinLimitReached' \/ mapLeft' < Second
    <3>1. \A t \in Teams : roundsWon[t] \in Nat /\ roundsWon'[t] \in Nat /\ roundsWon'[t] >= roundsWon[t]
      BY <2>5 DEF SetWinningTeams, TypeOK
    <3>2. WinLimitReached => WinLimitReached'
      BY <3>1 DEF WinLimitReached
    <3> QED BY <2>5, <3>2 DEF MapNotCutShort
  <2>6. ASSUME NEW S \in SUBSET Teams, BombEnds(S)
        PROVE  WinLimitReached' \/ mapLeft' < Second
    BY <2>3, <2>5, <2>6 DEF BombEnds, frameVars, mapVars
  <2>7. ASSUME NEW t \in Teams, Objective(t) PROVE FALSE
    BY <2>7 DEF Objective, Event, frameVars
  <2> QED
    BY <2>2, <2>3, <2>4, <2>6, <2>7
    DEF Next, PlayersComeOrGo, PlantBomb, AddTimerSeconds, AskTimeLeft, ReadySignal,
        SetConsoleVariable, vars, roundVars, mapVars, frameVars
<1> QED BY <1>1, <1>2, RoundTypeCorrect, PTL DEF Spec

LEMMA PhaseOfStates ==
  /\ over => Phase = "over"
  /\ ~over /\ state = "running" => Phase = "open"
  /\ ~over /\ state # "running" => Phase = "closed"
BY DEF Phase

LEMMA PhaseOfNextStates ==
  /\ over' => Phase' = "over"
  /\ ~over' /\ state' = "running" => Phase' = "open"
  /\ ~over' /\ state' # "running" => Phase' = "closed"
BY DEF Phase

\* What a think of the round never touches
LEMMA ThinkGoesOn ==
  ASSUME StateThink
  PROVE  over' = over
BY DEF StateThink, ThinkIn, PregameWaits, EnterStartgame, TimedStateWaits, LeaveStartgame,
       EnterRunning, RunningGoesOn, TimerWins, PlayersAreGone, Restart, NextRound

\* Nothing ticks in a preround: the map has been cleaned up, and nobody plants.
NoBombInPreround == state = "preround" => ticking = 0

LEMMA PreroundIsClear == Spec => []NoBombInPreround
<1>1. Init => NoBombInPreround
  BY DEF Init, NoBombInPreround
<1>2. TypeOK /\ NoBombInPreround /\ [Next]_vars => NoBombInPreround'
  <2> SUFFICES ASSUME TypeOK, NoBombInPreround, [Next]_vars, state' = "preround" PROVE ticking' = 0
    BY DEF NoBombInPreround
  <2>1. CASE UNCHANGED <<state, ticking>>
    BY <2>1 DEF NoBombInPreround
  <2>2. ASSUME NEW S \in SUBSET Teams, SetWinningTeams(S) PROVE FALSE
    BY <2>2, WinsTyped DEF WinStates
  <2>3. CASE StateThink
    <3>1. ASSUME SetWinningTeam(TimerWinTeam) PROVE FALSE
      BY <2>2, <3>1, RoundAssumption DEF SetWinningTeam
    <3> QED
      BY <2>1, <2>3, <3>1
      DEF StateThink, PregameWaits, EnterStartgame, TimedStateWaits, Waits, LeaveStartgame,
          EnterRunning, RunningGoesOn, TimerWins, PlayersAreGone, Restart, NextRound,
          EnterPreround, roundVars, bombVars
  <2>4. ASSUME NEW S \in SUBSET Teams, BombEnds(S) PROVE ticking' = 0
    <3>1. S = {} /\ state = "preround" /\ ticking > 0
      BY <2>2, <2>4 DEF BombEnds, roundVars
    <3> QED BY <3>1 DEF NoBombInPreround
  <2>5. ASSUME NEW t \in Teams, Objective(t) PROVE FALSE
    BY <2>2, <2>5 DEF Objective, SetWinningTeam
  <2>6. CASE PlantBomb
    BY <2>6 DEF PlantBomb, roundVars
  <2> QED
    BY <2>1, <2>3, <2>4, <2>5, <2>6
    DEF Next, Frame, GoToIntermission, Checks, NoChecks, TimePasses, PlayersComeOrGo,
        AddTimerSeconds, AskTimeLeft, ReadySignal, SetConsoleVariable, vars, roundVars, bombVars
<1> QED BY <1>1, <1>2, RoundTypeCorrect, PTL DEF Spec

\* The round machine is a match: every step of it opens, wins, breaks off,
\* restarts or ends one, cleans up its map, plants or ends one of its bombs, or
\* changes nothing of it.  It opens a round only while the match is undecided and
\* nothing ticks; and whoever wins outside an open round wins by a bomb.
THEOREM RoundsAreAMatch == Spec => ImplementsMatch
<1>1. Init => Match!Init
  BY DEF Init, Match!Init, Phase, NoWins, Match!NoScore
<1>2. TypeOK /\ CheckComesFirst /\ NoBombInPreround /\ [Next]_vars => [Match!Next]_Match!vars
  <2> SUFFICES ASSUME TypeOK, CheckComesFirst, NoBombInPreround, [Next]_vars
               PROVE  Match!Next \/ UNCHANGED <<Phase, roundsWon, ticking>>
    BY DEF Match!vars
  <2>1. CASE UNCHANGED <<over, state, roundsWon, ticking>>
    BY <2>1 DEF Phase
  <2>2. CASE GoToIntermission /\ ~over
    <3>1. over' /\ UNCHANGED <<roundsWon, ticking>>
      BY <2>2 DEF GoToIntermission, bombVars
    <3>2. Match!End
      BY <2>2, <3>1, PhaseOfStates, PhaseOfNextStates DEF Match!End
    <3> QED BY <3>2 DEF Match!Next
  <2>3. ASSUME NEW t \in Teams, SetWinningTeam(t), state = "running", ~over, UNCHANGED <<over, ticking>>
        PROVE  Match!Next
    <3>1. state' # "running" /\ roundsWon' = [roundsWon EXCEPT ![t] = @ + 1]
      BY <2>3, WinTyped DEF WinStates
    <3>2. Match!Win(t)
      BY <2>3, <3>1, PhaseOfStates, PhaseOfNextStates DEF Match!Win
    <3> QED BY <3>2 DEF Match!Next
  <2>4. CASE StateThink /\ ~over
    <3>0. ~over'
      BY <2>4, ThinkGoesOn
    <3>1. CASE PregameWaits \/ TimedStateWaits \/ RunningGoesOn
      <4>1. UNCHANGED <<state, roundsWon, ticking>>
        BY <3>1 DEF PregameWaits, TimedStateWaits, RunningGoesOn, Waits, roundVars, bombVars
      <4>2. over' = over
        BY <2>4, ThinkGoesOn
      <4> QED BY <2>1, <4>1, <4>2
    <3>2. CASE EnterStartgame
      <4>1. state # "running" /\ state' # "running" /\ UNCHANGED <<roundsWon, ticking>>
        BY <3>2 DEF EnterStartgame, ThinkIn, bombVars
      <4> QED BY <2>4, <3>0, <4>1, PhaseOfStates, PhaseOfNextStates
    <3>3. CASE LeaveStartgame \/ NextRound
      <4>1. /\ state # "running" /\ state' # "running"
            /\ UNCHANGED roundsWon /\ ticking' = 0
        BY <3>3 DEF LeaveStartgame, NextRound, ThinkIn, EnterPreround, WinStates
      <4>2. Match!CleanUp
        BY <2>4, <3>0, <4>1, PhaseOfStates, PhaseOfNextStates DEF Match!CleanUp
      <4> QED BY <4>2 DEF Match!Next
    <3>4. CASE EnterRunning
      <4>1. state = "preround" /\ state' = "running" /\ UNCHANGED <<roundsWon, ticking>>
        BY <3>4 DEF EnterRunning, ThinkIn, bombVars
      <4>2. Match!Undecided
        BY <4>1, RoundAssumption DEF CheckComesFirst, WinLimitReached, Match!Undecided, TypeOK
      <4>3. ticking = 0
        BY <4>1 DEF NoBombInPreround
      <4>4. Match!Open
        BY <2>4, <3>0, <4>1, <4>2, <4>3, PhaseOfStates, PhaseOfNextStates DEF Match!Open
      <4> QED BY <4>4 DEF Match!Next
    <3>5. CASE TimerWins
      <4>1. state = "running" /\ UNCHANGED <<over, ticking>> /\ SetWinningTeam(TimerWinTeam)
        BY <3>5 DEF TimerWins, ThinkIn, bombVars
      <4> QED BY <2>3, <2>4, <4>1, RoundAssumption
    <3>6. CASE PlayersAreGone
      <4>1. Phase = "open" /\ Phase' = "closed" /\ UNCHANGED ticking
        BY <2>4, <3>0, <3>6, PhaseOfStates, PhaseOfNextStates DEF PlayersAreGone, ThinkIn, bombVars
      <4>2. Match!Win(TimerWinTeam) \/ Match!BreakOff
        BY <3>6, <4>1 DEF PlayersAreGone, Match!Win, Match!BreakOff
      <4> QED BY <4>2, RoundAssumption DEF Match!Next
    <3>7. CASE Restart
      <4>1. state = "running" /\ state' = "preround" /\ roundsWon' = NoWins /\ ticking' = 0
        BY <3>7 DEF Restart, ThinkIn, EnterPreround
      <4>2. Match!Restart
        BY <2>4, <3>0, <4>1, PhaseOfStates, PhaseOfNextStates DEF NoWins, Match!Restart, Match!NoScore
      <4> QED BY <4>2 DEF Match!Next
    <3> QED BY <2>4, <3>1, <3>2, <3>3, <3>4, <3>5, <3>6, <3>7 DEF StateThink
  <2>5. ASSUME NEW t \in Teams, Objective(t) PROVE Match!Next
    <3>1. state = "running" /\ ~over /\ UNCHANGED <<over, ticking>> /\ SetWinningTeam(t)
      BY <2>5 DEF Objective, ObjectivesCount, Event, frameVars, bombVars
    <3> QED BY <2>3, <3>1
  <2>6. CASE PlantBomb
    <3>1. ~over /\ UNCHANGED <<over, state, roundsWon>> /\ ticking' = ticking + 1
      BY <2>6 DEF PlantBomb, Event, frameVars, roundVars
    <3>2. UNCHANGED Phase /\ Phase # "over"
      BY <3>1 DEF Phase
    <3>3. Match!Plant
      BY <3>1, <3>2 DEF Match!Plant
    <3> QED BY <3>3 DEF Match!Next
  <2>7. ASSUME NEW S \in SUBSET Teams, BombEnds(S) PROVE Match!Next
    <3>1. ticking > 0 /\ ticking' = ticking - 1 /\ over' = over
      BY <2>7 DEF BombEnds, frameVars
    <3>2. CASE S = {}
      <4>1. UNCHANGED <<state, roundsWon>>
        BY <2>7, <3>2 DEF BombEnds, roundVars
      <4>2. UNCHANGED Phase
        BY <3>1, <4>1 DEF Phase
      <4>3. roundsWon' = [t \in Teams |-> IF t \in S THEN roundsWon[t] + 1 ELSE roundsWon[t]]
        BY <3>2, <4>1 DEF TypeOK
      <4>4. Match!BombEnds(S)
        BY <3>1, <3>2, <4>2, <4>3 DEF Match!BombEnds
      <4> QED BY <4>4 DEF Match!Next
    <3>3. CASE S # {}
      <4>1. SetWinningTeams(S)
        BY <2>7, <3>3 DEF BombEnds
      <4>2. state' # "running"
        BY <4>1, WinsTyped DEF WinStates
      <4>3. Phase' = IF Phase = "open" /\ S # {} THEN "closed" ELSE Phase
        BY <3>1, <3>3, <4>2, PhaseOfStates, PhaseOfNextStates
      <4>4. roundsWon' = [t \in Teams |-> IF t \in S THEN roundsWon[t] + 1 ELSE roundsWon[t]]
        BY <4>1 DEF SetWinningTeams
      <4>5. Match!BombEnds(S)
        BY <3>1, <4>3, <4>4 DEF Match!BombEnds
      <4> QED BY <4>5 DEF Match!Next
    <3> QED BY <3>2, <3>3
  <2> QED
    BY <2>1, <2>2, <2>4, <2>5, <2>6, <2>7
    DEF Next, Frame, Checks, NoChecks, TimePasses, PlayersComeOrGo, AddTimerSeconds, AskTimeLeft,
        ReadySignal, SetConsoleVariable, vars, roundVars, frameVars, bombVars
<1> QED BY <1>1, <1>2, RoundTypeCorrect, LimitIsChecked, PreroundIsClear, PTL
        DEF Spec, ImplementsMatch, Match!Spec
=============================================================================
