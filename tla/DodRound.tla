------------------------------ MODULE DodRound ------------------------------
(***************************************************************************)
(* The round states of CDODGameRules and the four clocks that move them:   *)
(* the state's own time, the round timer, the map's time limit, and a      *)
(* restart that an operator, both teams or the end of the warmup ask for.  *)
(* Every frame ends with CDODGameRules::Think, which thinks for the state  *)
(* and, once a second, checks the limits, the restarts and the warmup.     *)
(*                                                                         *)
(* Objectives are seen only by the wins they declare.  Areas and triggers  *)
(* do so in a running round (DodAreaCapture); a bomb, of a target          *)
(* (DodBombTarget) or the C4 (DodPlantedC4), once it is planted, wins when *)
(* it goes off or is defused, in whatever state the round is by then, for  *)
(* SetWinningTeam asks nothing: also in the warmup, in the bonus time of a *)
(* round that is won, and when the game is over.  How long a bomb ticks is *)
(* left open.                                                              *)
(*                                                                         *)
(* Times count down in ticks; 0 is a time that has come.                   *)
(***************************************************************************)
EXTENDS Integers

CONSTANTS
  WinLimit,        \* mp_winlimit
  TimeLimit,       \* mp_timelimit, in ticks
  WarmupTime,      \* mp_warmup_time
  RoundTime,       \* the master's timer length; 0 if it has no timer
  TimerWinTeam,    \* m_iTimerWinTeam
  MaxBombs,        \* bound: the bombs planted between two clean-ups of the map
  AddTime,         \* seconds an input of the map or a bomb adds to the timer
  MaxAdded,        \* bound: how often they do so in a round
  ShortTimer,      \* 120 seconds
  StartTime,       \* 5 seconds of STARTGAME
  FirstPreround,   \* 10 seconds
  PreroundTime,    \* 5 seconds
  BonusTime,       \* MAX( 5, dod_bonusroundtime )
  ReadyDelay,      \* 5 seconds
  Delays,          \* mp_clan_restartround, up to 60 seconds
  Second,          \* ticks of a second, the period of the checks
  Commands,        \* the console variables the operator sets
  MaxCommands      \* bound: how often he does so

Teams == {"allies", "axis"}
Never == -1        \* m_flRestartRoundTime = -1, and a timer that is not there

ASSUME RoundAssumption ==
  /\ WinLimit \in Nat /\ TimeLimit \in Nat /\ WarmupTime \in Nat /\ RoundTime \in Nat
  /\ TimerWinTeam \in Teams /\ MaxBombs \in Nat
  /\ AddTime \in Nat /\ MaxAdded \in Nat /\ ShortTimer \in Nat
  /\ Second \in Nat \ {0}
  /\ StartTime \in Nat /\ FirstPreround \in Nat /\ PreroundTime \in Nat
  /\ BonusTime \in Nat /\ ReadyDelay \in Nat /\ Delays \subseteq Nat \ {0}
  /\ Second < BonusTime /\ 1 < StartTime
  /\ Commands \subseteq {"readyrestart", "restartround", "restartwarmup", "cancelwarmup"}
  /\ MaxCommands \in Nat

VARIABLES
  step,          \* where the frame is: "events" (and then State_Think), "checks", "time"
  state,         \* m_iRoundState
  over,          \* g_fGameOver
  stateLeft,     \* m_flStateTransitionTime
  initialSpawn,  \* m_bInitialSpawn
  active,        \* CountActivePlayers() > 0
  roundsWon,     \* m_iRoundsWon of every team
  planted,       \* bombs planted since the map was last cleaned up
  ticking,       \* those of them that have neither gone off nor been defused
  timer,         \* GetTimeRemaining() of m_pRoundTimer
  paused,        \* m_bTimerPaused
  added,         \* how often time has been added in this round
  mapLeft,       \* what is left of the map's time
  changeLevel,   \* m_bChangeLevelOnRoundEnd
  nextCheck,     \* m_flNextPeriodicThink
  inWarmup,      \* m_bInWarmup
  warmupLeft,    \* m_flWarmupTimeEnds
  restart,       \* m_flRestartRoundTime
  awaiting,      \* m_bAwaitingReadyRestart
  heard,         \* m_bHeardAlliesReady, m_bHeardAxisReady
  commands,      \* console variables set and not yet seen
  issued         \* how many have been set

frameVars   == <<step, over>>
bombVars    == <<planted, ticking>>
roundVars   == <<state, stateLeft, initialSpawn>>
timerVars   == <<timer, paused, added>>
mapVars     == <<mapLeft, changeLevel>>
warmupVars  == <<inWarmup, warmupLeft>>
restartVars == <<restart, awaiting, heard>>
commandVars == <<commands, issued>>
vars == <<frameVars, roundVars, bombVars, active, roundsWon, timerVars, mapVars, nextCheck,
          warmupVars, restartVars, commandVars>>

NoWins == [t \in Teams |-> 0]
WinState(t) == IF t = "allies" THEN "allies_win" ELSE "axis_win"
WinStates   == {"allies_win", "axis_win"}

---------------------------------------------------------------------------
(* Clocks. *)

\* mutant: a clock goes on below its end
ElapsePastEnd(t) == t - 1

Elapse(t) == IF t <= 0 THEN t ELSE t - 1

\* mutant: a round timer with less time than the map is taken for the longer
WaitsForAnyRound(map) == timer # Never /\ (changeLevel \/ timer < ShortTimer)

\* CDODGameRules::GetTimeLeft: "if the round timer is longer, let the round
\* complete", when it is short or has been waited for once in this round.
WaitsForRound(map) ==
  /\ timer # Never /\ map <= timer
  /\ changeLevel \/ timer < ShortTimer

\* In whole seconds, as the code's conversion to int has it
GetTimeLeft == (IF WaitsForRound(mapLeft) THEN timer ELSE mapLeft) \div Second

RememberWait(map) ==
  changeLevel' = IF timer = Never THEN changeLevel ELSE WaitsForRound(map)

\* It tells the clients the time left, and with that may set the flag.
ResetMapTime ==
  /\ mapLeft' = TimeLimit
  /\ RememberWait(TimeLimit)
---------------------------------------------------------------------------
(* Between two thinks: players, objectives, the map and the operator. *)

Event == step = "events" /\ ~over

PlayersComeOrGo ==
  /\ Event
  /\ active' = ~active
  /\ UNCHANGED <<frameVars, roundVars, bombVars, roundsWon, timerVars, mapVars, nextCheck,
                 warmupVars, restartVars, commandVars>>

\* SetWinningTeam of every team of S, of the allies last; in any state of the round
SetWinningTeams(S) ==
  /\ roundsWon' = [t \in Teams |-> IF t \in S THEN roundsWon[t] + 1 ELSE roundsWon[t]]
  /\ state' = WinState(IF "allies" \in S THEN "allies" ELSE "axis")
  /\ stateLeft' = BonusTime
  /\ paused' = TRUE
  /\ UNCHANGED <<initialSpawn, timer, added>>

SetWinningTeam(t) == SetWinningTeams({t})

\* What areas and triggers ask before a point changes hands and a team may win by
\* it: CControlPoint::SetOwner and InputSetOwner.  The master's own think finds no
\* win that they, or a bomb, have not declared.
ObjectivesCount == state = "running" /\ ~inWarmup

Objective(t) ==
  /\ Event /\ ObjectivesCount
  /\ SetWinningTeam(t)
  /\ UNCHANGED <<frameVars, bombVars, active, mapVars, nextCheck, warmupVars,
                 restartVars, commandVars>>

\* Somebody completes a plant.  In the preround the map has just been cleaned up
\* and the players are frozen.
PlantBomb ==
  /\ Event /\ active /\ state # "preround" /\ planted < MaxBombs
  /\ planted' = planted + 1
  /\ ticking' = ticking + 1
  /\ UNCHANGED <<frameVars, roundVars, active, roundsWon, timerVars, mapVars, nextCheck,
                 warmupVars, restartVars, commandVars>>

\* A bomb goes off or is defused, and S wins by it: nobody if it was not the last
\* its point takes; both teams if the C4 goes off in the think that completes its
\* defuse.  Bombs think on when the game is over.
BombEnds(S) ==
  /\ step = "events" /\ ticking > 0
  /\ ticking' = ticking - 1
  /\ IF S = {} THEN UNCHANGED <<roundVars, roundsWon, timerVars>> ELSE SetWinningTeams(S)
  /\ UNCHANGED <<frameVars, planted, active, mapVars, nextCheck, warmupVars,
                 restartVars, commandVars>>

\* A timer that is past its end, as in overtime, may need some of the time to get
\* back to it.
AddTimerSeconds ==
  /\ Event /\ timer # Never /\ AddTime > 0 /\ added < MaxAdded
  /\ timer' \in IF timer = 0 THEN 0 .. AddTime ELSE {timer + AddTime}
  /\ added' = added + 1
  /\ UNCHANGED <<frameVars, roundVars, bombVars, active, roundsWon, paused, mapVars, nextCheck,
                 warmupVars, restartVars, commandVars>>

\* A player asks for the time left, in the chat or on his console.
AskTimeLeft ==
  /\ Event /\ TimeLimit > 0
  /\ RememberWait(mapLeft)
  /\ UNCHANGED <<frameVars, roundVars, bombVars, active, roundsWon, timerVars, mapLeft, nextCheck,
                 warmupVars, restartVars, commandVars>>

\* CheckChatForReadySignal
ReadySignal(t) ==
  /\ Event /\ awaiting
  /\ heard' = heard \cup {t}
  /\ UNCHANGED <<frameVars, roundVars, bombVars, active, roundsWon, timerVars, mapVars, nextCheck,
                 warmupVars, restart, awaiting, commandVars>>

SetConsoleVariable(c) ==
  /\ Event /\ issued < MaxCommands
  /\ commands' = commands \cup {c}
  /\ issued' = issued + 1
  /\ UNCHANGED <<frameVars, roundVars, bombVars, active, roundsWon, timerVars, mapVars, nextCheck,
                 warmupVars, restartVars>>
---------------------------------------------------------------------------
(* CDODGameRules::State_Think. *)

ThinkIn(s) ==
  /\ step = "events" /\ state = s
  /\ step' = "checks"
  /\ UNCHANGED <<over, active, commandVars>>

Waits ==
  UNCHANGED <<roundVars, bombVars, roundsWon, timerVars, mapVars, nextCheck,
              warmupVars, restartVars>>

PregameWaits == ThinkIn("pregame") /\ ~active /\ Waits

EnterStartgame ==
  /\ ThinkIn("pregame") /\ active
  /\ state' = "startgame"
  /\ stateLeft' = StartTime
  /\ initialSpawn' = TRUE
  /\ UNCHANGED <<bombVars, roundsWon, timerVars, mapVars, nextCheck, warmupVars, restartVars>>

TimedStateWaits ==
  /\ \E s \in {"startgame", "preround"} \cup WinStates : ThinkIn(s)
  /\ stateLeft > 0
  /\ Waits

\* mutant: the bombs of the last round tick on
EnterPreroundKeepsBombs ==
  /\ state' = "preround"
  /\ stateLeft' = IF initialSpawn THEN FirstPreround ELSE PreroundTime
  /\ initialSpawn' = FALSE
  /\ timer' = IF RoundTime > 0 THEN RoundTime ELSE Never
  /\ paused' = TRUE
  /\ added' = 0
  /\ planted' = 0 /\ ticking' = ticking

\* State_Enter_PREROUND: a new, paused round timer, if the map uses one, and
\* CleanUpMap, which removes the bombs
EnterPreround ==
  /\ state' = "preround"
  /\ stateLeft' = IF initialSpawn THEN FirstPreround ELSE PreroundTime
  /\ initialSpawn' = FALSE
  /\ timer' = IF RoundTime > 0 THEN RoundTime ELSE Never
  /\ paused' = TRUE
  /\ added' = 0
  /\ planted' = 0 /\ ticking' = 0

\* SetInWarmup does nothing when it is told what is so already.
SetInWarmup(b) ==
  /\ inWarmup' = b
  /\ warmupLeft' = IF b = inWarmup THEN warmupLeft ELSE IF b THEN WarmupTime ELSE 0

LeaveStartgame ==
  /\ ThinkIn("startgame") /\ stateLeft = 0
  /\ IF WarmupTime > 0 THEN SetInWarmup(TRUE) ELSE UNCHANGED warmupVars
  /\ EnterPreround
  /\ UNCHANGED <<roundsWon, mapVars, nextCheck, restartVars>>

\* State_Enter_RND_RUNNING
EnterRunning ==
  /\ ThinkIn("preround") /\ stateLeft = 0
  /\ state' = "running"
  /\ paused' = FALSE
  /\ changeLevel' = FALSE
  /\ UNCHANGED <<stateLeft, initialSpawn, bombVars, roundsWon, timer, added, mapLeft,
                 nextCheck, warmupVars, restartVars>>

\* "Check ready restart": both teams have said so.
AllReady == awaiting /\ heard = Teams

\* mutant: the teams stay ready
CheckReadyAgain(r) ==
  /\ restart' = IF AllReady THEN ReadyDelay ELSE r
  /\ UNCHANGED <<awaiting, heard>>

CheckReady(r) ==
  /\ restart' = IF AllReady THEN ReadyDelay ELSE r
  /\ awaiting' = (awaiting /\ ~AllReady)
  /\ UNCHANGED heard

\* State_Think_RND_RUNNING: the timer, the players, a restart, the ready teams.  A
\* bomb that may win or add time holds back a timer that has run out.
RunningGoesOn ==
  /\ ThinkIn("running") /\ active /\ restart # 0
  /\ timer = 0 => ticking > 0
  /\ CheckReady(restart)
  /\ UNCHANGED <<roundVars, bombVars, roundsWon, timerVars, mapVars, nextCheck, warmupVars>>

TimerWins ==
  /\ ThinkIn("running") /\ active /\ restart # 0
  /\ timer = 0
  /\ SetWinningTeam(TimerWinTeam)
  /\ CheckReady(restart)
  /\ UNCHANGED <<bombVars, mapVars, nextCheck, warmupVars>>

\* "If we don't find any active players, return to STATE_PREGAME", whether or not
\* the timer has just won the round.
PlayersAreGone ==
  /\ ThinkIn("running") /\ ~active
  /\ state' = "pregame"
  /\ nextCheck' = 1
  /\ \/ /\ timer = 0
        /\ roundsWon' = [roundsWon EXCEPT ![TimerWinTeam] = @ + 1]
        /\ paused' = TRUE
     \/ /\ timer = 0 => ticking > 0
        /\ UNCHANGED <<roundsWon, paused>>
  /\ UNCHANGED <<stateLeft, initialSpawn, bombVars, timer, added, mapVars, warmupVars,
                 restartVars>>

\* mutant: the restart leaves the warmup on
RestartInWarmup ==
  /\ ThinkIn("running") /\ active /\ restart = 0
  /\ roundsWon' = NoWins
  /\ ResetMapTime
  /\ EnterPreround
  /\ CheckReady(Never)
  /\ UNCHANGED <<nextCheck, warmupVars>>

\* STATE_RESTART.  A win on the timer in the same think is lost with the scores.
Restart ==
  /\ ThinkIn("running") /\ active /\ restart = 0
  /\ roundsWon' = NoWins
  /\ SetInWarmup(FALSE)
  /\ ResetMapTime
  /\ EnterPreround
  /\ CheckReady(Never)
  /\ UNCHANGED nextCheck

NextRound ==
  /\ \E s \in WinStates : ThinkIn(s)
  /\ stateLeft = 0
  /\ EnterPreround
  /\ UNCHANGED <<roundsWon, mapVars, nextCheck, warmupVars, restartVars>>

StateThink ==
  \/ PregameWaits \/ EnterStartgame \/ TimedStateWaits \/ LeaveStartgame \/ EnterRunning
  \/ RunningGoesOn \/ TimerWins \/ PlayersAreGone \/ Restart \/ NextRound
---------------------------------------------------------------------------
(* The checks of every second. *)

\* mutant: off by one, so that no time left is not enough
TimeLimitPassed == TimeLimit > 0 /\ GetTimeLeft < 0

TimeLimitReached == TimeLimit > 0 /\ GetTimeLeft <= 0

\* mutant: one win too many
WinLimitPassed == WinLimit > 0 /\ \E t \in Teams : roundsWon[t] > WinLimit

WinLimitReached == WinLimit > 0 /\ \E t \in Teams : roundsWon[t] >= WinLimit

CheckTimeLimit == IF TimeLimit > 0 THEN RememberWait(mapLeft) ELSE UNCHANGED changeLevel

\* CheckTimeLimit or CheckWinLimit: GoToIntermission
GoToIntermission ==
  /\ step = "checks" /\ nextCheck = 0
  /\ TimeLimitReached \/ WinLimitReached
  /\ over' = TRUE /\ step' = "events"
  /\ state' = "game_over"
  /\ CheckTimeLimit
  /\ UNCHANGED <<stateLeft, initialSpawn, bombVars, active, roundsWon, timerVars, mapLeft,
                 nextCheck, warmupVars, restartVars, commandVars>>

Asked(c) == c \in commands

\* mutant: the warmup does not wait for the teams
WarmupRestartsAnyway ==
  /\ inWarmup /\ warmupLeft = 0 /\ restart = Never
  /\ ~Asked("restartwarmup") /\ ~Asked("cancelwarmup")

\* CheckWarmup: "only exit the warmup if the time is up, and we are not in a round
\* restart countdown already, and we are not waiting for a ready restart".
WarmupRestarts ==
  /\ inWarmup /\ warmupLeft = 0 /\ restart = Never /\ ~awaiting
  /\ ~Asked("restartwarmup") /\ ~Asked("cancelwarmup")

\* What CheckRestartRound and then CheckWarmup make of the restart
CheckRestart ==
  \/ Asked("restartround") /\ restart' \in Delays
  \/ ~Asked("restartround") /\ Asked("readyrestart") /\ restart' = Never
  \/ /\ ~Asked("restartround") /\ ~Asked("readyrestart")
     /\ restart' = IF WarmupRestarts THEN 0 ELSE restart

CheckWarmup ==
  /\ inWarmup' = ((inWarmup \/ Asked("restartwarmup")) /\ ~Asked("cancelwarmup"))
  /\ warmupLeft' = IF Asked("cancelwarmup") THEN 0
                   ELSE IF Asked("restartwarmup") THEN WarmupTime ELSE warmupLeft

Checks ==
  /\ step = "checks" /\ nextCheck = 0
  /\ ~TimeLimitReached /\ ~WinLimitReached
  /\ CheckTimeLimit
  /\ CheckRestart
  /\ awaiting' = ((awaiting \/ Asked("readyrestart")) /\ ~Asked("restartround"))
  /\ heard' = IF Asked("readyrestart") THEN {} ELSE heard
  /\ CheckWarmup
  /\ commands' = {}
  /\ nextCheck' = Second
  /\ step' = "time"
  /\ UNCHANGED <<over, roundVars, bombVars, active, roundsWon, timerVars, mapLeft, issued>>

NoChecks ==
  /\ step = "checks" /\ nextCheck > 0
  /\ step' = "time"
  /\ UNCHANGED <<over, roundVars, bombVars, active, roundsWon, timerVars, mapVars, nextCheck,
                 warmupVars, restartVars, commandVars>>

TimePasses ==
  /\ step = "time"
  /\ step' = "events"
  /\ stateLeft' = Elapse(stateLeft)
  /\ timer' = IF paused THEN timer ELSE Elapse(timer)
  /\ mapLeft' = Elapse(mapLeft)
  /\ nextCheck' = Elapse(nextCheck)
  /\ warmupLeft' = Elapse(warmupLeft)
  /\ restart' = Elapse(restart)
  /\ UNCHANGED <<over, state, initialSpawn, bombVars, active, roundsWon, paused, added,
                 changeLevel, inWarmup, awaiting, heard, commandVars>>

\* Once the game is over, Think does nothing any more but change the level.
Frame ==
  /\ ~over
  /\ StateThink \/ GoToIntermission \/ Checks \/ NoChecks \/ TimePasses
---------------------------------------------------------------------------
\* The game rules are created in PREGAME, with the map.
Init ==
  /\ step = "events"
  /\ over = FALSE
  /\ state = "pregame" /\ stateLeft = 0 /\ initialSpawn = FALSE
  /\ planted = 0 /\ ticking = 0
  /\ active = FALSE
  /\ roundsWon = NoWins
  /\ timer = Never /\ paused = TRUE /\ added = 0
  /\ mapLeft = TimeLimit /\ changeLevel = FALSE
  /\ nextCheck = 1
  /\ inWarmup = FALSE /\ warmupLeft = 0
  /\ restart = Never /\ awaiting = FALSE /\ heard = {}
  /\ commands = {} /\ issued = 0

Next ==
  \/ Frame
  \/ PlayersComeOrGo \/ PlantBomb \/ AddTimerSeconds \/ AskTimeLeft
  \/ \E S \in SUBSET Teams : BombEnds(S)
  \/ \E t \in Teams : Objective(t) \/ ReadySignal(t)
  \/ \E c \in Commands : SetConsoleVariable(c)

\* The server runs its frames; nobody has to play, to be ready or to ask, and no
\* bomb has to end.
Spec == Init /\ [][Next]_vars /\ WF_vars(Frame)

---------------------------------------------------------------------------
(* What is checked. *)

TypeOK ==
  /\ step \in {"events", "checks", "time"} /\ over \in BOOLEAN
  /\ state \in {"pregame", "startgame", "preround", "running", "game_over"} \cup WinStates
  /\ planted \in Nat /\ ticking \in Nat
  /\ stateLeft \in Nat /\ initialSpawn \in BOOLEAN /\ active \in BOOLEAN
  /\ roundsWon \in [Teams -> Nat]
  /\ timer \in Nat \cup {Never} /\ paused \in BOOLEAN /\ added \in Nat
  /\ mapLeft \in Nat /\ changeLevel \in BOOLEAN
  /\ nextCheck \in Nat
  /\ inWarmup \in BOOLEAN /\ warmupLeft \in Nat
  /\ restart \in Nat \cup {Never} /\ awaiting \in BOOLEAN /\ heard \subseteq Teams
  /\ commands \subseteq Commands /\ issued \in Nat

\* A round never begins, nor goes on, once a team has the wins that end the map,
\* although the limit is looked at only once a second and a round is won, left
\* and begun at other times.
NoRoundPastWinLimit ==
  WinLimit > 0 /\ state \in {"preround", "running"} =>
    \A t \in Teams : roundsWon[t] < WinLimit

\* The three ways to a restart exclude each other: while the teams are waited
\* for, no countdown of an operator's restart or of the warmup runs.
AwaitingExcludesRestart == awaiting => restart = Never

\* The map ends by its clock only when its time is up, in whole seconds: the
\* round timer may put the end off but never bring it forward, whatever round
\* the flag m_bChangeLevelOnRoundEnd is left over from.
MapNotCutShort ==
  over => WinLimitReached \/ mapLeft < Second

\* Rounds, limits, restarts and bombs together keep the promise of a match: what
\* is won after a round is decided, or in no round at all, is won by a bomb that
\* was planted since the map was last cleaned up, once for each such bomb; and no
\* bomb is carried from one round into the next.
Phase == CASE over                        -> "over"
           [] ~over /\ state = "running"  -> "open"
           [] ~over /\ state # "running"  -> "closed"

Match == INSTANCE DodMatch WITH phase <- Phase, score <- roundsWon, bombs <- ticking

ImplementsMatch == Match!Spec

\* A restart that is counting down, or that both teams are ready for, comes or is
\* called off, as long as somebody plays; no round and no warmup holds it up.
RestartPending == restart # Never \/ AllReady
RestartComes ==
  RestartPending ~> (~RestartPending \/ ~active \/ commands # {} \/ over)

\* A warmup ends, unless the teams are waited for or nobody plays.
WarmupEnds ==
  inWarmup ~> (~inWarmup \/ awaiting \/ ~active \/ commands # {} \/ over)

\* A map whose time is up ends, unless a restart gives it new time.
MapEnds ==
  (TimeLimit > 0 /\ mapLeft = 0) ~> (over \/ mapLeft > 0)
=============================================================================
