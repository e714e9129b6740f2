------------------------- MODULE DodControlPoints -------------------------
(***************************************************************************)
(* The control points of a Day of Defeat map (CControlPoint), the master   *)
(* that watches them for a win (CControlPointMaster), the part of the game *)
(* rules a win goes through (CDODGameRules::SetWinningTeam and the round   *)
(* states), and the copy of the owners that every client sees              *)
(* (CDODObjectiveResource).                                                *)
(*                                                                         *)
(* The modules of the objectives (DodAreaCapture, DodBombTarget) extend    *)
(* this one: a capture area and a bomb change owners only through the      *)
(* operators below.  One master is active, as the code asks of a map       *)
(* ("Only one cpm should ever be active at the same time").                *)
(***************************************************************************)
EXTENDS DodPoints

WinState(t) == IF t = "allies" THEN "allies_win" ELSE "axis_win"
WinStates   == {"allies_win", "axis_win"}
RoundStates == {"preround", "running"} \cup WinStates

VARIABLES
  roundState,   \* m_iRoundState
  inWarmup,     \* m_bInWarmup
  wins,         \* rounds credited to each team (IncrementRoundsWon) since the round began
  owner,        \* m_iTeam of every CControlPoint
  resOwner,     \* CDODObjectiveResource::m_iOwner
  capping       \* CDODObjectiveResource::m_iCappingTeam

roundVars == <<roundState, inWarmup, wins>>
pointVars == <<owner, resOwner, capping>>

---------------------------------------------------------------------------
(* What the objectives do to the points. *)

\* The code has no test of the current round state here: every call counts.
SetWinningTeam(t) ==
  /\ wins' = [wins EXCEPT ![t] = @ + 1]
  /\ roundState' = WinState(t)

\* CheckWinConditions on the owners as they are after the change.
CheckWinConditions(own) ==
  LET t == TeamOwnsAllPoints(own)
  IN  IF t \in Teams THEN SetWinningTeam(t) ELSE UNCHANGED <<wins, roundState>>

\* mutant: the win is checked before the owner has changed
InternalSetOwnerChecksFirst(p, t) ==
  /\ owner' = [owner EXCEPT ![p] = t]
  /\ CheckWinConditions(owner)

InternalSetOwner(p, t) ==
  /\ owner' = [owner EXCEPT ![p] = t]
  /\ CheckWinConditions(owner')

\* mutants: one half of the test each
CapsAllowedInAnyState == ~inWarmup
CapsAllowedInWarmup   == roundState = "running"

\* "Only allow cp caps when round is running ( but not when in warmup )"
CapsAllowed == roundState = "running" /\ ~inWarmup

\* mutant: no test of the round
SetOwnerAlways(p, t) == InternalSetOwner(p, t)

\* CControlPoint::SetOwner, without its copy to the objective resource: each
\* caller has said what it writes there.
SetOwner(p, t) ==
  IF CapsAllowed THEN InternalSetOwner(p, t) ELSE UNCHANGED <<owner, wins, roundState>>

\* CDODObjectiveResource::SetOwningTeam also clears the capper.
SetOwningTeam(p, t) ==
  /\ resOwner' = [resOwner EXCEPT ![p] = t]
  /\ capping'  = [capping EXCEPT ![p] = NoTeam]

\* InputSetOwner, the input by which a map's own triggers make a player take
\* a point without a capture area.
InputSetOwner(p, t) ==
  /\ CapsAllowed
  /\ InternalSetOwner(p, t)
  /\ SetOwningTeam(p, t)
  /\ UNCHANGED inWarmup

---------------------------------------------------------------------------
(* The round around them. *)

PointsInit ==
  /\ roundState = "preround"
  /\ inWarmup \in BOOLEAN
  /\ wins = [t \in Teams |-> 0]
  /\ owner = DefaultOwner
  /\ resOwner = DefaultOwner
  /\ capping = [p \in Points |-> NoTeam]

\* State_Think_PREROUND, once its time has passed
StartRound ==
  /\ roundState = "preround"
  /\ roundState' = "running"
  /\ UNCHANGED <<inWarmup, wins, pointVars>>

\* State_Think_RND_RUNNING with no time left on the round timer
TimerExpires ==
  /\ roundState = "running"
  /\ SetWinningTeam(TimerWinTeam)
  /\ UNCHANGED <<inWarmup, pointVars>>

\* mutant: the clients keep the owners of the last round
NewRoundKeepsResource ==
  /\ roundState \in WinStates \cup {"running"}
  /\ inWarmup' = inWarmup
  /\ roundState' = "preround"
  /\ wins' = [t \in Teams |-> 0]
  /\ owner' = DefaultOwner
  /\ UNCHANGED <<resOwner, capping>>

\* mutant: the points keep their owners
NewRoundKeepsOwners ==
  /\ roundState \in WinStates \cup {"running"}
  /\ inWarmup' = inWarmup
  /\ roundState' = "preround"
  /\ wins' = [t \in Teams |-> 0]
  /\ UNCHANGED pointVars

\* State_Enter_PREROUND: CleanUpMap removes the points, the areas and the bomb
\* targets and loads them again from the map, and RoundInit tells the clients.
\* It follows a win; or a restart, which ends the warmup (State_Enter_RESTART);
\* or the players' return to an empty server, which may begin one (STARTGAME).
NewRound ==
  /\ roundState \in WinStates \cup {"running"}
  /\ inWarmup' \in IF roundState = "running" THEN BOOLEAN ELSE {inWarmup}
  /\ roundState' = "preround"
  /\ wins' = [t \in Teams |-> 0]
  /\ owner' = DefaultOwner
  /\ resOwner' = DefaultOwner
  /\ capping' = [p \in Points |-> NoTeam]

\* CheckWarmup: the server operator starts or cancels a warmup at any time.
SetInWarmup(b) ==
  /\ inWarmup # b
  /\ inWarmup' = b
  /\ UNCHANGED <<roundState, wins, pointVars>>

PointsTypeOK ==
  /\ roundState \in RoundStates
  /\ inWarmup \in BOOLEAN
  /\ wins \in [Teams -> Nat]
  /\ owner \in [Points -> Owners]
  /\ resOwner \in [Points -> Owners]
  /\ capping \in [Points -> Owners]
===========================================================================
