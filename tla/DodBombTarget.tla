--------------------------- MODULE DodBombTarget ---------------------------
(***************************************************************************)
(* CDODBombTarget: a place where one team plants a bomb that, 20 seconds   *)
(* later, takes a control point (or the last of its bombs does), unless a  *)
(* defender keeps using it for 3 seconds.  A bomb meets the round in both  *)
(* directions: an armed bomb that may still win, or add time, holds back   *)
(* the round timer, and a bomb that goes off may win the round.            *)
(*                                                                         *)
(* Each target thinks every 0.1 s (Think); its times are counted in its    *)
(* thinks.  The players' uses and attacks, their deaths, the map's inputs  *)
(* and the round come in any order between thinks.  Where players stand    *)
(* and look is their own choice at each use and at each think.             *)
(***************************************************************************)
EXTENDS DodControlPoints

CONSTANTS
  Players,
  PlayerTeam,     \* GetTeamNumber() of every player
  Leavers,        \* the players who may disconnect
  Targets,
  PointOf,        \* GetControlPoint() of every target
  BombingTeam,    \* m_iBombingTeam of every target
  AddsTime,       \* the targets with m_iTimerAddSeconds > 0
  Switched,       \* the targets that inputs of the map enable and disable
  BombsRequired,  \* m_iBombsRequired of every point
  BombTime,       \* DOD_BOMB_TIMER_LENGTH, in thinks
  DefuseTime,     \* DOD_BOMB_DEFUSE_TIME, in thinks
  UseTimeout,     \* 0.2 seconds, in thinks
  NoTarget,       \* a null handle
  MaxExtraBombs   \* bound: the map stops enabling a target after so many explosions too many

ASSUME BombAssumption ==
  /\ PlayerTeam \in [Players -> Teams]
  /\ Leavers \subseteq Players
  /\ PointOf \in [Targets -> Points]
  /\ BombingTeam \in [Targets -> Teams]   \* unassigned only "if we are debug"
  /\ AddsTime \subseteq Targets
  /\ Switched \subseteq Targets
  /\ BombsRequired \in [Points -> Nat]
  /\ UseTimeout \in Nat \ {0} /\ DefuseTime \in Nat /\ BombTime \in Nat
  /\ UseTimeout <= DefuseTime /\ DefuseTime < BombTime
  /\ MaxExtraBombs \in Nat
  /\ NoTarget \notin Targets \cup {"none", "held"}
  /\ IsFiniteSet(Targets) /\ Targets \cap {"none", "held"} = {}

VARIABLES
  life,           \* of every player: "alive", "dead", or "gone" from the server
  bomb,           \* his weapon_basebomb: "none", "held", or the target he is planting at
  defusing,       \* his m_pDefuseTarget, set just when m_bIsDefusing is
  state,          \* m_iState of every target
  fuse,           \* m_flExplodeTime of every target: thinks to go while it is armed, else -1
  defusers,       \* m_DefusingPlayers of every target: each player's record
  kept,           \* history: the players InputDisable has left on the list of every target
  bombPlanted,    \* m_bBombPlanted of every point and its copy for the clients
  remaining,      \* m_iBombsRemaining of every point and its copy for the clients
  beingDefused,   \* CDODObjectiveResource::m_bBombBeingDefused of every point
  timeUp          \* CDODRoundTimer::GetTimeRemaining() <= 0

playerVars == <<life, bomb, defusing>>
targetVars == <<state, fuse, defusers, kept>>
cpBombVars == <<bombPlanted, remaining, beingDefused>>
vars == <<roundVars, pointVars, playerVars, targetVars, cpBombVars, timeUp>>

\* A record of m_DefusingPlayers: thinks until the defuse is complete, and
\* until the player counts as having let go of +use; -1 once past.
NoRecord == [left |-> -2, use |-> -2]
NewRecord == [left |-> DefuseTime, use |-> UseTimeout]
Defusers(b) == {p \in Players : defusers[b][p] # NoRecord}

\* mutant: the count goes on below its end
ElapsePastEnd(t) == t - 1

Past(t) == t < 0
Elapse(t) == IF Past(t) THEN t ELSE t - 1
Age(r) == [left |-> Elapse(r.left), use |-> Elapse(r.use)]
Running == roundState = "running"
---------------------------------------------------------------------------
(* Players. *)

\* CDODGameMovement::SetPlayerSpeed freezes everybody in the preround, where he
\* has spawned: no map spawns its players beside a dispenser or a target.
Frozen == roundState = "preround"

\* CDODBombDispenser::Touch; a dispenser serves a team that has somewhere to plant.
TakeBomb(p) ==
  /\ life[p] = "alive" /\ bomb[p] = "none" /\ ~Frozen
  /\ \E b \in Targets : BombingTeam[b] = PlayerTeam[p]
  /\ bomb' = [bomb EXCEPT ![p] = "held"]
  /\ UNCHANGED <<roundVars, pointVars, life, defusing, targetVars, cpBombVars, timeUp>>

CanPlantHere(p, b) == state[b] = "active" /\ PlayerTeam[p] = BombingTeam[b]

\* PrimaryAttack, or the +use that ends in it, next to a target
StartPlanting(p, b) ==
  /\ life[p] = "alive" /\ bomb[p] = "held" /\ ~Frozen
  /\ CanPlantHere(p, b)
  /\ bomb' = [bomb EXCEPT ![p] = b]
  /\ UNCHANGED <<roundVars, pointVars, life, defusing, targetVars, cpBombVars, timeUp>>

\* He lets go, turns or walks away, puts the bomb away, or the target is no
\* longer one to plant at.
CancelPlanting(p) ==
  /\ life[p] = "alive" /\ bomb[p] \in Targets
  /\ bomb' = [bomb EXCEPT ![p] = "held"]
  /\ UNCHANGED <<roundVars, pointVars, life, defusing, targetVars, cpBombVars, timeUp>>

\* PrimaryAttack while planting asks the target again, and some frame after
\* DOD_BOMB_PLANT_TIME it completes the plant: State_Enter_ARMED.  A point told of
\* a second bomb changes nothing ("only supports one bomb being planted at once").
CompletePlant(p, b) ==
  /\ life[p] = "alive" /\ bomb[p] = b
  /\ CanPlantHere(p, b)
  /\ bomb' = [bomb EXCEPT ![p] = "none"]
  /\ state' = [state EXCEPT ![b] = "armed"]
  /\ fuse' = [fuse EXCEPT ![b] = BombTime]
  /\ bombPlanted' = [bombPlanted EXCEPT ![PointOf[b]] = TRUE]
  /\ UNCHANGED <<roundVars, pointVars, life, defusing, defusers, kept,
                 remaining, beingDefused, timeUp>>

\* mutant: a player found on the list is given a fresh record
UseArmedStartsOver(p, b) ==
  /\ state[b] = "armed"
  /\ life[p] = "alive" /\ PlayerTeam[p] # BombingTeam[b]
  /\ defusers' = [defusers EXCEPT ![b][p] = NewRecord]
  /\ defusing' = [defusing EXCEPT ![p] = b]
  /\ beingDefused' = [beingDefused EXCEPT ![PointOf[b]] = TRUE]
  /\ UNCHANGED <<roundVars, pointVars, life, bomb, state, fuse, kept,
                 bombPlanted, remaining, timeUp>>

\* State_Use_ARMED, by a player who is near and on the ground
UseArmed(p, b) ==
  /\ state[b] = "armed"
  /\ life[p] = "alive" /\ PlayerTeam[p] # BombingTeam[b]
  /\ IF p \in Defusers(b)
     THEN /\ defusers' = [defusers EXCEPT ![b][p].use = UseTimeout]
          /\ UNCHANGED <<defusing, beingDefused>>
     ELSE /\ defusers' = [defusers EXCEPT ![b][p] = NewRecord]
          /\ defusing' = [defusing EXCEPT ![p] = b]
          /\ beingDefused' = [beingDefused EXCEPT ![PointOf[b]] = TRUE]
  /\ UNCHANGED <<roundVars, pointVars, life, bomb, state, fuse, kept,
                 bombPlanted, remaining, timeUp>>

\* Event_Killed of every player of S: SetDefusing(NULL), and the weapon he
\* dies with is holstered, which cancels a plant.  No target is told.
Die(S) ==
  /\ life' = [p \in Players |-> IF p \in S THEN "dead" ELSE life[p]]
  /\ bomb' = [p \in Players |-> IF p \in S /\ bomb[p] \in Targets THEN "held" ELSE bomb[p]]
  /\ defusing' = [p \in Players |-> IF p \in S THEN NoTarget ELSE defusing[p]]

Kill(p) ==
  /\ life[p] = "alive"
  /\ Die({p})
  /\ UNCHANGED <<roundVars, pointVars, targetVars, cpBombVars, timeUp>>

\* DODRespawn: RemoveAllItems, Spawn
Respawn(p) ==
  /\ life[p] = "dead"
  /\ life' = [life EXCEPT ![p] = "alive"]
  /\ bomb' = [bomb EXCEPT ![p] = "none"]
  /\ defusing' = [defusing EXCEPT ![p] = NoTarget]
  /\ UNCHANGED <<roundVars, pointVars, targetVars, cpBombVars, timeUp>>

\* ClientDisconnected; who connects later is another player.
Leave(p) ==
  /\ life[p] # "gone"
  /\ life' = [life EXCEPT ![p] = "gone"]
  /\ bomb' = [bomb EXCEPT ![p] = "none"]
  /\ defusing' = [defusing EXCEPT ![p] = NoTarget]
  /\ UNCHANGED <<roundVars, pointVars, targetVars, cpBombVars, timeUp>>
---------------------------------------------------------------------------
(* CDODBombTarget::State_Think. *)

\* CanPlayerContinueDefusing of the player with the aged record r; near are the
\* players within reach and on the ground.
CanContinue(p, r, near) == ~Past(r.use) /\ life[p] = "alive" /\ p \in near

\* mutant: the player is told, the record stays
ResetDefuseKeepsRecord(b, S, aged) ==
  /\ defusers' = [defusers EXCEPT ![b] = aged]
  /\ kept' = kept
  /\ defusing' = [p \in Players |-> IF p \in S THEN NoTarget ELSE defusing[p]]
  /\ beingDefused' = IF S = Defusers(b)
                     THEN [beingDefused EXCEPT ![PointOf[b]] = FALSE] ELSE beingDefused

\* ResetDefuse of every player of S, whatever he is defusing by now; the clients
\* stop showing the defuse when the list is empty.
ResetDefuse(b, S, aged) ==
  /\ defusers' = [defusers EXCEPT ![b] =
       [p \in Players |-> IF p \in S THEN NoRecord ELSE aged[p]]]
  /\ kept' = [kept EXCEPT ![b] = @ \ S]
  /\ defusing' = [p \in Players |-> IF p \in S THEN NoTarget ELSE defusing[p]]
  /\ beingDefused' = IF S = Defusers(b)
                     THEN [beingDefused EXCEPT ![PointOf[b]] = FALSE] ELSE beingDefused

Aged(b) == [p \in Players |-> IF p \in Defusers(b) THEN Age(defusers[b][p]) ELSE NoRecord]

\* Not armed: no state's think is called, but the times go by.
ThinkIdle(b) ==
  /\ state[b] # "armed"
  /\ defusers' = [defusers EXCEPT ![b] = Aged(b)]
  /\ UNCHANGED <<roundVars, pointVars, playerVars, state, fuse, kept, cpBombVars, timeUp>>

\* mutant: the point is not told that its bomb is gone
BurnUnlessQuietly(b, cancelled) ==
  /\ state' = IF cancelled THEN [state EXCEPT ![b] = "active"] ELSE state
  /\ fuse' = [fuse EXCEPT ![b] = IF cancelled THEN -1 ELSE Elapse(@)]
  /\ bombPlanted' = bombPlanted

\* mutant: a think does not burn the fuse
BurnUnlessNever(b, cancelled) ==
  /\ state' = IF cancelled THEN [state EXCEPT ![b] = "active"] ELSE state
  /\ fuse' = [fuse EXCEPT ![b] = IF cancelled THEN -1 ELSE @]
  /\ bombPlanted' = IF cancelled
                    THEN [bombPlanted EXCEPT ![PointOf[b]] = FALSE] ELSE bombPlanted

\* The fuse burns on, or the bomb, disarmed or too late for its round, is
\* cancelled (CancelBombPlanted).
BurnUnless(b, cancelled) ==
  /\ state' = IF cancelled THEN [state EXCEPT ![b] = "active"] ELSE state
  /\ fuse' = [fuse EXCEPT ![b] = IF cancelled THEN -1 ELSE Elapse(@)]
  /\ bombPlanted' = IF cancelled
                    THEN [bombPlanted EXCEPT ![PointOf[b]] = FALSE] ELSE bombPlanted

\* "So long as we have valid defusers, we will not explode": whoever has let go,
\* moved or died is dropped, and one who has completed the defuse ends it for all.
ThinkDefusers(b) ==
  /\ state[b] = "armed" /\ Defusers(b) # {}
  /\ \E near \in SUBSET Defusers(b) :
       LET valid == {p \in Defusers(b) : CanContinue(p, Aged(b)[p], near)}
           done  == {p \in valid : Past(Aged(b)[p].left)}
       IN  /\ ResetDefuse(b, IF done # {} THEN Defusers(b) ELSE Defusers(b) \ valid, Aged(b))
           /\ BurnUnless(b, done # {} \/ ~Running)
  /\ UNCHANGED <<roundVars, pointVars, life, bomb, remaining, timeUp>>

\* No defusers, and the fuse still burns.
ThinkFuse(b) ==
  /\ state[b] = "armed" /\ Defusers(b) = {} /\ ~Past(Elapse(fuse[b]))
  /\ BurnUnless(b, ~Running)
  /\ UNCHANGED <<roundVars, pointVars, playerVars, defusers, kept,
                 remaining, beingDefused, timeUp>>

\* Someone of the bombing team is left to be given the explosion.
BomberFor(b) == \E p \in Players : PlayerTeam[p] = BombingTeam[b] /\ life[p] # "gone"

\* mutant: only an explosion that takes the point is counted
BombExplodedCountsLast(b) ==
  LET pt == PointOf[b]
  IN  /\ bombPlanted' = [bombPlanted EXCEPT ![pt] = FALSE]
      /\ IF remaining[pt] - 1 <= 0
         THEN /\ remaining' = [remaining EXCEPT ![pt] = @ - 1]
              /\ InternalSetOwner(pt, BombingTeam[b]) /\ SetOwningTeam(pt, BombingTeam[b])
         ELSE UNCHANGED <<remaining, roundState, wins, pointVars>>
      /\ beingDefused' = [beingDefused EXCEPT ![pt] = FALSE]

\* CControlPoint::BombExploded: the last bomb takes the point, in whatever state
\* the round is.  Without a bomber the point's owner loses it to his opponent.
BombExploded(b) ==
  LET pt == PointOf[b]
      team == IF BomberFor(b) THEN BombingTeam[b]
              ELSE IF owner[pt] = "allies" THEN "axis" ELSE "allies"
  IN  /\ bombPlanted' = [bombPlanted EXCEPT ![pt] = FALSE]
      /\ remaining' = [remaining EXCEPT ![pt] = @ - 1]
      /\ IF remaining[pt] - 1 <= 0
         THEN InternalSetOwner(pt, team) /\ SetOwningTeam(pt, team)
         ELSE UNCHANGED <<roundState, wins, pointVars>>
      /\ beingDefused' = [beingDefused EXCEPT ![pt] = FALSE]

\* Explode, S being who is killed by it.  A round that was not running any more
\* has made the target ACTIVE just before, which does not stop this.  The time
\* added may not be enough for a timer that is long past its end.
Explode(b) ==
  /\ state[b] = "armed" /\ Defusers(b) = {} /\ Past(Elapse(fuse[b]))
  /\ \E S \in SUBSET {p \in Players : life[p] = "alive"} : Die(S)
  /\ state' = [state EXCEPT ![b] = "inactive"]
  /\ fuse' = [fuse EXCEPT ![b] = -1]
  /\ BombExploded(b)
  /\ timeUp' \in IF b \in AddsTime /\ roundState' = "running" THEN {timeUp, FALSE} ELSE {timeUp}
  /\ UNCHANGED <<inWarmup, defusers, kept>>

Think(b) == ThinkIdle(b) \/ ThinkDefusers(b) \/ ThinkFuse(b) \/ Explode(b)
---------------------------------------------------------------------------
(* Inputs of the map, and the round. *)

InputEnable(b) ==
  /\ state[b] = "inactive"
  /\ remaining[PointOf[b]] > -MaxExtraBombs
  /\ state' = [state EXCEPT ![b] = "active"]
  /\ UNCHANGED <<roundVars, pointVars, playerVars, fuse, defusers, kept, cpBombVars, timeUp>>

\* A bomb that was planted is forgotten; those who were defusing it stay listed,
\* as kept remembers.
InputDisable(b) ==
  /\ state[b] # "inactive"
  /\ state' = [state EXCEPT ![b] = "inactive"]
  /\ fuse' = [fuse EXCEPT ![b] = -1]
  /\ bombPlanted' = IF state[b] = "armed"
                    THEN [bombPlanted EXCEPT ![PointOf[b]] = FALSE] ELSE bombPlanted
  /\ kept' = [kept EXCEPT ![b] = Defusers(b)]
  /\ UNCHANGED <<roundVars, pointVars, playerVars, defusers,
                 remaining, beingDefused, timeUp>>

TimeRunsOut ==
  /\ Running /\ ~timeUp
  /\ timeUp' = TRUE
  /\ UNCHANGED <<roundVars, pointVars, playerVars, targetVars, cpBombVars>>

WouldNewCPOwnerWinGame(p, t) == TeamOwnsAllPoints([owner EXCEPT ![p] = t]) = t

\* mutant: the last bomb of a point is not recognised
BombBlocksWinStrict(b) ==
  /\ state[b] = "armed"
  /\ \/ b \in AddsTime
     \/ /\ remaining[PointOf[b]] < 1
        /\ WouldNewCPOwnerWinGame(PointOf[b], BombingTeam[b])

\* "Find active bombs that have the potential to add round time", or to win
BombBlocksWin(b) ==
  /\ state[b] = "armed"
  /\ \/ b \in AddsTime
     \/ /\ remaining[PointOf[b]] <= 1
        /\ WouldNewCPOwnerWinGame(PointOf[b], BombingTeam[b])

RoundTimer ==
  /\ timeUp
  /\ \A b \in Targets : ~BombBlocksWin(b)
  /\ TimerExpires
  /\ UNCHANGED <<playerVars, targetVars, cpBombVars, timeUp>>

RoundActive ==
  /\ StartRound
  /\ UNCHANGED <<playerVars, targetVars, cpBombVars, timeUp>>

\* CDODBombTarget::Spawn, CControlPoint::Spawn and ResetControlPoints
TargetsInit ==
  /\ state = [b \in Targets |-> "active"]
  /\ fuse = [b \in Targets |-> -1]
  /\ defusers = [b \in Targets |-> [p \in Players |-> NoRecord]]
  /\ kept = [b \in Targets |-> {}]
  /\ bombPlanted = [p \in Points |-> FALSE]
  /\ remaining = BombsRequired
  /\ beingDefused = [p \in Points |-> FALSE]
  /\ timeUp = FALSE

\* Nothing a bomb does asks for the warmup, so there is none here; every step is
\* the same in one.
Init ==
  /\ PointsInit /\ inWarmup = FALSE
  /\ life = [p \in Players |-> "alive"]
  /\ bomb = [p \in Players |-> "none"]
  /\ defusing = [p \in Players |-> NoTarget]
  /\ TargetsInit

\* The targets are loaded again with the rest of the map, and every player spawns.
RoundRespawn ==
  /\ NewRound /\ inWarmup' = FALSE
  /\ life' = [p \in Players |-> IF life[p] = "gone" THEN "gone" ELSE "alive"]
  /\ bomb' = [p \in Players |-> "none"]
  /\ defusing' = [p \in Players |-> NoTarget]
  /\ state' = [b \in Targets |-> "active"]
  /\ fuse' = [b \in Targets |-> -1]
  /\ defusers' = [b \in Targets |-> [p \in Players |-> NoRecord]]
  /\ kept' = [b \in Targets |-> {}]
  /\ bombPlanted' = [p \in Points |-> FALSE]
  /\ remaining' = BombsRequired
  /\ beingDefused' = [p \in Points |-> FALSE]
  /\ timeUp' = FALSE

Next ==
  \/ \E b \in Targets : Think(b)
  \/ \E p \in Players : TakeBomb(p) \/ CancelPlanting(p) \/ Kill(p) \/ Respawn(p)
  \/ \E p \in Leavers : Leave(p)
  \/ \E p \in Players, b \in Targets : StartPlanting(p, b) \/ CompletePlant(p, b) \/ UseArmed(p, b)
  \/ \E b \in Switched : InputEnable(b) \/ InputDisable(b)
  \/ TimeRunsOut \/ RoundTimer \/ RoundActive \/ RoundRespawn

\* A target thinks again 0.1 s after each think; nobody has to play.
Spec == Init /\ [][Next]_vars /\ \A b \in Targets : WF_vars(Think(b))

---------------------------------------------------------------------------
(* What is checked. *)

TypeOK ==
  /\ PointsTypeOK
  /\ life \in [Players -> {"alive", "dead", "gone"}]
  /\ bomb \in [Players -> {"none", "held"} \cup Targets]
  /\ defusing \in [Players -> Targets \cup {NoTarget}]
  /\ state \in [Targets -> {"inactive", "active", "armed"}]
  /\ fuse \in [Targets -> -1 .. BombTime]
  /\ defusers \in [Targets -> [Players ->
       [left : -1 .. DefuseTime, use : -1 .. UseTimeout] \cup {NoRecord}]]
  /\ kept \in [Targets -> SUBSET Players]
  /\ bombPlanted \in [Points -> BOOLEAN]
  /\ remaining \in [Points -> Int]
  /\ beingDefused \in [Points -> BOOLEAN]
  /\ timeUp \in BOOLEAN

TargetsOf(p) == {b \in Targets : PointOf[b] = p}

\* The countdown and the defuse the clients are shown at a point are those of a
\* bomb armed there and of a player listed there, although several targets share
\* the point's flags and every way a bomb ends writes them.
ShownBombsAreReal ==
  \A p \in Points :
    /\ bombPlanted[p]  => \E b \in TargetsOf(p) : state[b] = "armed"
    /\ beingDefused[p] => \E b \in TargetsOf(p) : Defusers(b) # {}

\* Every explosion counts once, and nothing but an explosion: a point still needs
\* as many bombs as its targets have not yet given it, less those of targets that
\* the map has enabled again.
Blown(p) == {b \in TargetsOf(p) \ Switched : state[b] = "inactive"}
EachBombCountsOnce ==
  \A p \in Points :
    /\ remaining[p] <= BombsRequired[p] - Cardinality(Blown(p))
    /\ TargetsOf(p) \cap Switched = {} =>
         remaining[p] = BombsRequired[p] - Cardinality(Blown(p))

\* A defuse of an armed bomb is no older than the bomb, at every target: defuses
\* that succeed, fail, are cut short by the round or end with their player leave
\* nothing that would make the next one short.  The one way left open is
\* InputDisable: who is on the list then stays on it, and when the target has been
\* enabled and planted again before he is dropped, his +use renews a record whose
\* time is running out or over.
NoEarlyDefuser ==
  Running => \A b \in Targets : \A p \in Defusers(b) \ kept[b] :
    state[b] = "armed" => DefuseTime - defusers[b][p].left <= BombTime - fuse[b]

\* With the bomb of b gone off, its team would own all of a group.
WouldWin(b) ==
  LET own == IF remaining[PointOf[b]] - 1 <= 0
             THEN [owner EXCEPT ![PointOf[b]] = BombingTeam[b]] ELSE owner
  IN  TeamOwnsAllPoints(own) = BombingTeam[b]

\* Overtime: the round is not lost on time while a bomb is armed that would win
\* it by going off.
OvertimeHonoured ==
  [][\A b \in Targets :
       state[b] = "armed" /\ state'[b] = "armed" /\ WouldWin(b) /\ Running
       => wins' = wins \/ \E c \in Targets : state'[c] = "inactive" /\ state[c] = "armed"]_vars

\* A bomb the map leaves alone goes off, is defused or is cancelled, unless
\* defenders come to it: a list that lost everybody does not hold it up.
BombResolves ==
  \A b \in Targets \ Switched :
    (state[b] = "armed") ~> (state[b] # "armed" \/ Defusers(b) # {})

\* Whoever starts on such a bomb either completes the defuse or is dropped.
DefuserFinishes ==
  \A b \in Targets \ Switched : \A p \in {q \in Players : PlayerTeam[q] # BombingTeam[b]} :
    (state[b] = "armed" /\ p \in Defusers(b)) ~> (state[b] # "armed" \/ p \notin Defusers(b))

\* "Only allow cp caps when round is running" (dod_control_point.cpp): a point
\* changes hands in a running round, or with the map.
CapsOnlyWhenRunning ==
  [][owner' # owner => Running \/ roundState' = "preround"]_vars
===========================================================================
