# A verification development for Day of Conquest

Day of Conquest is a Day of Defeat: Source game built on the Source SDK (Mapbase
and the 64-bit Team Fortress tree). Two teams fight for the control points of a
map: they capture areas, plant and defuse bombs, die and come back in waves, in
rounds that make up a match. The maps it is played on are compiled by tools of the
same tree, which spread their work over machines. This directory holds TLA+ modules
of these two cores, the TLC configurations that check them, and proofs checked by
TLAPS.

The game is a single-threaded server. What makes it hard is not threads but
*think functions*: entities, players and the game rules each run at periods of
their own (a frame, 0.1 s, 1 s, 3 s) and talk through fields that one writes and
another reads some thinks later. Between any two thinks a player may die, leave
or press a key, a map's logic may send an input, and a round may end.

The work distribution of the compilers is a system of the other kind: a master,
worker machines and their threads that run at their own pace, connections that do
not wait for each other, machines that come and go, and messages that arrive for a
call that is over.

## 1. Inventory

Paths of the game are under `src/src/game/`.

| Part | Code | State it keeps | Operations | Talks to |
|---|---|---|---|---|
| Control points | `server/dod/dod_control_point.cpp` | owner, bomb planted, bombs remaining | SetOwner, InternalSetOwner, BombPlanted, BombExploded, CancelBombPlanted, RoundRespawn | master (asks who would win), game rules (win), objective resource |
| Point master | `server/dod/dod_control_point_master.cpp` | list of points, timer data | FindControlPoints (remap), TeamOwnsAllPoints, WouldNewCPOwnerWinGame, think | points, game rules |
| Capture areas | `server/dod/dod_area_capture.cpp` | capturing team, time left, counts, attempt number, enabled | AreaTouch, Think, StartCapture, BreakCapture, EndCapture, CheckIfDeathCausesBlock | players' signals, point, objective resource |
| Bomb targets | `server/dod/dod_bombtarget.cpp`, `shared/dod/weapon_dodbasebomb.cpp`, `server/dod/dod_bombdispenser.cpp` | state, explode time, list of defusers | plant, use, think, explode, inputs Enable and Disable | players, point, game rules, timer |
| Respawn waves | `shared/dod/dod_gamerules.cpp` | per team: ring of wave times, head, tail, count; fail-safe time | CreateOrJoinRespawnWave, AddWaveTime, PopWaveTime, CheckRespawnWaves, RespawnTeam | players |
| Round states | `shared/dod/dod_gamerules.cpp` | state and its time, rounds won, warmup, restart time, ready flags, map clock | State_Think and State_Enter of every state, Think, CheckTimeLimit, CheckWinLimit, CheckRestartRound, CheckWarmup, SetWinningTeam | everything |
| Round timer | `shared/dod/dod_round_timer.cpp` | end time, remaining time, paused | SetTimeRemaining, AddTimerSeconds, Pause, Resume | game rules |
| Objective resource | `server/dod/dod_objective_resource.cpp` | owner, cappers, bomb flags of every point | setters | clients' HUD |
| Player | `server/dod/dod_player.cpp`, `server/dod/unisignals.h` | life, signals, capture area, last block, defuse and plant handles, death time | HandleSignals, DefuseBomb, Event_Killed, StoreCaptureBlock, commands | areas, targets, waves |
| Planted C4 | `shared/dod/weapon_dodbasebomb.cpp`, the zone of `server/triggers.cpp`, the flag in `shared/dod/dod_gamerules.cpp` | the charge and who has it, arming; blow time, defuser, defuse countdown; `m_bBombPlanted` | pick up, arm, plant, think, use, explode | game rules, players |
| Work distribution | `src/src/utils/vmpi/`: `vmpi_distribute_work.cpp`, `vmpi_distribute_work_default.cpp`, `vmpi_distribute_work_internal.h`, `vmpi.cpp` | master: number of the call, partitions of units, window of units dealt, tracker of units finished; worker: list of units, what its threads run; connections | DistributeWork, AssignWUsToWorker, HandleWorkUnitResults, DisconnectHandler, HandlePacket, VMPI_WorkerThread | sockets, the caller's process and receive functions |

What makes each correct, in a sentence: an area gives its point to a team only if
that team kept its players there while the round ran; a bomb takes its point once,
unless it was defused by players who stayed with it; a round is won once, for
whoever holds a group of points, at the moment they do; every dead player comes
back; a match opens no round once it is decided, and every restart, warmup and
map comes to its end; what clients are shown is what is; every work unit's result
is received once in its call, and a call returns when all are.

Everything else in the tree (the SDK's entities, AI, physics and client, the other
games, map compilers, shaders, libraries, the weapons and movement of this game)
is listed in `PROJECT.json` under `components` with the reason it is left out.
The hazards, each at its line with the properties that watch it, are there too.

## 2. The modules

```
DodPoints ──┬── DodControlPoints ──┬── DodAreaCapture ── refines ── DodContest
            │                      └── DodBombTarget
            └── DodPointMaster
DodRespawnWaves ── refines ── DodWaveQueue
DodRound        ── refines ── DodMatch
DodPlantedC4
VmpiPartitions ──┐
VmpiTracker ─────┴── VmpiDistribute ── refines ── VmpiWorkBag
```

`DodPoints` (constants only): the points, groups and teams of a map and
`TeamOwnsAllPoints`, the reference definition of who has won.

`DodControlPoints`: owners, the objective resource's copy of them, the round state
as objectives see it, and the operators through which an objective changes an
owner. `SetOwner` has the guard of the code (round running, no warmup);
`InternalSetOwner` has not. Starting a round folds the states PREGAME, STARTGAME
and RESTART, which do nothing to the points that PREROUND does not do again; their
own order is `DodRound`'s.

`DodAreaCapture` extends it with areas and players. `AreaTouch` sets a player's
signal, `HandleSignals` is the player's loop that turns signals into the state the
area reads, `Think` is the area's whole think: the cancel outside a running round,
the counts, block, break, end and start of a capture in the order of the code, the
fall-through from a break to the end of the capture included. `Kill` contains
`CheckIfDeathCausesBlock`. Where a player stands is not a variable: he may touch any
area at any time, and to leave is to touch it no more.

`DodBombTarget` extends `DodControlPoints` with targets, the bomb a player carries
and the records of the defusers. One `Think` per target is `State_Think_ARMED` with
everything it falls through to; `UseArmed`, `StartPlanting`, `CompletePlant`,
`Kill`, `Leave`, `InputEnable`, `InputDisable` are the handlers. `TimeRunsOut` and
`RoundTimer` hold the overtime rule. `kept` is no state of the code: it remembers
which players `InputDisable` left on the list of a target, and no guard reads it.

`DodPointMaster` models the two loops of the master, one iteration a step, over
`DodPoints`.

`DodRespawnWaves` models one team's ring of waves (the teams' rings do not touch
each other) with the players in it. Whether a class is full and whether a suicide is
refused are free choices: the first asks for a wave all the same (`JoinClass`), the
second makes the player an observer who asks once and not twice (`JoinTeam`); `DodWaveQueue` is what the ring promises, a
bounded line.

`DodRound` models the state machine of the rules. A frame is three steps: events
and the state's think, the checks made once a second, and the passing of a tick.
Events (players come or go, objectives are won, ready signals, console variables,
time added, a client asking for the time left, which in this code may set a flag)
come before the think. `SetWinningTeams` has no guard, as `SetWinningTeam` in the
code; who calls it has one or not. Areas and triggers win through `SetOwner`, whose
guard is `ObjectivesCount` (`Objective`). A bomb, of a target or the C4, wins in
whatever state it ends, in the warmup, in the bonus time, in PREGAME and after the
game is over too (`PlantBomb`, `BombEnds`); the explosion of a C4 may win for both
teams at once. Where and how long a bomb ticks is left open, and a state that cleans
up the map ends them all. While one ticks the timer may hold the round back.
`DodMatch` is what rounds promise: a round opens only in an undecided match with
nothing ticking of an earlier round, an open round is won at most once, a restart
takes the score back to zero, and outside an open round only a bomb wins that was
planted and has not yet ended, once.

`DodPlantedC4` models the second bomb of the game, which takes no control point but
wins the round itself. `TakeCharge`, `StartArming`, `StopArming` and `PlaceBomb` are
the charge in a player's hands; `Use` and `C4Think` the planted bomb. The think has
four ways to go on: the defuse goes on or there is none (`ThinkOn`), its player has
let go (`ThinkDropped`), it is complete (`ThinkDefused`), or the bomb goes off
(`Explode`), after which the code does not return and may still complete a defuse
for a player the blast spared, as on maps with a weak blast. The players who die in
the blast are any set of them. Other objectives, the timer and an empty server
change the round about the bomb; what they do to bombs, charges and the flag
`m_bBombPlanted` is in `NewRound`, `Restart` and `EnterPregame`.

`VmpiPartitions` has no variables: the books of the default distributor and the
operators that deal untouched units, hand an abandoned partition on, split the
soonest one, strike off results and give up a lost worker's partition, in the order
`AssignWUsToWorker` tries them. `VmpiTracker` is the tracker that says how far units
are finished without a gap. `VmpiDistribute` puts them between connections: the
master (`StartCall`, `OnWorkerReady`, `OnResults`, `FinishCall`, `StopCall`), each
worker (`Join`, `HearMasterReady`, `HearAssignment`, `HearMasterFinished`,
`CloseThreads`), its threads (`TakeWorkUnit`, `FinishWorkUnit`) and `Disconnect`,
which loses the end of what was on its way and leaves the rest unread under an id
that is given out again. A lookup through a deleted partition, which in the code is
a read of freed memory, is every outcome the build can have: the master goes down,
or another partition stands there and loses a unit in its place, or nothing is
lost. Two handlers are coarser than the code: `Receive` tells the caller how far it
is and gives him the results in one step, for both are in one handler of the
master's only thread; and `TakeWorkUnit` takes a unit and looks whether it is running
in one step, where the thread lets go of one lock and takes another in between.
`VmpiWorkBag` is what the caller of `DistributeWork` may rely on.

The lines each definition stands for are in `PROJECT.json` under `map`. Definitions
marked `mutant` in a comment are variants of the code with a plausible fault; each
stands before the definition it varies and shows that a property notices.

### Conventions and abstractions

- Times count down in ticks of the think that reads them; 0 is a time that has
  come. A comparison of floating-point times in the code becomes one of integers.
- Positions, damage, sounds, models, menus, wording and statistics are left out.
- Messages of the distribution that only feed displays and statistics, packets that
  group messages, and the contents of units and results are left out.
- A player's choices (stand, look, press, disconnect) are free at every step.
- Maps are well formed as the code's comments ask: one active master, distinct
  indices of points, owners at the start of a round that win nothing
  (`PointsAssumption`, `MapNotWon` and the assumptions of each module, checked by TLC in every run).
- `dod_enableroundwaittime` has its default 1.

## 3. The runs

| Run | Bounds | What it shows |
|---|---|---|
| `area_capture` | 2 points of a group, one taken in an area by two players in two thinks and one set by a trigger of the map, 3 players | No interleaving of touches, signal loops, area thinks, deaths, inputs and rounds wins a round twice or lets a held group go unnoticed; captures shown are captures; owners change only in a round (and the owner shown differs only by the warmup window); areas implement `DodContest`; every capture resolves. |
| `area_break` | the same | *Violation*: a capture completes with too few players. |
| `point_master` | 4 points, 3 groups, map indices with gaps, all owners and overrides | The remap and the scan compute what they should. |
| `bomb` | 2 targets of one point, one switched by the map and one that adds time, 2 players, one of whom may disconnect, fuse 2 thinks, defuse 1 | Shown bombs exist, bombs count once, no defuse is shortened by an older record but one that `InputDisable` left, overtime is honoured, bombs and defuses come to an end. |
| `bomb_late` | 1 target | *Violation*: a bomb whose round is over still takes its point. |
| `waves` | ring of 3, 2 players, one of whom sends `extendfreeze`, death camera 2 frames, waves up to 3 | The ring is consistent when full, empty and wrapped, implements the bounded line, and everyone respawns. |
| `round` | win limit 2, map of 6 ticks, round of 3, two ticks a second, one bomb between two clean-ups of the map, 2 operator commands, 1 addition of time a round | Limits, restarts, warmups and the map's clock as in section 1; the states implement `DodMatch`. |
| `c4` | 2 charges, 3 players who may all leave, two of them allies, who alone defuse; fuse 4 thinks, defuse 3, a use lasts 1 | One bomb ticks at most in a round that is played, a defuse belongs to a player who keeps it up, and every bomb comes to its end. |
| `c4_left` | the same | *Violation*: a round begins in which a bomb is said to be planted and none is. |
| `distribute` | 2 machines of one thread, 5 units, 2 calls of which the first may be stopped, one connection lost | Partitions are sound, no work is lost without a disconnect, owners hold what the master has them down for, `DistributeWork` implements `VmpiWorkBag`, and the first call ends. |
| `work_lost` | 4 units, 1 call | *Violation*: units of a lost worker end up in no partition. |
| `work_skipped` | 4 units, 2 calls, no connection lost | *Violation*: a thread passes over a unit nobody is at work on. |

Why these bounds are enough: three players are the fewest that give a capture by
two, one of whom leaves, and a defender who blocks and kills; two points, areas or
targets are the fewest that can share a group, a point or a round; one capture attempt more than
the first (`MaxAttempt`) is the fewest that a repeat can be told from. Times are as
short as leaves every order of two deadlines possible: a round timer may end before,
with and after the map's, a fuse before and after a defuse, a wave before and after
a death camera. The ring of 3 is full with two players because a change of teams
asks twice. In `round`, two ticks to a second make
a win, a state change and a check fall in any order; one bomb is enough to outlast
the round it was planted in, to win beside another objective, or to be cleaned up. In `c4`, two
charges allow a second plant while a bomb ticks or after it is gone, two allies
make one the rival of the other's defuse, and a defuse longer than a use lasts can
be let go of and begun again. In `distribute`, five units are the fewest that two
workers are dealt in two goes and then have to split; two calls let results,
disconnects and machines of the first arrive in the second; one lost connection
whose id is given out again is enough for the master to delete what it still needs.
Bounds that cap a counter
(`MaxAttempt`, `MaxExtraBombs`, `MaxBombs`, `MaxCam`, `MaxAdded`, `MaxCommands`, `NumCalls`,
`MaxDisconnects`) restrain the environment only: players, the map, the operator,
the compile or its network stop doing something.

Deadlock is checked except where the program does stop: the loops of
`point_master` end, the map of `round` is over after the intermission, and a
compile is over after its last call.

### Fairness

In the game, weak fairness is assumed of thinks only. An area, a target or a planted C4 sets its next think at
the start of each think; the rules think every frame. In `waves` a player leaves
the death animation in the commands his client keeps sending, so that step is fair
too. Nobody is
obliged to play, press, signal or send an input. The liveness properties say what
must come about under that alone, and name in their right-hand sides the ways
out that belong to players: defenders at a bomb, an empty server, an operator's
new command, teams that are waited for and do not answer.

In the distribution, programs that run are fair: the master starts its next call,
ends one that is finished and reads every connection in time (`Read`, whatever the
message), and every worker and thread of it goes on. No machine has to join, none
has to be lost, and no user has to stop a call. `FirstCallFinishes` therefore
supposes a machine that has joined and names a lost connection as a way out: with
one, units may be lost (section 4), and in the second call a thread may pass over
its units for good.

## 4. Disagreements with comments

The violation runs record five places where the code does something else than a
comment says; `PROJECT.json` quotes both under `findings`.

1. `dod_area_capture.cpp:316`: the think goes on after breaking a capture for want of
   players, and may complete it in the same breath. `BreakCapture` clears only
   `m_bCapturing`, so the point goes to the team that has lost its players.
2. `dod_bombtarget.cpp:444`: the armed think goes on after cancelling the bomb, and
   may explode it in a round that is over.
3. `dod_gamerules.cpp:2679`: a new round removes the planted C4 and leaves the flag
   that says there is one, so nobody may plant in that round.
4. `vmpi_distribute_work_default.cpp:333`: a worker who still owns units is given
   new ones, and the old ones are deleted with his partition. It happens to the
   owner "nobody" when the last results of an abandoned partition arrive late, and
   to a machine that joins under the id of a lost one before the master has read
   what that one said. Once units are lost, the call does not end unless its user
   stops it or a worker happens to hold them still.
5. `vmpi_distribute_work.cpp:458`: what a thread ran in one call still counts as
   running in the next. If it is a unit of that call, the thread drops it.

Other steps the models have that a reviewer may argue about, without a comment they
contradict, are listed under `hazards` only: the ring of waves that may be full, the
blocks compared with the wrong area, bombs that take their points in a warmup, the
second win of a C4 in a round that is over, the warmup of a second game, and the
records of defusers that `InputDisable` leaves on a target. That last one is a fault:
when the target is enabled and armed again, a player still listed who uses it before
its next think renews his old record and has that much less left to do, perhaps
nothing. No comment promises otherwise, so no run refutes one; `NoEarlyDefuser`
quantifies over every target and excepts exactly the records `kept` remembers.

## 5. What is proved

The proof modules are checked by TLAPS for every value of the constants that the
named assumptions allow.

- `DodPoints_proofs`: lemmas on the win test. The least of a nonempty set of
  naturals exists (`LeastOfNaturals`), hence the first group won does, and a winner
  holds a group.
- `DodPointMaster_proofs`: both loops. `RemapInv` says the handled points are
  those below every unhandled one and carry 0 .. newIndex-1 in order; `ScanInv` says what
  each group's claim means for the points scanned so far. Neither property is
  inductive: an unfinished loop satisfies both trivially.
- `DodAreaCapture_proofs`: types; then `RoundStep`, the shape that every action has
  as far as the round is concerned, from which `RoundInv` (until a round is
  decided no group is held and no win counted; then exactly the win the state
  names) is inductive. It gives
  one win a round, no unreported win, no change of owners out of a round, and with
  `WinnerOfState` the refinement of `DodContest`. `HudInv` strengthens the
  property of the captures shown, which is not inductive, to every state of the
  round: a capture is shown only where an area captures for that team.
- `DodRespawnWaves_proofs`: the ring equation as an inductive invariant of
  the records (`Ring`), preserved by each operation of the ring in a lemma of
  its own, then the players' types. Then the refinement of
  `DodWaveQueue`: each operation of the ring is an operation on the line
  (`AddIsAppend`, `PopIsTail`, `CountdownIsCountdown`, `AskIsAskFor`); the search
  from head to tail finds a wave exactly when the line has one that is open
  (`ScanIsLine`).
- `DodRound_proofs`: types, exclusion of the two kinds of restart, the map's clock,
  the win limit and the refinement of `DodMatch`. The limit needs
  `CheckComesFirst`: while a score stands at the limit, no round runs or is about
  to, and the wait the state is in has more time left than there is to the next
  check. It holds because a bonus round lasts at least five seconds and checks
  come every second (`Second < BonusTime`), which is the reason the code is right.
  The refinement needs `NoBombInPreround` too: entering the preround cleans up the
  map, and nothing is planted before the round runs, so no round opens on a bomb.
- `DodBombTarget_proofs`: types, which with the fuse and the record of defusers
  carry most of the rest; `ShownBombsAreReal` is inductive beside them. `DefuseInv`
  is the strengthening of `NoEarlyDefuser`: before a round nobody carries a bomb
  and nothing is armed, and while a round is played the list of defusers is emptied
  with its bomb, up to what `InputDisable` leaves (`kept`), so at every target no other
  record is older than the bomb it is for. Without that exception it is false. `EachBombCountsOnce`
  follows from an equation between bombs gone off and what each point still
  requires. `OvertimeHonoured` needs `Undecided`: a round that is played is not won
  yet, so the timer asks the right question of every bomb that would win.
- `DodPlantedC4_proofs`: types; `OneBombTicks` beside `FreshRound` (before a round is
  played nothing ticks and nobody has a charge), without which the first charge of
  a round could meet a bomb of the last. A think leaves the bomb ticking and all
  else as it was, or ends the round (`ThinkEndsRound`). `Attended` is `DefuserStays`
  of one bomb, kept by each way a think, a use, a death or a leaver goes.
- `VmpiDistribute_proofs`: first the refinement of `VmpiWorkBag`, for any number of
  units, machines, threads, calls and lost connections. The invariant ties four
  ledgers together: what was received in this call, what is pending in the window,
  where the window begins, and where the tracker's trigger stands. It says nothing
  of who holds a unit, and so it survives every outcome of a lookup that dangles:
  work may be lost, but none is received twice and no call returns early.

  Then who holds a unit, in this order. (a) `PartitionsSound` is kept by each way
  `AssignWUsToWorker` has to find work, by the strike of a result and by each
  outcome of a disconnect. (b) `Moved` states what a step of the master does to the
  books: every unit that becomes pending was untouched, only the machine that asked
  becomes an owner, and an owner either is sent the whole of his partition or keeps
  part of the one he had. (c) Messages are told apart by the number of their call:
  none carries a number not yet given, and a machine that was never lost asks once a
  call (`AskedOnce`), so an owner is at work in the master's call (`OwnersWork`) and
  what a machine holds has been dealt in it (`HeldAreDealt`). (d) No machine holds a
  unit of a spare partition (`SparesUnheld`), so a result always finds its partition
  with an owner, and `NothingIsLost`. (e) `OwnersCover` speaks of the list a machine
  will have when it has read all that is on its way: a unit of its partition is
  running, told, in the last assignment under way, or, when none is, in its list. It
  strengthens `OwnersHoldTheirUnits`, which is not inductive: the assignment read
  next replaces the list. (f) `FirstCallNeverStalls`, the safety half of
  `FirstCallFinishes`: with no connection lost and a machine there, somebody can
  go on until the last unit is finished. It takes `Served` (a machine at work that
  owns nothing left none to own, for the deal, the spares and the split of others
  were tried before it went without), `Heralded` (in the first call assignments
  come after the word that the call is ready, and nothing else comes), that the
  window stands at a pending unit (`IsBook`), and that a machine has a thread,
  which `RunThreads_Start` asserts.

Only model-checked is liveness (`CaptureResolves`, `BombResolves`, `DefuserFinishes`,
`EveryoneRespawns`, `RestartComes`, `WarmupEnds`, `MapEnds`, `BombEnds`,
`FirstCallFinishes`), which is beyond the prover, as are ENABLED, induction with an
operator parameter and RECURSIVE operators (none is used). Every invariant and every
refinement and action property of a passing run is a theorem.

## 6. What is left, and what is not modelled

Order of the modules: points and areas first, since they decide rounds; then the
master they rely on, bombs, waves and rounds; then the second bomb, and the work
distribution of the compilers. All of these are done. What a next step would take:

1. In `DodRound`: that a new game gets its warmup (the old warmup's end time
   survives a fall back to PREGAME).
2. One composition of round, timer and bombs, so that added time, overtime and the
   map's clock are checked with real bombs instead of a flag.
3. The other distributor (of the SDK mode, which shuffles units) and the file system
   the workers read their maps through.

Not planned: weapons, movement, animation, classes, bots, statistics and client of
the game, the SDK around them, the other games of the tree, the geometry and light
of the map compilers, shaders and vendored libraries. Physics, rendering and
floating-point numerics are out of reach of these tools; most of the tree is of
that kind or is a stock SDK that the objectives do not depend on, which is why the
share of it that is modelled is small.

## 7. Running

    tlc -config MCDodRound.cfg MCDodRound      # likewise the other pairs
    tlapm DodRound_proofs.tla

The runs of one model share its MC module: `MCDodAreaBroken.cfg` goes with
`MCDodAreaCapture`, `MCDodBombLate.cfg` with `MCDodBombTarget`, `MCDodC4Left.cfg`
with `MCDodPlantedC4`, `MCVmpiLost.cfg` and `MCVmpiSkipped.cfg` with
`MCVmpiDistribute`.
