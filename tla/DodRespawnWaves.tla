-------------------------- MODULE DodRespawnWaves --------------------------
(***************************************************************************)
(* The reinforcement waves of one team of CDODGameRules.  A player who     *)
(* dies joins the first wave that leaves after his death cam, or starts a  *)
(* new one; the waves wait in a ring of ten.  In the preround and in a     *)
(* running round each frame sends at most the first wave of the ring,      *)
(* which takes everybody of the team who is ready by then.  When the ring  *)
(* is empty, a check every 3 seconds takes those the waves have missed.    *)
(*                                                                         *)
(* Times are counted down in frames of the server; wave times fall between *)
(* two frames.  In each frame the players come first, when commands of     *)
(* theirs have arrived, and Think is the last.                             *)
(***************************************************************************)
EXTENDS Naturals, Sequences

CONSTANTS
  Players,
  Extenders,      \* the players who send the "extendfreeze" command
  QueueSize,      \* DOD_RESPAWN_QUEUE_SIZE
  DeathCam,       \* DEATH_CAM_TIME, in frames
  MaxWave,        \* MAX_WAVE_RESPAWN_TIME, in frames
  PreroundWave,   \* the second a wave takes in the preround, in frames
  FailSafePeriod, \* 3 seconds, in frames
  MaxCam          \* bound: how far "extendfreeze" puts off a death cam

ASSUME WaveAssumption ==
  /\ Extenders \subseteq Players
  /\ QueueSize \in Nat \ {0} /\ DeathCam \in Nat \ {0}
  /\ MaxWave \in Nat /\ DeathCam <= MaxWave
  /\ PreroundWave \in Nat /\ PreroundWave < DeathCam
  /\ FailSafePeriod \in Nat
  /\ MaxCam \in Nat /\ DeathCam <= MaxCam

VARIABLES
  phase,     \* "preround", "running", or "idle": PREGAME, STARTGAME, won, restarting
  life,      \* of every player: "alive", "dying" (STATE_DEATH_ANIM), "waiting", "away"
  class,     \* DesiredPlayerClass() # PLAYERCLASS_UNDEFINED
  cam,       \* what is left of a dead player's death cam
  queue,     \* the ring, its head and its tail, and the number of waves
  failSafe   \* until m_flNextFailSafeWaveCheckTime

playerVars == <<life, class, cam>>
vars == <<phase, playerVars, queue, failSafe>>

Slots == 0 .. QueueSize - 1
Wrap(i) == i % QueueSize
Elapse(t) == IF t = 0 THEN 0 ELSE t - 1
---------------------------------------------------------------------------
(* The ring. *)

EmptyQueue(q) == [q EXCEPT !.head = 0, !.tail = 0, !.num = 0]

\* mutant: a full ring is overwritten
AddWaveTimeWhenFull(q, w) ==
  [q EXCEPT !.ring[q.tail] = w, !.num = @ + 1, !.tail = Wrap(@ + 1)]

\* A full ring takes no more: an Assert and a Warning.
AddWaveTime(q, w) ==
  IF q.num = QueueSize THEN q
  ELSE [q EXCEPT !.ring[q.tail] = w, !.num = @ + 1, !.tail = Wrap(@ + 1)]

\* mutant: the wave that has gone stays counted
PopWaveTimeKeepsCount(q) == [q EXCEPT !.head = Wrap(@ + 1)]

PopWaveTime(q) == [q EXCEPT !.head = Wrap(@ + 1), !.num = @ - 1]

\* The loop from m_iRespawnHead until m_iRespawnTail, which sees no wave at all
\* in a full ring.
Scanned(q) == IF q.head <= q.tail THEN q.head .. q.tail - 1
              ELSE (q.head .. QueueSize - 1) \cup (0 .. q.tail - 1)

\* CreateOrJoinRespawnWave of a team whose new waves take w
CreateOrJoinRespawnWave(q, w) ==
  IF /\ q.num > 0 /\ q.ring[q.head] > 0
     /\ \E i \in Scanned(q) : DeathCam < q.ring[i]
  THEN q ELSE AddWaveTime(q, w)

\* GetMaxWaveTime.  What a wave takes beyond the preround depends on the team's
\* size and flags and on the map, and never is less than the death cam.
GetMaxWaveTime == IF phase = "preround" THEN {PreroundWave} ELSE DeathCam .. MaxWave

AskForWave == \E w \in GetMaxWaveTime : queue' = CreateOrJoinRespawnWave(queue, w)
---------------------------------------------------------------------------
(* Players. *)

\* Event_Killed, State_Enter_DEATH_ANIM
Kill(p) ==
  /\ life[p] = "alive"
  /\ life' = [life EXCEPT ![p] = "dying"]
  /\ cam' = [cam EXCEPT ![p] = DeathCam]
  /\ AskForWave
  /\ UNCHANGED <<phase, class, failSafe>>

\* State_PreThink_DEATH_ANIM: when the death cam has ended, or after the player
\* has broken off the freeze cam.
LeaveDeathAnim(p) ==
  /\ life[p] = "dying" /\ cam[p] = 0
  /\ life' = [life EXCEPT ![p] = "waiting"]
  /\ UNCHANGED <<phase, class, cam, queue, failSafe>>

AbortFreezeCam(p) ==
  /\ life[p] = "dying" /\ cam[p] < DeathCam
  /\ life' = [life EXCEPT ![p] = "waiting"]
  /\ UNCHANGED <<phase, class, cam, queue, failSafe>>

\* The command "extendfreeze" sets m_flDeathTime 2 seconds on; the death may be
\* longer ago than that.
ExtendFreeze(p) ==
  /\ life[p] \in {"dying", "waiting"}
  /\ \E t \in cam[p] .. MaxCam : cam' = [cam EXCEPT ![p] = t]
  /\ UNCHANGED <<phase, life, class, queue, failSafe>>

\* HandleCommand_JoinClass: the class is full and he keeps what he has, or he gets
\* it and near a spawn point spawns right away, dead or alive.  Either way, "if they
\* missed the last wave while choosing class then restart it now".
JoinClass(p) ==
  /\ life[p] # "away"
  /\ \/ UNCHANGED playerVars
     \/ /\ class' = [class EXCEPT ![p] = TRUE]
        /\ UNCHANGED <<life, cam>>
     \/ /\ class' = [class EXCEPT ![p] = TRUE]
        /\ life' = [life EXCEPT ![p] = "alive"]
        /\ cam' = [cam EXCEPT ![p] = 0]
  /\ AskForWave
  /\ UNCHANGED <<phase, failSafe>>

\* HandleCommand_JoinTeam by one who was not alive in his old team, or whose suicide
\* CommitSuicide refuses (near a spawn point, or too soon after the last one): he is
\* made an observer without a death, what is left of his cam is of an earlier one.
JoinTeam(p) ==
  /\ life[p] = "away"
  /\ life' = [life EXCEPT ![p] = "waiting"]
  /\ class' = [class EXCEPT ![p] = FALSE]
  /\ \E t \in 0 .. DeathCam : cam' = [cam EXCEPT ![p] = t]
  /\ AskForWave
  /\ UNCHANGED <<phase, failSafe>>

\* ... and by one who was, and kills himself: he asks for a wave twice.
JoinTeamAlive(p) ==
  /\ life[p] = "away"
  /\ life' = [life EXCEPT ![p] = "waiting"]
  /\ class' = [class EXCEPT ![p] = FALSE]
  /\ cam' = [cam EXCEPT ![p] = DeathCam]
  /\ \E w \in GetMaxWaveTime :
       queue' = CreateOrJoinRespawnWave(CreateOrJoinRespawnWave(queue, w), w)
  /\ UNCHANGED <<phase, failSafe>>

\* To the other team, to the spectators, or off the server
LeaveTeam(p) ==
  /\ life[p] # "away"
  /\ life' = [life EXCEPT ![p] = "away"]
  /\ class' = [class EXCEPT ![p] = FALSE]
  /\ cam' = [cam EXCEPT ![p] = 0]
  /\ UNCHANGED <<phase, queue, failSafe>>
---------------------------------------------------------------------------
(* CheckRespawnWaves, at the end of each frame. *)

\* Who may respawn: dead, with a class, his death cam over.
Eligible(state) == {p \in Players : life[p] = state /\ class[p] /\ cam[p] = 0}

\* RespawnPlayers and FailSafeSpawnPlayersOnTeam.  One who is still dying is
\* taken only in the preround, and not while he is in the freeze cam.
RespawnTeam ==
  \E S \in SUBSET IF phase = "preround" THEN Eligible("dying") ELSE {} :
    life' = [p \in Players |-> IF p \in S \cup Eligible("waiting") THEN "alive" ELSE life[p]]

\* m_flNextFailSafeWaveCheckTime is set on whether or not the ring is empty.
NextFailSafe == failSafe' = IF failSafe = 0 THEN FailSafePeriod ELSE Elapse(failSafe)

Countdown(q) == [q EXCEPT !.ring = [i \in Slots |-> Elapse(q.ring[i])]]
TimePasses(q) ==
  /\ queue' = Countdown(q)
  /\ cam' = [p \in Players |-> Elapse(cam[p])]
  /\ UNCHANGED <<phase, class>>

\* The first wave's time has come.
WaveGoes ==
  /\ phase # "idle" /\ queue.num > 0 /\ queue.ring[queue.head] = 0
  /\ RespawnTeam
  /\ NextFailSafe /\ TimePasses(PopWaveTime(queue))

WaveWaits ==
  /\ phase # "idle" /\ queue.num > 0 /\ queue.ring[queue.head] > 0
  /\ life' = life
  /\ NextFailSafe /\ TimePasses(queue)

\* mutant: no fail-safe
NoWaveNoFailSafe ==
  /\ phase # "idle" /\ queue.num = 0
  /\ life' = life
  /\ NextFailSafe /\ TimePasses(queue)

NoWave ==
  /\ phase # "idle" /\ queue.num = 0
  /\ IF failSafe = 0 THEN RespawnTeam ELSE life' = life
  /\ NextFailSafe /\ TimePasses(queue)

\* Nobody looks after the waves until the next preround.  (The think that ends
\* a round does so once more; here that is a think and then the end.)
Idle ==
  /\ phase = "idle"
  /\ life' = life
  /\ failSafe' = Elapse(failSafe) /\ TimePasses(queue)

Think == WaveGoes \/ WaveWaits \/ NoWave \/ Idle
---------------------------------------------------------------------------
(* The round. *)

StartRound ==
  /\ phase = "preround"
  /\ phase' = "running"
  /\ UNCHANGED <<playerVars, queue, failSafe>>

\* It is won or restarted, or nobody is left to play it.
EndRound ==
  /\ phase = "running"
  /\ phase' = "idle"
  /\ UNCHANGED <<playerVars, queue, failSafe>>

\* mutant: the tail is not reset
NewRoundKeepsTail ==
  /\ phase = "idle"
  /\ phase' = "preround"
  /\ life' = [p \in Players |-> IF class[p] THEN "alive" ELSE life[p]]
  /\ cam' = [p \in Players |-> IF class[p] THEN 0 ELSE cam[p]]
  /\ queue' = [queue EXCEPT !.head = 0, !.num = 0]
  /\ UNCHANGED <<class, failSafe>>

\* State_Enter_PREROUND: RespawnAllPlayers takes all who have a class; then the
\* ring is reset.
NewRound ==
  /\ phase = "idle"
  /\ phase' = "preround"
  /\ life' = [p \in Players |-> IF class[p] THEN "alive" ELSE life[p]]
  /\ cam' = [p \in Players |-> IF class[p] THEN 0 ELSE cam[p]]
  /\ queue' = EmptyQueue(queue)
  /\ UNCHANGED <<class, failSafe>>

\* The game rules are created with an empty ring, in PREGAME.
Init ==
  /\ phase = "idle"
  /\ life = [p \in Players |-> "away"]
  /\ class = [p \in Players |-> FALSE]
  /\ cam = [p \in Players |-> 0]
  /\ queue = [ring |-> [i \in Slots |-> 0], head |-> 0, tail |-> 0, num |-> 0]
  /\ failSafe = 0

PlayerStep(p) ==
  \/ Kill(p) \/ LeaveDeathAnim(p) \/ AbortFreezeCam(p)
  \/ JoinClass(p) \/ JoinTeam(p) \/ JoinTeamAlive(p) \/ LeaveTeam(p)

Next ==
  \/ \E p \in Players : PlayerStep(p)
  \/ \E p \in Extenders : ExtendFreeze(p)
  \/ Think \/ StartRound \/ EndRound \/ NewRound

\* The server runs its frames, and the commands of every player keep arriving.
Spec ==
  Init /\ [][Next]_vars /\ WF_vars(Think) /\ \A p \in Players : WF_vars(LeaveDeathAnim(p))
---------------------------------------------------------------------------
(* What is checked. *)

Times == 0 .. MaxWave
TypeOK ==
  /\ phase \in {"preround", "running", "idle"}
  /\ life \in [Players -> {"alive", "dying", "waiting", "away"}]
  /\ class \in [Players -> BOOLEAN]
  /\ cam \in [Players -> 0 .. MaxCam]
  /\ queue \in [ring : [Slots -> Times], head : Slots, tail : Slots, num : 0 .. QueueSize]
  /\ failSafe \in 0 .. FailSafePeriod

\* The tail is where the head and the number of waves say it is, although the
\* code updates the three in different places and resets them in a fourth.
RingConsistent == queue.tail = Wrap(queue.head + queue.num)

\* The ring of each team is a line of waves of bounded length: no wave is lost,
\* doubled, overtaken or brought back, however the ring wraps and fills, and a
\* player who asks gets a wave after his death cam if the line has room for it.
Waves == [k \in 1 .. queue.num |-> queue.ring[Wrap(queue.head + k - 1)]]
WaveTimes == DeathCam .. MaxWave \cup {PreroundWave}
WaveLine == INSTANCE DodWaveQueue WITH waves <- Waves, NewWaveTimes <- WaveTimes
ImplementsWaveLine == WaveLine!Spec

\* A player who is dead in a running round and has a class comes back, if he does
\* not put it off himself: whatever waves he missed, in the preround, by a late
\* command or because the ring was full, another wave or the fail-safe takes him.
EveryoneRespawns ==
  \A p \in Players \ Extenders :
    (phase = "running" /\ life[p] \in {"dying", "waiting"} /\ class[p])
      ~> (phase # "running" \/ life[p] \in {"alive", "away"})
===========================================================================
