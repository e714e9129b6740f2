---------------------- MODULE DodRespawnWaves_proofs ----------------------
(***************************************************************************)
(* The respawn ring of CDODGameRules, for any number of players, of slots  *)
(* and any times: its head, its tail and its count always agree.  With     *)
(* them a full ring and an empty one, whose head and tail are the same,    *)
(* are never taken for each other.                                         *)
(***************************************************************************)
EXTENDS DodRespawnWaves, TLAPS, SequenceTheorems

Queues == [ring : [Slots -> Times], head : Slots, tail : Slots, num : 0 .. QueueSize]

\* What a queue of the code always is, as a predicate of one queue.
Ring(q) == q \in Queues /\ q.tail = Wrap(q.head + q.num)
---------------------------------------------------------------------------
(* Counting round the ring. *)

\* The index just past a slot is a slot, one further or the first.
LEMMA WrapNext ==
  ASSUME NEW i \in Slots
  PROVE  /\ Wrap(i + 1) \in Slots
         /\ Wrap(i + 1) = IF i + 1 = QueueSize THEN 0 ELSE i + 1
  BY WaveAssumption DEF Slots, Wrap

\* n steps from slot h, n at most once round, is h + n or that less the round.
LEMMA WrapSum ==
  ASSUME NEW h \in Slots, NEW n \in 0 .. QueueSize
  PROVE  Wrap(h + n) = IF h + n < QueueSize THEN h + n ELSE h + n - QueueSize
<1>1. h + n \in Nat /\ h + n < 2 * QueueSize
  BY WaveAssumption DEF Slots
<1>2. CASE h + n < QueueSize
  BY <1>1, <1>2, WaveAssumption DEF Wrap, Slots
<1>3. CASE h + n >= QueueSize
  BY <1>1, <1>3, WaveAssumption DEF Wrap, Slots
<1> QED BY <1>1, <1>2, <1>3, WaveAssumption DEF Slots

---------------------------------------------------------------------------
(* The operations of the ring keep it a ring. *)

LEMMA AddKeepsRing ==
  ASSUME NEW q, Ring(q), NEW w \in Times
  PROVE  Ring(AddWaveTime(q, w))
<1> DEFINE r == AddWaveTime(q, w)
<1>1. CASE q.num = QueueSize
  BY <1>1 DEF AddWaveTime
<1>2. CASE q.num # QueueSize
  <2>1. /\ q \in Queues /\ q.tail = Wrap(q.head + q.num)
        /\ q.head \in Slots /\ q.tail \in Slots /\ q.num \in 0 .. QueueSize
        /\ q.num + 1 \in 0 .. QueueSize
    BY <1>2, WaveAssumption DEF Ring, Queues
  <2>2. r = [q EXCEPT !.ring[q.tail] = w, !.num = q.num + 1, !.tail = Wrap(q.tail + 1)]
    BY <1>2 DEF AddWaveTime
  <2>3. Wrap(q.tail + 1) \in Slots
    BY <2>1, WrapNext
  <2>4. r \in Queues
    BY <2>1, <2>2, <2>3 DEF Queues
  <2>5. r.head = q.head /\ r.num = q.num + 1 /\ r.tail = Wrap(q.tail + 1)
    BY <2>1, <2>2 DEF Queues
  <2>6. Wrap(q.tail + 1) = Wrap(q.head + (q.num + 1))
    BY <2>1, WrapNext, WrapSum, WaveAssumption DEF Slots
  <2> QED BY <2>4, <2>5, <2>6 DEF Ring
<1> QED BY <1>1, <1>2

LEMMA PopKeepsRing ==
  ASSUME NEW q, Ring(q), q.num > 0
  PROVE  Ring(PopWaveTime(q))
<1> DEFINE r == PopWaveTime(q)
<1>1. /\ q \in Queues /\ q.tail = Wrap(q.head + q.num)
      /\ q.head \in Slots /\ q.num \in 0 .. QueueSize /\ q.num - 1 \in 0 .. QueueSize
  BY WaveAssumption DEF Ring, Queues
<1>2. Wrap(q.head + 1) \in Slots
  BY <1>1, WrapNext
<1>3. r \in Queues
  BY <1>1, <1>2 DEF PopWaveTime, Queues
<1>4. r.head = Wrap(q.head + 1) /\ r.num = q.num - 1 /\ r.tail = q.tail
  BY <1>1 DEF PopWaveTime, Queues
<1>5. Wrap(q.head + q.num) = Wrap(Wrap(q.head + 1) + (q.num - 1))
  BY <1>1, <1>2, WrapNext, WrapSum, WaveAssumption DEF Slots
<1> QED BY <1>1, <1>3, <1>4, <1>5 DEF Ring

LEMMA AskKeepsRing ==
  ASSUME NEW q, Ring(q), NEW w \in Times
  PROVE  Ring(CreateOrJoinRespawnWave(q, w))
BY AddKeepsRing DEF CreateOrJoinRespawnWave

LEMMA CountdownKeepsRing ==
  ASSUME NEW q, Ring(q)
  PROVE  Ring(Countdown(q))
<1> DEFINE r == Countdown(q)
<1>1. q \in Queues /\ q.ring \in [Slots -> Times]
  BY DEF Ring, Queues
<1>2. \A t \in Times : Elapse(t) \in Times
  BY WaveAssumption DEF Times, Elapse
<1>3. [i \in Slots |-> Elapse(q.ring[i])] \in [Slots -> Times]
  BY <1>1, <1>2
<1>4. r \in Queues /\ r.head = q.head /\ r.tail = q.tail /\ r.num = q.num
  BY <1>1, <1>3 DEF Countdown, Queues
<1> QED BY <1>4 DEF Ring

LEMMA EmptyIsRing ==
  ASSUME NEW q, Ring(q)
  PROVE  Ring(EmptyQueue(q))
<1>1. q \in Queues /\ 0 \in Slots /\ 0 \in 0 .. QueueSize
  BY WaveAssumption DEF Ring, Queues, Slots
<1>2. EmptyQueue(q) \in Queues /\ EmptyQueue(q).head = 0
      /\ EmptyQueue(q).tail = 0 /\ EmptyQueue(q).num = 0
  BY <1>1 DEF EmptyQueue, Queues
<1>3. Wrap(0 + 0) = 0
  BY <1>1, WrapSum, WaveAssumption
<1> QED BY <1>2, <1>3 DEF Ring

\* What a new wave takes is a time of the ring.
LEMMA NewWavesAreTimes == GetMaxWaveTime \subseteq Times
BY WaveAssumption DEF GetMaxWaveTime, Times
---------------------------------------------------------------------------
(* The invariant. *)

PlayersTyped ==
  /\ phase \in {"preround", "running", "idle"}
  /\ life \in [Players -> {"alive", "dying", "waiting", "away"}]
  /\ class \in [Players -> BOOLEAN]
  /\ cam \in [Players -> 0 .. MaxCam]
  /\ failSafe \in 0 .. FailSafePeriod

RingInv == Ring(queue)

\* The ring needs nothing but itself: every step of the system is a step of
\* the ring's own operations.
LEMMA RingInvariant == Spec => []RingInv
<1>1. Init => RingInv
  <2> SUFFICES ASSUME Init PROVE RingInv
    OBVIOUS
  <2>1. 0 \in Slots /\ 0 \in Times /\ 0 \in 0 .. QueueSize
    BY WaveAssumption DEF Slots, Times
  <2>2. [i \in Slots |-> 0] \in [Slots -> Times]
    BY <2>1
  <2>3. queue \in Queues /\ queue.head = 0 /\ queue.tail = 0 /\ queue.num = 0
    BY <2>1, <2>2 DEF Init, Queues
  <2>4. Wrap(0 + 0) = 0
    BY <2>1, WrapSum, WaveAssumption
  <2> QED BY <2>3, <2>4 DEF RingInv, Ring
<1>2. RingInv /\ [Next]_vars => RingInv'
  <2> SUFFICES ASSUME RingInv, [Next]_vars PROVE RingInv'
    OBVIOUS
  <2>1. RingInv' <=> Ring(queue')
    BY DEF RingInv, Ring, Queues
  <2>2. \A w \in Times : Ring(CreateOrJoinRespawnWave(queue, w))
    BY AskKeepsRing DEF RingInv
  <2>3. ASSUME AskForWave PROVE Ring(queue')
    BY <2>2, <2>3, NewWavesAreTimes DEF AskForWave
  <2>4. CASE \E p \in Players : PlayerStep(p)
    <3> PICK p \in Players : PlayerStep(p)
      BY <2>4
    <3>1. CASE Kill(p)
      BY <3>1, <2>1, <2>3 DEF Kill
    <3>2. CASE LeaveDeathAnim(p) \/ AbortFreezeCam(p) \/ LeaveTeam(p)
      BY <3>2, <2>1 DEF LeaveDeathAnim, AbortFreezeCam, LeaveTeam, RingInv
    <3>3. CASE JoinClass(p)
      BY <3>3, <2>1, <2>3 DEF JoinClass, playerVars
    <3>4. CASE JoinTeam(p)
      BY <3>4, <2>1, <2>3 DEF JoinTeam
    <3>5. CASE JoinTeamAlive(p)
      <4>1. PICK w \in Times :
              queue' = CreateOrJoinRespawnWave(CreateOrJoinRespawnWave(queue, w), w)
        BY <3>5, NewWavesAreTimes DEF JoinTeamAlive
      <4>2. Ring(queue')
        BY <4>1, <2>2, AskKeepsRing
      <4> QED BY <4>2, <2>1
    <3> QED BY <3>1, <3>2, <3>3, <3>4, <3>5 DEF PlayerStep
  <2>5. CASE \E p \in Extenders : ExtendFreeze(p)
    BY <2>5, <2>1 DEF ExtendFreeze, RingInv
  <2>6. CASE WaveGoes
    BY <2>6, <2>1, PopKeepsRing, CountdownKeepsRing DEF WaveGoes, TimePasses, RingInv
  <2>7. CASE WaveWaits \/ NoWave \/ Idle
    BY <2>7, <2>1, CountdownKeepsRing DEF WaveWaits, NoWave, Idle, TimePasses, RingInv
  <2>8. CASE StartRound \/ EndRound
    BY <2>8, <2>1 DEF StartRound, EndRound, RingInv
  <2>9. CASE NewRound
    BY <2>9, <2>1, EmptyIsRing DEF NewRound, RingInv
  <2>10. CASE UNCHANGED vars
    BY <2>10, <2>1 DEF vars, RingInv
  <2> QED BY <2>4, <2>5, <2>6, <2>7, <2>8, <2>9, <2>10 DEF Next, Think
<1> QED BY <1>1, <1>2, PTL DEF Spec

\* m_iAlliesRespawnTail, m_iAlliesRespawnHead and m_iNumAlliesRespawnWaves agree
\* in every state, whatever the size of the ring.
THEOREM RingIsConsistent == Spec => []RingConsistent
<1>1. RingInv => RingConsistent
  BY DEF RingInv, Ring, RingConsistent
<1> QED BY <1>1, RingInvariant, PTL

LEMMA PlayersTypedInvariant == Spec => []PlayersTyped
<1>1. Init => PlayersTyped
  BY WaveAssumption DEF Init, PlayersTyped
<1>2. PlayersTyped /\ [Next]_vars => PlayersTyped'
  <2> SUFFICES ASSUME PlayersTyped, [Next]_vars PROVE PlayersTyped'
    OBVIOUS
  <2> USE WaveAssumption DEF PlayersTyped
  <2>1. CASE \E p \in Players : PlayerStep(p)
    <3> PICK p \in Players : PlayerStep(p)
      BY <2>1
    <3>1. CASE Kill(p)
      BY <3>1 DEF Kill
    <3>2. CASE LeaveDeathAnim(p) \/ AbortFreezeCam(p)
      BY <3>2 DEF LeaveDeathAnim, AbortFreezeCam
    <3>3. CASE JoinClass(p)
      <4>1. CASE UNCHANGED playerVars
        BY <3>3, <4>1 DEF JoinClass, playerVars
      <4>2. CASE class' = [class EXCEPT ![p] = TRUE]
        <5>1. class' \in [Players -> BOOLEAN]
          BY <4>2
        <5>2. life' \in [Players -> {"alive", "dying", "waiting", "away"}]
          BY <3>3 DEF JoinClass, playerVars
        <5>3. cam' \in [Players -> 0..MaxCam]
          BY <3>3 DEF JoinClass, playerVars
        <5>4. UNCHANGED <<phase, failSafe>>
          BY <3>3 DEF JoinClass
        <5> QED BY <5>1, <5>2, <5>3, <5>4
      <4> QED BY <3>3, <4>1, <4>2 DEF JoinClass
    <3>4. CASE JoinTeam(p)
      BY <3>4 DEF JoinTeam
    <3>5. CASE JoinTeamAlive(p)
      BY <3>5 DEF JoinTeamAlive
    <3>6. CASE LeaveTeam(p)
      BY <3>6 DEF LeaveTeam
    <3> QED BY <3>1, <3>2, <3>3, <3>4, <3>5, <3>6 DEF PlayerStep
  <2>2. CASE \E p \in Extenders : ExtendFreeze(p)
    BY <2>2 DEF ExtendFreeze
  <2>3. CASE Think
    <3>1. ASSUME NEW q, TimePasses(q)
          PROVE  cam' \in [Players -> 0 .. MaxCam] /\ UNCHANGED <<phase, class>>
      BY <3>1 DEF TimePasses, Elapse
    <3>2. ASSUME RespawnTeam PROVE life' \in [Players -> {"alive", "dying", "waiting", "away"}]
      BY <3>2 DEF RespawnTeam
    <3>3. ASSUME NextFailSafe PROVE failSafe' \in 0 .. FailSafePeriod
      BY <3>3 DEF NextFailSafe, Elapse
    <3>4. CASE WaveGoes
      BY <3>1, <3>2, <3>3, <3>4 DEF WaveGoes
    <3>5. CASE WaveWaits
      BY <3>1, <3>3, <3>5 DEF WaveWaits
    <3>6. CASE NoWave
      BY <3>1, <3>2, <3>3, <3>6 DEF NoWave
    <3>7. CASE Idle
      <4>1. failSafe' \in 0 .. FailSafePeriod
        BY <3>7 DEF Idle, Elapse
      <4> QED BY <3>1, <3>7, <4>1 DEF Idle
    <3> QED BY <2>3, <3>4, <3>5, <3>6, <3>7 DEF Think
  <2>4. CASE StartRound \/ EndRound
    BY <2>4 DEF StartRound, EndRound, playerVars
  <2>5. CASE NewRound
    BY <2>5 DEF NewRound
  <2>6. CASE UNCHANGED vars
    BY <2>6 DEF vars, playerVars
  <2> QED BY <2>1, <2>2, <2>3, <2>4, <2>5, <2>6 DEF Next
<1> QED BY <1>1, <1>2, PTL DEF Spec

\* Every variable keeps its range: no count of the ring passes its size, no time
\* the longest wave, for any number of players and slots.
THEOREM TypeCorrect == Spec => []TypeOK
<1>1. RingInv /\ PlayersTyped => TypeOK
  BY DEF RingInv, Ring, Queues, PlayersTyped, TypeOK
<1> QED BY <1>1, RingInvariant, PlayersTypedInvariant, PTL
---------------------------------------------------------------------------
(* The ring implements the line of waves of DodWaveQueue.  The argument goes *)
(* operation by operation: what the code does to a ring is what the line     *)
(* does, seen from the head of the ring.                                     *)

\* The line that a ring stands for; Waves is that of the system's own queue.
Line(q) == [k \in 1 .. q.num |-> q.ring[Wrap(q.head + k - 1)]]

LEMMA WavesIsLine == Waves = Line(queue)
BY DEF Waves, Line

\* The k-th place after a slot, k at most once round, is a slot.
LEMMA PlaceIsSlot ==
  ASSUME NEW h \in Slots, NEW k \in 1 .. QueueSize
  PROVE  /\ Wrap(h + k - 1) \in Slots
         /\ Wrap(h + k - 1) = IF h + k - 1 < QueueSize THEN h + k - 1 ELSE h + k - 1 - QueueSize
<1>1. k - 1 \in 0 .. QueueSize /\ h + (k - 1) = h + k - 1
  BY WaveAssumption DEF Slots
<1>2. Wrap(h + k - 1) = IF h + k - 1 < QueueSize THEN h + k - 1 ELSE h + k - 1 - QueueSize
  BY <1>1, WrapSum
<1> QED BY <1>2, WaveAssumption DEF Slots

LEMMA LineIsSeq ==
  ASSUME NEW q, Ring(q)
  PROVE  /\ Line(q) \in Seq(Times)
         /\ Len(Line(q)) = q.num /\ DOMAIN Line(q) = 1 .. q.num
         /\ \A k \in 1 .. q.num : Line(q)[k] = q.ring[Wrap(q.head + k - 1)]
         /\ \A k \in 1 .. q.num : Wrap(q.head + k - 1) \in Slots
<1>1. q.num \in 0 .. QueueSize /\ q.head \in Slots /\ q.ring \in [Slots -> Times]
  BY DEF Ring, Queues
<1>2. q.num \in Nat /\ \A k \in 1 .. q.num : k \in 1 .. QueueSize
  BY <1>1, WaveAssumption
<1>3. \A k \in 1 .. q.num : Wrap(q.head + k - 1) \in Slots
  BY <1>1, <1>2, PlaceIsSlot
<1>4. Line(q) \in [1 .. q.num -> Times]
  BY <1>1, <1>3 DEF Line
<1>5. Line(q) \in Seq(Times)
  BY <1>2, <1>4, SeqDef
<1>6. Len(Line(q)) = q.num
  BY <1>2, <1>4, <1>5
<1> QED BY <1>3, <1>4, <1>5, <1>6 DEF Line

\* AddWaveTime puts the new wave at the end of the line.
LEMMA AddIsAppend ==
  ASSUME NEW q, Ring(q), NEW w \in Times, q.num < QueueSize
  PROVE  Line(AddWaveTime(q, w)) = Append(Line(q), w)
<1> DEFINE r == AddWaveTime(q, w)
<1>1. /\ q \in Queues /\ q.head \in Slots /\ q.tail \in Slots /\ q.num \in 0 .. QueueSize
      /\ q.ring \in [Slots -> Times] /\ q.tail = Wrap(q.head + q.num)
  BY DEF Ring, Queues
<1>2. r = [q EXCEPT !.ring[q.tail] = w, !.num = q.num + 1, !.tail = Wrap(q.tail + 1)]
  BY <1>1, WaveAssumption DEF AddWaveTime
<1>3. r.head = q.head /\ r.num = q.num + 1 /\ r.ring = [q.ring EXCEPT ![q.tail] = w]
  BY <1>1, <1>2 DEF Queues
<1>4. Ring(r)
  BY AddKeepsRing
<1>5. Line(r)[q.num + 1] = w
  <2>1. q.num + 1 \in 1 .. r.num /\ q.head + (q.num + 1) - 1 = q.head + q.num
    BY <1>1, <1>3, WaveAssumption DEF Slots
  <2>2. Line(r)[q.num + 1] = r.ring[q.tail]
    BY <1>1, <1>3, <1>4, <2>1, LineIsSeq
  <2> QED BY <1>1, <1>3, <2>2
<1>6. ASSUME NEW k \in 1 .. q.num
      PROVE  Line(r)[k] = Line(q)[k]
  <2>1. k \in 1 .. QueueSize /\ k \in 1 .. r.num
    BY <1>1, <1>3, WaveAssumption
  <2>2. Wrap(q.head + k - 1) \in Slots /\ Wrap(q.head + k - 1) # q.tail
    <3>1. /\ Wrap(q.head + k - 1) \in Slots
          /\ Wrap(q.head + k - 1)
               = IF q.head + k - 1 < QueueSize THEN q.head + k - 1 ELSE q.head + k - 1 - QueueSize
      BY <1>1, <2>1, PlaceIsSlot
    <3>2. q.tail = IF q.head + q.num < QueueSize THEN q.head + q.num ELSE q.head + q.num - QueueSize
      BY <1>1, WrapSum
    <3>3. q.head \in 0 .. QueueSize - 1 /\ k \in 1 .. q.num /\ q.num \in 0 .. QueueSize - 1
      BY <1>1, WaveAssumption DEF Slots
    <3> HIDE DEF r
    <3>4. Wrap(q.head + k - 1) # q.tail
      BY <3>1, <3>2, <3>3, WaveAssumption
    <3> QED BY <3>1, <3>4
  <2>3. Line(r)[k] = r.ring[Wrap(q.head + k - 1)]
    <3>1. Line(r)[k] = r.ring[Wrap(r.head + k - 1)]
      BY <1>4, <2>1, LineIsSeq
    <3> QED BY <1>3, <3>1
  <2>4. Line(q)[k] = q.ring[Wrap(q.head + k - 1)]
    BY LineIsSeq
  <2> QED BY <1>1, <1>3, <2>2, <2>3, <2>4
<1>7. /\ Line(q) \in Seq(Times) /\ Len(Line(q)) = q.num
      /\ Line(r) \in Seq(Times) /\ Len(Line(r)) = q.num + 1
  BY <1>3, <1>4, LineIsSeq
<1>8. /\ Append(Line(q), w) \in Seq(Times) /\ Len(Append(Line(q), w)) = q.num + 1
      /\ \A k \in 1 .. q.num : Append(Line(q), w)[k] = Line(q)[k]
      /\ Append(Line(q), w)[q.num + 1] = w
  BY <1>7, AppendProperties
<1>9. \A k \in 1 .. q.num + 1 : Line(r)[k] = Append(Line(q), w)[k]
  BY <1>1, <1>5, <1>6, <1>8, WaveAssumption
<1> QED BY <1>7, <1>8, <1>9, SeqEqual

\* PopWaveTime takes the first wave off the line.
LEMMA PopIsTail ==
  ASSUME NEW q, Ring(q), q.num > 0
  PROVE  /\ Line(PopWaveTime(q)) = Tail(Line(q))
         /\ Line(q) # <<>> /\ Head(Line(q)) = q.ring[q.head]
<1> DEFINE r == PopWaveTime(q)
<1>1. /\ q \in Queues /\ q.head \in Slots /\ q.num \in 1 .. QueueSize
      /\ q.ring \in [Slots -> Times]
  BY WaveAssumption DEF Ring, Queues
<1>2. r.head = Wrap(q.head + 1) /\ r.num = q.num - 1 /\ r.ring = q.ring
  BY <1>1 DEF PopWaveTime, Queues
<1>3. Ring(r)
  BY PopKeepsRing
<1>4. /\ Line(q) \in Seq(Times) /\ Len(Line(q)) = q.num
      /\ Line(r) \in Seq(Times) /\ Len(Line(r)) = q.num - 1
  BY <1>2, <1>3, LineIsSeq
<1>5. Line(q) # <<>>
  BY <1>1, <1>4
<1>6. /\ Tail(Line(q)) \in Seq(Times) /\ Len(Tail(Line(q))) = q.num - 1
      /\ \A k \in 1 .. q.num - 1 : Tail(Line(q))[k] = Line(q)[k + 1]
  BY <1>4, <1>5, HeadTailProperties
<1>7. ASSUME NEW k \in 1 .. q.num - 1
      PROVE  Line(r)[k] = Line(q)[k + 1]
  <2>1. k \in 1 .. QueueSize /\ k + 1 \in 1 .. QueueSize /\ k + 1 \in 1 .. q.num /\ k \in 1 .. r.num
    BY <1>1, <1>2, WaveAssumption
  <2>2. Wrap(q.head + 1) \in Slots
    BY <1>1, WrapNext
  <2>3. Wrap(Wrap(q.head + 1) + k - 1) = Wrap(q.head + (k + 1) - 1)
    <3> DEFINE h == Wrap(q.head + 1)
    <3>1. h = IF q.head + 1 = QueueSize THEN 0 ELSE q.head + 1
      BY <1>1, WrapNext
    <3>2. Wrap(h + k - 1) = IF h + k - 1 < QueueSize THEN h + k - 1 ELSE h + k - 1 - QueueSize
      BY <2>1, <2>2, PlaceIsSlot
    <3>3. Wrap(q.head + (k + 1) - 1)
            = IF q.head + (k + 1) - 1 < QueueSize THEN q.head + (k + 1) - 1
              ELSE q.head + (k + 1) - 1 - QueueSize
      BY <1>1, <2>1, PlaceIsSlot
    <3>4. q.head \in 0 .. QueueSize - 1 /\ k \in 1 .. QueueSize /\ h \in 0 .. QueueSize - 1
      BY <1>1, <2>1, <2>2 DEF Slots
    <3> HIDE DEF h
    <3>5. Wrap(h + k - 1) = Wrap(q.head + (k + 1) - 1)
      BY <3>1, <3>2, <3>3, <3>4, WaveAssumption
    <3> QED BY <3>5 DEF h
  <2>4. Line(r)[k] = q.ring[Wrap(Wrap(q.head + 1) + k - 1)]
    <3>1. Line(r)[k] = r.ring[Wrap(r.head + k - 1)]
      BY <1>3, <2>1, LineIsSeq
    <3> QED BY <1>2, <3>1
  <2>5. Line(q)[k + 1] = q.ring[Wrap(q.head + (k + 1) - 1)]
    BY <2>1, LineIsSeq
  <2> QED BY <2>3, <2>4, <2>5
<1>8. Line(r) = Tail(Line(q))
  BY <1>4, <1>6, <1>7, SeqEqual
<1>9. Head(Line(q)) = q.ring[q.head]
  <2>1. Head(Line(q)) = Line(q)[1] /\ 1 \in 1 .. q.num
    BY <1>1, <1>4, <1>5
  <2>2. Line(q)[1] = q.ring[Wrap(q.head + 1 - 1)]
    BY <2>1, LineIsSeq
  <2>3. Wrap(q.head + 1 - 1) = q.head
    <3>1. q.head \in Slots /\ 1 \in 1 .. QueueSize
      BY <1>1, WaveAssumption
    <3>2. Wrap(q.head + 1 - 1)
            = IF q.head + 1 - 1 < QueueSize THEN q.head + 1 - 1 ELSE q.head + 1 - 1 - QueueSize
      BY <3>1, PlaceIsSlot
    <3> QED BY <3>1, <3>2, WaveAssumption DEF Slots
  <2> QED BY <2>1, <2>2, <2>3
<1> QED BY <1>5, <1>8, <1>9

\* An empty ring, and a ring that has been emptied, is the empty line.
LEMMA EmptyIsEmpty ==
  ASSUME NEW q, Ring(q), q.num = 0
  PROVE  Line(q) = <<>>
BY LineIsSeq, EmptySeq

\* A frame takes the same from every wave.
LEMMA CountdownIsCountdown ==
  ASSUME NEW q, Ring(q)
  PROVE  Line(Countdown(q)) = WaveLine!Countdown(Line(q))
<1> DEFINE r == Countdown(q)
<1>1. q.head \in Slots /\ q.num \in 0 .. QueueSize /\ q.ring \in [Slots -> Times]
  BY DEF Ring, Queues
<1>2. r.head = q.head /\ r.num = q.num /\ r.ring = [i \in Slots |-> Elapse(q.ring[i])]
  BY DEF Countdown, Ring, Queues
<1>3. DOMAIN Line(q) = 1 .. q.num
      /\ \A k \in 1 .. q.num : Wrap(q.head + k - 1) \in Slots
                               /\ Line(q)[k] = q.ring[Wrap(q.head + k - 1)]
  BY LineIsSeq
<1>4. Line(r) = [k \in 1 .. q.num |-> r.ring[Wrap(q.head + k - 1)]]
  BY <1>2 DEF Line
<1>5. \A k \in 1 .. q.num : r.ring[Wrap(q.head + k - 1)] = Elapse(Line(q)[k])
  BY <1>2, <1>3
<1>6. Line(r) = [k \in 1 .. q.num |-> Elapse(Line(q)[k])]
  BY <1>4, <1>5
<1> QED BY <1>3, <1>6 DEF WaveLine!Countdown, Elapse

\* The loop of CreateOrJoinRespawnWave visits the slots of the line and no
\* other, when the ring is neither empty nor full.
LEMMA ScanIsLine ==
  ASSUME NEW q, Ring(q), q.num > 0, q.num < QueueSize
  PROVE  Scanned(q) = {Wrap(q.head + k - 1) : k \in 1 .. q.num}
<1>1. /\ q.head \in 0 .. QueueSize - 1 /\ q.num \in 1 .. QueueSize - 1
      /\ q.head \in Slots /\ q.num \in 0 .. QueueSize
  BY WaveAssumption DEF Ring, Queues, Slots
<1>2. q.tail = IF q.head + q.num < QueueSize THEN q.head + q.num ELSE q.head + q.num - QueueSize
  BY <1>1, WrapSum DEF Ring
<1>3. ASSUME NEW k \in 1 .. q.num
      PROVE  Wrap(q.head + k - 1)
               = IF q.head + k - 1 < QueueSize THEN q.head + k - 1 ELSE q.head + k - 1 - QueueSize
  <2>1. k \in 1 .. QueueSize
    BY <1>1, WaveAssumption
  <2> QED BY <1>1, <2>1, PlaceIsSlot
<1>4. ASSUME NEW i \in Scanned(q)
      PROVE  \E k \in 1 .. q.num : Wrap(q.head + k - 1) = i
  <2>1. CASE i >= q.head
    <3>1. i \in q.head .. QueueSize - 1 /\ i - q.head + 1 \in 1 .. q.num
      BY <1>1, <1>2, <2>1, WaveAssumption DEF Scanned
    <3>2. Wrap(q.head + (i - q.head + 1) - 1) = i
      BY <1>1, <1>3, <3>1, WaveAssumption
    <3> QED BY <3>1, <3>2
  <2>2. CASE i < q.head
    <3>1. i \in 0 .. q.head - 1 /\ i + QueueSize - q.head + 1 \in 1 .. q.num
      BY <1>1, <1>2, <2>2, WaveAssumption DEF Scanned
    <3>2. Wrap(q.head + (i + QueueSize - q.head + 1) - 1) = i
      BY <1>1, <1>3, <3>1, WaveAssumption
    <3> QED BY <3>1, <3>2
  <2>3. i \in Int
    BY <1>1, <1>2, WaveAssumption DEF Scanned
  <2> QED BY <1>1, <2>1, <2>2, <2>3
<1>5. ASSUME NEW k \in 1 .. q.num
      PROVE  Wrap(q.head + k - 1) \in Scanned(q)
  <2> DEFINE i == Wrap(q.head + k - 1)
  <2>1. i = IF q.head + k - 1 < QueueSize THEN q.head + k - 1 ELSE q.head + k - 1 - QueueSize
    BY <1>3
  <2> HIDE DEF i
  <2>2. CASE q.head + q.num < QueueSize
    <3>1. q.tail = q.head + q.num /\ i = q.head + k - 1
      BY <1>1, <1>2, <2>1, <2>2, WaveAssumption
    <3> QED BY <1>1, <3>1 DEF Scanned, i
  <2>3. CASE q.head + q.num >= QueueSize
    <3>1. q.tail = q.head + q.num - QueueSize /\ q.tail < q.head
      BY <1>1, <1>2, <2>3, WaveAssumption
    <3>2. i \in q.head .. QueueSize - 1 \/ i \in 0 .. q.tail - 1
      BY <1>1, <2>1, <3>1, WaveAssumption
    <3>3. ~ (q.head <= q.tail)
      BY <1>1, <3>1, WaveAssumption
    <3> QED BY <3>2, <3>3 DEF Scanned, i
  <2> QED BY <1>1, <2>2, <2>3, WaveAssumption
<1> QED BY <1>4, <1>5

\* A player who asks joins a wave of the ring when there is one for him in the
\* line, and otherwise starts a wave at the end of it.
LEMMA AskIsAskFor ==
  ASSUME NEW q, Ring(q), NEW w \in Times
  PROVE  Line(CreateOrJoinRespawnWave(q, w)) = WaveLine!AskFor(Line(q), w)
<1>1. q.num \in 0 .. QueueSize /\ Len(Line(q)) = q.num /\ DOMAIN Line(q) = 1 .. q.num
      /\ \A k \in 1 .. q.num : Line(q)[k] = q.ring[Wrap(q.head + k - 1)]
  BY LineIsSeq DEF Ring, Queues
<1>2. CASE q.num = 0
  <2>1. Line(q) = <<>>
    BY <1>2, EmptyIsEmpty
  <2>2. Line(AddWaveTime(q, w)) = Append(Line(q), w)
    BY <1>2, AddIsAppend, WaveAssumption
  <2>3. CreateOrJoinRespawnWave(q, w) = AddWaveTime(q, w)
    BY <1>2 DEF CreateOrJoinRespawnWave
  <2>4. Len(Line(q)) # QueueSize
    BY <1>1, <1>2, WaveAssumption
  <2> QED BY <2>1, <2>2, <2>3, <2>4 DEF WaveLine!AskFor, WaveLine!HasWave
<1>3. CASE q.num = QueueSize
  <2>1. CreateOrJoinRespawnWave(q, w) = q
    BY <1>3 DEF CreateOrJoinRespawnWave, AddWaveTime
  <2> QED BY <1>1, <1>3, <2>1 DEF WaveLine!AskFor
<1>4. CASE q.num > 0 /\ q.num < QueueSize
  <2>1. Line(q) # <<>> /\ Head(Line(q)) = q.ring[q.head]
    BY <1>4, PopIsTail
  <2>2. (\E i \in Scanned(q) : DeathCam < q.ring[i])
          <=> \E k \in DOMAIN Line(q) : DeathCam < Line(q)[k]
    BY <1>1, <1>4, ScanIsLine
  <2>3. Len(Line(q)) # QueueSize
    BY <1>1, <1>4, WaveAssumption
  <2>4. CASE WaveLine!HasWave(Line(q))
    <3>1. CreateOrJoinRespawnWave(q, w) = q
      BY <1>4, <2>1, <2>2, <2>4
      DEF CreateOrJoinRespawnWave, WaveLine!HasWave, WaveLine!Fits
    <3> QED BY <2>4, <3>1 DEF WaveLine!AskFor
  <2>5. CASE ~ WaveLine!HasWave(Line(q))
    <3>1. CreateOrJoinRespawnWave(q, w) = AddWaveTime(q, w)
      BY <1>4, <2>1, <2>2, <2>5
      DEF CreateOrJoinRespawnWave, WaveLine!HasWave, WaveLine!Fits
    <3>2. Line(AddWaveTime(q, w)) = Append(Line(q), w)
      BY <1>4, AddIsAppend
    <3> QED BY <2>3, <2>5, <3>1, <3>2 DEF WaveLine!AskFor
  <2> QED BY <2>4, <2>5
<1> QED BY <1>1, <1>2, <1>3, <1>4, WaveAssumption
---------------------------------------------------------------------------
\* A step of the game is an operation of the line, or none.
LEMMA StepIsStep ==
  ASSUME RingInv, [Next]_vars
  PROVE  [WaveLine!Next]_Waves
<1>1. Waves' = Line(queue') /\ Ring(queue)
  BY DEF Waves, Line, RingInv, Wrap
<1>2. ASSUME AskForWave PROVE WaveLine!Ask
  <2>1. PICK w \in GetMaxWaveTime : queue' = CreateOrJoinRespawnWave(queue, w)
    BY <1>2 DEF AskForWave
  <2>2. w \in Times /\ w \in WaveTimes
    BY NewWavesAreTimes DEF GetMaxWaveTime, WaveTimes
  <2>3. Waves' = WaveLine!AskFor(Waves, w)
    BY <1>1, <2>1, <2>2, AskIsAskFor, WavesIsLine
  <2> QED BY <2>2, <2>3 DEF WaveLine!Ask
<1>3. ASSUME queue' = queue PROVE Waves' = Waves
  BY <1>1, <1>3, WavesIsLine
<1>4. ASSUME TimePasses(queue) PROVE WaveLine!Frame
  <2>1. queue' = Countdown(queue)
    BY <1>4 DEF TimePasses
  <2>2. Waves' = WaveLine!Countdown(Waves)
    BY <1>1, <2>1, CountdownIsCountdown, WavesIsLine
  <2> QED BY <2>2 DEF WaveLine!Frame
<1>5. CASE \E p \in Players : PlayerStep(p)
  <2> PICK p \in Players : PlayerStep(p)
    BY <1>5
  <2>1. CASE Kill(p) \/ JoinClass(p) \/ JoinTeam(p)
    BY <1>2, <2>1 DEF Kill, JoinClass, JoinTeam, WaveLine!Next
  <2>2. CASE JoinTeamAlive(p)
    <3>1. PICK w \in GetMaxWaveTime :
            queue' = CreateOrJoinRespawnWave(CreateOrJoinRespawnWave(queue, w), w)
      BY <2>2 DEF JoinTeamAlive
    <3>2. w \in Times /\ w \in WaveTimes
      BY NewWavesAreTimes DEF GetMaxWaveTime, WaveTimes
    <3>3. Ring(CreateOrJoinRespawnWave(queue, w))
      BY <1>1, <3>2, AskKeepsRing
    <3>4. Waves' = WaveLine!AskFor(WaveLine!AskFor(Waves, w), w)
      BY <1>1, <3>1, <3>2, <3>3, AskIsAskFor, WavesIsLine
    <3> QED BY <3>2, <3>4 DEF WaveLine!AskTwice, WaveLine!Next
  <2>3. CASE LeaveDeathAnim(p) \/ AbortFreezeCam(p) \/ LeaveTeam(p)
    BY <1>3, <2>3 DEF LeaveDeathAnim, AbortFreezeCam, LeaveTeam
  <2> QED BY <2>1, <2>2, <2>3 DEF PlayerStep
<1>6. CASE \E p \in Extenders : ExtendFreeze(p)
  BY <1>3, <1>6 DEF ExtendFreeze
<1>7. CASE WaveGoes
  <2>1. queue' = Countdown(PopWaveTime(queue)) /\ queue.num > 0 /\ queue.ring[queue.head] = 0
    BY <1>7 DEF WaveGoes, TimePasses
  <2>2. Ring(PopWaveTime(queue)) /\ Line(PopWaveTime(queue)) = Tail(Waves)
        /\ Waves # <<>> /\ Head(Waves) = 0
    BY <1>1, <2>1, PopKeepsRing, PopIsTail, WavesIsLine
  <2>3. Waves' = WaveLine!Countdown(Tail(Waves))
    BY <1>1, <2>1, <2>2, CountdownIsCountdown
  <2> QED BY <2>2, <2>3 DEF WaveLine!Frame, WaveLine!Next
<1>8. CASE WaveWaits \/ NoWave \/ Idle
  BY <1>4, <1>8 DEF WaveWaits, NoWave, Idle, WaveLine!Next
<1>9. CASE StartRound \/ EndRound
  BY <1>3, <1>9 DEF StartRound, EndRound
<1>10. CASE NewRound
  <2>1. queue' = EmptyQueue(queue) /\ Ring(EmptyQueue(queue)) /\ EmptyQueue(queue).num = 0
    BY <1>1, <1>10, EmptyIsRing DEF NewRound, EmptyQueue, Ring, Queues
  <2>2. Waves' = <<>>
    BY <1>1, <2>1, EmptyIsEmpty
  <2> QED BY <2>2 DEF WaveLine!Reset, WaveLine!Next
<1>11. CASE UNCHANGED vars
  BY <1>3, <1>11 DEF vars
<1> QED BY <1>5, <1>6, <1>7, <1>8, <1>9, <1>10, <1>11 DEF Next, Think

\* The ring of a team, whatever its size and however it wraps and fills, is a
\* line of waves: CreateOrJoinRespawnWave, PopWaveTime and the reset of a round
\* do to it what they promise, and nothing else changes it.
THEOREM RingImplementsLine == Spec => ImplementsWaveLine
<1>1. Init => WaveLine!Init
  <2> SUFFICES ASSUME Init PROVE Waves = <<>>
    BY DEF WaveLine!Init
  <2>1. queue.num = 0
    BY DEF Init
  <2> QED BY <2>1, EmptySeq DEF Waves
<1>2. RingInv /\ [Next]_vars => [WaveLine!Next]_Waves
  BY StepIsStep
<1> QED BY <1>1, <1>2, RingInvariant, PTL DEF Spec, ImplementsWaveLine, WaveLine!Spec
===========================================================================
