-------------------------- MODULE VmpiDistribute --------------------------
(***************************************************************************)
(* DistributeWork of the map compilers (vvis, vrad): a master deals work   *)
(* units to worker machines with the default distributor, collects the     *)
(* results, and runs several such calls one after the other.  Machines     *)
(* join and disconnect at any time.                                        *)
(*                                                                         *)
(* Each connection carries messages in order both ways.  Connections do    *)
(* not wait for each other, and the master learns of a lost connection     *)
(* before it reads what that connection had already delivered:             *)
(* VMPI_GetNextMessage waits on the event of the errors first.  To lose a  *)
(* connection and to notice it is one step here; between the two a machine *)
(* is no different from a slow one.  The id of a lost connection goes to   *)
(* the next machine that joins, and with it what the master has not read.  *)
(*                                                                         *)
(* Calls are numbered from 1.  The messages that only feed displays and    *)
(* statistics (WU_STARTED), grouping of packets and the data of results    *)
(* are left out.                                                           *)
(***************************************************************************)
EXTENDS VmpiPartitions

CONSTANTS
  Threads,         \* of a worker machine
  NumCalls,        \* bound: the calls of a compile; DistributeWork allows 255
  MaxDisconnects,  \* bound: how often a connection is lost
  Stoppable,       \* the calls the user of the compiler may stop (vvis, keys M 2)
  None             \* no unit: ~0ull

ASSUME DistributeAssumption ==
  /\ NumCalls \in 1 .. 255
  /\ MaxDisconnects \in Nat
  /\ Stoppable \subseteq 1 .. NumCalls
  /\ None \notin Units
  /\ Threads # {}      \* the Assert of RunThreads_Start, threads.cpp:185

T == INSTANCE VmpiTracker

VARIABLES
  call,      \* g_iCurDSInfo of the master, 0 before the first call
  phase,     \* "distributing" in a call, "between" calls, or "down": it crashed
  book,      \* the distributor
  tracker,   \* g_MasterWorkUnitsTracker
  reported,  \* what OnWorkUnitsCompleted was last called with in this call
  received,  \* how often m_ReceiveFn was called for a unit in this call
  state,     \* of a worker: "absent", "waiting" for the master, "working",
             \* "closing" its threads, "done" with all calls, "gone"
  wcall,     \* g_iCurDSInfo of a worker
  todo,      \* m_WorkUnits
  running,   \* m_WorkUnitsRunning, of each thread
  busy,      \* the unit a thread is at work on
  toWorker, toMaster, \* the connections
  lost       \* the ids whose connections were lost, in the order of the losses

masterVars == <<call, phase, book, tracker, reported, received>>
threadVars == <<todo, running, busy>>
workerVars == <<state, wcall, threadVars, lost>>
netVars    == <<toWorker, toMaster>>
vars == <<masterVars, workerVars, netVars>>

Connected(w) == state[w] \notin {"absent", "gone"}

Message(type, c, what) == [type |-> type, call |-> c, what |-> what]

\* To every worker who is connected
Broadcast(m) ==
  toWorker' = [w \in Workers |-> IF Connected(w) THEN Append(toWorker[w], m) ELSE toWorker[w]]

\* g_PersistentPackets: what a worker who joins now is sent first
Persistent ==
  [k \in 1 .. (IF phase = "distributing" THEN 2 * call - 1 ELSE 2 * call) |->
     IF k % 2 = 1 THEN Message("ready", (k + 1) \div 2, <<>>)
                  ELSE Message("finished", k \div 2, <<>>)]
---------------------------------------------------------------------------
(* The master. *)

\* DistributeWork: ++g_iCurDSInfo, MASTER_READY to all and a new distributor
StartCall ==
  /\ phase = "between" /\ call < NumCalls
  /\ call' = call + 1
  /\ phase' = "distributing"
  /\ book' = NoBook /\ tracker' = T!PrepareForWorkUnits
  /\ reported' = 0 /\ received' = [u \in Units |-> 0]
  /\ Broadcast(Message("ready", call', <<>>))
  /\ UNCHANGED <<workerVars, toMaster>>

\* DistributeWork_Master returns: the distributor is released, MASTER_FINISHED to all.
EndCall ==
  /\ phase' = "between" /\ book' = NoBook
  /\ Broadcast(Message("finished", call, <<>>))
  /\ UNCHANGED <<call, tracker, reported, received, workerVars, toMaster>>

\* Its loop ends when the window has dropped every unit, or when Update says so.
FinishCall == phase = "distributing" /\ book.first >= NumUnits /\ EndCall
StopCall   == phase = "distributing" /\ book.first < NumUnits /\ call \in Stoppable /\ EndCall

\* SendPartitionToWorker; data for a lost connection is dropped.
Send(sends) ==
  toWorker' = [w \in Workers |->
    IF Connected(w) /\ \E s \in sends : s.to = w
    THEN Append(toWorker[w],
                Message("assign", call, (CHOOSE s \in sends : s.to = w).units))
    ELSE toWorker[w]]

\* VMPI_DispatchNextMessage takes the head of some connection.
Dispatch(w, type) ==
  /\ phase = "distributing" /\ book.first < NumUnits
  /\ toMaster[w] # <<>> /\ Head(toMaster[w]).type = type
  /\ toMaster' = [toMaster EXCEPT ![w] = Tail(@)]

OnWorkerReady(w) ==
  /\ Dispatch(w, "workerReady")
  /\ IF Head(toMaster[w]).call = call
     THEN LET given == AssignWUsToWorker(book, w)
          IN book' = given.book /\ Send(given.sends)
     ELSE UNCHANGED <<book, toWorker>>
  /\ UNCHANGED <<call, phase, tracker, reported, received, workerVars>>

\* HandleWorkUnitCompleted for a unit whose results are the first.  The caller is told
\* of the units done in a row (OnWorkUnitsCompleted) before m_ReceiveFn is called with
\* the results; both are in one handler of the master's only thread, hence one step.
Receive(u, after) ==
  LET step == T!WorkUnitFinished(tracker, u)
  IN /\ book' = after.book /\ Send(after.sends)
     /\ tracker' = step.tracker
     /\ reported' = IF step.done # 0 THEN step.done ELSE reported
     /\ received' = [received EXCEPT ![u] = @ + 1]
     /\ UNCHANGED phase

\* The master uses a partition it has deleted, or sends to the worker -1, before
\* the first element of g_Connections and its mutexes, and goes down.
GoDown ==
  phase' = "down" /\ UNCHANGED <<book, toWorker, tracker, reported, received>>

\* HandleWorkUnitResults.  The lookup of a unit whose partition was deleted is
\* undefined: memory that is no partition, or a partition that was added in its
\* place, which loses the unit in that place of its list, or none.
FirstResults(u) ==
  LET struck == StrikeOff(book, u)
      kept   == u \in Listed(book.parts)
  IN \/ ~kept /\ (GoDown \/ Receive(u, Outcome(struck, {})))
     \/ \E v \in IF kept THEN {u} ELSE Listed(book.parts) :
          LET after == LeavePartition(struck, v)
          IN \/ Receive(u, after)
             \/ (\E s \in after.sends : s.to = Nobody) /\ GoDown

\* Results of an earlier call, and of a unit that is finished, are ignored.
OnResults(w) ==
  /\ Dispatch(w, "results")
  /\ LET m == Head(toMaster[w])
     IN IF m.call = call /\ Outstanding(book, m.what) THEN FirstResults(m.what)
        ELSE UNCHANGED <<phase, book, toWorker, tracker, reported, received>>
  /\ UNCHANGED <<call, workerVars>>
---------------------------------------------------------------------------
(* A worker. *)

\* A machine connects; it is sent what all have been told so far.
Join(w) ==
  /\ phase # "down" /\ ~Connected(w)
  /\ state' = [state EXCEPT ![w] = "waiting"]
  /\ wcall' = [wcall EXCEPT ![w] = 1]
  /\ toWorker' = [toWorker EXCEPT ![w] = Persistent]
  /\ UNCHANGED <<masterVars, threadVars, lost, toMaster>>

Hear(w, type) ==
  /\ toWorker[w] # <<>> /\ Head(toWorker[w]).type = type
  /\ Head(toWorker[w]).call = wcall[w]
  /\ toWorker' = [toWorker EXCEPT ![w] = Tail(@)]

\* PreDistributeWorkSync, and the worker's new distributor
HearMasterReady(w) ==
  /\ state[w] = "waiting" /\ Hear(w, "ready")
  /\ state' = [state EXCEPT ![w] = "working"]
  /\ todo' = [todo EXCEPT ![w] = <<>>]
  /\ toMaster' = [toMaster EXCEPT ![w] = Append(@, Message("workerReady", wcall[w], None))]
  /\ UNCHANGED <<masterVars, wcall, running, busy, lost>>

\* HandlePacket: the list is purged and filled anew.
HearAssignment(w) ==
  /\ state[w] = "working" /\ Hear(w, "assign")
  /\ todo' = [todo EXCEPT ![w] = Head(toWorker[w]).what]
  /\ UNCHANGED <<masterVars, state, wcall, running, busy, lost, toMaster>>

HearMasterFinished(w) ==
  /\ state[w] = "working" /\ Hear(w, "finished")
  /\ state' = [state EXCEPT ![w] = "closing"]
  /\ UNCHANGED <<masterVars, wcall, threadVars, lost, toMaster>>

\* VMPI_WorkerThread takes the next unit and passes over one that is running.
\* What a thread has run stays listed as running until it takes another.  The code
\* takes the unit (GetNextWorkUnit) and looks whether it is running under two locks;
\* here that is one step, so no thread holds a unit it has not yet decided about.
TakeWorkUnit(w, t) ==
  /\ state[w] = "working" /\ busy[w][t] = None /\ todo[w] # <<>>
  /\ LET u == Head(todo[w])
     IN IF \E s \in Threads : running[w][s] = u
        THEN UNCHANGED <<running, busy>>
        ELSE /\ running' = [running EXCEPT ![w][t] = u]
             /\ busy' = [busy EXCEPT ![w][t] = u]
  /\ todo' = [todo EXCEPT ![w] = Tail(@)]
  /\ UNCHANGED <<masterVars, state, wcall, lost, netVars>>

\* m_pProcessFn, and the results go to the master.
FinishWorkUnit(w, t) ==
  /\ state[w] \in {"working", "closing"} /\ busy[w][t] # None
  /\ busy' = [busy EXCEPT ![w][t] = None]
  /\ toMaster' = [toMaster EXCEPT ![w] = Append(@, Message("results", wcall[w], busy[w][t]))]
  /\ UNCHANGED <<masterVars, state, wcall, todo, running, lost, toWorker>>

\* RunThreads_End waits for the threads; then the next call, if there is one.
CloseThreads(w) ==
  /\ state[w] = "closing" /\ \A t \in Threads : busy[w][t] = None
  /\ IF wcall[w] < NumCalls
     THEN /\ state' = [state EXCEPT ![w] = "waiting"]
          /\ wcall' = [wcall EXCEPT ![w] = @ + 1]
     ELSE state' = [state EXCEPT ![w] = "done"] /\ UNCHANGED wcall
  /\ UNCHANGED <<masterVars, threadVars, lost, netVars>>

\* A connection is lost, with the end of what was on its way.  What is to come of
\* the machine does not matter to the master.
Disconnect(w) ==
  /\ Connected(w) /\ phase # "down"
  /\ Len(lost) < MaxDisconnects
  /\ lost' = Append(lost, w)
  /\ state' = [state EXCEPT ![w] = "gone"]
  /\ todo' = [todo EXCEPT ![w] = <<>>]
  /\ running' = [running EXCEPT ![w] = [t \in Threads |-> None]]
  /\ busy' = [busy EXCEPT ![w] = [t \in Threads |-> None]]
  /\ toWorker' = [toWorker EXCEPT ![w] = <<>>]
  /\ \E arrived \in Prefixes(toMaster[w]) : toMaster' = [toMaster EXCEPT ![w] = arrived]
  /\ book' = IF phase = "distributing" THEN Abandon(book, w) ELSE book
  /\ UNCHANGED <<call, phase, tracker, reported, received, wcall>>
---------------------------------------------------------------------------
Init ==
  /\ call = 0 /\ phase = "between"
  /\ book = NoBook /\ tracker = T!PrepareForWorkUnits
  /\ reported = 0 /\ received = [u \in Units |-> 0]
  /\ state = [w \in Workers |-> "absent"] /\ wcall = [w \in Workers |-> 0]
  /\ todo = [w \in Workers |-> <<>>]
  /\ running = [w \in Workers |-> [t \in Threads |-> None]]
  /\ busy = [w \in Workers |-> [t \in Threads |-> None]]
  /\ toWorker = [w \in Workers |-> <<>>] /\ toMaster = [w \in Workers |-> <<>>]
  /\ lost = <<>>

MasterNext(w) == OnWorkerReady(w) \/ OnResults(w)
WorkerNext(w) ==
  \/ HearMasterReady(w) \/ HearAssignment(w) \/ HearMasterFinished(w)
  \/ CloseThreads(w)
ThreadNext(w, t) == TakeWorkUnit(w, t) \/ FinishWorkUnit(w, t)

Next ==
  \/ StartCall \/ FinishCall \/ StopCall
  \/ \E w \in Workers :
       MasterNext(w) \/ Join(w) \/ Disconnect(w) \/ WorkerNext(w)
       \/ \E t \in Threads : ThreadNext(w, t)

Safe == Init /\ [][Next]_vars

\* The master reads on, whatever the message is.
Read(w) == Dispatch(w, "workerReady") \/ Dispatch(w, "results")

\* The programs run; users, and machines that join or leave, owe nothing.
Spec ==
  /\ Safe
  /\ WF_vars(StartCall) /\ WF_vars(FinishCall)
  /\ \A w \in Workers :
       /\ WF_toMaster(Read(w)) /\ WF_vars(WorkerNext(w))
       /\ \A t \in Threads : WF_vars(ThreadNext(w, t))
---------------------------------------------------------------------------
NoneLost == lost = <<>>
NeverLost(w) == w \notin ToSet(lost)
HeldBy(w, u) ==
  \/ u \in ToSet(todo[w])
  \/ \E t \in Threads : busy[w][t] = u
  \/ \E m \in ToSet(toMaster[w]) : m = Message("results", call, u)
  \/ \E m \in ToSet(toWorker[w]) : m.type = "assign" /\ u \in ToSet(m.what)

TypeOK ==
  /\ call \in 0 .. NumCalls /\ phase \in {"between", "distributing", "down"}
  /\ book.parts \in Seq([worker : Workers \cup {Nobody}, units : Seq(Units)])
  /\ book.pending \subseteq Units /\ {book.first, book.past} \subseteq 0 .. NumUnits
  /\ tracker.first \in 0 .. NumUnits
  /\ tracker.info \in [0 .. NumUnits -> T!Entries]
  /\ reported \in 0 .. NumUnits /\ received \in [Units -> Nat]
  /\ state \in [Workers -> {"absent", "waiting", "working", "closing", "done", "gone"}]
  /\ wcall \in [Workers -> 0 .. NumCalls]
  /\ lost \in Seq(Workers) /\ Len(lost) <= MaxDisconnects
  /\ todo \in [Workers -> Seq(Units)]
  /\ running \in [Workers -> [Threads -> Units \cup {None}]]
  /\ busy \in [Workers -> [Threads -> Units \cup {None}]]

\* A unit is in at most one partition and is then not finished, no partition is
\* empty, and no worker owns two, however partitions are dealt, adopted, split,
\* handed over whole, abandoned and deleted.
PartitionsSound ==
  LET parts == book.parts
  IN /\ \A i \in DOMAIN parts :
          /\ parts[i].units # <<>> /\ ToSet(parts[i].units) \subseteq book.pending
          /\ \A j, k \in DOMAIN parts[i].units : j < k => parts[i].units[j] < parts[i].units[k]
     /\ \A i, j \in DOMAIN parts : i # j =>
          /\ ToSet(parts[i].units) \cap ToSet(parts[j].units) = {}
          /\ parts[i].worker = parts[j].worker => parts[i].worker = Nobody

\* While no connection is lost, every unit dealt is in a partition until its
\* results come, and the master never uses what it has deleted.
NothingLostWithoutDisconnect ==
  NoneLost =>
    /\ phase # "down"
    /\ phase = "distributing" => book.pending \subseteq Listed(book.parts)

\* In the first call a worker whose id was never lost has, in his list, at work
\* or under way, every unit of the partition the master has down for him, across
\* all reassignments that cross his results on the way.
OwnersHoldTheirUnits ==
  (call = 1 /\ phase = "distributing") =>
    \A i \in DOMAIN book.parts :
      LET w == book.parts[i].worker
      IN w \in Workers /\ Connected(w) /\ NeverLost(w) =>
           \A u \in ToSet(book.parts[i].units) : HeldBy(w, u)

\* What DistributeWork promises its caller.
WorkBag == INSTANCE VmpiWorkBag
ImplementsWorkBag == WorkBag!Spec

\* While no connection is lost, the first call ends as soon as one machine has
\* joined, whatever the others do and however work is handed to and fro.
FirstCallFinishes ==
  (call = 1 /\ phase = "distributing" /\ \E w \in Workers : Connected(w))
    ~> (phase # "distributing" \/ ~NoneLost)

\* The units of a worker whose connection is lost stay in a partition, where
\* another worker can get them.
AbandonedWorkIsKept ==
  phase = "distributing" => book.pending \subseteq Listed(book.parts)

\* A thread passes over a unit only if one of its machine's threads is at work on
\* it, or has been in this call.
PassesOverOnlyRunning ==
  [][\A w \in Workers :
       (/\ todo[w] # <<>> /\ todo'[w] = Tail(todo[w])
        /\ Connected(w) /\ UNCHANGED <<state, busy, toWorker>>)
       => LET u == Head(todo[w])
          IN \/ \E t \in Threads : busy[w][t] = u
             \/ \E m \in ToSet(toMaster[w]) : m = Message("results", wcall[w], u)
             \/ wcall[w] # call \/ received[u] > 0]_vars
===========================================================================
