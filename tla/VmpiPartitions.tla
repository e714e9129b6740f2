-------------------------- MODULE VmpiPartitions --------------------------
(***************************************************************************)
(* The books of CDistributor_DefaultMaster, which deals the work units of  *)
(* one DistributeWork call to the worker machines of a compile.            *)
(*                                                                         *)
(* A book holds the partitions (m_Partitions, in the order of the list),   *)
(* each a list of units with the worker who owns it or Nobody (-1), the    *)
(* units dealt and not finished (m_WUInfo) and the window of the lookup:   *)
(* first is FirstPossibleIndex, past is PastVisibleIndex.  The lookup of a *)
(* unit names the partition that holds it; a unit no partition holds has a *)
(* lookup that dangles.  Indices of list nodes, the switch                 *)
(* -mpi_NoScheduler (for tests with one worker) and the tracker of         *)
(* vmpi_distribute_tracker.cpp, which draws a picture, are left out.       *)
(***************************************************************************)
EXTENDS Naturals, Sequences, SequencesExt, FiniteSetsExt

CONSTANTS
  Workers,        \* ids of connections; that of a lost one is given out again
  Nobody,         \* the owner -1
  NumUnits,       \* m_nWorkUnits
  MaxWorkerCount, \* g_nMaxWorkerCount
  WUsToDeal       \* s_numWusToDeal; 0 lets the master choose

ASSUME PartitionAssumption ==
  /\ Nobody \notin Workers
  /\ NumUnits \in Nat \ {0}
  /\ MaxWorkerCount \in Nat /\ MaxWorkerCount >= 2   \* clamped in MPI_Init_Master
  /\ WUsToDeal \in Nat

Units == 0 .. NumUnits - 1

Partition(w, units) == [worker |-> w, units |-> units]
NoBook == [parts |-> <<>>, pending |-> {}, first |-> 0, past |-> 0]

\* What AssignWUsToWorker leaves: the book and the assignments to send.
Outcome(d, sends) == [book |-> d, sends |-> sends]
Assignment(w, units) == [to |-> w, units |-> units]
---------------------------------------------------------------------------
(* Finding partitions.  Index 0 is none. *)

FindPartitionByWorker(parts, w) == SelectInSeq(parts, LAMBDA p : p.worker = w)
PartitionOf(parts, u) == SelectInSeq(parts, LAMBDA p : u \in ToSet(p.units))
Listed(parts) == UNION {ToSet(p.units) : p \in ToSet(parts)}

\* The k-th unit of a list, or one past all units where the list is shorter
Job(units, k) == IF k <= Len(units) THEN units[k] ELSE NumUnits

\* CompareSoonestWorkUnitSets: by the fourth, then the second, then the first
Sooner(x, y) ==
  \/ Job(x, 4) < Job(y, 4)
  \/ Job(x, 4) = Job(y, 4) /\ Job(x, 2) < Job(y, 2)
  \/ Job(x, 4) = Job(y, 4) /\ Job(x, 2) = Job(y, 2) /\ Job(x, 1) < Job(y, 1)

FindSoonestPartition(parts) ==
  CHOOSE i \in DOMAIN parts :
    \A j \in DOMAIN parts \ {i} : Sooner(parts[i].units, parts[j].units)
---------------------------------------------------------------------------
(* The three sources of work for a worker who has none. *)

\* mutant: the new owner is told nothing
AdoptUntold(d, i, w) == Outcome([d EXCEPT !.parts[i].worker = w], {})

\* An abandoned partition changes hands.
Adopt(d, i, w) ==
  Outcome([d EXCEPT !.parts[i].worker = w], {Assignment(w, d.parts[i].units)})

BatchSize ==
  IF WUsToDeal > 0 THEN WUsToDeal
  ELSE IF NumUnits \div MaxWorkerCount > 0 THEN NumUnits \div MaxWorkerCount ELSE 8

\* mutant: the window grows by whole batches
DealPastEnd(d, w) ==
  LET end  == d.past + MaxWorkerCount * BatchSize
      n    == Min({end - d.past, MaxWorkerCount})
      hand == [k \in 1 .. n |->
                Partition(IF k = 1 THEN w ELSE Nobody,
                          [j \in 1 .. ((end - d.past - k) \div n) + 1 |->
                             d.past + (k - 1) + (j - 1) * n])]
  IN Outcome([d EXCEPT !.parts = @ \o hand, !.pending = @ \cup (d.past .. end - 1),
                       !.past = end],
             {Assignment(w, hand[1].units)})

\* Untouched units come into the window and are dealt in turn to as many
\* partitions as there may be workers: the first is for w, the rest for whoever
\* asks next.
Deal(d, w) ==
  LET end  == Min({d.past + MaxWorkerCount * BatchSize, NumUnits})
      n    == Min({end - d.past, MaxWorkerCount})
      hand == [k \in 1 .. n |->
                Partition(IF k = 1 THEN w ELSE Nobody,
                          [j \in 1 .. ((end - d.past - k) \div n) + 1 |->
                             d.past + (k - 1) + (j - 1) * n])]
  IN Outcome([d EXCEPT !.parts = @ \o hand, !.pending = @ \cup (d.past .. end - 1),
                       !.past = end],
             {Assignment(w, hand[1].units)})

\* mutant: the second half starts with the last unit of the first
SplitSharesUnit(d, i, w) ==
  LET units == d.parts[i].units
      half  == Len(units) \div 2
      old   == Partition(d.parts[i].worker, SubSeq(units, 1, half))
      new   == Partition(w, SubSeq(units, IF half = 0 THEN 1 ELSE half, Len(units)))
  IN Outcome([d EXCEPT !.parts = RemoveAt(@, i)
                                 \o (IF half = 0 THEN <<>> ELSE <<old>>) \o <<new>>],
             {Assignment(new.worker, new.units)}
             \cup (IF half = 0 THEN {} ELSE {Assignment(old.worker, old.units)}))

\* mutant: the second half starts one unit late
SplitLosesUnit(d, i, w) ==
  LET units == d.parts[i].units
      half  == Len(units) \div 2
      old   == Partition(d.parts[i].worker, SubSeq(units, 1, half))
      new   == Partition(w, SubSeq(units, IF half = 0 THEN 1 ELSE half + 2, Len(units)))
  IN Outcome([d EXCEPT !.parts = RemoveAt(@, i)
                                 \o (IF half = 0 THEN <<>> ELSE <<old>>)
                                 \o (IF new.units = <<>> THEN <<>> ELSE <<new>>)],
             {Assignment(new.worker, new.units)}
             \cup (IF half = 0 THEN {} ELSE {Assignment(old.worker, old.units)}))

\* SplitWUsPartition: the second half goes to w.  A partition of one unit goes
\* to w whole, and its old worker is told nothing.
SplitWUsPartition(d, i, w) ==
  LET units == d.parts[i].units
      half  == Len(units) \div 2
      old   == Partition(d.parts[i].worker, SubSeq(units, 1, half))
      new   == Partition(w, SubSeq(units, half + 1, Len(units)))
  IN Outcome([d EXCEPT !.parts = RemoveAt(@, i)
                                 \o (IF half = 0 THEN <<>> ELSE <<old>>) \o <<new>>],
             {Assignment(new.worker, new.units)}
             \cup (IF half = 0 THEN {} ELSE {Assignment(old.worker, old.units)}))

\* The worker's old partition is deleted, units and all.  He gets an abandoned
\* partition, or untouched units, or half of the soonest partition.
AssignWUsToWorker(d, w) ==
  LET mine == FindPartitionByWorker(d.parts, w)
      book == IF mine = 0 THEN d ELSE [d EXCEPT !.parts = RemoveAt(@, mine)]
      free == FindPartitionByWorker(book.parts, Nobody)
  IN IF free # 0 THEN Adopt(book, free, w)
     ELSE IF book.past < NumUnits THEN Deal(book, w)
     ELSE IF book.parts # <<>>
          THEN SplitWUsPartition(book, FindSoonestPartition(book.parts), w)
     ELSE Outcome(book, {})
---------------------------------------------------------------------------
(* Results and disconnections. *)

Outstanding(d, u) == d.first <= u /\ u < d.past /\ u \in d.pending

\* The least unit after u that is not finished, or the end of the window
NextOutstanding(d, u) == Min({d.past} \cup {k \in d.pending : k > u})

\* The unit leaves m_WUInfo; the window drops what is finished at its head.
StrikeOff(d, u) ==
  [d EXCEPT !.pending = @ \ {u}, !.first = IF u = @ THEN NextOutstanding(d, u) ELSE @]

\* mutant: the owner of a partition that is done gets nothing new
LeavePartitionIdle(d, u) ==
  LET i     == PartitionOf(d.parts, u)
      rest  == RemoveFirst(d.parts[i].units, u)
  IN IF rest # <<>> THEN Outcome([d EXCEPT !.parts[i].units = rest], {})
     ELSE Outcome([d EXCEPT !.parts = RemoveAt(@, i)], {})

\* The unit leaves its partition.  When that was the last unit, the partition
\* is deleted and, while units remain, its owner is given new work.
LeavePartition(d, u) ==
  LET i     == PartitionOf(d.parts, u)
      rest  == RemoveFirst(d.parts[i].units, u)
      owner == d.parts[i].worker
  IN IF rest # <<>> THEN Outcome([d EXCEPT !.parts[i].units = rest], {})
     ELSE LET left == [d EXCEPT !.parts = RemoveAt(@, i)]
          IN IF d.first < NumUnits THEN AssignWUsToWorker(left, owner)
             ELSE Outcome(left, {})

\* DisconnectHandler: the worker's partition has no owner any more.
Abandon(d, w) ==
  LET i == FindPartitionByWorker(d.parts, w)
  IN IF i = 0 THEN d ELSE [d EXCEPT !.parts[i].worker = Nobody]
===========================================================================
