---------------------------- MODULE VmpiWorkBag ----------------------------
(***************************************************************************)
(* What DistributeWork promises: in a call the results of each work unit   *)
(* are received once, in any order; the caller is told how many units are  *)
(* finished without a gap, from the first on, when that number grows; and  *)
(* the call returns only when all units are finished, unless its user may  *)
(* stop it.  The program may go down in a call; when it must not is not    *)
(* said here.                                                              *)
(***************************************************************************)
EXTENDS Naturals

CONSTANTS NumUnits, NumCalls, Stoppable

VARIABLES
  call,      \* the number of the call
  phase,     \* "between" calls, "distributing" in a call, or "down"
  received,  \* how often the results of a unit were received in this call
  reported   \* the number last told

vars == <<call, phase, received, reported>>
Units == 0 .. NumUnits - 1

\* n units are finished without a gap.
Prefix(got, n) ==
  /\ n \in 0 .. NumUnits
  /\ \A u \in Units : u < n => got[u] = 1
  /\ n < NumUnits => got[n] = 0

Init ==
  /\ call = 0 /\ phase = "between"
  /\ received = [u \in Units |-> 0] /\ reported = 0

Open ==
  /\ phase = "between" /\ call < NumCalls
  /\ phase' = "distributing" /\ call' = call + 1
  /\ received' = [u \in Units |-> 0] /\ reported' = 0

Receive(u) ==
  /\ phase = "distributing" /\ received[u] = 0
  /\ received' = [received EXCEPT ![u] = 1]
  /\ Prefix(received', reported')
  /\ UNCHANGED <<call, phase>>

Close ==
  /\ phase = "distributing"
  /\ call \in Stoppable \/ \A u \in Units : received[u] = 1
  /\ phase' = "between" /\ UNCHANGED <<call, received, reported>>

GoDown ==
  /\ phase = "distributing"
  /\ phase' = "down" /\ UNCHANGED <<call, received, reported>>

Next == Open \/ Close \/ GoDown \/ \E u \in Units : Receive(u)
Spec == Init /\ [][Next]_vars
===========================================================================
