--------------------------- MODULE VmpiTracker ---------------------------
(***************************************************************************)
(* CWorkUnitsTracker: tells how many work units are finished without a     *)
(* gap, from the first on, each time that number grows.  One entry of the  *)
(* window is the trigger, the first unit not finished; entries the window  *)
(* has dropped or not reached yet are "done" and "none".  The last entry   *)
(* in the window is never done, so the walk along the done entries ends    *)
(* inside it, and where the window ends need not be kept.                  *)
(***************************************************************************)
EXTENDS Naturals, FiniteSetsExt

CONSTANT NumUnits

Entries == {"none", "trigger", "done"}

PrepareForWorkUnits ==
  [first |-> 0, info |-> [u \in 0 .. NumUnits |-> IF u = 0 THEN "trigger" ELSE "none"]]

NextNotDone(info, u) == Min({k \in u + 1 .. NumUnits : info[k] # "done"})

\* mutant: the walk stops at the unit after the trigger
WorkUnitFinishedStopsShort(t, u) ==
  LET info == [t.info EXCEPT ![u] = "done"]
      next == u + 1
  IN IF u < t.first THEN [tracker |-> t, done |-> 0]
     ELSE IF t.info[u] = "trigger"
     THEN [tracker |-> [first |-> next, info |-> [info EXCEPT ![next] = "trigger"]],
           done |-> next]
     ELSE [tracker |-> [t EXCEPT !.info = info, !.first = IF u = @ THEN next ELSE @],
           done |-> 0]

\* The tracker after unit u, and what is passed to OnWorkUnitsCompleted (0: no call)
WorkUnitFinished(t, u) ==
  LET info == [t.info EXCEPT ![u] = "done"]
      next == NextNotDone(info, u)
  IN IF u < t.first THEN [tracker |-> t, done |-> 0]
     ELSE IF t.info[u] = "trigger"
     THEN [tracker |-> [first |-> next, info |-> [info EXCEPT ![next] = "trigger"]],
           done |-> next]
     ELSE [tracker |-> [t EXCEPT !.info = info, !.first = IF u = @ THEN next ELSE @],
           done |-> 0]
===========================================================================
