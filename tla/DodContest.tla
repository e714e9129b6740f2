--------------------------- MODULE DodContest ---------------------------
(* What a round of objectives promises, whatever the objectives are: the    *)
(* points change hands only while the round is contested; the change that   *)
(* decides it also ends it, for the team that made it; nothing else than    *)
(* the clock ends it; and the next round starts from the map's own owners.  *)
CONSTANTS
  Points, Teams, NoTeam,
  StartOwner,   \* the owners a round starts from
  Winner(_),    \* the team that has won with these owners, or NoTeam
  ClockTeam     \* the team that wins when the clock runs out

VARIABLES phase, owner, winner
vars == <<phase, owner, winner>>

Init ==
  /\ phase = "preround"
  /\ owner = StartOwner
  /\ winner = NoTeam

Begin ==
  /\ phase = "preround"
  /\ phase' = "contested"
  /\ UNCHANGED <<owner, winner>>

Decide(t) ==
  /\ winner' = t
  /\ phase' = IF t = NoTeam THEN "contested" ELSE "decided"

Take(p, t) ==
  /\ phase = "contested"
  /\ owner' = [owner EXCEPT ![p] = t]
  /\ Decide(Winner(owner'))

TimeUp ==
  /\ phase = "contested"
  /\ Decide(ClockTeam)
  /\ UNCHANGED owner

NextRound ==
  /\ phase # "preround"
  /\ phase' = "preround"
  /\ owner' = StartOwner
  /\ winner' = NoTeam

Next ==
  \/ Begin \/ TimeUp \/ NextRound
  \/ \E p \in Points, t \in Teams \cup {NoTeam} : Take(p, t)

Spec == Init /\ [][Next]_vars
=========================================================================
