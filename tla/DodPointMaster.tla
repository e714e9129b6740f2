-------------------------- MODULE DodPointMaster --------------------------
(***************************************************************************)
(* The two loops of CControlPointMaster over its points.  FindControlPoints *)
(* gives the points it has found new indices from 0; TeamOwnsAllPoints      *)
(* finds the team that has won, with one array entry per group and, when it *)
(* predicts a win, with one point's owner overridden.  One iteration is one *)
(* step, so that what the loops compute is a property of their last state.  *)
(***************************************************************************)
EXTENDS DodPoints

CONSTANTS
  MapIndex,       \* the point index each found point has in the map
  LowestValue     \* the starting value of lowestValue, 999 in the code

ASSUME IndexAssumption ==
  /\ MapIndex \in [Points -> 0 .. LowestValue - 1]
  /\ \A p, q \in Points : p # q => MapIndex[p] # MapIndex[q]

VARIABLES
  phase,          \* which loop is running
  index,          \* m_iPointIndex of every point
  handled,        \* bHandled
  newIndex,
  own,            \* the owners the scan reads
  override,       \* pOverridePoint and iOverrideNewTeam
  i,              \* the scan's next point
  claim,          \* iWinningTeam
  result          \* what TeamOwnsAllPoints returned

remapVars == <<index, handled, newIndex>>
scanVars  == <<own, override, i, claim>>
vars == <<phase, remapVars, scanVars, result>>

GroupIds == 0 .. MaxGroups - 1
Invalid == "invalid"          \* TEAM_INVALID: no point of the group seen yet
NoPoint == 0                  \* pOverridePoint = NULL

---------------------------------------------------------------------------
(* FindControlPoints: remap the indices so that they are 0-based. *)

\* mutant: the lowest of all points, handled or not
LowestOfAll(j) == \A k \in Points : index[j] <= index[k]

\* "find the lowest unhandled index"
Lowest(j) ==
  /\ j \notin handled
  /\ index[j] < LowestValue
  /\ \A k \in Points \ handled : index[j] <= index[k]

\* mutant: the loop runs one point too far
RemapOnePastEnd(j) ==
  /\ phase = "remap" /\ newIndex <= NumPoints
  /\ handled' = handled \cup {j}
  /\ index' = [index EXCEPT ![j] = newIndex]
  /\ newIndex' = newIndex + 1
  /\ UNCHANGED <<phase, scanVars, result>>

Remap(j) ==
  /\ phase = "remap" /\ newIndex < NumPoints
  /\ Lowest(j)
  /\ handled' = handled \cup {j}
  /\ index' = [index EXCEPT ![j] = newIndex]
  /\ newIndex' = newIndex + 1
  /\ UNCHANGED <<phase, scanVars, result>>

\* The points are found; the scan is called whenever an owner changes, and by
\* WouldNewCPOwnerWinGame with a point and a team of its own.
CallTeamOwnsAllPoints ==
  /\ phase = "remap" /\ newIndex = NumPoints
  /\ phase' = "scan"
  /\ own' \in [Points -> Owners]
  /\ override' \in [point : Points \cup {NoPoint}, team : Owners]
  /\ i' = 1
  /\ claim' = [g \in GroupIds |-> Invalid]
  /\ UNCHANGED <<remapVars, result>>

---------------------------------------------------------------------------
(* TeamOwnsAllPoints. *)

OwnerOf(p) == IF p = override.point THEN override.team ELSE own[p]

\* mutant: an unassigned group may be claimed again by its next point
NextClaimForgetsContest(c, o) ==
  IF c \in {Invalid, NoTeam} THEN o ELSE IF o # c THEN NoTeam ELSE c

NextClaim(c, o) ==
  CASE c = Invalid -> o
    [] c = NoTeam  -> NoTeam
    [] OTHER       -> IF o # c THEN NoTeam ELSE c

ScanPoint ==
  /\ phase = "scan" /\ i <= NumPoints
  /\ claim' = [claim EXCEPT ![CPGroup[i]] = NextClaim(@, OwnerOf(i))]
  /\ i' = i + 1
  /\ UNCHANGED <<phase, remapVars, own, override, result>>

\* "report the first win we find as the winner"
FirstWin(g) == claim[g] \in Teams /\ \A h \in GroupIds : h < g => claim[h] \notin Teams

Report ==
  /\ phase = "scan" /\ i > NumPoints
  /\ phase' = "done"
  /\ \/ \E g \in GroupIds : FirstWin(g) /\ result' = claim[g]
     \/ (\A g \in GroupIds : claim[g] \notin Teams) /\ result' = NoTeam
  /\ UNCHANGED <<remapVars, scanVars>>

Init ==
  /\ phase = "remap"
  /\ index = MapIndex
  /\ handled = {}
  /\ newIndex = 0
  /\ own = DefaultOwner
  /\ override = [point |-> NoPoint, team |-> NoTeam]
  /\ i = 1
  /\ claim = [g \in GroupIds |-> Invalid]
  /\ result = NoTeam

Next ==
  \/ \E j \in Points : Remap(j)
  \/ CallTeamOwnsAllPoints \/ ScanPoint \/ Report

Spec == Init /\ [][Next]_vars

---------------------------------------------------------------------------
(* What the loops compute. *)

TypeOK ==
  /\ phase \in {"remap", "scan", "done"}
  /\ index \in [Points -> Nat]
  /\ handled \subseteq Points
  /\ newIndex \in 0 .. NumPoints
  /\ own \in [Points -> Owners]
  /\ override \in [point : Points \cup {NoPoint}, team : Owners]
  /\ i \in 1 .. NumPoints + 1
  /\ claim \in [GroupIds -> Owners \cup {Invalid}]
  /\ result \in Owners

\* The new indices are 0 .. n-1, every one once, in the order the map gave the
\* points: the clients' arrays are indexed by them.
RemapCorrect ==
  newIndex = NumPoints =>
    /\ {index[p] : p \in Points} = 0 .. NumPoints - 1
    /\ \A p, q \in Points : MapIndex[p] < MapIndex[q] <=> index[p] < index[q]

\* The scan returns the team that holds all of the first group that one team
\* holds, in whatever order the points come, and with the override applied: it
\* is DodPoints' TeamOwnsAllPoints, on which wins are decided.
ScanCorrect ==
  phase = "done" => result = TeamOwnsAllPoints([p \in Points |-> OwnerOf(p)])
===========================================================================
