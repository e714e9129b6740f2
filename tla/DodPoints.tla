----------------------------- MODULE DodPoints -----------------------------
(* The control points of a map, as the map gives them, and what it means     *)
(* that a team has won them.                                                 *)
EXTENDS Integers, FiniteSets

CONSTANTS
  NumPoints,      \* m_ControlPoints.Count()
  MaxGroups,      \* MAX_CONTROL_POINT_GROUPS
  CPGroup,        \* GetCPGroup() of every point
  DefaultOwner,   \* m_iDefaultOwner of every point
  Triggered,      \* the points a trigger of the map can set by itself
  TimerWinTeam    \* m_iTimerWinTeam of the active master

Points == 1 .. NumPoints
Teams  == {"allies", "axis"}
NoTeam == "unassigned"
Owners == Teams \cup {NoTeam}
Opponent(t) == IF t = "allies" THEN "axis" ELSE "allies"

---------------------------------------------------------------------------
(* The win test of the master. *)

Groups == {CPGroup[p] : p \in Points}

\* Every point of group g is held by t, under the owners own.
Holds(t, g, own) == \A p \in Points : CPGroup[p] = g => own[p] = t

\* "A team can win by owning all flags within a single group"; the first
\* group that is won decides.
TeamOwnsAllPoints(own) ==
  LET won == {g \in Groups : \E t \in Teams : Holds(t, g, own)}
  IN  IF won = {} THEN NoTeam
      ELSE LET first == CHOOSE g \in won : \A h \in won : g <= h
           IN  CHOOSE t \in Teams : Holds(t, first, own)

ASSUME PointsAssumption ==
  /\ NumPoints \in Nat \ {0}
  /\ MaxGroups \in Nat
  /\ CPGroup \in [Points -> 0 .. MaxGroups - 1]
  /\ DefaultOwner \in [Points -> Owners]
  /\ Triggered \subseteq Points
  /\ TimerWinTeam \in Teams

\* No map starts its rounds already won.
ASSUME MapNotWon == \A g \in Groups : \A t \in Teams : ~Holds(t, g, DefaultOwner)
============================================================================
