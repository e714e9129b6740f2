------------------------- MODULE DodPoints_proofs -------------------------
(* What the win test of a map's points returns, for any number of points,   *)
(* any groups and any owners.                                               *)
EXTENDS DodPoints, WellFoundedInduction, TLAPS

\* The groups that one team holds all of.
Won(held) == {g \in Groups : \E t \in Teams : Holds(t, g, held)}

LEMMA LeastOfNaturals ==
  ASSUME NEW S, S \subseteq Nat, S # {}
  PROVE  \E x \in S : \A y \in S : x <= y
<1> DEFINE R == OpToRel(<, Nat)
<1>1. IsWellFoundedOn(R, Nat)
  BY NatLessThanWellFounded
<1>2. PICK x \in S : \A y \in S : ~ (<<y, x>> \in R)
  <2> HIDE DEF R
  <2> QED BY <1>1, WFMin
<1>3. \A y \in S : ~ (y < x)
  BY <1>2 DEF OpToRel
<1>4. \A y \in S : x <= y
  BY <1>3
<1> QED BY <1>4

\* The first group that is won decides, and there is one that has it.
LEMMA FirstWonGroup ==
  ASSUME NEW held, Won(held) # {}
  PROVE  \E first \in Won(held) :
           /\ \A h \in Won(held) : first <= h
           /\ TeamOwnsAllPoints(held) \in Teams
           /\ Holds(TeamOwnsAllPoints(held), first, held)
<1>1. Won(held) \subseteq Nat
  BY PointsAssumption DEF Won, Groups
<1> DEFINE first == CHOOSE g \in Won(held) : \A h \in Won(held) : g <= h
<1>2. first \in Won(held) /\ \A h \in Won(held) : first <= h
  BY <1>1, LeastOfNaturals
<1>3. TeamOwnsAllPoints(held) = CHOOSE t \in Teams : Holds(t, first, held)
  BY DEF TeamOwnsAllPoints, Won
<1>4. \E t \in Teams : Holds(t, first, held)
  BY <1>2 DEF Won
<1> HIDE DEF first
<1>5. /\ TeamOwnsAllPoints(held) \in Teams
      /\ Holds(TeamOwnsAllPoints(held), first, held)
  BY <1>3, <1>4
<1> QED BY <1>2, <1>5

\* Nobody has won just when no team holds all of a group.
LEMMA NobodyWon ==
  ASSUME NEW held, Won(held) = {}
  PROVE  TeamOwnsAllPoints(held) = NoTeam
BY DEF TeamOwnsAllPoints, Won

\* The test names a team or nobody.
LEMMA WinnerIsAnOwner ==
  ASSUME NEW held
  PROVE  TeamOwnsAllPoints(held) \in Owners
BY FirstWonGroup, NobodyWon DEF Owners

\* The team it names holds all of a group.
LEMMA WinnerHoldsAGroup ==
  ASSUME NEW held, TeamOwnsAllPoints(held) \in Teams
  PROVE  \E g \in Groups : Holds(TeamOwnsAllPoints(held), g, held)
<1>1. NoTeam \notin Teams
  BY DEF NoTeam, Teams
<1>2. Won(held) # {}
  BY <1>1, NobodyWon
<1> QED BY <1>2, FirstWonGroup DEF Won

\* A map is not won before its first round.
LEMMA MapStartsUndecided == TeamOwnsAllPoints(DefaultOwner) = NoTeam
BY MapNotWon, NobodyWon DEF Won
===========================================================================
