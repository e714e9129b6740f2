----------------------- MODULE DodPointMaster_proofs -----------------------
(***************************************************************************)
(* The two loops of CControlPointMaster compute what they should, for any  *)
(* number of points and groups: the remapping gives every point an index   *)
(* of its own, in the map's order, and the scan finds the team that holds  *)
(* the first group one team holds.                                         *)
(***************************************************************************)
EXTENDS DodPointMaster, DodPoints_proofs, FiniteSetTheorems

\* Every variable keeps its range: the claims of the groups never name anything
\* but a team, nobody or TEAM_INVALID, and the index never passes the points.
THEOREM MasterTypeCorrect == Spec => []TypeOK
<1>1. Init => TypeOK
  BY IndexAssumption, PointsAssumption DEF Init, TypeOK, Points, Owners, Teams, Invalid, NoPoint
<1>2. TypeOK /\ [Next]_vars => TypeOK'
  <2> SUFFICES ASSUME TypeOK, [Next]_vars PROVE TypeOK'
    OBVIOUS
  <2> USE PointsAssumption DEF TypeOK
  <2>1. ASSUME NEW j \in Points, Remap(j) PROVE TypeOK'
    BY <2>1 DEF Remap, scanVars
  <2>2. CASE CallTeamOwnsAllPoints
    BY <2>2 DEF CallTeamOwnsAllPoints, remapVars
  <2>3. CASE ScanPoint
    <3>1. i \in Points /\ i' \in 1 .. NumPoints + 1
      BY <2>3 DEF ScanPoint, Points
    <3>2. OwnerOf(i) \in Owners
      BY <3>1 DEF OwnerOf
    <3>3. NextClaim(claim[CPGroup[i]], OwnerOf(i)) \in Owners \cup {Invalid}
      BY <3>2 DEF NextClaim, Owners
    <3> QED BY <2>3, <3>1, <3>3 DEF ScanPoint, remapVars, GroupIds
  <2>4. CASE Report
    <3>1. result' \in Owners
      BY <2>4 DEF Report, FirstWin, Owners
    <3> QED BY <2>4, <3>1 DEF Report, remapVars, scanVars
  <2>5. CASE UNCHANGED vars
    BY <2>5 DEF vars, remapVars, scanVars
  <2> QED BY <2>1, <2>2, <2>3, <2>4, <2>5 DEF Next
<1> QED BY <1>1, <1>2, PTL DEF Spec
---------------------------------------------------------------------------
(* FindControlPoints. *)

\* While points are handled, those that are have the indices below newIndex in
\* the map's order, and come before all that are not; the others have their own.
RemapInv ==
  /\ \A p \in Points \ handled : index[p] = MapIndex[p]
  /\ \A p \in handled : index[p] \in 0 .. newIndex - 1
  /\ \A n \in 0 .. newIndex - 1 : \E p \in handled : index[p] = n
  /\ \A p, q \in handled : MapIndex[p] < MapIndex[q] <=> index[p] < index[q]
  /\ \A p \in handled, q \in Points \ handled : MapIndex[p] < MapIndex[q]
  /\ IsFiniteSet(handled) /\ Cardinality(handled) = newIndex

LEMMA RemapInvariant == Spec => []RemapInv
<1>1. Init => RemapInv
  BY FS_EmptySet DEF Init, RemapInv
<1>2. TypeOK /\ RemapInv /\ [Next]_vars => RemapInv'
  <2> SUFFICES ASSUME TypeOK, RemapInv, [Next]_vars PROVE RemapInv'
    OBVIOUS
  <2>1. ASSUME NEW j \in Points, Remap(j) PROVE RemapInv'
    <3>1. /\ newIndex \in Nat /\ newIndex' = newIndex + 1
          /\ handled' = handled \cup {j} /\ j \notin handled /\ handled \subseteq Points
          /\ index \in [Points -> Nat] /\ index' = [index EXCEPT ![j] = newIndex]
          /\ \A k \in Points \ handled : index[j] <= index[k]
      BY <2>1, PointsAssumption DEF Remap, Lowest, TypeOK
    <3>2. /\ index'[j] = newIndex /\ \A p \in Points \ {j} : index'[p] = index[p]
          /\ handled' \subseteq Points
      BY <3>1
    <3>3. \A p \in Points \ handled' : index'[p] = MapIndex'[p]
      BY <3>1, <3>2 DEF RemapInv
    <3>4. \A p \in handled' : index'[p] \in 0 .. newIndex' - 1
      BY <3>1, <3>2 DEF RemapInv
    <3>5. \A n \in 0 .. newIndex' - 1 : \E p \in handled' : index'[p] = n
      <4> TAKE n \in 0 .. newIndex' - 1
      <4>1. CASE n = newIndex
        BY <3>1, <3>2, <4>1
      <4>2. CASE n # newIndex
        <5>1. PICK p \in handled : index[p] = n
          BY <3>1, <4>2 DEF RemapInv
        <5> QED BY <3>1, <3>2, <5>1
      <4> QED BY <4>1, <4>2
    <3>6. ASSUME NEW p \in handled', NEW q \in handled'
          PROVE  MapIndex[p] < MapIndex[q] <=> index'[p] < index'[q]
      <4>1. MapIndex[p] \in Nat /\ MapIndex[q] \in Nat
        BY <3>2, IndexAssumption
      <4>2. CASE p = j /\ q = j
        BY <3>2, <4>1, <4>2, <3>1
      <4>3. CASE p \in handled /\ q \in handled
        BY <3>1, <3>2, <4>3 DEF RemapInv
      <4>4. CASE p = j /\ q \in handled
        <5>1. MapIndex[q] < MapIndex[p] /\ index'[q] \in 0 .. newIndex - 1
          BY <3>1, <3>2, <4>4 DEF RemapInv
        <5> QED BY <3>1, <3>2, <4>1, <4>4, <5>1
      <4>5. CASE p \in handled /\ q = j
        <5>1. MapIndex[p] < MapIndex[q] /\ index'[p] \in 0 .. newIndex - 1
          BY <3>1, <3>2, <4>5 DEF RemapInv
        <5> QED BY <3>1, <3>2, <4>1, <4>5, <5>1
      <4> QED BY <3>1, <4>2, <4>3, <4>4, <4>5
    <3>7. ASSUME NEW p \in handled', NEW q \in Points \ handled'
          PROVE  MapIndex[p] < MapIndex[q]
      <4>1. CASE p \in handled
        BY <3>1, <4>1 DEF RemapInv
      <4>2. CASE p = j
        <5>1. MapIndex[j] <= MapIndex[q] /\ MapIndex[j] # MapIndex[q]
          BY <3>1, IndexAssumption DEF RemapInv
        <5>2. MapIndex[j] \in 0 .. LowestValue - 1 /\ MapIndex[q] \in 0 .. LowestValue - 1
          BY IndexAssumption
        <5> QED BY <4>2, <5>1, <5>2
      <4> QED BY <3>1, <4>1, <4>2
    <3>8. IsFiniteSet(handled') /\ Cardinality(handled') = newIndex'
      BY <3>1, FS_AddElement DEF RemapInv
    <3> QED BY <3>3, <3>4, <3>5, <3>6, <3>7, <3>8 DEF RemapInv
  <2>2. CASE CallTeamOwnsAllPoints \/ ScanPoint \/ Report
    BY <2>2 DEF CallTeamOwnsAllPoints, ScanPoint, Report, remapVars, RemapInv
  <2>3. CASE UNCHANGED vars
    BY <2>3 DEF vars, remapVars, RemapInv
  <2> QED BY <2>1, <2>2, <2>3 DEF Next
<1> QED BY <1>1, <1>2, MasterTypeCorrect, PTL DEF Spec

\* FindControlPoints gives the points the indices from 0 up, each once, and in
\* the order the map gave them, however many points there are.
THEOREM RemapIsCorrect == Spec => []RemapCorrect
<1>1. TypeOK /\ RemapInv => RemapCorrect
  <2> SUFFICES ASSUME TypeOK, RemapInv, newIndex = NumPoints
               PROVE  /\ {index[p] : p \in Points} = 0 .. NumPoints - 1
                      /\ \A p, q \in Points : MapIndex[p] < MapIndex[q] <=> index[p] < index[q]
    BY DEF RemapCorrect
  <2>1. IsFiniteSet(Points) /\ Cardinality(Points) = NumPoints
    BY FS_Interval, PointsAssumption DEF Points
  <2>2. handled = Points
    BY <2>1, FS_Subset DEF TypeOK, RemapInv
  <2> QED BY <2>2 DEF RemapInv
<1> QED BY <1>1, RemapInvariant, MasterTypeCorrect, PTL
---------------------------------------------------------------------------
(* TeamOwnsAllPoints. *)

\* The points of group g the scan has seen.
Seen(g) == {p \in Points : p < i /\ CPGroup[p] = g}

\* What a claim says of the points seen of its group: none, all held by one team,
\* or not all held by any one.
ScanInv ==
  \A g \in GroupIds :
    /\ claim[g] = Invalid <=> Seen(g) = {}
    /\ claim[g] \in Teams => \A p \in Seen(g) : OwnerOf(p) = claim[g]
    /\ claim[g] = NoTeam => \A t \in Teams : \E p \in Seen(g) : OwnerOf(p) # t

Scanning == phase # "remap" => ScanInv

\* Once all points are seen, the claims tell who holds which group.
LEMMA ClaimsAreHoldings ==
  ASSUME TypeOK, ScanInv, i > NumPoints, NEW g \in GroupIds
  PROVE  LET held == [p \in Points |-> OwnerOf(p)]
         IN  /\ g \in Won(held) <=> claim[g] \in Teams
             /\ claim[g] \in Teams => \A t \in Teams : Holds(t, g, held) => t = claim[g]
<1> DEFINE held == [p \in Points |-> OwnerOf(p)]
<1>1. Seen(g) = {p \in Points : CPGroup[p] = g}
  BY PointsAssumption DEF Seen, Points, TypeOK
<1>2. claim[g] \in Teams \cup {NoTeam, Invalid}
  BY DEF TypeOK, Owners
<1>3. Invalid \notin Teams /\ NoTeam \notin Teams
  BY DEF Invalid, NoTeam, Teams
<1>4. ASSUME claim[g] \in Teams
      PROVE  /\ g \in Won(held)
             /\ \A t \in Teams : Holds(t, g, held) => t = claim[g]
  <2>1. Seen(g) # {}
    BY <1>3, <1>4 DEF ScanInv
  <2>2. PICK p \in Points : CPGroup[p] = g
    BY <1>1, <2>1
  <2>3. Holds(claim[g], g, held)
    BY <1>1, <1>4 DEF Holds, ScanInv
  <2>4. \A t \in Teams : Holds(t, g, held) => t = held[p] /\ claim[g] = held[p]
    BY <2>2, <2>3 DEF Holds
  <2> QED BY <1>4, <2>2, <2>3, <2>4 DEF Won, Groups
<1>5. ASSUME g \in Won(held)
      PROVE  claim[g] \in Teams
  <2>1. PICK t \in Teams : Holds(t, g, held)
    BY <1>5 DEF Won
  <2>2. \A p \in Seen(g) : OwnerOf(p) = t
    BY <1>1, <2>1 DEF Holds
  <2>3. Seen(g) # {}
    BY <1>1, <1>5 DEF Won, Groups
  <2> QED BY <1>2, <2>2, <2>3 DEF ScanInv
<1> QED BY <1>4, <1>5

LEMMA ScanInvariant == Spec => []Scanning
<1>1. Init => Scanning
  BY DEF Init, Scanning
<1>2. TypeOK /\ Scanning /\ [Next]_vars => Scanning'
  <2> SUFFICES ASSUME TypeOK, Scanning, [Next]_vars, phase' # "remap" PROVE ScanInv'
    BY DEF Scanning
  <2>1. ASSUME NEW j \in Points, Remap(j) PROVE ScanInv'
    BY <2>1 DEF Remap
  <2>2. CASE CallTeamOwnsAllPoints
    <3>1. \A g \in GroupIds : claim'[g] = Invalid /\ Seen(g)' = {}
      BY <2>2, PointsAssumption DEF CallTeamOwnsAllPoints, Seen, Points
    <3> QED BY <3>1 DEF ScanInv, Invalid, NoTeam, Teams
  <2>3. CASE ScanPoint
    <3> DEFINE c == CPGroup[i]
    <3>1. /\ i \in Points /\ i' = i + 1 /\ c \in GroupIds
          /\ claim' = [claim EXCEPT ![c] = NextClaim(claim[c], OwnerOf(i))]
          /\ \A p \in Points : OwnerOf(p)' = OwnerOf(p)
      BY <2>3, PointsAssumption DEF ScanPoint, Points, GroupIds, OwnerOf, TypeOK
    <3>2. ScanInv /\ claim \in [GroupIds -> Owners \cup {Invalid}] /\ OwnerOf(i) \in Owners
      BY <2>3, <3>1 DEF Scanning, ScanPoint, TypeOK, OwnerOf
    <3>3. \A g \in GroupIds : Seen(g)' = IF g = c THEN Seen(g) \cup {i} ELSE Seen(g)
      <4> TAKE g \in GroupIds
      <4>1. \A p \in Points : p < i' <=> p < i \/ p = i
        BY <3>1, PointsAssumption DEF Points
      <4> QED BY <3>1, <4>1 DEF Seen
    <3> HIDE DEF c
    <3>4. ASSUME NEW g \in GroupIds, g # c
          PROVE  /\ claim'[g] = claim[g] /\ Seen(g)' = Seen(g)
                 /\ \A p \in Seen(g) : p \in Points
      BY <3>1, <3>2, <3>3, <3>4 DEF Seen
    <3>5. claim'[c] = NextClaim(claim[c], OwnerOf(i)) /\ \A p \in Seen(c) : p \in Points
      <4>1. claim'[c] = NextClaim(claim[c], OwnerOf(i))
        BY <3>1, <3>2
      <4> QED BY <4>1 DEF Seen
    <3>6. Invalid \notin Owners /\ NoTeam \notin Teams /\ Owners = Teams \cup {NoTeam}
      BY DEF Invalid, NoTeam, Teams, Owners
    <3>7. /\ claim'[c] # Invalid
          /\ claim'[c] \in Teams => \A p \in Seen(c) \cup {i} : OwnerOf(p) = claim'[c]
          /\ claim'[c] = NoTeam => \A t \in Teams : \E p \in Seen(c) \cup {i} : OwnerOf(p) # t
      <4>1. CASE claim[c] = Invalid
        BY <3>1, <3>2, <3>5, <3>6, <4>1 DEF NextClaim, ScanInv
      <4>2. CASE claim[c] = NoTeam
        BY <3>1, <3>2, <3>5, <3>6, <4>2 DEF NextClaim, ScanInv
      <4>3. CASE claim[c] \in Teams
        <5>1. claim'[c] = IF OwnerOf(i) # claim[c] THEN NoTeam ELSE claim[c]
          BY <3>5, <3>6, <4>3 DEF NextClaim
        <5>2. \A p \in Seen(c) : OwnerOf(p) = claim[c]
          BY <3>1, <3>2, <4>3 DEF ScanInv
        <5>3. \E p \in Seen(c) : TRUE
          BY <3>1, <3>2, <3>6, <4>3 DEF ScanInv
        <5> QED BY <3>6, <4>3, <5>1, <5>2, <5>3
      <4> QED BY <3>1, <3>2, <3>6, <4>1, <4>2, <4>3
    <3> SUFFICES ASSUME NEW g \in GroupIds'
                 PROVE  /\ claim'[g] = Invalid <=> Seen(g)' = {}
                        /\ claim'[g] \in Teams => \A p \in Seen(g)' : OwnerOf(p)' = claim'[g]
                        /\ claim'[g] = NoTeam => \A t \in Teams : \E p \in Seen(g)' : OwnerOf(p)' # t
      BY DEF ScanInv
    <3>8. CASE g = c
      <4>1. Seen(g)' = Seen(c) \cup {i} /\ claim'[g] = claim'[c]
        BY <3>1, <3>3, <3>8
      <4>2. \A p \in Seen(c) \cup {i} : OwnerOf(p)' = OwnerOf(p)
        BY <3>1, <3>5
      <4> QED BY <3>7, <4>1, <4>2
    <3>9. CASE g # c
      BY <3>1, <3>2, <3>4, <3>9 DEF ScanInv
    <3> QED BY <3>8, <3>9
  <2>4. CASE Report
    BY <2>4 DEF Report, scanVars, Scanning, ScanInv, Seen, OwnerOf
  <2>5. CASE UNCHANGED vars
    BY <2>5 DEF vars, scanVars, Scanning, ScanInv, Seen, OwnerOf
  <2> QED BY <2>1, <2>2, <2>3, <2>4, <2>5 DEF Next
<1> QED BY <1>1, <1>2, MasterTypeCorrect, PTL DEF Spec

\* The loop with one claim per group returns the team that holds all points of
\* the first group that is held by one team, or nobody, for any number of points
\* and groups, any owners and any override.
THEOREM ScanIsCorrect == Spec => []ScanCorrect
<1> DEFINE held == [p \in Points |-> OwnerOf(p)]
<1>1. ScanCorrect <=> (phase = "done" => result = TeamOwnsAllPoints(held))
  BY DEF ScanCorrect
<1>2. Init => ScanCorrect
  BY DEF Init, ScanCorrect
<1>3. TypeOK /\ Scanning /\ ScanCorrect /\ [Next]_vars => ScanCorrect'
  <2> SUFFICES ASSUME TypeOK, Scanning, ScanCorrect, [Next]_vars PROVE ScanCorrect'
    OBVIOUS
  <2>1. ASSUME NEW j \in Points, Remap(j) PROVE ScanCorrect'
    BY <2>1 DEF Remap, ScanCorrect
  <2>2. CASE CallTeamOwnsAllPoints \/ ScanPoint
    BY <2>2 DEF CallTeamOwnsAllPoints, ScanPoint, ScanCorrect
  <2>3. CASE Report
    <3>1. ScanInv /\ i > NumPoints /\ held' = held
      BY <2>3 DEF Report, Scanning, scanVars, OwnerOf
    <3>2. \A g \in Won(held) : g \in GroupIds
      BY PointsAssumption DEF Won, Groups, GroupIds
    <3>3. \A g \in GroupIds : g \in Won(held) <=> claim[g] \in Teams
      BY <3>1, ClaimsAreHoldings
    <3> HIDE DEF held
    <3>4. CASE \A g \in GroupIds : claim[g] \notin Teams
      <4>1. result' = NoTeam
        BY <2>3, <3>4 DEF Report, FirstWin
      <4>2. TeamOwnsAllPoints(held) = NoTeam
        BY <3>2, <3>3, <3>4, NobodyWon
      <4> QED BY <3>1, <4>1, <4>2 DEF ScanCorrect, held
    <3>5. CASE \E g \in GroupIds : claim[g] \in Teams
      <4>1. PICK g \in GroupIds : FirstWin(g) /\ result' = claim[g]
        BY <2>3, <3>5 DEF Report
      <4>2. g \in Won(held) /\ \A h \in Won(held) : ~ (h < g)
        BY <3>2, <3>3, <4>1 DEF FirstWin
      <4>3. PICK first \in Won(held) :
              /\ \A h \in Won(held) : first <= h
              /\ TeamOwnsAllPoints(held) \in Teams
              /\ Holds(TeamOwnsAllPoints(held), first, held)
        BY <4>2, FirstWonGroup
      <4>4. first = g
        BY <3>2, <4>2, <4>3, PointsAssumption DEF GroupIds
      <4>5. TeamOwnsAllPoints(held) = claim[g]
        BY <3>1, <3>3, <4>2, <4>3, <4>4, ClaimsAreHoldings DEF held
      <4> QED BY <3>1, <4>1, <4>5 DEF ScanCorrect, held
    <3> QED BY <3>4, <3>5
  <2>4. CASE UNCHANGED vars
    BY <2>4 DEF vars, scanVars, ScanCorrect, OwnerOf
  <2> QED BY <2>1, <2>2, <2>3, <2>4 DEF Next
<1> QED BY <1>2, <1>3, ScanInvariant, MasterTypeCorrect, PTL DEF Spec
===========================================================================
