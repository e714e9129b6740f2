------------------------ MODULE MCDodAreaCapture ------------------------
(* One area that two allied players can take and one axis player defends, on *)
(* a point of a group of two; the map's own trigger takes the other point. *)
EXTENDS DodAreaCapture

MCCPGroup == <<1, 1>>
MCDefaultOwner == <<"axis", "unassigned">>
MCPlayerTeam == <<"allies", "allies", "axis">>
MCAreas == {1}
MCPointOf == <<1>>
MCNumCap == <<[allies |-> 2, axis |-> 1]>>
MCTeamCanCap == <<{"allies"}>>
MCCapTime == <<2>>
==========================================================================
