------------------------- MODULE MCDodPointMaster -------------------------
(* Four points in two interleaved groups, found in an order that is not that *)
(* of their indices; every ownership and every override of it.               *)
EXTENDS DodPointMaster

MCCPGroup == <<1, 0, 1, 0>>
MCDefaultOwner == <<"allies", "unassigned", "axis", "axis">>
MCMapIndex == <<7, 1, 3, 2>>
===========================================================================
