--------------------------- MODULE MCDodPlantedC4 ---------------------------
(* Two charges lie on the map, for an axis player and two allies; all of     *)
(* them may leave.                                                           *)
EXTENDS DodPlantedC4, TLC

CONSTANTS a1, a2, axis, c1, c2

MCPlayerTeam == a1 :> "allies" @@ a2 :> "allies" @@ axis :> "axis"
=============================================================================
