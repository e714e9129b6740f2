------------------------- MODULE MCDodBombTarget -------------------------
(* Two targets of an allied bomb on one point, which takes both of them; one *)
(* planter and one defender.  The first point of the group is the allies'    *)
(* already, so that the second bomb wins the round.                          *)
EXTENDS DodBombTarget, TLC

CONSTANTS t1, t2, allied, axis

MCCPGroup == <<1, 1>>
MCDefaultOwner == <<"allies", "axis">>
MCPlayerTeam == allied :> "allies" @@ axis :> "axis"
MCPointOf == [t \in Targets |-> 2]
MCBombingTeam == [t \in Targets |-> "allies"]
MCBombsRequired == <<0, 2>>

\* For a bomb that cannot win: the first point of the group stays unassigned.
MCOpenOwner == <<"unassigned", "axis">>
MCOneBomb == <<0, 1>>
==========================================================================
