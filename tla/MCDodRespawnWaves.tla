------------------------ MODULE MCDodRespawnWaves ------------------------
(* Two players of a team, and a ring of three waves, or, where the question *)
(* is whether the ring can fill, of as many as the code's.                  *)
EXTENDS DodRespawnWaves

CONSTANTS p1, p2
==========================================================================
