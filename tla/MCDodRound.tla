----------------------------- MODULE MCDodRound -----------------------------
(* A second is two ticks.  The waits are cut down, in their order: a second  *)
(* is less than the bonus round, and the map's time ends before, with or     *)
(* after a round.  One bomb at most is planted between two clean-ups of      *)
(* the map, and may end in any state that comes before the next.             *)
EXTENDS DodRound
=============================================================================
