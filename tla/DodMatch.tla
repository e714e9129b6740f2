----------------------------- MODULE DodMatch -----------------------------
(* What a match of rounds promises, however its rounds are won, broken off  *)
(* or restarted.  A round opens only while no team has the wins that end    *)
(* the match, and with no bomb left of an earlier one; an open round gives  *)
(* one win to one team, or none; a restart takes the score back to zero;    *)
(* and a match that is over stays over.  Bombs alone win at any time: each  *)
(* once, if it has been planted, and only until the map is cleaned up; they *)
(* close the round that is open, and never open one.                        *)
EXTENDS Naturals

CONSTANTS
  Teams,
  WinLimit      \* the wins that end the match, 0 if none do

VARIABLES phase, score,
          bombs     \* planted, and not yet ended
vars == <<phase, score, bombs>>

NoScore == [t \in Teams |-> 0]
Undecided == WinLimit > 0 => \A t \in Teams : score[t] < WinLimit

Init == phase = "closed" /\ score = NoScore /\ bombs = 0

Open ==
  /\ phase = "closed" /\ Undecided /\ bombs = 0
  /\ phase' = "open"
  /\ UNCHANGED <<score, bombs>>

Win(t) ==
  /\ phase = "open"
  /\ phase' = "closed"
  /\ score' = [score EXCEPT ![t] = @ + 1]
  /\ UNCHANGED bombs

BreakOff ==
  /\ phase = "open"
  /\ phase' = "closed"
  /\ UNCHANGED <<score, bombs>>

CleanUp ==
  /\ phase = "closed"
  /\ bombs' = 0
  /\ UNCHANGED <<phase, score>>

Restart ==
  /\ phase = "open"
  /\ phase' = "closed"
  /\ score' = NoScore
  /\ bombs' = 0

Plant ==
  /\ phase # "over"
  /\ bombs' = bombs + 1
  /\ UNCHANGED <<phase, score>>

\* A bomb ends, and wins for the teams of S.
BombEnds(S) ==
  /\ bombs > 0
  /\ bombs' = bombs - 1
  /\ score' = [t \in Teams |-> IF t \in S THEN score[t] + 1 ELSE score[t]]
  /\ phase' = IF phase = "open" /\ S # {} THEN "closed" ELSE phase

End ==
  /\ phase # "over"
  /\ phase' = "over"
  /\ UNCHANGED <<score, bombs>>

Next ==
  \/ Open \/ (\E t \in Teams : Win(t)) \/ BreakOff \/ CleanUp \/ Restart
  \/ Plant \/ (\E S \in SUBSET Teams : BombEnds(S)) \/ End
Spec == Init /\ [][Next]_vars
===========================================================================
