--------------------------- MODULE DodWaveQueue ---------------------------
(***************************************************************************)
(* What the respawn queue of a team promises: a line of waves, first come  *)
(* first gone, of bounded length.  Whoever asks joins a wave that leaves   *)
(* after his death cam; if there is none, or the first wave is just        *)
(* leaving, a new wave is put at the end, as long as the line has room.    *)
(* Times count down, in frames; 0 is a wave that leaves in this frame.     *)
(***************************************************************************)
EXTENDS Naturals, Sequences

CONSTANTS QueueSize, DeathCam, NewWaveTimes

VARIABLE waves

\* The line after one player has asked, when new waves take w.
Fits(time) == DeathCam < time
HasWave(line) == line # <<>> /\ Head(line) > 0 /\ \E k \in DOMAIN line : Fits(line[k])
AskFor(line, w) ==
  IF HasWave(line) \/ Len(line) = QueueSize THEN line ELSE Append(line, w)

Init == waves = <<>>

Ask == \E w \in NewWaveTimes : waves' = AskFor(waves, w)

\* One who dies by changing teams asks for the death and for the change.
AskTwice == \E w \in NewWaveTimes : waves' = AskFor(AskFor(waves, w), w)

Countdown(line) == [k \in DOMAIN line |-> IF line[k] = 0 THEN 0 ELSE line[k] - 1]

\* A frame passes, in which the first wave goes or no wave does.
Frame ==
  \/ waves' = Countdown(waves)
  \/ waves # <<>> /\ Head(waves) = 0 /\ waves' = Countdown(Tail(waves))

Reset == waves' = <<>>

Next == Ask \/ AskTwice \/ Frame \/ Reset
Spec == Init /\ [][Next]_waves
===========================================================================
