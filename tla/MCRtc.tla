------------------------------- MODULE MCRtc -------------------------------
(* Values of the constants of Rtc for TLC: a word of 8 and a fastest frequency*)
(* of 3 turn the frequencies -1, 2 and 5 into the intervals 5 (refused, but   *)
(* stored), 1 and 0; 0 is the division by zero.                               *)
EXTENDS Rtc

MCFrequencies == {-1, 0, 2, 5}
=============================================================================
