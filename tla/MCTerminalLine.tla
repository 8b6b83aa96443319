--------------------------- MODULE MCTerminalLine ---------------------------
(* Values of the constants of TerminalLine for TLC.                           *)
EXTENDS TerminalLine

MCReaders  == {0}
MCSizes    == {1, 2}
OneByte    == {1}
NoHazards  == {}
AllHazards == HazardKinds
KeyHazard  == {"key"}
=============================================================================
