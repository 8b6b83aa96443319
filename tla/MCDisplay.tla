----------------------------- MODULE MCDisplay -----------------------------
(* Values of the constants of Display for TLC.                                *)
EXTENDS Display

MCDrawers == {0, 1}
NoHazards == {}
=============================================================================
