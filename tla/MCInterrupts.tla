---------------------------- MODULE MCInterrupts ----------------------------
(* Values of the constants of Interrupts for TLC.                             *)
EXTENDS Interrupts

NoHazards == {}
=============================================================================
