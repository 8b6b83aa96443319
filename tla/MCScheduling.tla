---------------------------- MODULE MCScheduling ----------------------------
(* Values of the constants of Scheduling for TLC.                             *)
EXTENDS Scheduling

MCCountFloor == -2

AllHazards == HazardKinds
=============================================================================
