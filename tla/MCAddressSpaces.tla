-------------------------- MODULE MCAddressSpaces --------------------------
(* Values of the constants of Scheduling and AddressSpaces for TLC.           *)
EXTENDS AddressSpaces

MCCountFloor == -2

NoHazards == {}
=============================================================================
