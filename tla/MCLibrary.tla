----------------------------- MODULE MCLibrary -----------------------------
(* Values of the constants of Library for TLC: memory of more than two double *)
(* words, 8-bit numbers, and every well-formed format of a few characters.    *)
EXTENDS Library

MCCharacters == {"%", "#", "d", "u", "x", "c", "s"}
MCFormats == {f \in UNION {[1 .. n -> MCCharacters] : n \in 0 .. 4} : WellFormed(f)}
MCArguments == {<<v, 128, 7, 255>> : v \in {0, 10, 127, 129}}
=============================================================================
