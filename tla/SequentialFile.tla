--------------------------- MODULE SequentialFile ---------------------------
(* What a descriptor of a regular file promises its program, with no blocks   *)
(* and no loop: one call of read takes, in one step, as many bytes as it asks *)
(* for or as are left, from where the call before it ended; loading a program *)
(* from the same file does not move it.                                       *)
EXTENDS Integers, Sequences

CONSTANTS WordSize,   (* a call asks for 0 .. WordSize - 1 bytes              *)
          Lengths     (* lengths of files                                     *)

VARIABLES length,     (* of the file that is open                             *)
          taken,      (* the bytes that were read, by their place in the file *)
          asked,      (* how much the call in progress asks for, or NONE      *)
          result      (* of the last call                                     *)

vars == <<length, taken, asked, result>>

NONE == -1

Left == length - Len(taken)
-----------------------------------------------------------------------------
Init == /\ length \in Lengths
        /\ taken = <<>>
        /\ asked = NONE
        /\ result = 0

Ask(n) == /\ asked = NONE
          /\ Left > 0
          /\ asked' = n
          /\ UNCHANGED <<length, taken, result>>

(* All that was asked for, unless less is left.                               *)
Take == /\ asked # NONE
        /\ result' = IF asked <= Left THEN asked ELSE Left
        /\ taken' = taken \o [k \in 1 .. result' |-> Len(taken) + k - 1]
        /\ asked' = NONE
        /\ UNCHANGED length

EndOfFile == /\ asked = NONE
             /\ Left = 0
             /\ result' = 0
             /\ UNCHANGED <<length, taken, asked>>

(* A program is loaded; an empty file may be refused.                         *)
Load == /\ asked = NONE
        /\ result' = 0 \/ (length = 0 /\ result' = -1)
        /\ UNCHANGED <<length, taken, asked>>

Open == /\ asked = NONE
        /\ length' \in Lengths
        /\ taken' = <<>>
        /\ UNCHANGED <<asked, result>>

Next == \/ \E n \in 0 .. WordSize - 1 : Ask(n)
        \/ Take \/ EndOfFile \/ Load \/ Open

Spec == Init /\ [][Next]_vars
=============================================================================
