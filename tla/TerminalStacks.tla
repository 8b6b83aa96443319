--------------------------- MODULE TerminalStacks ---------------------------
(* What the process manager and the scheduler promise together, with none of  *)
(* their data structures: every terminal owns a stack of programs whose top   *)
(* is its foreground program, the terminals take turns round robin, only the  *)
(* foreground program of the terminal whose turn it is can start a program or *)
(* end, a terminal that has been started is never left empty, and one pool of *)
(* MaxProcesses process slots is shared by all terminals.                     *)
EXTENDS Integers

CONSTANTS NumTerminals,  (* the number of terminals                           *)
          MaxProcesses   (* process slots, shared by all terminals            *)

VARIABLES depth, (* depth[t]: how many programs are stacked on terminal t     *)
          turn,  (* the terminal whose foreground program has the processor   *)
          free   (* process slots nobody uses                                 *)

vars == <<depth, turn, free>>

Terminals == 0 .. NumTerminals - 1
-----------------------------------------------------------------------------
Init == /\ depth = [t \in Terminals |-> 0]
        /\ turn = 0
        /\ free = MaxProcesses

(* The first program of the terminal whose turn it is.                        *)
Start == /\ depth[turn] = 0
         /\ free > 0
         /\ depth' = [depth EXCEPT ![turn] = 1]
         /\ free' = free - 1
         /\ UNCHANGED turn

(* The foreground program starts a child and waits for it.                    *)
Push == /\ depth[turn] > 0
        /\ free > 0
        /\ depth' = [depth EXCEPT ![turn] = @ + 1]
        /\ free' = free - 1
        /\ UNCHANGED turn

(* The foreground program ends and its parent goes on.  The bottom program    *)
(* never leaves: when it ends it is started again.                            *)
Pop == /\ depth[turn] > 1
       /\ depth' = [depth EXCEPT ![turn] = @ - 1]
       /\ free' = free + 1
       /\ UNCHANGED turn

(* The processor passes to the next terminal, once this one has a program.    *)
Advance == /\ depth[turn] > 0
           /\ turn' = (turn + 1) % NumTerminals
           /\ UNCHANGED <<depth, free>>

Next == Start \/ Push \/ Pop \/ Advance

Spec == Init /\ [][Next]_vars /\ WF_vars(Start) /\ WF_vars(Advance)
=============================================================================
