----------------------------- MODULE MCPrograms -----------------------------
(* Values of the constants of FileRead and Programs for TLC: files that end   *)
(* before, at and after the end of a block and of the buffer, and requests    *)
(* below, at and above a block.                                               *)
EXTENDS Programs

CONSTANTS a, b

MCLengths  == 0 .. 7
MCRequests == {-1, 0, 1, 2, 3, 5}

MCTexts    == UNION {[1 .. n -> {a, b, NL}] : n \in 0 .. 6}
MCLater    == UNION {[1 .. n -> {a, NL}] : n \in 0 .. 5}
MCPatterns == {<<a>>, <<a, b>>}
MCGarbage  == {a, NUL}
=============================================================================
