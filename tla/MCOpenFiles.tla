---------------------------- MODULE MCOpenFiles ----------------------------
(* Values of the constants of OpenFiles for TLC.  Names of full length extend *)
(* shorter ones; the names asked for include the empty one, one of full length*)
(* that no file has and one that is too long.  The commands have an empty     *)
(* argument, one behind two spaces, a space in front of the name, the name of *)
(* a directory and one no file has; the shell has no argument.                *)
EXTENDS OpenFiles

MCDirectory == <<[name |-> <<1>>, type |-> 1],
                 [name |-> <<2>>, type |-> 0],
                 [name |-> <<1, 2>>, type |-> 2],
                 [name |-> <<2, 1>>, type |-> 2]>>
MCExecutables == {3, 4}
MCShell    == <<1, 2>>
MCNames    == {<<>>, <<1>>, <<2>>, <<1, 2>>, <<2, 2>>, <<1, 2, 1>>}
MCCommands == {<<2, 1, 9>>, <<1, 2, 9, 9, 1>>, <<9, 1, 2>>, <<1>>, <<2, 1, 1, 9, 1>>}
NoHazards == {}
=============================================================================
