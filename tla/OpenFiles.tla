----------------------------- MODULE OpenFiles -----------------------------
(* Descriptors, names and arguments of programs: sys_open, sys_close,         *)
(* sys_getargs and what sys_execute and sys_halt do to descriptor tables      *)
(* (system_call.c), with open_file, open_dir, read_dir and the lookups of     *)
(* filesys.c.  System calls run with interrupts on, so a tick may switch      *)
(* terminals between the two halves of an open; sys_execute and sys_halt have *)
(* them off.                                                                  *)
(*                                                                            *)
(* The programs of a terminal have the slots 1, 2, ..., depth; the last one   *)
(* runs.  A name is a sequence of characters, which are positive; the code's  *)
(* strings end in a 0.                                                        *)
EXTENDS Integers, Sequences, FiniteSets, SequencesExt

CONSTANTS NumTerminals,  (* 3 in the code                                     *)
          FD_TABLE_SIZE, (* 8                                                 *)
          NAME_LENGTH,   (* 32                                                *)
          DENTRIES_NUM,  (* 63                                                *)
          Directory,     (* the used dentries of the boot block               *)
          Names,         (* what programs ask for                             *)
          Executables,   (* the dentries of files that begin like an ELF image*)
          Commands,      (* what programs execute                             *)
          Shell,         (* the name "shell"                                  *)
          SPACE,         (* the character ' '                                 *)
          NONE,          (* no argument, no name, no operations               *)
          MaxDepth,      (* bound: programs of one terminal                   *)
          MaxOpen,       (* bound: files open at a time, in all               *)
          Hazards        (* the windows a run lets the environment hit        *)

HazardKinds == {"open",    (* an open while another one is between its halves *)
                "header"}  (* sys_execute reads no byte of an empty file, and *)
                           (* takes what its stack holds for the header       *)

Terminals == 0 .. NumTerminals - 1
Slots     == 1 .. MaxDepth
Fd        == 0 .. FD_TABLE_SIZE - 1
Type      == 0 .. 2      (* of a dentry: RTC, directory, regular file         *)
RTC    == 0
DIR    == 1
STDIN  == 3              (* not types: the tables of descriptors 0 and 1      *)
STDOUT == 4

(* A string: characters that are not the 0 at its end.                        *)
String == Seq(Nat \ {0})

ASSUME OpenFilesAssumption ==
    /\ NumTerminals \in Nat \ {0}
    /\ FD_TABLE_SIZE \in Nat \ {0, 1}
    /\ NAME_LENGTH \in Nat \ {0} /\ DENTRIES_NUM \in Nat /\ MaxDepth \in Nat \ {0}
    /\ Directory \in Seq([name : String, type : Type])
    /\ Len(Directory) < DENTRIES_NUM       \* the image has an unused dentry
    /\ \A i \in DOMAIN Directory : Len(Directory[i].name) \in 1 .. NAME_LENGTH
    /\ \A i, j \in DOMAIN Directory : Directory[i].name = Directory[j].name => i = j
    /\ Executables \subseteq {i \in DOMAIN Directory : Directory[i].type = 2}
    /\ \E i \in Executables : Directory[i].name = Shell
    /\ SPACE \in Nat \ {0}
    /\ \A i \in DOMAIN Directory : SPACE \notin ToSet(Directory[i].name)
    /\ Names \cup Commands \subseteq String
    /\ NONE \notin String /\ NONE \notin 0 .. 4
    /\ Hazards \subseteq HazardKinds

VARIABLES
    depth,                (* programs of each terminal                        *)
    fd_table,             (* in the PCB of each terminal and slot             *)
    runs,                 (* dentry of the file each slot's program is from   *)
    command,              (* history: what was executed for each slot         *)
    args,                 (* history: what each slot's program was given      *)
    current_terminal,
    opening,              (* the name an open is half done with, or NONE      *)
    syscall_open_dentry,  (* dentry found by the last open, on any terminal   *)
    arg_command,          (* the arguments sys_getargs returns                *)
    missed                (* history: files an open did not find              *)

programs == <<depth, runs, command, args>>
vars     == <<programs, fd_table, current_terminal, opening, syscall_open_dentry, arg_command, missed>>

(* An entry of the boot block, used or not; dentries are counted from 1.      *)
Dentry(i) == IF i <= Len(Directory) THEN Directory[i] ELSE [name |-> <<>>, type |-> 0]

(* A descriptor: its operations, by type of file, the dentry it holds and its *)
(* offset; then histories: the name it was opened with, the names its reads   *)
(* returned and whether one returned none.                                    *)
Inactive == [ops |-> NONE, dentry |-> 0, offset |-> 0,
             asked |-> NONE, listed |-> <<>>, done |-> FALSE]

Stdin  == [Inactive EXCEPT !.ops = STDIN]
Stdout == [Inactive EXCEPT !.ops = STDOUT]

FreshTable == [fd \in Fd |-> IF fd = 0 THEN Stdin ELSE IF fd = 1 THEN Stdout ELSE Inactive]

(* The table of the program that runs: curr_pcb->fd_table.                    *)
Table == fd_table[current_terminal][depth[current_terminal]]

-----------------------------------------------------------------------------
(* Names.  A dentry's name of full length has no 0 of its own: the next byte  *)
(* is the first of its type.                                                  *)
CharOf(name, k) == IF k <= Len(name) THEN name[k] ELSE 0

CharOfDentry(d, k) == IF k = NAME_LENGTH + 1 THEN d.type ELSE CharOf(d.name, k)

LengthOfDentry(d) ==
    IF Len(d.name) = NAME_LENGTH /\ d.type # 0 THEN NAME_LENGTH + 1 ELSE Len(d.name)

(* strncmp(name, d.name, n) == 0: no difference before the end of name.       *)
SameFirst(name, d, n) ==
    \A k \in 1 .. n : k <= Len(name) + 1 => CharOf(name, k) = CharOfDentry(d, k)

(* Seeded fault: no case for names of full length.                            *)
MatchesShort(name, d) ==
    SameFirst(name, d, IF Len(name) > LengthOfDentry(d) THEN Len(name) ELSE LengthOfDentry(d))

(* The comparison of read_dentry_by_name: how many characters it compares.    *)
Matches(name, d) ==
    SameFirst(name, d,
              IF Len(name) > LengthOfDentry(d) \/ Len(name) = NAME_LENGTH
              THEN Len(name) ELSE LengthOfDentry(d))

(* read_dentry_by_name: the first match, 0 for none.                          *)
ReadDentryByName(name) ==
    LET found == {i \in 1 .. DENTRIES_NUM : Matches(name, Dentry(i))}
    IN  IF Len(name) > NAME_LENGTH \/ found = {} THEN 0
        ELSE CHOOSE i \in found : \A j \in found : i <= j

(* The place of the first space; behind the end if there is none.             *)
FirstSpace(c) ==
    CHOOSE k \in 1 .. Len(c) + 1 :
        /\ k <= Len(c) => c[k] = SPACE
        /\ \A j \in 1 .. k - 1 : c[j] # SPACE

(* Seeded fault: the space counts as the first character of the arguments.    *)
ArgsWithSpace(c) == IF FirstSpace(c) >= Len(c) THEN NONE ELSE SubSeq(c, FirstSpace(c), Len(c))

(* How sys_execute divides a command: the file name in front of the first     *)
(* space, the arguments behind it.                                            *)
NameOf(c) == SubSeq(c, 1, FirstSpace(c) - 1)
ArgsOf(c) == IF FirstSpace(c) >= Len(c) THEN NONE ELSE SubSeq(c, FirstSpace(c) + 1, Len(c))

-----------------------------------------------------------------------------
(* Descriptors 0 and 1 are always the terminal; every other one is closed     *)
(* or open with operations of a known type (init_pcb, sys_open, sys_close).   *)
TypeOK ==
    /\ depth \in [Terminals -> 1 .. MaxDepth]
    /\ \A t \in Terminals, k \in Slots :
          /\ runs[t][k] \in 1 .. DENTRIES_NUM
          /\ command[t][k] \in Commands \cup {Shell}
          /\ DOMAIN fd_table[t][k] = Fd
          /\ fd_table[t][k][0] = Stdin /\ fd_table[t][k][1] = Stdout
          /\ \A fd \in 2 .. FD_TABLE_SIZE - 1 :
                /\ fd_table[t][k][fd].ops \in Type \cup {NONE}
                /\ fd_table[t][k][fd].offset \in 0 .. Len(Directory) + 1
    /\ current_terminal \in Terminals
    /\ opening \in [Terminals -> Names \cup {NONE}]
    /\ syscall_open_dentry \in 0 .. DENTRIES_NUM
    /\ arg_command \in {ArgsOf(c) : c \in Commands} \cup {NONE}

(* The three base shells run.                                                 *)
Init ==
    /\ depth = [t \in Terminals |-> 1]
    /\ fd_table = [t \in Terminals |-> [k \in Slots |-> FreshTable]]
    /\ runs = [t \in Terminals |-> [k \in Slots |-> ReadDentryByName(Shell)]]
    /\ command = [t \in Terminals |-> [k \in Slots |-> Shell]]
    /\ args = [t \in Terminals |-> [k \in Slots |-> NONE]]
    /\ current_terminal = 0
    /\ opening = [t \in Terminals |-> NONE]
    /\ syscall_open_dentry = 0
    /\ arg_command = NONE
    /\ missed = {}
-----------------------------------------------------------------------------
SetDescriptor(fd, d) ==
    fd_table' = [fd_table EXCEPT ![current_terminal][depth[current_terminal]][fd] = d]

InactiveFds == {fd \in Fd : Table[fd].ops = NONE}

(* Bound: a file may be opened if there are few, or to see it refused.        *)
MayOpen ==
    \/ InactiveFds = {}
    \/ MaxOpen > Cardinality({f \in Terminals \X Slots \X (2 .. FD_TABLE_SIZE - 1) :
                                 fd_table[f[1]][f[2]][f[3]].ops # NONE})

(* sys_open up to the search for a descriptor.                                *)
OpenLookup(name) ==
    /\ opening[current_terminal] = NONE
    /\ MayOpen
    /\ (\A t \in Terminals : opening[t] = NONE) \/ "open" \in Hazards
    /\ LET i == IF name = <<>> THEN 0 ELSE ReadDentryByName(name) IN
       IF i = 0
       THEN /\ missed' = missed \cup ({name} \cap {d.name : d \in ToSet(Directory)})
            /\ UNCHANGED <<opening, syscall_open_dentry>>
       ELSE /\ syscall_open_dentry' = i
            /\ opening' = [opening EXCEPT ![current_terminal] = name]
            /\ UNCHANGED missed
    /\ UNCHANGED <<programs, fd_table, current_terminal, arg_command>>

(* The descriptor sys_open takes; FD_TABLE_SIZE if there is none.             *)
FirstInactive ==
    IF InactiveFds = {} THEN FD_TABLE_SIZE
    ELSE CHOOSE fd \in InactiveFds : \A k \in InactiveFds : fd <= k

(* open_file and open_dir look the name up again, for the descriptor.         *)
DentryOfOpen(name) == ReadDentryByName(name)

(* The rest of sys_open: operations by the type in the shared dentry,         *)
(* init_fd_entry, and the open of those operations.                           *)
OpenEntry ==
    LET name == opening[current_terminal]
        ops  == Dentry(syscall_open_dentry).type
    IN  /\ name # NONE
        /\ IF FirstInactive = FD_TABLE_SIZE THEN UNCHANGED fd_table
           ELSE SetDescriptor(FirstInactive,
                              [Inactive EXCEPT !.ops = ops,
                                               !.dentry = IF ops = RTC THEN 0 ELSE DentryOfOpen(name),
                                               !.asked = name])
        /\ opening' = [opening EXCEPT ![current_terminal] = NONE]
        /\ UNCHANGED <<programs, current_terminal, syscall_open_dentry, arg_command, missed>>

(* The caller is not in the middle of an open.                                *)
Free == opening[current_terminal] = NONE

CanClose(fd) == fd >= 2 /\ Table[fd].ops # NONE

(* sys_close, with the close of the file's operations, which clears the       *)
(* descriptor's dentry.                                                       *)
Close(fd) ==
    /\ Free
    /\ CanClose(fd)
    /\ SetDescriptor(fd, Inactive)
    /\ UNCHANGED <<programs, current_terminal, opening, syscall_open_dentry, arg_command, missed>>

(* Seeded fault: counts dentries from 1.                                      *)
IndexAtPlusOne(offset) == offset + 2

(* The dentry a directory offset stands for.                                  *)
IndexAt(offset) == offset + 1

(* sys_read on a directory: read_dir.                                         *)
ReadDir(fd) ==
    /\ Free
    /\ Table[fd].ops = DIR
    /\ LET d    == Table[fd]
           name == Dentry(IndexAt(d.offset)).name
       IN  SetDescriptor(fd,
               IF d.offset > Len(Directory) THEN [d EXCEPT !.done = TRUE]
               ELSE [d EXCEPT !.dentry = IndexAt(d.offset),
                              !.offset = @ + 1,
                              !.listed = IF name = <<>> THEN @ ELSE Append(@, name),
                              !.done = @ \/ name = <<>>])
    /\ UNCHANGED <<programs, current_terminal, opening, syscall_open_dentry, arg_command, missed>>

(* init_pcb: the table of a new process, whatever its PCB held.               *)
TableOfNew(old) == FreshTable

(* The file of a dentry is empty: no file, or the inode 0 of the others.      *)
IsEmpty(i) == Dentry(i).type # 2

(* The header that sys_execute looks at is that of an ELF image.              *)
HeaderAccepted(i) == i \in Executables \/ (i # 0 /\ IsEmpty(i) /\ "header" \in Hazards)

(* sys_execute of command c gives slot k of the current terminal to a new     *)
(* program.                                                                   *)
Starts(k, c) ==
    /\ depth' = [depth EXCEPT ![current_terminal] = k]
    /\ runs' = [runs EXCEPT ![current_terminal][k] = ReadDentryByName(NameOf(c))]
    /\ command' = [command EXCEPT ![current_terminal][k] = c]
    /\ args' = [args EXCEPT ![current_terminal][k] = ArgsOf(c)]
    /\ arg_command' = ArgsOf(c)
    /\ fd_table' = [fd_table EXCEPT ![current_terminal][k] = TableOfNew(@)]
    /\ UNCHANGED <<current_terminal, opening, syscall_open_dentry, missed>>

Execute(c) ==
    /\ Free
    /\ depth[current_terminal] < MaxDepth
    /\ HeaderAccepted(ReadDentryByName(NameOf(c)))
    /\ Starts(depth[current_terminal] + 1, c)

(* A sys_execute that fails because its file is not found or is no program    *)
(* has parsed its arguments before.                                           *)
ExecuteFails(c) ==
    /\ Free
    /\ ReadDentryByName(NameOf(c)) \notin Executables
    /\ arg_command' = ArgsOf(c)
    /\ UNCHANGED <<programs, fd_table, current_terminal, opening, syscall_open_dentry, missed>>

(* Seeded fault: the parent is current before the descriptors are closed.     *)
SlotHaltClosesParent == depth[current_terminal] - 1

(* The slot whose descriptors sys_halt closes: that of curr_pcb.              *)
SlotHaltCloses == depth[current_terminal]

(* sys_close of every descriptor.                                             *)
AllClosed(table) == [fd \in Fd |-> IF fd < 2 THEN table[fd] ELSE Inactive]

Halt ==
    /\ Free
    /\ depth[current_terminal] > 1
    /\ fd_table' = [fd_table EXCEPT ![current_terminal][SlotHaltCloses] = AllClosed(@)]
    /\ LET t == current_terminal IN     \* the histories are forgotten
          /\ depth' = [depth EXCEPT ![t] = @ - 1]
          /\ runs' = [runs EXCEPT ![t][depth[t]] = ReadDentryByName(Shell)]
          /\ command' = [command EXCEPT ![t][depth[t]] = Shell]
          /\ args' = [args EXCEPT ![t][depth[t]] = NONE]
    /\ UNCHANGED <<current_terminal, opening, syscall_open_dentry, arg_command, missed>>

(* The halt of a base shell closes nothing and executes "shell" in its place. *)
HaltBaseShell ==
    /\ Free
    /\ depth[current_terminal] = 1
    /\ Starts(1, Shell)

(* sys_getargs: the arguments, or NONE for its -1.                            *)
sys_getargs == arg_command

Tick ==
    /\ current_terminal' = (current_terminal + 1) % NumTerminals
    /\ UNCHANGED <<programs, fd_table, opening, syscall_open_dentry, arg_command, missed>>

Next ==
    \/ \E name \in Names : OpenLookup(name)
    \/ OpenEntry
    \/ \E fd \in Fd : Close(fd) \/ ReadDir(fd)
    \/ \E c \in Commands : Execute(c) \/ ExecuteFails(c)
    \/ Halt \/ HaltBaseShell \/ Tick

Spec == Init /\ [][Next]_vars
-----------------------------------------------------------------------------
FileNames == {d.name : d \in ToSet(Directory)}

TypeOf(name) == (CHOOSE d \in ToSet(Directory) : d.name = name).type

(* A name opens the file of exactly that name, whatever the lengths of the    *)
(* two, and no file of the directory is out of reach; the descriptor works    *)
(* with the operations of that file's type.                                   *)
NamesResolve ==
    /\ missed = {}
    /\ \A t \in Terminals, k \in Slots, fd \in 2 .. FD_TABLE_SIZE - 1 :
          LET d == fd_table[t][k][fd] IN
          d.ops # NONE =>
              /\ d.asked \in FileNames
              /\ d.ops = TypeOf(d.asked)
              /\ d.ops \notin {RTC, DIR} => Dentry(d.dentry).name = d.asked

(* Whoever else reads the directory, through another descriptor or on another *)
(* terminal, the reads of one descriptor list the files in order, and none of *)
(* them is left when a read returns 0.                                        *)
ListingComplete ==
    \A t \in Terminals, k \in Slots, fd \in 2 .. FD_TABLE_SIZE - 1 :
        LET d == fd_table[t][k][fd] IN
        /\ Len(d.listed) <= Len(Directory)
        /\ \A i \in DOMAIN d.listed : d.listed[i] = Directory[i].name
        /\ d.done => Len(d.listed) = Len(Directory)

(* No halt touches the descriptors of a program that lives on, and it leaves  *)
(* none of its own open in the PCB it gives back.                             *)
HaltClosesOwn ==
    [][\A t \in Terminals : depth'[t] < depth[t] =>
          fd_table' = [fd_table EXCEPT ![t][depth[t]] = FreshTable]]_vars

(* Whatever was executed, with names that begin like others or are as long as *)
(* a name can be: each program comes from the file that its command names,    *)
(* which is an executable, and was given what follows the first space.        *)
RunsNamedFile ==
    \A t \in Terminals, k \in Slots :
        LET name == Dentry(runs[t][k]).name IN
        /\ runs[t][k] \in Executables
        /\ command[t][k] = IF args[t][k] # NONE THEN name \o <<SPACE>> \o args[t][k]
                           ELSE IF SPACE \in ToSet(command[t][k]) THEN Append(name, SPACE)
                           ELSE name

(* "gets arguments for user programs" (sys_getargs): what other terminals do  *)
(* leaves a program the arguments it was executed with.                       *)
ArgsAreOwn ==
    [][\A t \in Terminals :
          LET own == args[t][depth[t]] IN
          t # current_terminal /\ depth[t] > 1 /\ sys_getargs = own => sys_getargs' = own]_vars
=============================================================================
