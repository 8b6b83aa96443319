--------------------------- MODULE AddressSpaces ---------------------------
(* What the page tables (paging.c) do under the process manager: every step   *)
(* of Scheduling together with the entries it changes, the translations the   *)
(* processor may still have cached, and the physical frames that sys_execute  *)
(* loads programs into.                                                       *)
(*                                                                            *)
(* Three entries change after paging_init: the page of the program at 128 MB, *)
(* B8 of the kernel and the same page of the user's video table.  The others  *)
(* (kernel, backing pages, the keyboard's page at BC) are written once.       *)
EXTENDS Scheduling

VARIABLES
    entry,     (* page_directory_table[32], first_page_table[B8],             *)
               (* user_vid_table[B8]: the frame each one points to            *)
    tlb,       (* the oldest translations the processor may still use: the    *)
               (* entries at the last write to cr3                            *)
    image      (* whose program a frame holds; NULL: none, or one that halted *)

memory  == <<entry, tlb, image>>
allVars == <<vars, memory>>

(* USER_PHYS_MEM_PAGE_ADDR in units of 4 MB: user frames begin at 8 MB.       *)
FrameOf(p) == 2 + MaxProcesses * p[1] + p[2]

Frames == {FrameOf(p) : p \in Pid}

(* paging_init maps the frame of process 0 and the screen.                    *)
paging_init == [user |-> 2, vid |-> 0, user_vid |-> 0]

MemInit ==
    /\ Init
    /\ entry = paging_init
    /\ tlb = paging_init
    /\ image = [f \in Frames |-> NULL]
-----------------------------------------------------------------------------
(* An access through page v: the processor may use the entry or its copy.     *)
Reached(v) == {entry[v], tlb[v]}

(* flush_tlb reloads cr3.                                                     *)
flush_tlb(table) == table

(* Seeded fault: the page of the program that calls.                          *)
set_user_page_of_caller(table, p) == [table EXCEPT !.user = FrameOf(current_pid)]

set_user_page(table, p) == [table EXCEPT !.user = FrameOf(p)]

(* Seeded fault: the screen is not looked at (the backing page is right for   *)
(* all terminals but the one that is shown).                                  *)
remapB8_to_backing(table, t) == [table EXCEPT !.vid = t + 1, !.user_vid = t + 1]

remapB8(table, t) == [table EXCEPT !.vid = PageFor(t), !.user_vid = PageFor(t)]

SetEntries(table) == entry' = table /\ tlb' = flush_tlb(table)

(* The boot ticks switch the video pages only.                                *)
BootTickMaps == BootTick /\ SetEntries(remapB8(entry, current_terminal')) /\ UNCHANGED image

(* Every other switch of terminals.                                           *)
SwitchMaps ==
    /\ PITTick \/ BootExecuteRefused
    /\ SetEntries(remapB8(set_user_page(entry, destination_PID'), current_terminal'))
    /\ UNCHANGED image

(* sys_execute maps the page of the new process, flushes, and only then reads *)
(* the file to 128 MB, through whatever is mapped there.                      *)
ExecuteLoads ==
    /\ BootExecute \/ Execute \/ RestartBaseShell
    /\ SetEntries(set_user_page(entry, current_pid'))
    /\ \E f \in {entry'.user, tlb'.user} : image' = [image EXCEPT ![f] = current_pid']

(* sys_halt maps the page of the parent.  What is left in the frame of the    *)
(* program is forgotten: nothing runs on it before the next load.             *)
HaltMaps ==
    /\ HaltChild
    /\ SetEntries(set_user_page(entry, current_pid'))
    /\ image' = [image EXCEPT ![FrameOf(current_pid)] = NULL]

MapsNothing ==
    /\ \/ HaltBaseShell \/ RestartRefused \/ SwitchLebronAI
       \/ \E t \in Terminals : TerminalSwap(t)
    /\ UNCHANGED memory

MemNext == BootTickMaps \/ SwitchMaps \/ ExecuteLoads \/ HaltMaps \/ MapsNothing

MemSpec == MemInit /\ [][MemNext]_allVars /\ Fairness
-----------------------------------------------------------------------------
(* Whatever was executed, halted and switched, and however old a translation  *)
(* the processor uses, the program that runs finds its own image at 128 MB,   *)
(* and no load has overwritten the image of a program that lives.             *)
RunsItsImage ==
    /\ ProcessRuns => \A f \in Reached("user") : image[f] = cpu
    /\ \A p \in terminal_PID : image[FrameOf(p)] = p

(* Output lands on the picture of the running terminal: the screen if it is   *)
(* shown by now, its backing page if it is not.                               *)
OutputOnPicture == Reached("vid") \cup Reached("user_vid") = {PageFor(current_terminal)}

OnePlace ==
    /\ Reached("vid") \cup Reached("user_vid") \subseteq {0, current_terminal + 1}
    /\ Reached("vid") = Reached("user_vid")

Follows ==
    /\ terminal_shown' = terminal_shown
    /\ current_terminal' # current_terminal \/ OutputOnPicture
    => OutputOnPicture'

(* What the running terminal prints, and what a program of it draws through   *)
(* its video page, lands in one place, never the backing page of another      *)
(* terminal.  Every switch of terminals puts it on the running terminal's     *)
(* picture, and nothing but a swap of the screen takes it off again: from a   *)
(* tick to the next swap remapB8 has it right, between a swap and the next    *)
(* tick it has not.                                                           *)
OutputReachesTerminal == []OnePlace /\ [][Follows]_allVars
=============================================================================
