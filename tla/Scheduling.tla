----------------------------- MODULE Scheduling -----------------------------
(* The process manager and the round-robin scheduler of the kernel: the PIT   *)
(* interrupt handler (PIT.c), sys_execute, sys_halt and terminal_swap         *)
(* (system_call.c).  There is one processor.  A process identifier is a pair  *)
(* <<terminal, slot>>, which stands for the number terminal * 6 + slot of the *)
(* code; terminal_PID is the set of identifiers whose entry is not -1.        *)
(*                                                                            *)
(* A flow is a thread of control: the kernel stack PID_STACK(p) of a process  *)
(* identifier p with the user context it serves, or the boot stack.  Saved    *)
(* stack pointers (esp_for_scheduling, ebp) are modelled by the flow whose    *)
(* stack they point into.  A section of code that runs with interrupts off is *)
(* one action; the places where the code turns them on again in the middle of *)
(* an operation split it into two.                                            *)
EXTENDS Integers, FiniteSets

CONSTANTS NumTerminals,  (* 3 in the code                                     *)
          MaxProcesses,  (* MAX_PCB = MAX_PROCESS_IN_ONE_TERMINAL = 6: slots  *)
                         (* of one terminal, and the limit for all together   *)
          CountFloor,    (* bound: base shells halt only above this count     *)
          Hazards,       (* the windows a run lets the environment hit        *)
          NULL,          (* no flow: a null or dangling saved context         *)
          BOOT           (* the flow of kernel.c:entry on the boot stack      *)

HazardKinds == {"boot",     (* a tick between PIT.c:103 and sys_execute's cli *)
                "restart",  (* a tick between system_call.c:144 and that cli  *)
                "early",    (* a command before the three boot ticks are over *)
                "ai"}       (* a base shell exits while Lebron AI is on       *)

Terminals == 0 .. NumTerminals - 1
Slots     == 0 .. MaxProcesses - 1
Pid       == Terminals \X Slots
Flow      == Pid \cup {BOOT}

ASSUME SchedulingAssumption ==
    /\ NumTerminals \in Nat \ {0}
    /\ MaxProcesses \in Nat \ {0, 1}  \* the restart of a base shell looks for
                                      \* an unused slot on its terminal
    /\ NumTerminals <= MaxProcesses   \* every terminal can have its shell
    /\ CountFloor \in Int
    /\ Hazards \subseteq HazardKinds
    /\ BOOT \notin Pid
    /\ NULL \notin Flow

VARIABLES
    terminal_PID,             (* identifiers in use                           *)
    global_process_count,
    is_base_shell,            (* 1: the next sys_execute restarts a base shell*)
    LebronAI_flag,
    Lebron_FMVP_count,        (* boot ticks seen                              *)
    After_Three_Execute_Flag, (* 1: every terminal has had its boot tick      *)
    current_terminal,
    terminal_shown,
    current_pid,
    destination_PID,
    curr_pcb,                 (* the identifier whose PCB curr_pcb points to  *)
    user_page,                (* the identifier mapped at 128 MB              *)
    tss_esp0,                 (* the identifier whose kernel stack is esp0    *)
    vid_page,                 (* physical page behind B8: 0 the screen, t+1   *)
                              (* the backing page of terminal t               *)
    esp,                      (* PCB field esp_for_scheduling                 *)
    ebp,                      (* PCB field ebp: the frame of sys_execute      *)
    kstack,                   (* kstack[f]: what flow f is in the middle of   *)
    in_pit,                   (* flows suspended inside the PIT handler       *)
    cpu                       (* the flow that executes; NULL once the kernel *)
                              (* has resumed a context that does not exist    *)

vars == <<terminal_PID, global_process_count, is_base_shell, LebronAI_flag,
          Lebron_FMVP_count, After_Three_Execute_Flag, current_terminal,
          terminal_shown, current_pid, destination_PID, curr_pcb, user_page,
          tss_esp0, vid_page, esp, ebp, kstack, in_pit, cpu>>

(* What a flow is in the middle of: nothing; user code or an interruptible    *)
(* part of a system call; sys_execute, waiting for the child to halt; sys_halt*)
(* of a base shell, between its sti and the cli of sys_execute; the PIT       *)
(* handler of a boot tick, between the sti of remapB8 and that cli.           *)
FlowState == {"none", "user", "wait", "restart", "boot"}

(* Every variable has its type; the boot flag is set with the last boot tick. *)
TypeOK ==
    /\ terminal_PID \subseteq Pid
    /\ global_process_count \in Int
    /\ is_base_shell \in {0, 1}
    /\ LebronAI_flag \in {0, 1}
    /\ Lebron_FMVP_count \in 0 .. NumTerminals
    /\ After_Three_Execute_Flag \in {0, 1}
    /\ current_terminal \in Terminals
    /\ terminal_shown \in Terminals
    /\ current_pid \in Pid
    /\ destination_PID \in Pid
    /\ curr_pcb \in Pid
    /\ user_page \in Pid \cup {NULL}
    /\ tss_esp0 \in Pid
    /\ vid_page \in 0 .. NumTerminals
    /\ esp \in [Pid -> Flow \cup {NULL}]
    /\ ebp \in [Pid -> Flow \cup {NULL}]
    /\ kstack \in [Flow -> FlowState]
    /\ in_pit \subseteq Flow
    /\ cpu \in Flow \cup {NULL}
    /\ After_Three_Execute_Flag = 0 => Lebron_FMVP_count < NumTerminals
-----------------------------------------------------------------------------
(* kernel.c:entry up to the hlt loop: empty process table, the PCBs of the    *)
(* base shells initialised, no tick yet.                                      *)
Init ==
    /\ terminal_PID = {}
    /\ global_process_count = 0
    /\ is_base_shell = 0
    /\ LebronAI_flag = 0
    /\ Lebron_FMVP_count = 0
    /\ After_Three_Execute_Flag = 0
    /\ current_terminal = 0
    /\ terminal_shown = 0
    /\ current_pid = <<0, 0>>
    /\ destination_PID = <<0, 0>>
    /\ curr_pcb = <<0, 0>>
    /\ user_page = NULL
    /\ tss_esp0 = <<0, 0>>
    /\ vid_page = 0
    /\ esp = [p \in Pid |-> NULL]
    /\ ebp = [p \in Pid |-> NULL]
    /\ kstack = [f \in Flow |-> IF f = BOOT THEN "user" ELSE "none"]
    /\ in_pit = {}
    /\ cpu = BOOT
-----------------------------------------------------------------------------
(* remapB8: the page B8 shows while terminal t runs.                          *)
PageFor(t) == IF t = terminal_shown THEN 0 ELSE t + 1

(* Seeded fault: the search does not stop at the first unused slot.           *)
IsLastFree(p) ==
    /\ p[1] = current_terminal
    /\ p \notin terminal_PID
    /\ \A s \in Slots : s > p[2] => <<p[1], s>> \in terminal_PID

(* p is the identifier the search of sys_execute finds: the lowest unused     *)
(* slot of the current terminal.                                              *)
IsFirstFree(p) ==
    /\ p[1] = current_terminal
    /\ p \notin terminal_PID
    /\ \A s \in Slots : s < p[2] => <<p[1], s>> \in terminal_PID

(* Seeded faults: the limit is tested on the table, where a base shell that is*)
(* being restarted still has its entry; it is not tested.                     *)
CanExecuteByTable ==
    /\ LebronAI_flag = 0
    /\ \E s \in Slots : <<current_terminal, s>> \notin terminal_PID
    /\ Cardinality(terminal_PID) # MaxProcesses

CanExecuteUnlimited ==
    /\ LebronAI_flag = 0
    /\ \E s \in Slots : <<current_terminal, s>> \notin terminal_PID

(* sys_execute accepts a command (its file is found and is an ELF image).     *)
CanExecute ==
    /\ LebronAI_flag = 0
    /\ \E s \in Slots : <<current_terminal, s>> \notin terminal_PID
    /\ global_process_count # MaxProcesses

(* The identifier sys_execute gives the new process.                          *)
NewPid(p) ==
    IF is_base_shell = 1 THEN p = <<current_terminal, 0>> ELSE IsFirstFree(p)

(* Seeded fault: esp0 is not switched (bug_log.txt, bug 9).                   *)
EnterProcessOnOldStack(p) == user_page' = p /\ tss_esp0' = tss_esp0

(* set_user_page and the assignment to tss.esp0 that goes with every change   *)
(* of process.                                                                *)
EnterProcess(p) == user_page' = p /\ tss_esp0' = p

(* The rest of sys_execute, up to the iret into the program: the program      *)
(* occupies p, its PCB inherits the saved context of the PCB in use, and the  *)
(* flow that called is left inside sys_execute.                               *)
LoadAndRun(p) ==
    /\ current_pid' = p
    /\ terminal_PID' = terminal_PID \cup {p}
    /\ is_base_shell' = 0
    /\ EnterProcess(p)
    /\ curr_pcb' = p
    /\ esp' = [esp EXCEPT ![p] = esp[curr_pcb]]
    /\ ebp' = [ebp EXCEPT ![p] = cpu]
    /\ global_process_count' = global_process_count + 1
    /\ cpu' = p

(* The flows whose frames are lost when p gets a fresh kernel stack; the boot *)
(* stack and PID_STACK(0) are the same memory.                                *)
Overwritten(p) == IF p = <<0, 0>> THEN {p, BOOT} ELSE {p}

(* p is the process the PIT handler picks for terminal t: the newest one.     *)
IsTop(p, t) ==
    /\ p \in terminal_PID
    /\ p[1] = t
    /\ \A q \in terminal_PID : q[1] = t => q[2] <= p[2]

(* The part of the PIT handler that switches to terminal t, given the saved   *)
(* contexts and the PCB at hand: pick a process, map its page, set esp0, remap*)
(* B8, load the stack pointer of its PCB.  With no process on t the handler   *)
(* keeps the old destination and the PCB at hand.                             *)
Dispatch(t, saved, pcb) ==
    /\ current_terminal' = t
    /\ \/ \E p \in Pid : /\ IsTop(p, t)
                         /\ destination_PID' = p
                         /\ current_pid' = p
                         /\ curr_pcb' = p
       \/ /\ \A q \in terminal_PID : q[1] # t
          /\ curr_pcb' = pcb
          /\ UNCHANGED <<destination_PID, current_pid>>
    /\ EnterProcess(destination_PID')
    /\ vid_page' = PageFor(t)
    /\ esp' = saved
    /\ cpu' = IF saved[curr_pcb'] \in in_pit \cup {cpu} THEN saved[curr_pcb'] ELSE NULL
    /\ in_pit' = (in_pit \cup {cpu}) \ {cpu'}

(* Seeded faults: no wrap-around, the last terminal left out.                 *)
NextTerminalUnbounded == current_terminal + 1
NextTerminalOneShort  == IF current_terminal + 2 < NumTerminals THEN current_terminal + 1 ELSE 0

NextTerminal == (current_terminal + 1) % NumTerminals

(* Seeded fault: the context goes to the process of the previous switch.      *)
SavedContextsStale == [esp EXCEPT ![destination_PID] = cpu]

(* The PIT handler stores the interrupted context in the current PCB.         *)
SavedContexts == [esp EXCEPT ![current_pid] = cpu]

(* Seeded fault: the base shell taken for every program's parent.             *)
ParentOfIsBase(p) == <<p[1], 0>>

(* sys_halt: current_pid - 1.                                                 *)
ParentOf(p) == <<p[1], p[2] - 1>>

(* Interrupts are on in the flow that executes, and a tick may land here.     *)
TickPossible ==
    /\ cpu # NULL
    /\ kstack[cpu] = "boot" => "boot" \in Hazards
    /\ kstack[cpu] = "restart" => "restart" \in Hazards

(* A user program that the shell's user commands executes.                    *)
ProgramRuns ==
    /\ cpu \in Pid
    /\ kstack[cpu] = "user"
    /\ After_Three_Execute_Flag = 1 \/ "early" \in Hazards
-----------------------------------------------------------------------------
(* PIT_interrupt_handler, one of the first NumTerminals ticks, up to the sti  *)
(* of remapB8: save the interrupted context in the PCB of the base shell of   *)
(* the current terminal, move on to the next terminal.  The end of interrupt  *)
(* has already been sent.                                                     *)
BootTick ==
    /\ TickPossible
    /\ After_Three_Execute_Flag = 0
    /\ esp' = IF Lebron_FMVP_count = 0 THEN esp
              ELSE [esp EXCEPT ![<<current_terminal, 0>>] = cpu]
    /\ After_Three_Execute_Flag' = IF Lebron_FMVP_count = NumTerminals - 1 THEN 1 ELSE 0
    /\ current_terminal' = Lebron_FMVP_count
    /\ curr_pcb' = <<Lebron_FMVP_count, 0>>
    /\ Lebron_FMVP_count' = Lebron_FMVP_count + 1
    /\ vid_page' = PageFor(Lebron_FMVP_count)
    /\ kstack' = [kstack EXCEPT ![cpu] = "boot"]
    /\ UNCHANGED <<terminal_PID, global_process_count, is_base_shell, LebronAI_flag,
                   terminal_shown, current_pid, destination_PID, user_page,
                   tss_esp0, ebp, in_pit, cpu>>

(* The rest of a boot tick: sys_execute("shell"), which does not come back.   *)
(* The interrupted flow stays suspended in the handler.                       *)
BootExecute ==
    /\ cpu # NULL
    /\ kstack[cpu] = "boot"
    /\ CanExecute
    /\ \E p \in Pid :
          /\ NewPid(p)
          /\ LoadAndRun(p)
          /\ kstack' = [kstack EXCEPT ![cpu] = "user", ![p] = "user"]
          /\ in_pit' = (in_pit \cup {cpu}) \ Overwritten(p)
    /\ UNCHANGED <<LebronAI_flag, Lebron_FMVP_count, After_Three_Execute_Flag,
                   current_terminal, terminal_shown, destination_PID, vid_page>>

(* sys_execute("shell") refuses: the boot tick falls through to the switch,   *)
(* without a saved context of its own.                                        *)
BootExecuteRefused ==
    /\ cpu # NULL
    /\ kstack[cpu] = "boot"
    /\ ~CanExecute
    /\ Dispatch(NextTerminal, esp, curr_pcb)
    /\ kstack' = [kstack EXCEPT ![cpu] = "user"]
    /\ UNCHANGED <<terminal_PID, global_process_count, is_base_shell, LebronAI_flag,
                   Lebron_FMVP_count, After_Three_Execute_Flag, terminal_shown, ebp>>

(* PIT_interrupt_handler, every later tick.  IRQ0 is in service until the     *)
(* final send_eoi, so the sti inside remapB8 lets nothing in.                 *)
PITTick ==
    /\ TickPossible
    /\ After_Three_Execute_Flag = 1
    /\ Dispatch(NextTerminal, SavedContexts, current_pid)
    /\ UNCHANGED <<terminal_PID, global_process_count, is_base_shell, LebronAI_flag,
                   Lebron_FMVP_count, After_Three_Execute_Flag, terminal_shown,
                   ebp, kstack>>

(* sys_execute called by a program.  A refused call changes none of this.     *)
Execute ==
    /\ ProgramRuns
    /\ CanExecute
    /\ \E p \in Pid :
          /\ NewPid(p)
          /\ LoadAndRun(p)
          /\ kstack' = [kstack EXCEPT ![cpu] = "wait", ![p] = "user"]
          /\ in_pit' = in_pit \ Overwritten(p)
    /\ UNCHANGED <<LebronAI_flag, Lebron_FMVP_count, After_Three_Execute_Flag,
                   current_terminal, terminal_shown, destination_PID, vid_page>>

(* sys_halt of a program that is not a base shell: the next lower identifier  *)
(* becomes current and control goes to the frame saved in the PCB, inside the *)
(* sys_execute that started the program.  The code leaves the contexts in the *)
(* PCB of the freed identifier behind; nothing reads them before init_pcb     *)
(* writes them again, and the model forgets them.                             *)
HaltChild ==
    /\ ProgramRuns
    /\ current_pid[2] # 0
    /\ EnterProcess(ParentOf(current_pid))
    /\ terminal_PID' = terminal_PID \ {current_pid}
    /\ curr_pcb' = ParentOf(current_pid)
    /\ current_pid' = ParentOf(current_pid)
    /\ LET caller == ebp[curr_pcb]
           frame  == caller \in Flow /\ kstack[caller] = "wait"
       IN /\ cpu' = IF frame THEN caller ELSE NULL
          /\ kstack' = [f \in Flow |-> IF f = caller /\ frame THEN "user"
                                       ELSE IF f = cpu THEN "none" ELSE kstack[f]]
    /\ esp' = [esp EXCEPT ![current_pid] = NULL]
    /\ ebp' = [ebp EXCEPT ![current_pid] = NULL]
    /\ global_process_count' = global_process_count - 1
    /\ UNCHANGED <<is_base_shell, LebronAI_flag, Lebron_FMVP_count,
                   After_Three_Execute_Flag, current_terminal, terminal_shown,
                   destination_PID, vid_page, in_pit>>

(* sys_halt of a base shell, up to the sti.                                   *)
HaltBaseShell ==
    /\ ProgramRuns
    /\ current_pid[2] = 0
    /\ LebronAI_flag = 1 => "ai" \in Hazards
    /\ global_process_count > CountFloor
    /\ is_base_shell' = 1
    /\ global_process_count' = global_process_count - 1
    /\ kstack' = [kstack EXCEPT ![cpu] = "restart"]
    /\ UNCHANGED <<terminal_PID, LebronAI_flag, Lebron_FMVP_count,
                   After_Three_Execute_Flag, current_terminal, terminal_shown,
                   current_pid, destination_PID, curr_pcb, user_page, tss_esp0,
                   vid_page, esp, ebp, in_pit, cpu>>

(* The sys_execute("shell") of sys_halt.  A base shell restarted under its    *)
(* own identifier takes over the flow that called.                            *)
RestartBaseShell ==
    /\ cpu # NULL
    /\ kstack[cpu] = "restart"
    /\ CanExecute
    /\ \E p \in Pid :
          /\ NewPid(p)
          /\ LoadAndRun(p)
          /\ kstack' = [kstack EXCEPT ![cpu] = "wait", ![p] = "user"]
          /\ in_pit' = in_pit \ Overwritten(p)
    /\ UNCHANGED <<LebronAI_flag, Lebron_FMVP_count, After_Three_Execute_Flag,
                   current_terminal, terminal_shown, destination_PID, vid_page>>

(* That sys_execute refuses: sys_halt returns -1 to the program that halted,  *)
(* which runs on, and is_base_shell stays set.                                *)
RestartRefused ==
    /\ cpu # NULL
    /\ kstack[cpu] = "restart"
    /\ ~CanExecute
    /\ kstack' = [kstack EXCEPT ![cpu] = "user"]
    /\ UNCHANGED <<terminal_PID, global_process_count, is_base_shell, LebronAI_flag,
                   Lebron_FMVP_count, After_Three_Execute_Flag, current_terminal,
                   terminal_shown, current_pid, destination_PID, curr_pcb,
                   user_page, tss_esp0, vid_page, esp, ebp, in_pit, cpu>>

(* terminal_swap from the keyboard handler, in whatever flow it interrupts.   *)
(* B8 is not remapped.                                                        *)
TerminalSwap(t) ==
    /\ cpu # NULL
    /\ terminal_shown' = t
    /\ UNCHANGED <<terminal_PID, global_process_count, is_base_shell, LebronAI_flag,
                   Lebron_FMVP_count, After_Three_Execute_Flag, current_terminal,
                   current_pid, destination_PID, curr_pcb, user_page, tss_esp0,
                   vid_page, esp, ebp, kstack, in_pit, cpu>>

(* terminal_read finds "Lebron AI", or "quit", in the line of a program.      *)
SwitchLebronAI ==
    /\ ProgramRuns
    /\ LebronAI_flag' \in {0, 1}
    /\ UNCHANGED <<terminal_PID, global_process_count, is_base_shell,
                   Lebron_FMVP_count, After_Three_Execute_Flag, current_terminal,
                   terminal_shown, current_pid, destination_PID, curr_pcb,
                   user_page, tss_esp0, vid_page, esp, ebp, kstack, in_pit, cpu>>

Next ==
    \/ BootTick \/ BootExecute \/ BootExecuteRefused \/ PITTick
    \/ Execute \/ HaltChild \/ HaltBaseShell \/ RestartBaseShell \/ RestartRefused
    \/ \E t \in Terminals : TerminalSwap(t)
    \/ SwitchLebronAI

(* The timer keeps ticking and the 8259 latches a tick until interrupts are   *)
(* on, so a tick that is possible again and again is taken; a flow inside the *)
(* kernel reaches its next step.  Programs and the user owe nothing.          *)
Fairness ==
    /\ SF_vars(BootTick) /\ SF_vars(PITTick)
    /\ WF_vars(BootExecute \/ BootExecuteRefused)
    /\ WF_vars(RestartBaseShell \/ RestartRefused)

Spec == Init /\ [][Next]_vars /\ Fairness
-----------------------------------------------------------------------------
(* Boot is over for the flow that executes: it serves a process.              *)
ProcessRuns == cpu \in Pid /\ kstack[cpu] # "boot"

(* The used slots of every terminal are 0, 1, ..., top: sys_halt frees and    *)
(* sys_execute fills only the top, which the search for the first free slot   *)
(* and the parent = pid - 1 rule both rely on.                                *)
PidsArePrefix ==
    \A p \in terminal_PID : \A s \in Slots : s < p[2] => <<p[1], s>> \in terminal_PID

(* Whatever the order of ticks, executes and halts, the process that executes *)
(* is the newest one of the current terminal, and every record of who it is   *)
(* agrees: current_pid, curr_pcb, the page at 128 MB, and the kernel stack    *)
(* the next system call or interrupt will use.                                *)
RunningIsCurrent ==
    ProcessRuns => /\ IsTop(cpu, current_terminal)
                   /\ current_pid = cpu
                   /\ curr_pcb = cpu
                   /\ user_page = cpu
                   /\ tss_esp0 = cpu

(* The foreground process of every other terminal can be resumed: its PCB     *)
(* points to a frame of the PIT handler on its own kernel stack.              *)
ContextsSaved ==
    \A p \in Pid : IsTop(p, p[1]) /\ p # cpu =>
        p \in in_pit /\ esp[p] = p /\ kstack[p] = "user"

(* Every process but a base shell has a live parent, in the next lower slot,  *)
(* that is inside the sys_execute its PCB points back to: a halt can return.  *)
ParentWaits ==
    \A p \in terminal_PID : p[2] # 0 =>
        LET parent == <<p[1], p[2] - 1>>
        IN  ebp[p] = parent /\ parent \in terminal_PID /\ kstack[parent] = "wait"

(* global_process_count counts the live processes, less the base shell that   *)
(* is being restarted, so the limit sys_execute tests is really enforced over *)
(* all terminals.                                                             *)
ProcessLimit ==
    /\ Cardinality(terminal_PID) = global_process_count + is_base_shell
    /\ Cardinality(terminal_PID) <= MaxProcesses

(* Even in the windows the kernel leaves open, the count never exceeds the    *)
(* number of live processes, so the test with == cannot be jumped over.       *)
CountIsBounded ==
    /\ global_process_count + is_base_shell <= Cardinality(terminal_PID)
    /\ global_process_count <= MaxProcesses

(* An identifier is released only by the halt of the process that holds it,   *)
(* which is the one that executes; its parent goes on at once, on its page.   *)
HaltReturnsToParent ==
    [][\A p \in terminal_PID \ terminal_PID' :
          /\ cpu = p
          /\ cpu' = <<p[1], p[2] - 1>>
          /\ user_page' = cpu' /\ kstack'[cpu'] = "user"]_vars

(* Every terminal gets the processor again and again, however many programs   *)
(* the other terminals start and whatever the user switches to.               *)
EveryTerminalRuns ==
    \A t \in Terminals : []<>(cpu \in Pid /\ kstack[cpu] = "user" /\ cpu[1] = t)

(* A base shell that halts is replaced.                                       *)
BaseShellRestarts == is_base_shell = 1 ~> is_base_shell = 0

(* The number of processes of a terminal.                                     *)
Depth(t) == Cardinality({p \in terminal_PID : p[1] = t})

Stacks == INSTANCE TerminalStacks WITH
              depth <- [t \in Terminals |-> Depth(t)],
              turn  <- current_terminal,
              free  <- MaxProcesses - global_process_count - is_base_shell

(* The process manager and scheduler implement the stacks of programs that    *)
(* take turns.                                                                *)
ImplementsStacks == Stacks!Spec
=============================================================================
