-------------------------- MODULE SchedulingProofs --------------------------
(* Theorems about Scheduling and, at the end, about the page tables of        *)
(* AddressSpaces under it, for any number of terminals and process slots.     *)
EXTENDS AddressSpaces, FiniteSetTheorems, TLAPS

(* Terminals, slots and identifiers as the provers need to see them.          *)
LEMMA PidFacts ==
    /\ 0 \in Terminals
    /\ 0 \in Slots
    /\ <<0, 0>> \in Pid
    /\ BOOT \in Flow /\ NULL \notin Flow /\ BOOT \notin Pid
    /\ \A p \in Pid : /\ p \in Flow /\ p # BOOT /\ p # NULL
                      /\ p[1] \in Terminals /\ p[2] \in Slots
                      /\ p = <<p[1], p[2]>>
    /\ \A t \in Terminals, s \in Slots : <<t, s>> \in Pid
BY SchedulingAssumption DEF Terminals, Slots, Pid, Flow

(* The terminal after a terminal is a terminal.                               *)
LEMMA NextTerminalType ==
    ASSUME current_terminal \in Terminals
    PROVE  NextTerminal \in Terminals
BY SchedulingAssumption DEF Terminals, NextTerminal

(* The parent of a program is a process identifier.                           *)
LEMMA ParentIsPid ==
    ASSUME NEW p \in Pid, p[2] # 0
    PROVE  ParentOf(p) \in Pid
BY SchedulingAssumption DEF ParentOf, Pid, Terminals, Slots

(* sys_execute gives the new process an identifier of the current terminal.   *)
LEMMA NewPidType ==
    ASSUME NEW p \in Pid, TypeOK, LoadAndRun(p)
    PROVE  /\ terminal_PID' \subseteq Pid
           /\ global_process_count' \in Int
           /\ is_base_shell' \in {0, 1}
           /\ current_pid' \in Pid /\ curr_pcb' \in Pid
           /\ user_page' \in Pid \cup {NULL} /\ tss_esp0' \in Pid
           /\ esp' \in [Pid -> Flow \cup {NULL}]
           /\ ebp' \in [Pid -> Flow \cup {NULL}]
           /\ cpu' \in Flow
BY PidFacts DEF LoadAndRun, EnterProcess, TypeOK

(* The switch of the PIT handler keeps the types.                             *)
LEMMA DispatchType ==
    ASSUME TypeOK, cpu # NULL,
           NEW t \in Terminals,
           NEW saved \in [Pid -> Flow \cup {NULL}],
           NEW pcb \in Pid,
           terminal_shown' = terminal_shown,
           Dispatch(t, saved, pcb)
    PROVE  /\ current_terminal' \in Terminals
           /\ current_pid' \in Pid /\ destination_PID' \in Pid /\ curr_pcb' \in Pid
           /\ user_page' \in Pid \cup {NULL} /\ tss_esp0' \in Pid
           /\ vid_page' \in 0 .. NumTerminals
           /\ esp' \in [Pid -> Flow \cup {NULL}]
           /\ cpu' \in Flow \cup {NULL}
           /\ in_pit' \subseteq Flow
<1>1. current_pid' \in Pid /\ destination_PID' \in Pid /\ curr_pcb' \in Pid
  BY DEF Dispatch, TypeOK
<1>2. vid_page' \in 0 .. NumTerminals
  BY SchedulingAssumption DEF Dispatch, PageFor, Terminals
<1>3. user_page' \in Pid \cup {NULL} /\ tss_esp0' \in Pid
  BY <1>1 DEF Dispatch, EnterProcess
<1>4. cpu \in Flow /\ in_pit \subseteq Flow
  BY DEF TypeOK
<1>5. saved[curr_pcb'] \in Flow \cup {NULL}
  BY <1>1
<1>6. cpu' \in Flow \cup {NULL} /\ in_pit' \subseteq Flow
  BY <1>4, <1>5 DEF Dispatch
<1> QED
  BY <1>1, <1>2, <1>3, <1>6 DEF Dispatch

(* The types hold after the boot.                                             *)
LEMMA TypeInit == Init => TypeOK
BY PidFacts, SchedulingAssumption DEF Init, TypeOK, FlowState, Terminals

(* Every step keeps the types, in every window.                               *)
LEMMA TypeStep == TypeOK /\ [Next]_vars => TypeOK'
<1> SUFFICES ASSUME TypeOK, [Next]_vars
             PROVE  TypeOK'
  OBVIOUS
<1> USE PidFacts, SchedulingAssumption
<1>1. CASE BootTick
  <2>1. Lebron_FMVP_count \in Terminals /\ cpu \in Flow
    BY <1>1 DEF BootTick, TickPossible, TypeOK, Terminals
  <2>2. esp' \in [Pid -> Flow \cup {NULL}] /\ kstack' \in [Flow -> FlowState]
    BY <1>1, <2>1 DEF BootTick, TypeOK, FlowState
  <2>3. vid_page' \in 0 .. NumTerminals
    BY <1>1, <2>1 DEF BootTick, PageFor, Terminals
  <2>4. Lebron_FMVP_count' \in 0 .. NumTerminals
    BY <1>1, <2>1 DEF BootTick, Terminals
  <2>5. After_Three_Execute_Flag' = 0 => Lebron_FMVP_count' < NumTerminals
    BY <1>1, <2>1 DEF BootTick, Terminals
  <2> QED
    BY <1>1, <2>1, <2>2, <2>3, <2>4, <2>5 DEF BootTick, TypeOK
<1>2. CASE BootExecute
  <2>1. PICK p \in Pid : /\ LoadAndRun(p)
                        /\ kstack' = [kstack EXCEPT ![cpu] = "user", ![p] = "user"]
                        /\ in_pit' = (in_pit \cup {cpu}) \ Overwritten(p)
    BY <1>2 DEF BootExecute
  <2>2. cpu \in Flow
    BY <1>2 DEF BootExecute, TypeOK
  <2>3. kstack' \in [Flow -> FlowState] /\ in_pit' \subseteq Flow
    BY <2>1, <2>2 DEF TypeOK, FlowState
  <2> QED
    BY <1>2, <2>1, <2>3, NewPidType DEF BootExecute, TypeOK
<1>3. CASE BootExecuteRefused
  BY <1>3, NextTerminalType, DispatchType DEF BootExecuteRefused, TypeOK, FlowState
<1>4. CASE PITTick
  <2>1. SavedContexts \in [Pid -> Flow \cup {NULL}]
    BY DEF SavedContexts, TypeOK
  <2>2. current_pid \in Pid
    BY DEF TypeOK
  <2> QED
    BY <1>4, <2>1, <2>2, NextTerminalType, DispatchType DEF PITTick, TickPossible, TypeOK
<1>5. CASE Execute
  <2>1. PICK p \in Pid : /\ LoadAndRun(p)
                        /\ kstack' = [kstack EXCEPT ![cpu] = "wait", ![p] = "user"]
                        /\ in_pit' = in_pit \ Overwritten(p)
    BY <1>5 DEF Execute
  <2>2. cpu \in Flow
    BY <1>5 DEF Execute, ProgramRuns, TypeOK
  <2>3. kstack' \in [Flow -> FlowState] /\ in_pit' \subseteq Flow
    BY <2>1, <2>2 DEF TypeOK, FlowState
  <2> QED
    BY <1>5, <2>1, <2>3, NewPidType DEF Execute, TypeOK
<1>6. CASE HaltChild
  <2>1. ParentOf(current_pid) \in Pid
    BY <1>6, ParentIsPid DEF HaltChild, TypeOK
  <2>2. kstack' \in [Flow -> FlowState] /\ cpu' \in Flow \cup {NULL}
    BY <1>6 DEF HaltChild, TypeOK, FlowState
  <2>3. esp' \in [Pid -> Flow \cup {NULL}] /\ ebp' \in [Pid -> Flow \cup {NULL}]
    BY <1>6 DEF HaltChild, TypeOK
  <2> QED
    BY <1>6, <2>1, <2>2, <2>3 DEF HaltChild, EnterProcess, TypeOK
<1>7. CASE HaltBaseShell
  <2>1. kstack' \in [Flow -> FlowState]
    BY <1>7 DEF HaltBaseShell, ProgramRuns, TypeOK, FlowState
  <2> QED
    BY <1>7, <2>1 DEF HaltBaseShell, TypeOK
<1>8. CASE RestartBaseShell
  <2>1. PICK p \in Pid : /\ LoadAndRun(p)
                        /\ kstack' = [kstack EXCEPT ![cpu] = "wait", ![p] = "user"]
                        /\ in_pit' = in_pit \ Overwritten(p)
    BY <1>8 DEF RestartBaseShell
  <2>2. cpu \in Flow
    BY <1>8 DEF RestartBaseShell, TypeOK
  <2>3. kstack' \in [Flow -> FlowState] /\ in_pit' \subseteq Flow
    BY <2>1, <2>2 DEF TypeOK, FlowState
  <2> QED
    BY <1>8, <2>1, <2>3, NewPidType DEF RestartBaseShell, TypeOK
<1>9. CASE RestartRefused
  BY <1>9 DEF RestartRefused, TypeOK, FlowState
<1>10. ASSUME NEW t \in Terminals, TerminalSwap(t)
       PROVE  TypeOK'
  BY <1>10 DEF TerminalSwap, TypeOK
<1>11. CASE SwitchLebronAI
  BY <1>11 DEF SwitchLebronAI, TypeOK
<1>12. CASE UNCHANGED vars
  BY <1>12 DEF vars, TypeOK
<1> QED
  BY <1>1, <1>2, <1>3, <1>4, <1>5, <1>6, <1>7, <1>8, <1>9, <1>10, <1>11, <1>12 DEF Next

(* Every variable keeps its type, in every window the code leaves open.       *)
THEOREM TypeCorrect == Spec => []TypeOK
BY TypeInit, TypeStep, PTL DEF Spec
-----------------------------------------------------------------------------
(* The inductive invariant behind the safety properties, for the executions   *)
(* that hit none of the windows of HazardKinds.                               *)

(* Terminals whose first shell has been executed: 0 .. Started - 1.           *)
Started == IF kstack[cpu] = "boot" THEN Lebron_FMVP_count - 1 ELSE Lebron_FMVP_count

(* No program has had a chance to issue a command.                            *)
Booting == After_Three_Execute_Flag = 0 \/ kstack[cpu] = "boot"

(* Which flow executes during boot, and what boot has achieved.               *)
BootInv ==
    /\ cpu # NULL
    /\ After_Three_Execute_Flag = 1 => Lebron_FMVP_count = NumTerminals
    /\ Lebron_FMVP_count = 0 => current_terminal = 0
    /\ \A p \in terminal_PID : p[1] < Started
    /\ \A t \in Terminals : t < Started => <<t, 0>> \in terminal_PID
    /\ cpu = BOOT <=> Started = 0
    /\ kstack[cpu] = "boot" => /\ Lebron_FMVP_count > 0
                               /\ curr_pcb = <<current_terminal, 0>>
                               /\ cpu # BOOT => /\ cpu = <<current_terminal - 1, 0>>
                                                /\ esp[cpu] = cpu
    /\ cpu = BOOT => kstack[BOOT] \in {"user", "boot"}
    /\ Booting => /\ Lebron_FMVP_count > 0 => current_terminal = Lebron_FMVP_count - 1
                  /\ LebronAI_flag = 0
                  /\ is_base_shell = 0
                  /\ global_process_count = Started
                  /\ \A p \in terminal_PID : p[2] = 0

(* Only the flow that executes is inside a window; a base shell is being      *)
(* restarted exactly while its flow is in the window of sys_halt.             *)
FlowInv ==
    /\ \A f \in Flow : kstack[f] \in {"boot", "restart"} => f = cpu
    /\ ProcessRuns => kstack[cpu] \in {"user", "restart"}
    /\ kstack[cpu] = "restart" <=> is_base_shell = 1
    /\ kstack[cpu] = "restart" => cpu \in Pid /\ cpu[2] = 0 /\ LebronAI_flag = 0

SlotInv ==
    /\ IsFiniteSet(terminal_PID)
    /\ ProcessLimit

ControlInv == /\ BootInv /\ FlowInv
              /\ PidsArePrefix /\ RunningIsCurrent /\ ContextsSaved /\ ParentWaits

SchedInv == TypeOK /\ ControlInv /\ SlotInv

NoWindows == Hazards = {}

(* The invariant holds after the boot.                                        *)
LEMMA SchedInit == Init => SchedInv
<1> SUFFICES ASSUME Init PROVE SchedInv
  OBVIOUS
<1> USE PidFacts, SchedulingAssumption
<1>1. TypeOK
  BY TypeInit
<1>2. BootInv
  BY DEF Init, BootInv, Started, Booting, Terminals
<1>3. FlowInv
  BY DEF Init, FlowInv, ProcessRuns
<1>4. PidsArePrefix /\ ParentWaits /\ ContextsSaved
  BY DEF Init, PidsArePrefix, ParentWaits, ContextsSaved, IsTop
<1>5. RunningIsCurrent
  BY DEF Init, RunningIsCurrent, ProcessRuns
<1>6. SlotInv
  BY FS_EmptySet DEF Init, SlotInv, ProcessLimit
<1> QED
  BY <1>1, <1>2, <1>3, <1>4, <1>5, <1>6 DEF SchedInv, ControlInv

(* The shell of a boot tick finds its terminal empty and gets slot 0.         *)
LEMMA BootSlotIsFree ==
    ASSUME SchedInv, kstack[cpu] = "boot"
    PROVE  /\ current_terminal = Started
           /\ \A p \in terminal_PID : p[1] # current_terminal
           /\ CanExecute
           /\ \A p \in Pid : NewPid(p) => p = <<current_terminal, 0>>
<1> USE PidFacts, SchedulingAssumption
<1>1. /\ current_terminal = Started
      /\ Booting
      /\ \A p \in terminal_PID : p[1] < Started
  BY DEF SchedInv, ControlInv, BootInv, Booting, Started
<1>2. \A p \in terminal_PID : p[1] # current_terminal
  BY <1>1 DEF SchedInv, TypeOK, Terminals
<1>3. CanExecute
  <2>1. <<current_terminal, 0>> \notin terminal_PID
    BY <1>2
  <2>2. global_process_count < NumTerminals
    BY <1>1 DEF SchedInv, ControlInv, BootInv, TypeOK, Started, Terminals
  <2> QED
    BY <1>1, <2>1, <2>2 DEF SchedInv, ControlInv, BootInv, CanExecute, TypeOK
<1>4. ASSUME NEW p \in Pid, NewPid(p)
      PROVE  p = <<current_terminal, 0>>
  <2>1. IsFirstFree(p)
    BY <1>1, <1>4 DEF NewPid, SchedInv, ControlInv, BootInv
  <2>2. ~ (0 < p[2])
    BY <2>1, <1>2 DEF IsFirstFree
  <2>3. p[2] = 0
    BY <2>2 DEF Slots
  <2> QED
    BY <2>1, <2>3 DEF IsFirstFree
<1> QED
  BY <1>1, <1>2, <1>3, <1>4

(* A boot tick up to its sys_execute keeps the control part.                  *)
LEMMA BootTickStep ==
    ASSUME SchedInv, TypeOK', NoWindows, BootTick
    PROVE  ControlInv'
<1> USE PidFacts, SchedulingAssumption DEF NoWindows
<1> DEFINE c == Lebron_FMVP_count
<1>1. /\ cpu \in Flow /\ cpu' = cpu
      /\ c \in Terminals
      /\ kstack[cpu] # "boot" /\ kstack[cpu] # "restart"
      /\ Booting /\ Started = c
  BY DEF BootTick, TickPossible, Booting, Started, SchedInv, TypeOK, Terminals
<1>2. kstack' = [kstack EXCEPT ![cpu] = "boot"] /\ kstack'[cpu'] = "boot"
  BY <1>1 DEF BootTick, SchedInv, TypeOK
<1>3. Started' = Started /\ Booting'
  BY <1>1, <1>2 DEF BootTick, Started, Booting, Terminals
<1>4. cpu # BOOT => c > 0 /\ current_terminal = c - 1 /\ cpu = <<current_terminal, 0>>
  <2> SUFFICES ASSUME cpu # BOOT
               PROVE  c > 0 /\ current_terminal = c - 1 /\ cpu = <<current_terminal, 0>>
    OBVIOUS
  <2>1. c # 0
    BY <1>1 DEF SchedInv, ControlInv, BootInv
  <2>2. c > 0
    BY <1>1, <2>1 DEF Terminals
  <2>3. current_terminal = c - 1
    BY <1>1, <2>2 DEF SchedInv, ControlInv, BootInv
  <2>4. ProcessRuns
    BY <1>1 DEF ProcessRuns, Flow
  <2>5. IsTop(cpu, current_terminal)
    BY <2>4 DEF SchedInv, ControlInv, RunningIsCurrent
  <2>6. cpu[2] = 0
    BY <1>1, <2>5 DEF IsTop, SchedInv, ControlInv, BootInv
  <2> QED
    BY <1>1, <2>2, <2>3, <2>5, <2>6 DEF IsTop, Flow
<1>5. BootInv'
  <2>1. cpu' # NULL /\ (After_Three_Execute_Flag' = 1 => Lebron_FMVP_count' = NumTerminals)
    BY <1>1 DEF BootTick, TickPossible, Terminals
  <2>2. (cpu = BOOT <=> Started = 0)'
    BY <1>1, <1>3 DEF SchedInv, ControlInv, BootInv
  <2>3. Lebron_FMVP_count' > 0 /\ curr_pcb' = <<current_terminal', 0>>
        /\ current_terminal' = Lebron_FMVP_count' - 1
    BY <1>1 DEF BootTick, Terminals
  <2>4. cpu' # BOOT => cpu' = <<current_terminal' - 1, 0>> /\ esp'[cpu'] = cpu'
    <3> SUFFICES ASSUME cpu # BOOT
                 PROVE  cpu' = <<current_terminal' - 1, 0>> /\ esp'[cpu'] = cpu'
      BY <1>1
    <3>1. c # 0
      BY <1>4
    <3>2. esp' = [esp EXCEPT ![cpu] = cpu]
      BY <1>4, <3>1 DEF BootTick
    <3>3. cpu \in Pid /\ current_terminal' - 1 = current_terminal
      BY <1>1, <1>4 DEF BootTick, Flow, Terminals
    <3> QED
      BY <1>1, <1>4, <3>2, <3>3 DEF SchedInv, TypeOK
  <2>5. (\A p \in terminal_PID : p[1] < Started)' /\ (\A p \in terminal_PID : p[2] = 0)'
        /\ (\A t \in Terminals : t < Started => <<t, 0>> \in terminal_PID)'
    BY <1>1, <1>3 DEF BootTick, SchedInv, ControlInv, BootInv
  <2>6. LebronAI_flag' = 0 /\ is_base_shell' = 0 /\ global_process_count' = Started'
    BY <1>1, <1>3 DEF BootTick, SchedInv, ControlInv, BootInv
  <2> QED
    BY <1>2, <2>1, <2>2, <2>3, <2>4, <2>5, <2>6 DEF BootInv
<1>6. FlowInv'
  <2>1. \A f \in Flow : kstack'[f] \in {"boot", "restart"} => f = cpu'
    BY <1>1, <1>2 DEF SchedInv, ControlInv, FlowInv, TypeOK
  <2>2. is_base_shell' = 0
    BY <1>1 DEF BootTick, SchedInv, ControlInv, BootInv
  <2> QED
    BY <1>2, <2>1, <2>2 DEF FlowInv, ProcessRuns
<1>7. PidsArePrefix' /\ RunningIsCurrent'
  BY <1>2 DEF BootTick, SchedInv, ControlInv, PidsArePrefix, RunningIsCurrent, ProcessRuns
<1>8. ContextsSaved'
  <2> SUFFICES ASSUME NEW p \in Pid, IsTop(p, p[1])', p # cpu
               PROVE  p \in in_pit' /\ esp'[p] = p /\ kstack'[p] = "user"
    BY <1>1 DEF ContextsSaved
  <2>1. p \in in_pit /\ esp[p] = p /\ kstack[p] = "user"
    BY DEF BootTick, IsTop, SchedInv, ControlInv, ContextsSaved
  <2>2. esp'[p] = esp[p]
    <3>1. CASE c = 0
      BY <3>1 DEF BootTick
    <3>2. CASE c # 0
      <4>1. esp' = [esp EXCEPT ![cpu] = cpu]
        BY <1>1, <1>4, <3>2 DEF BootTick, SchedInv, ControlInv, BootInv
      <4> QED
        BY <4>1 DEF SchedInv, TypeOK
    <3> QED
      BY <3>1, <3>2
  <2> QED
    BY <1>1, <1>2, <2>1, <2>2 DEF BootTick, SchedInv, TypeOK
<1>9. ParentWaits'
  BY <1>1 DEF BootTick, SchedInv, ControlInv, BootInv, ParentWaits
<1> QED
  BY <1>5, <1>6, <1>7, <1>8, <1>9 DEF ControlInv

(* The shell that a boot tick starts keeps the control part.                  *)
LEMMA BootExecuteStep ==
    ASSUME SchedInv, TypeOK', BootExecute
    PROVE  ControlInv'
<1> USE PidFacts, SchedulingAssumption
<1> DEFINE p == <<current_terminal, 0>>
<1>1. /\ kstack[cpu] = "boot" /\ cpu \in Flow
      /\ current_terminal = Started /\ Booting /\ is_base_shell = 0 /\ LebronAI_flag = 0
      /\ \A q \in terminal_PID : q[1] # current_terminal /\ q[2] = 0
      /\ Started = Lebron_FMVP_count - 1 /\ Lebron_FMVP_count > 0
      /\ p \in Pid
  BY BootSlotIsFree
     DEF BootExecute, Booting, Started, SchedInv, ControlInv, BootInv, TypeOK
<1>2. /\ LoadAndRun(p)
      /\ kstack' = [kstack EXCEPT ![cpu] = "user", ![p] = "user"]
      /\ in_pit' = (in_pit \cup {cpu}) \ Overwritten(p)
  BY <1>1, BootSlotIsFree DEF BootExecute
<1>3. cpu # p /\ p \notin terminal_PID
  BY <1>1 DEF SchedInv, ControlInv, BootInv, TypeOK, Terminals
<1>4. /\ cpu' = p /\ kstack'[p] = "user" /\ kstack'[cpu] = "user"
      /\ terminal_PID' = terminal_PID \cup {p}
      /\ current_terminal' = current_terminal
      /\ Lebron_FMVP_count' = Lebron_FMVP_count
  BY <1>1, <1>2, <1>3 DEF LoadAndRun, BootExecute, SchedInv, TypeOK
<1>5. Started' = Started + 1 /\ Started' > 0
  <2>1. Started' = Lebron_FMVP_count
    BY <1>4 DEF Started
  <2> QED
    BY <1>1, <2>1 DEF SchedInv, TypeOK
<1>6. BootInv'
  <2>1. cpu' # NULL /\ cpu' # BOOT
    BY <1>1, <1>4
  <2>2. (After_Three_Execute_Flag = 1 => Lebron_FMVP_count = NumTerminals)'
    BY DEF BootExecute, SchedInv, ControlInv, BootInv
  <2>3. \A q \in terminal_PID' : q[1] < Started' /\ q[2] = 0
    BY <1>1, <1>4, <1>5 DEF SchedInv, ControlInv, BootInv, TypeOK, Terminals
  <2>4. \A t \in Terminals : t < Started' => <<t, 0>> \in terminal_PID'
    <3> SUFFICES ASSUME NEW t \in Terminals, t < Started + 1
                 PROVE  <<t, 0>> \in terminal_PID'
      BY <1>5
    <3>1. t \in Int /\ current_terminal \in Int
      BY DEF Terminals, SchedInv, TypeOK
    <3>2. t < Started \/ t = current_terminal
      BY <1>1, <3>1
    <3> QED
      BY <1>4, <3>2 DEF SchedInv, ControlInv, BootInv
  <2>5. /\ LebronAI_flag' = 0 /\ is_base_shell' = 0
        /\ global_process_count' = Started'
        /\ current_terminal' = Lebron_FMVP_count' - 1
    BY <1>1, <1>2, <1>4, <1>5 DEF LoadAndRun, BootExecute, SchedInv, ControlInv, BootInv
  <2>6. Lebron_FMVP_count' # 0
    BY <1>4, <1>1 DEF Started, SchedInv, TypeOK
  <2> QED
    BY <1>4, <1>5, <2>1, <2>2, <2>3, <2>4, <2>5, <2>6 DEF BootInv
<1>7. FlowInv'
  <2>1. \A f \in Flow : kstack'[f] \in {"boot", "restart"} => f = cpu'
    BY <1>1, <1>2, <1>4 DEF SchedInv, ControlInv, FlowInv, TypeOK
  <2>2. is_base_shell' = 0
    BY <1>2 DEF LoadAndRun
  <2> QED
    BY <1>4, <2>1, <2>2 DEF FlowInv, ProcessRuns
<1>8. RunningIsCurrent'
  <2>1. IsTop(cpu, current_terminal)'
    BY <1>1, <1>4 DEF IsTop, Slots
  <2> QED
    BY <1>2, <1>4, <2>1 DEF RunningIsCurrent, LoadAndRun, EnterProcess
<1>9. PidsArePrefix' /\ ParentWaits'
  <2>1. \A q \in terminal_PID' : q[2] = 0
    BY <1>1, <1>4
  <2>2. ParentWaits'
    BY <2>1 DEF ParentWaits
  <2>3. PidsArePrefix'
    BY <2>1 DEF PidsArePrefix, Slots
  <2> QED
    BY <2>2, <2>3
<1>10. ContextsSaved'
  <2> SUFFICES ASSUME NEW q \in Pid, IsTop(q, q[1])', q # p
               PROVE  q \in in_pit' /\ esp'[q] = q /\ kstack'[q] = "user"
    BY <1>4 DEF ContextsSaved
  <2>1. esp'[q] = esp[q] /\ q \notin Overwritten(p)
    BY <1>2 DEF LoadAndRun, SchedInv, TypeOK, Overwritten
  <2>2. IsTop(q, q[1])
    BY <1>4 DEF IsTop
  <2>3. CASE q = cpu
    BY <1>1, <1>2, <1>4, <2>1, <2>3 DEF SchedInv, ControlInv, BootInv
  <2>4. CASE q # cpu
    <3>1. q \in in_pit /\ esp[q] = q /\ kstack[q] = "user"
      BY <2>2, <2>4 DEF SchedInv, ControlInv, ContextsSaved
    <3> QED
      BY <1>1, <1>2, <2>1, <2>4, <3>1 DEF SchedInv, TypeOK
  <2> QED
    BY <2>3, <2>4
<1> QED
  BY <1>6, <1>7, <1>8, <1>9, <1>10 DEF ControlInv

(* Outside boot every terminal has its shell, and the flow that executes is   *)
(* the process at the top of the current terminal.                            *)
LEMMA SteadyFacts ==
    ASSUME SchedInv, cpu # NULL, kstack[cpu] # "boot", After_Three_Execute_Flag = 1
    PROVE  /\ ProcessRuns /\ cpu \in Pid /\ ~Booting
           /\ Started = NumTerminals
           /\ \A t \in Terminals : <<t, 0>> \in terminal_PID
           /\ IsTop(cpu, current_terminal)
           /\ current_pid = cpu /\ curr_pcb = cpu
           /\ cpu = <<current_terminal, cpu[2]>>
<1> USE PidFacts, SchedulingAssumption
<1>1. Started = NumTerminals /\ ~Booting
  BY DEF SchedInv, ControlInv, BootInv, Started, Booting
<1>2. cpu \in Pid
  BY <1>1 DEF SchedInv, ControlInv, BootInv, TypeOK, Flow
<1>3. ProcessRuns
  BY <1>2 DEF ProcessRuns
<1>4. IsTop(cpu, current_terminal) /\ current_pid = cpu /\ curr_pcb = cpu
  BY <1>3 DEF SchedInv, ControlInv, RunningIsCurrent
<1>5. \A t \in Terminals : <<t, 0>> \in terminal_PID
  <2>1. \A t \in Terminals : t < Started
    BY <1>1 DEF Terminals
  <2> QED
    BY <2>1 DEF SchedInv, ControlInv, BootInv
<1> QED
  BY <1>1, <1>2, <1>3, <1>4, <1>5 DEF IsTop

(* A tick that switches terminals keeps the control part.                     *)
LEMMA PITTickStep ==
    ASSUME SchedInv, TypeOK', NoWindows, PITTick
    PROVE  ControlInv'
<1> USE PidFacts, SchedulingAssumption DEF NoWindows
<1>1. /\ ProcessRuns /\ cpu \in Pid /\ kstack[cpu] = "user"
      /\ IsTop(cpu, current_terminal)
      /\ current_pid = cpu /\ curr_pcb = cpu
      /\ After_Three_Execute_Flag = 1 /\ ~Booting /\ Started = NumTerminals
      /\ NextTerminal \in Terminals
      /\ <<NextTerminal, 0>> \in terminal_PID
  <2>1. cpu # NULL /\ kstack[cpu] # "boot" /\ kstack[cpu] # "restart"
        /\ After_Three_Execute_Flag = 1
    BY DEF PITTick, TickPossible
  <2>2. NextTerminal \in Terminals
    BY NextTerminalType DEF SchedInv, TypeOK
  <2> QED
    BY <2>1, <2>2, SteadyFacts DEF SchedInv, ControlInv, FlowInv
<1>2. PICK p \in Pid : /\ IsTop(p, NextTerminal)
                      /\ destination_PID' = p /\ current_pid' = p /\ curr_pcb' = p
  BY <1>1 DEF PITTick, Dispatch
<1>3. /\ SavedContexts \in [Pid -> Flow \cup {NULL}]
      /\ SavedContexts[cpu] = cpu
      /\ \A q \in Pid : q # cpu => SavedContexts[q] = esp[q]
  BY <1>1 DEF SavedContexts, SchedInv, TypeOK
<1>4. p # cpu => p \in in_pit /\ esp[p] = p /\ kstack[p] = "user"
  BY <1>2 DEF IsTop, SchedInv, ControlInv, ContextsSaved
<1>5. SavedContexts[p] = p /\ p \in in_pit \cup {cpu} /\ kstack[p] = "user"
  BY <1>1, <1>3, <1>4
<1>6. /\ cpu' = p
      /\ in_pit' = (in_pit \cup {cpu}) \ {p}
      /\ esp' = SavedContexts
      /\ current_terminal' = NextTerminal
      /\ user_page' = p /\ tss_esp0' = p
  BY <1>2, <1>5 DEF PITTick, Dispatch, EnterProcess
<1>7. UNCHANGED <<terminal_PID, global_process_count, is_base_shell, LebronAI_flag,
                  Lebron_FMVP_count, After_Three_Execute_Flag, ebp, kstack>>
  BY DEF PITTick
<1>8. Started' = Started /\ ~Booting'
  BY <1>1, <1>5, <1>6, <1>7 DEF Started, Booting
<1>9. BootInv'
  BY <1>1, <1>2, <1>5, <1>6, <1>7, <1>8 DEF SchedInv, ControlInv, BootInv
<1>10. FlowInv'
  <2>1. \A f \in Flow : kstack[f] \notin {"boot", "restart"}
    BY <1>1 DEF SchedInv, ControlInv, FlowInv
  <2>2. is_base_shell # 1
    BY <1>1 DEF SchedInv, ControlInv, FlowInv
  <2> QED
    BY <1>5, <1>6, <1>7, <2>1, <2>2 DEF FlowInv, ProcessRuns
<1>11. PidsArePrefix' /\ ParentWaits'
  BY <1>7 DEF SchedInv, ControlInv, PidsArePrefix, ParentWaits
<1>12. RunningIsCurrent'
  BY <1>2, <1>6, <1>7 DEF RunningIsCurrent, IsTop
<1>13. ContextsSaved'
  <2> SUFFICES ASSUME NEW q \in Pid, IsTop(q, q[1])', q # p
               PROVE  q \in in_pit' /\ esp'[q] = q /\ kstack'[q] = "user"
    BY <1>6 DEF ContextsSaved
  <2>1. CASE q = cpu
    BY <1>1, <1>3, <1>6, <1>7, <2>1
  <2>2. CASE q # cpu
    <3>1. IsTop(q, q[1])
      BY <1>7 DEF IsTop
    <3> QED
      BY <1>3, <1>6, <1>7, <2>2, <3>1 DEF SchedInv, ControlInv, ContextsSaved
  <2> QED
    BY <2>1, <2>2
<1> QED
  BY <1>9, <1>10, <1>11, <1>12, <1>13 DEF ControlInv

(* What a step leaves alone when it touches neither another terminal's PCBs   *)
(* nor their flows: the saved contexts of the other terminals.                *)
LEMMA ContextsKept ==
    ASSUME SchedInv,
           NEW p \in Pid, cpu' = p,
           cpu \in Pid, cpu[1] = p[1],
           IsTop(p, p[1])',
           terminal_PID' \subseteq Pid,
           \A q \in Pid : q[1] # cpu[1] =>
               /\ q \in terminal_PID' <=> q \in terminal_PID
               /\ esp'[q] = esp[q] /\ kstack'[q] = kstack[q]
               /\ q \in in_pit => q \in in_pit'
    PROVE  ContextsSaved'
<1> USE PidFacts
<1> SUFFICES ASSUME NEW q \in Pid, IsTop(q, q[1])', q # p
             PROVE  q \in in_pit' /\ esp'[q] = q /\ kstack'[q] = "user"
  BY DEF ContextsSaved
<1>1. q[1] # cpu[1]
  <2> SUFFICES ASSUME q[1] = cpu[1]
               PROVE  FALSE
    OBVIOUS
  <2>1. q[2] <= p[2] /\ p[2] <= q[2]
    BY DEF IsTop
  <2>2. q[2] = p[2]
    BY <2>1 DEF Slots
  <2> QED
    BY <2>2
<1>2. IsTop(q, q[1])
  BY <1>1 DEF IsTop, SchedInv, TypeOK
<1>3. q # cpu
  BY <1>1
<1> QED
  BY <1>1, <1>2, <1>3 DEF SchedInv, ControlInv, ContextsSaved

(* A program that executes another keeps the control part.                    *)
LEMMA ExecuteStep ==
    ASSUME SchedInv, TypeOK', NoWindows, Execute
    PROVE  ControlInv'
<1> USE PidFacts, SchedulingAssumption DEF NoWindows
<1>1. /\ ProcessRuns /\ cpu \in Pid /\ kstack[cpu] = "user"
      /\ IsTop(cpu, current_terminal) /\ cpu[1] = current_terminal
      /\ current_pid = cpu /\ curr_pcb = cpu
      /\ After_Three_Execute_Flag = 1 /\ ~Booting /\ Started = NumTerminals
      /\ is_base_shell = 0
  <2>1. cpu # NULL /\ kstack[cpu] = "user" /\ After_Three_Execute_Flag = 1
    BY DEF Execute, ProgramRuns
  <2>2. is_base_shell = 0
    BY <2>1 DEF SchedInv, ControlInv, FlowInv, TypeOK
  <2> QED
    BY <2>1, <2>2, SteadyFacts DEF IsTop
<1>2. PICK p \in Pid : /\ IsFirstFree(p)
                      /\ LoadAndRun(p)
                      /\ kstack' = [kstack EXCEPT ![cpu] = "wait", ![p] = "user"]
                      /\ in_pit' = in_pit \ Overwritten(p)
  <2>1. PICK p \in Pid : /\ NewPid(p)
                        /\ LoadAndRun(p)
                        /\ kstack' = [kstack EXCEPT ![cpu] = "wait", ![p] = "user"]
                        /\ in_pit' = in_pit \ Overwritten(p)
    BY DEF Execute
  <2>2. IsFirstFree(p)
    BY <1>1, <2>1 DEF NewPid
  <2> QED
    BY <2>1, <2>2
<1>3. p[1] = current_terminal /\ p \notin terminal_PID /\ p # cpu
  BY <1>1, <1>2 DEF IsFirstFree, IsTop
<1>4. p[2] = cpu[2] + 1
  <2>1. cpu[2] < p[2]
    <3>1. CASE p[2] < cpu[2]
      BY <1>1, <1>3, <3>1 DEF IsTop, SchedInv, ControlInv, PidsArePrefix
    <3>2. CASE p[2] = cpu[2]
      BY <1>1, <1>3, <3>2
    <3> QED
      BY <1>1, <3>1, <3>2 DEF Slots
  <2>2. CASE cpu[2] + 1 < p[2]
    <3>1. cpu[2] + 1 \in Slots
      BY <1>1, <2>2 DEF Slots
    <3>2. <<current_terminal, cpu[2] + 1>> \in terminal_PID
      BY <1>2, <1>3, <2>2, <3>1 DEF IsFirstFree
    <3>3. cpu[2] + 1 <= cpu[2]
      BY <1>1, <3>2 DEF IsTop
    <3> QED
      BY <1>1, <3>3 DEF Slots
  <2> QED
    BY <1>1, <2>1, <2>2 DEF Slots
<1>5. /\ cpu' = p /\ kstack'[p] = "user" /\ kstack'[cpu] = "wait"
      /\ \A f \in Flow : f # p /\ f # cpu => kstack'[f] = kstack[f]
      /\ terminal_PID' = terminal_PID \cup {p}
      /\ is_base_shell' = 0
      /\ esp'[p] = esp[cpu] /\ ebp'[p] = cpu
      /\ \A q \in Pid : q # p => esp'[q] = esp[q] /\ ebp'[q] = ebp[q]
  BY <1>1, <1>2, <1>3 DEF LoadAndRun, SchedInv, TypeOK
<1>6. UNCHANGED <<LebronAI_flag, Lebron_FMVP_count, After_Three_Execute_Flag, current_terminal>>
  BY DEF Execute
<1>7. Started' = Started /\ ~Booting'
  BY <1>1, <1>5, <1>6, SteadyFacts DEF Started, Booting
<1>8. BootInv'
  <2>1. \A q \in terminal_PID' : q[1] < Started'
    BY <1>1, <1>3, <1>5, <1>7 DEF SchedInv, ControlInv, BootInv, TypeOK, Terminals
  <2> QED
    BY <1>1, <1>5, <1>6, <1>7, <2>1 DEF SchedInv, ControlInv, BootInv
<1>9. FlowInv'
  <2>1. \A f \in Flow : kstack[f] \notin {"boot", "restart"}
    BY <1>1 DEF SchedInv, ControlInv, FlowInv
  <2>2. \A f \in Flow : kstack'[f] \notin {"boot", "restart"}
    BY <1>5, <2>1
  <2> QED
    BY <1>5, <2>2 DEF FlowInv, ProcessRuns
<1>10. PidsArePrefix'
  BY <1>2, <1>5 DEF IsFirstFree, SchedInv, ControlInv, PidsArePrefix
<1>11. IsTop(cpu, current_terminal)'
  <2> SUFFICES ASSUME NEW q \in terminal_PID, q[1] = current_terminal
               PROVE  q[2] <= p[2]
    BY <1>3, <1>5, <1>6 DEF IsTop, Slots
  <2>1. q[2] <= cpu[2] /\ q \in Pid
    BY <1>1 DEF IsTop, SchedInv, TypeOK
  <2> QED
    BY <1>1, <1>4, <2>1 DEF Slots
<1>12. RunningIsCurrent'
  BY <1>2, <1>5, <1>11 DEF RunningIsCurrent, LoadAndRun, EnterProcess
<1>13. ContextsSaved'
  <2>1. \A q \in Pid : q[1] # cpu[1] =>
               /\ q \in terminal_PID' <=> q \in terminal_PID
               /\ esp'[q] = esp[q] /\ kstack'[q] = kstack[q]
               /\ q \in in_pit => q \in in_pit'
    BY <1>1, <1>2, <1>3, <1>5 DEF Overwritten
  <2>2. terminal_PID' \subseteq Pid
    BY DEF TypeOK
  <2>3. IsTop(p, p[1])'
    BY <1>3, <1>5, <1>6, <1>11
  <2> QED
    BY <1>1, <1>3, <1>5, <2>1, <2>2, <2>3, ContextsKept
<1>14. ParentWaits'
  <2> SUFFICES ASSUME NEW q \in terminal_PID', q[2] # 0
               PROVE  /\ ebp'[q] = <<q[1], q[2] - 1>>
                      /\ <<q[1], q[2] - 1>> \in terminal_PID'
                      /\ kstack'[<<q[1], q[2] - 1>>] = "wait"
    BY DEF ParentWaits
  <2>1. CASE q = p
    <3>1. <<q[1], q[2] - 1>> = cpu
      BY <1>1, <1>3, <1>4, <2>1 DEF Slots
    <3> QED
      BY <1>1, <1>5, <2>1, <3>1 DEF IsTop
  <2>2. CASE q # p
    <3> DEFINE r == <<q[1], q[2] - 1>>
    <3>1. q \in terminal_PID /\ q \in Pid
      BY <1>5, <2>2 DEF SchedInv, TypeOK
    <3>2. ebp[q] = r /\ r \in terminal_PID /\ kstack[r] = "wait"
      BY <3>1 DEF SchedInv, ControlInv, ParentWaits
    <3>3. r # cpu /\ r # p /\ r \in Flow
      BY <1>1, <1>3, <3>2 DEF SchedInv, TypeOK
    <3> QED
      BY <1>5, <2>2, <3>1, <3>2, <3>3
  <2> QED
    BY <2>1, <2>2
<1> QED
  BY <1>8, <1>9, <1>10, <1>12, <1>13, <1>14 DEF ControlInv

(* The process that executes a system call of a program, outside boot.        *)
LEMMA ProgramFacts ==
    ASSUME SchedInv, NoWindows, ProgramRuns
    PROVE  /\ ProcessRuns /\ cpu \in Pid /\ kstack[cpu] = "user"
           /\ IsTop(cpu, current_terminal) /\ cpu[1] = current_terminal
           /\ cpu \in terminal_PID
           /\ current_pid = cpu /\ curr_pcb = cpu
           /\ After_Three_Execute_Flag = 1 /\ ~Booting /\ Started = NumTerminals
           /\ is_base_shell = 0
           /\ \A t \in Terminals : <<t, 0>> \in terminal_PID
           /\ \A f \in Flow : kstack[f] \notin {"boot", "restart"}
<1> USE PidFacts, SchedulingAssumption DEF NoWindows
<1>1. cpu # NULL /\ cpu \in Pid /\ kstack[cpu] = "user" /\ After_Three_Execute_Flag = 1
  BY DEF ProgramRuns
<1>2. is_base_shell = 0
  BY <1>1 DEF SchedInv, ControlInv, FlowInv, TypeOK
<1>3. \A f \in Flow : kstack[f] \notin {"boot", "restart"}
  BY <1>1 DEF SchedInv, ControlInv, FlowInv
<1> QED
  BY <1>1, <1>2, <1>3, SteadyFacts DEF IsTop

(* A program that returns to its parent keeps the control part.               *)
LEMMA HaltChildStep ==
    ASSUME SchedInv, TypeOK', NoWindows, HaltChild
    PROVE  ControlInv'
<1> USE PidFacts, SchedulingAssumption
<1>1. ProgramRuns /\ current_pid[2] # 0
  BY DEF HaltChild
<1>2. /\ cpu \in Pid /\ kstack[cpu] = "user"
      /\ IsTop(cpu, current_terminal) /\ cpu[1] = current_terminal
      /\ cpu \in terminal_PID
      /\ current_pid = cpu /\ curr_pcb = cpu
      /\ After_Three_Execute_Flag = 1 /\ ~Booting /\ Started = NumTerminals
      /\ is_base_shell = 0
      /\ \A t \in Terminals : <<t, 0>> \in terminal_PID
      /\ \A f \in Flow : kstack[f] \notin {"boot", "restart"}
  BY <1>1, ProgramFacts
<1>3. PICK p \in Pid : /\ p = ParentOf(cpu) /\ p # cpu
                      /\ p[1] = current_terminal /\ p[2] = cpu[2] - 1
                      /\ p = <<cpu[1], cpu[2] - 1>>
  <2>1. ParentOf(cpu) \in Pid
    BY <1>1, <1>2, ParentIsPid
  <2> QED
    BY <1>2, <2>1 DEF ParentOf, Slots
<1>4. ebp[cpu] = p /\ p \in terminal_PID /\ kstack[p] = "wait"
  BY <1>1, <1>2, <1>3 DEF SchedInv, ControlInv, ParentWaits
<1>5. /\ cpu' = p
      /\ kstack' = [f \in Flow |-> IF f = p THEN "user"
                                   ELSE IF f = cpu THEN "none" ELSE kstack[f]]
      /\ terminal_PID' = terminal_PID \ {cpu}
      /\ current_pid' = p /\ curr_pcb' = p /\ user_page' = p /\ tss_esp0' = p
      /\ esp' = [esp EXCEPT ![cpu] = NULL]
      /\ ebp' = [ebp EXCEPT ![cpu] = NULL]
      /\ UNCHANGED <<is_base_shell, LebronAI_flag, Lebron_FMVP_count,
                      After_Three_Execute_Flag, current_terminal, in_pit>>
  BY <1>2, <1>3, <1>4 DEF HaltChild, EnterProcess
<1>6. kstack'[p] = "user" /\ \A f \in Flow : kstack'[f] \notin {"boot", "restart"}
  BY <1>2, <1>3, <1>5
<1>7. Started' = Started /\ ~Booting'
  BY <1>2, <1>5, <1>6 DEF Started, Booting
<1>8. BootInv'
  <2>1. \A q \in terminal_PID' : q[1] < Started'
    BY <1>5, <1>7 DEF SchedInv, ControlInv, BootInv
  <2>2. \A t \in Terminals : <<t, 0>> \in terminal_PID'
    BY <1>1, <1>2, <1>5
  <2>3. cpu' # NULL /\ cpu' # BOOT /\ Started' # 0 /\ kstack'[cpu'] # "boot"
    BY <1>2, <1>3, <1>5, <1>6, <1>7
  <2>4. (After_Three_Execute_Flag = 1 => Lebron_FMVP_count = NumTerminals)'
    BY <1>5 DEF SchedInv, ControlInv, BootInv
  <2>5. (Lebron_FMVP_count = 0 => current_terminal = 0)'
    BY <1>5 DEF SchedInv, ControlInv, BootInv
  <2> QED
    BY <1>7, <2>1, <2>2, <2>3, <2>4, <2>5 DEF BootInv
<1>9. FlowInv'
  BY <1>2, <1>5, <1>6 DEF FlowInv, ProcessRuns
<1>10. IsTop(p, current_terminal)'
  <2> SUFFICES ASSUME NEW q \in terminal_PID, q # cpu, q[1] = current_terminal
               PROVE  q[2] <= p[2]
    BY <1>3, <1>4, <1>5 DEF IsTop
  <2>1. q[2] <= cpu[2] /\ q \in Pid
    BY <1>2 DEF IsTop, SchedInv, TypeOK
  <2>2. q[2] # cpu[2]
    BY <1>2, <2>1
  <2> QED
    BY <1>2, <1>3, <2>1, <2>2 DEF Slots
<1>11. RunningIsCurrent'
  BY <1>5, <1>10 DEF RunningIsCurrent
<1>12. ContextsSaved'
  <2>1. \A q \in Pid : q[1] # cpu[1] =>
               /\ q \in terminal_PID' <=> q \in terminal_PID
               /\ esp'[q] = esp[q] /\ kstack'[q] = kstack[q]
               /\ q \in in_pit => q \in in_pit'
    BY <1>2, <1>3, <1>5 DEF SchedInv, TypeOK
  <2>2. terminal_PID' \subseteq Pid
    BY DEF TypeOK
  <2>3. IsTop(p, p[1])'
    BY <1>3, <1>5, <1>10
  <2> QED
    BY <1>2, <1>3, <1>5, <2>1, <2>2, <2>3, ContextsKept
<1>13. PidsArePrefix'
  <2> SUFFICES ASSUME NEW q \in terminal_PID, q # cpu, NEW s \in Slots, s < q[2]
               PROVE  <<q[1], s>> \in terminal_PID /\ <<q[1], s>> # cpu
    BY <1>5 DEF PidsArePrefix
  <2>1. <<q[1], s>> \in terminal_PID /\ q \in Pid
    BY DEF SchedInv, TypeOK, ControlInv, PidsArePrefix
  <2>2. <<q[1], s>> # cpu
    <3> SUFFICES ASSUME <<q[1], s>> = cpu
                 PROVE  FALSE
      OBVIOUS
    <3>1. q[1] = cpu[1] /\ s = cpu[2]
      BY <2>1
    <3>2. q[2] <= cpu[2]
      BY <1>2, <3>1 DEF IsTop
    <3> QED
      BY <2>1, <3>1, <3>2 DEF Slots
  <2> QED
    BY <2>1, <2>2
<1>14. ParentWaits'
  <2> SUFFICES ASSUME NEW q \in terminal_PID, q # cpu, q[2] # 0
               PROVE  /\ ebp'[q] = <<q[1], q[2] - 1>>
                      /\ <<q[1], q[2] - 1>> \in terminal_PID'
                      /\ kstack'[<<q[1], q[2] - 1>>] = "wait"
    BY <1>5 DEF ParentWaits
  <2> DEFINE r == <<q[1], q[2] - 1>>
  <2>1. q \in Pid
    BY DEF SchedInv, TypeOK
  <2>2. ebp[q] = r /\ r \in terminal_PID /\ kstack[r] = "wait" /\ r \in Flow
    BY DEF SchedInv, TypeOK, ControlInv, ParentWaits, Flow
  <2>3. r # cpu
    BY <1>2, <2>2
  <2>4. r # p
    <3> SUFFICES ASSUME r = p
                 PROVE  FALSE
      OBVIOUS
    <3>1. q[1] = cpu[1] /\ q[2] = cpu[2]
      BY <1>2, <1>3, <2>1 DEF Slots
    <3> QED
      BY <1>2, <2>1, <3>1
  <2> QED
    BY <1>5, <2>1, <2>2, <2>3, <2>4 DEF SchedInv, TypeOK
<1> QED
  BY <1>8, <1>9, <1>11, <1>12, <1>13, <1>14 DEF ControlInv

(* A base shell that begins to halt keeps the control part.                   *)
LEMMA HaltBaseShellStep ==
    ASSUME SchedInv, TypeOK', NoWindows, HaltBaseShell
    PROVE  ControlInv'
<1> USE PidFacts, SchedulingAssumption DEF NoWindows
<1>1. /\ ProcessRuns /\ cpu \in Pid /\ kstack[cpu] = "user" /\ cpu[2] = 0
      /\ IsTop(cpu, current_terminal)
      /\ cpu \in terminal_PID
      /\ After_Three_Execute_Flag = 1 /\ ~Booting /\ Started = NumTerminals
      /\ LebronAI_flag = 0
      /\ \A f \in Flow : kstack[f] \notin {"boot", "restart"}
  BY ProgramFacts DEF HaltBaseShell, SchedInv, TypeOK
<1>2. /\ kstack' = [kstack EXCEPT ![cpu] = "restart"]
      /\ kstack'[cpu] = "restart"
      /\ is_base_shell' = 1
      /\ UNCHANGED <<terminal_PID, LebronAI_flag, Lebron_FMVP_count,
                   After_Three_Execute_Flag, current_terminal, current_pid, curr_pcb,
                   user_page, tss_esp0, esp, ebp, in_pit, cpu>>
  BY <1>1 DEF HaltBaseShell, SchedInv, TypeOK
<1>3. Started' = Started /\ ~Booting'
  BY <1>1, <1>2 DEF Started, Booting
<1>4. BootInv'
  BY <1>1, <1>2, <1>3 DEF SchedInv, ControlInv, BootInv
<1>5. FlowInv'
  <2>1. \A f \in Flow : kstack'[f] \in {"boot", "restart"} => f = cpu'
    BY <1>1, <1>2 DEF SchedInv, TypeOK
  <2> QED
    BY <1>1, <1>2, <2>1 DEF FlowInv
<1>6. RunningIsCurrent' /\ PidsArePrefix'
  BY <1>1, <1>2
     DEF SchedInv, ControlInv, RunningIsCurrent, PidsArePrefix, ProcessRuns, IsTop
<1>7. \A f \in Flow : f # cpu => kstack'[f] = kstack[f]
  BY <1>2 DEF SchedInv, TypeOK
<1>8. ContextsSaved'
  BY <1>2, <1>7 DEF SchedInv, ControlInv, ContextsSaved, IsTop
<1>9. ParentWaits'
  BY <1>1, <1>2, <1>7 DEF SchedInv, TypeOK, ControlInv, ParentWaits, Flow
<1> QED
  BY <1>4, <1>5, <1>6, <1>8, <1>9 DEF ControlInv

(* A base shell that restarts is alone on its terminal, finds an unused slot  *)
(* and an unused process there, and gets its own identifier.                  *)
LEMMA RestartFacts ==
    ASSUME SchedInv, NoWindows, cpu # NULL, kstack[cpu] = "restart"
    PROVE  /\ CanExecute
           /\ \A p \in Pid : NewPid(p) => p = cpu
           /\ cpu \in Pid /\ cpu \in terminal_PID /\ cpu[2] = 0
           /\ IsTop(cpu, current_terminal)
           /\ curr_pcb = cpu /\ ~Booting
<1> USE PidFacts, SchedulingAssumption
<1>1. cpu \in Pid /\ cpu[2] = 0 /\ LebronAI_flag = 0 /\ is_base_shell = 1
  BY DEF SchedInv, ControlInv, FlowInv
<1>2. ProcessRuns /\ ~Booting
  BY <1>1 DEF ProcessRuns, SchedInv, ControlInv, BootInv
<1>3. IsTop(cpu, current_terminal) /\ curr_pcb = cpu
  BY <1>2 DEF SchedInv, ControlInv, RunningIsCurrent
<1>4. cpu = <<current_terminal, 0>> /\ cpu \in terminal_PID
  BY <1>1, <1>3 DEF IsTop
<1>5. 1 \in Slots /\ <<current_terminal, 1>> \notin terminal_PID
  BY <1>1, <1>3 DEF IsTop, Slots
<1>6. global_process_count # MaxProcesses
  <2>1. global_process_count + 1 <= MaxProcesses
    BY <1>1 DEF SchedInv, SlotInv, ProcessLimit
  <2> QED
    BY <2>1 DEF SchedInv, TypeOK
<1> QED
  BY <1>1, <1>2, <1>3, <1>4, <1>5, <1>6 DEF CanExecute, NewPid

(* The new base shell keeps the control part.                                 *)
LEMMA RestartBaseShellStep ==
    ASSUME SchedInv, TypeOK', NoWindows, RestartBaseShell
    PROVE  ControlInv'
<1> USE PidFacts, SchedulingAssumption
<1>1. /\ cpu \in Pid /\ cpu \in terminal_PID /\ cpu[2] = 0
      /\ kstack[cpu] = "restart"
      /\ IsTop(cpu, current_terminal)
      /\ curr_pcb = cpu /\ ~Booting
  BY RestartFacts DEF RestartBaseShell
<1>2. /\ LoadAndRun(cpu)
      /\ kstack' = [kstack EXCEPT ![cpu] = "wait", ![cpu] = "user"]
      /\ in_pit' = in_pit \ Overwritten(cpu)
  BY RestartFacts DEF RestartBaseShell
<1>3. /\ cpu' = cpu /\ terminal_PID' = terminal_PID /\ kstack'[cpu] = "user"
      /\ is_base_shell' = 0
      /\ \A f \in Flow : f # cpu => kstack'[f] = kstack[f]
      /\ \A q \in Pid : q # cpu => ebp'[q] = ebp[q]
      /\ esp' = esp
  <2>1. esp' = [esp EXCEPT ![cpu] = esp[cpu]]
    BY <1>1, <1>2 DEF LoadAndRun
  <2>2. esp' = esp
    BY <1>1, <2>1 DEF SchedInv, TypeOK
  <2> QED
    BY <1>1, <1>2, <2>2 DEF LoadAndRun, SchedInv, TypeOK
<1>4. UNCHANGED <<LebronAI_flag, Lebron_FMVP_count, After_Three_Execute_Flag, current_terminal>>
  BY DEF RestartBaseShell
<1>5. Started' = Started /\ ~Booting'
  BY <1>1, <1>3, <1>4 DEF Started, Booting
<1>6. BootInv'
  BY <1>1, <1>3, <1>4, <1>5 DEF SchedInv, ControlInv, BootInv
<1>7. FlowInv'
  <2>1. \A f \in Flow : kstack'[f] \notin {"boot", "restart"}
    BY <1>1, <1>3 DEF SchedInv, ControlInv, FlowInv
  <2> QED
    BY <1>1, <1>3, <2>1 DEF FlowInv, ProcessRuns
<1>8. PidsArePrefix' /\ RunningIsCurrent'
  BY <1>1, <1>2, <1>3, <1>4
     DEF LoadAndRun, EnterProcess, IsTop, SchedInv, ControlInv, PidsArePrefix, RunningIsCurrent
<1>9. ContextsSaved'
  <2> SUFFICES ASSUME NEW q \in Pid, IsTop(q, q[1])', q # cpu
               PROVE  q \in in_pit' /\ esp'[q] = q /\ kstack'[q] = "user"
    BY <1>3 DEF ContextsSaved
  <2>1. q \in in_pit /\ esp[q] = q /\ kstack[q] = "user"
    BY <1>3 DEF IsTop, SchedInv, ControlInv, ContextsSaved
  <2> QED
    BY <1>2, <1>3, <2>1 DEF Overwritten
<1>10. ParentWaits'
  <2> SUFFICES ASSUME NEW q \in terminal_PID, q[2] # 0
               PROVE  /\ ebp'[q] = <<q[1], q[2] - 1>>
                      /\ <<q[1], q[2] - 1>> \in terminal_PID
                      /\ kstack'[<<q[1], q[2] - 1>>] = "wait"
    BY <1>3 DEF ParentWaits
  <2> DEFINE r == <<q[1], q[2] - 1>>
  <2>1. ebp[q] = r /\ r \in terminal_PID /\ kstack[r] = "wait" /\ r \in Flow /\ q \in Pid
    BY DEF SchedInv, TypeOK, ControlInv, ParentWaits, Flow
  <2>2. r # cpu /\ q # cpu
    BY <1>1, <2>1
  <2> QED
    BY <1>3, <2>1, <2>2
<1> QED
  BY <1>6, <1>7, <1>8, <1>9, <1>10 DEF ControlInv

(* sys_execute("shell") is never refused to the kernel itself.                *)
LEMMA KernelExecuteSucceeds ==
    ASSUME SchedInv, NoWindows
    PROVE  ~BootExecuteRefused /\ ~RestartRefused
BY BootSlotIsFree, RestartFacts DEF BootExecuteRefused, RestartRefused

(* Every step keeps the control part of the invariant.                        *)
LEMMA ControlStep ==
    ASSUME SchedInv, TypeOK', NoWindows, [Next]_vars
    PROVE  ControlInv'
<1>1. CASE BootTick
  BY <1>1, BootTickStep
<1>2. CASE BootExecute
  BY <1>2, BootExecuteStep
<1>3. CASE BootExecuteRefused \/ RestartRefused
  BY <1>3, KernelExecuteSucceeds
<1>4. CASE PITTick
  BY <1>4, PITTickStep
<1>5. CASE Execute
  BY <1>5, ExecuteStep
<1>6. CASE HaltChild
  BY <1>6, HaltChildStep
<1>7. CASE HaltBaseShell
  BY <1>7, HaltBaseShellStep
<1>8. CASE RestartBaseShell
  BY <1>8, RestartBaseShellStep
<1>9. ASSUME NEW t \in Terminals, TerminalSwap(t)
      PROVE  ControlInv'
  <2>1. BootInv' /\ FlowInv'
    BY <1>9 DEF TerminalSwap, SchedInv, ControlInv, BootInv, FlowInv, Started, Booting, ProcessRuns
  <2> QED
    BY <1>9, <2>1 DEF TerminalSwap, SchedInv, ControlInv, PidsArePrefix, RunningIsCurrent,
                      ContextsSaved, ParentWaits, IsTop, ProcessRuns
<1>10. CASE SwitchLebronAI
  <2>1. ~Booting /\ kstack[cpu] # "restart"
    BY <1>10, ProgramFacts DEF SwitchLebronAI
  <2>2. BootInv' /\ FlowInv'
    BY <1>10, <2>1 DEF SwitchLebronAI, SchedInv, ControlInv, BootInv, FlowInv, Started, Booting, ProcessRuns
  <2> QED
    BY <1>10, <2>2 DEF SwitchLebronAI, SchedInv, ControlInv, PidsArePrefix, RunningIsCurrent,
                      ContextsSaved, ParentWaits, IsTop, ProcessRuns
<1>11. CASE UNCHANGED vars
  <2>1. BootInv' /\ FlowInv'
    BY <1>11 DEF vars, SchedInv, ControlInv, BootInv, FlowInv, Started, Booting, ProcessRuns
  <2> QED
    BY <1>11, <2>1 DEF vars, SchedInv, ControlInv, PidsArePrefix, RunningIsCurrent,
                      ContextsSaved, ParentWaits, IsTop, ProcessRuns
<1> QED
  BY <1>1, <1>2, <1>3, <1>4, <1>5, <1>6, <1>7, <1>8, <1>9, <1>10, <1>11 DEF Next

(* A step that gives an unused identifier to a process uses a free process.   *)
LEMMA SlotTaken ==
    ASSUME SchedInv, CanExecute, NEW p \in Pid, p \notin terminal_PID,
           is_base_shell = 0, LoadAndRun(p)
    PROVE  SlotInv'
<1>1. terminal_PID' = terminal_PID \cup {p} /\ is_base_shell' = 0
      /\ global_process_count' = global_process_count + 1
  BY DEF LoadAndRun
<1>2. /\ IsFiniteSet(terminal_PID')
      /\ Cardinality(terminal_PID') = Cardinality(terminal_PID) + 1
  BY <1>1, FS_AddElement DEF SchedInv, SlotInv
<1>3. Cardinality(terminal_PID) = global_process_count
      /\ global_process_count <= MaxProcesses /\ global_process_count # MaxProcesses
  BY DEF SchedInv, SlotInv, ProcessLimit, CanExecute, TypeOK
<1> QED
  BY <1>1, <1>2, <1>3, SchedulingAssumption DEF SlotInv, ProcessLimit, SchedInv, TypeOK

(* Every step keeps the prefix of used slots and the count.                   *)
LEMMA SlotStep ==
    ASSUME SchedInv, NoWindows, [Next]_vars
    PROVE  SlotInv'
<1> USE PidFacts, SchedulingAssumption
<1>1. CASE BootExecute
  <2> DEFINE p == <<current_terminal, 0>>
  <2>1. LoadAndRun(p) /\ CanExecute /\ p \in Pid /\ p \notin terminal_PID
    BY <1>1, BootSlotIsFree DEF BootExecute, SchedInv, TypeOK
  <2>2. is_base_shell = 0
    BY <1>1 DEF BootExecute, SchedInv, ControlInv, BootInv, Booting
  <2> QED
    BY <2>1, <2>2, SlotTaken
<1>2. CASE Execute
  <2>1. is_base_shell = 0
    BY <1>2, ProgramFacts DEF Execute
  <2>2. PICK p \in Pid : NewPid(p) /\ LoadAndRun(p)
    BY <1>2 DEF Execute
  <2>3. p \notin terminal_PID
    BY <2>1, <2>2 DEF NewPid, IsFirstFree
  <2> QED
    BY <1>2, <2>1, <2>2, <2>3, SlotTaken DEF Execute
<1>3. CASE RestartBaseShell
  <2>1. LoadAndRun(cpu) /\ cpu \in terminal_PID
    BY <1>3, RestartFacts DEF RestartBaseShell
  <2>2. is_base_shell = 1
    BY <1>3 DEF RestartBaseShell, SchedInv, ControlInv, FlowInv
  <2>3. /\ terminal_PID' = terminal_PID
        /\ global_process_count' = global_process_count + 1 /\ is_base_shell' = 0
    BY <2>1 DEF LoadAndRun
  <2> QED
    BY <2>2, <2>3 DEF SchedInv, SlotInv, ProcessLimit, TypeOK
<1>4. CASE HaltChild
  <2>1. cpu \in terminal_PID /\ current_pid = cpu
    BY <1>4, ProgramFacts DEF HaltChild
  <2>2. /\ terminal_PID' = terminal_PID \ {cpu} /\ is_base_shell' = is_base_shell
        /\ global_process_count' = global_process_count - 1
    BY <1>4, <2>1 DEF HaltChild
  <2>3. /\ IsFiniteSet(terminal_PID')
        /\ Cardinality(terminal_PID') = Cardinality(terminal_PID) - 1
    BY <2>1, <2>2, FS_RemoveElement DEF SchedInv, SlotInv
  <2> QED
    BY <2>2, <2>3, FS_CardinalityType DEF SchedInv, SlotInv, ProcessLimit, TypeOK
<1>5. CASE HaltBaseShell
  <2>1. is_base_shell = 0
    BY <1>5, ProgramFacts DEF HaltBaseShell
  <2> QED
    BY <1>5, <2>1 DEF HaltBaseShell, SchedInv, SlotInv, ProcessLimit, TypeOK
<1>6. CASE BootExecuteRefused \/ RestartRefused
  BY <1>6, KernelExecuteSucceeds
<1>7. CASE UNCHANGED <<terminal_PID, global_process_count, is_base_shell>>
  BY <1>7 DEF SchedInv, SlotInv, ProcessLimit
<1> QED
  BY <1>1, <1>2, <1>3, <1>4, <1>5, <1>6, <1>7
     DEF Next, BootTick, PITTick, TerminalSwap, SwitchLebronAI, vars

(* Outside the windows of HazardKinds the inductive invariant of the process  *)
(* manager holds: the boot has got as far as its ticks, every flow is in the  *)
(* place the process table gives it, and the count is that of the table.      *)
THEOREM SchedInvariant == NoWindows => (Spec => []SchedInv)
<1> SUFFICES ASSUME NoWindows PROVE Spec => []SchedInv
  OBVIOUS
<1>1. Init => SchedInv
  BY SchedInit
<1>2. SchedInv /\ [Next]_vars => SchedInv'
  <2> SUFFICES ASSUME SchedInv, [Next]_vars
               PROVE  SchedInv'
    OBVIOUS
  <2>1. TypeOK'
    BY TypeStep DEF SchedInv
  <2> QED
    BY <2>1, ControlStep, SlotStep DEF SchedInv
<1> QED
  BY <1>1, <1>2, PTL DEF Spec

(* Outside the windows of HazardKinds: the process that executes is the top   *)
(* of the current terminal and every record of the kernel agrees; every other *)
(* terminal can be resumed; every program has a parent that can go on; and    *)
(* the process limit is enforced.                                             *)
THEOREM SchedulingIsSafe ==
    NoWindows => (Spec => [](/\ RunningIsCurrent /\ ContextsSaved /\ ParentWaits
                             /\ PidsArePrefix /\ ProcessLimit))
<1> SUFFICES ASSUME NoWindows
             PROVE  Spec => [](/\ RunningIsCurrent /\ ContextsSaved /\ ParentWaits
                               /\ PidsArePrefix /\ ProcessLimit)
  OBVIOUS
<1>1. SchedInv => /\ RunningIsCurrent /\ ContextsSaved /\ ParentWaits
                  /\ PidsArePrefix /\ ProcessLimit
  BY DEF SchedInv, ControlInv, SlotInv
<1> QED
  BY <1>1, SchedInvariant, PTL

(* Outside the windows, the slots of a terminal's processes are the lowest    *)
(* ones (sys_execute takes the first free one, sys_halt releases the newest). *)
COROLLARY SlotsStayDense == NoWindows => (Spec => []PidsArePrefix)
BY SchedulingIsSafe, PTL

(* Outside the windows, the PIT handler resumes the newest process of every   *)
(* terminal in the context it was suspended in.                               *)
COROLLARY TerminalsCanResume == NoWindows => (Spec => []ContextsSaved)
BY SchedulingIsSafe, PTL

(* Outside the windows, sys_halt finds the parent of every program alive and  *)
(* inside the sys_execute it returns from.                                    *)
COROLLARY ParentsCanResume == NoWindows => (Spec => []ParentWaits)
BY SchedulingIsSafe, PTL
-----------------------------------------------------------------------------
(* What a halt may do, the bound on the count that survives every window, and *)
(* the refinement of TerminalStacks.                                          *)

(* What the bound on global_process_count needs to be inductive.              *)
CountInv == IsFiniteSet(terminal_PID) /\ CountIsBounded

(* A process that gets its identifier, free or not, keeps the count in bounds.*)
LEMMA CountTaken ==
    ASSUME TypeOK, CountInv, CanExecute, NEW p \in Pid, NewPid(p), LoadAndRun(p)
    PROVE  CountInv'
<1>1. /\ terminal_PID' = terminal_PID \cup {p}
      /\ is_base_shell' = 0
      /\ global_process_count' = global_process_count + 1
  BY DEF LoadAndRun
<1>2. /\ IsFiniteSet(terminal_PID')
      /\ Cardinality(terminal_PID') =
            IF p \in terminal_PID THEN Cardinality(terminal_PID) ELSE Cardinality(terminal_PID) + 1
  BY <1>1, FS_AddElement DEF CountInv
<1>3. Cardinality(terminal_PID) \in Nat
  BY FS_CardinalityType DEF CountInv
<1>4. is_base_shell = 0 => p \notin terminal_PID
  BY DEF NewPid, IsFirstFree
<1>5. global_process_count' <= MaxProcesses
  BY <1>1, SchedulingAssumption DEF CountInv, CountIsBounded, CanExecute, TypeOK
<1>6. global_process_count' + is_base_shell' <= Cardinality(terminal_PID')
  BY <1>1, <1>2, <1>3, <1>4 DEF CountInv, CountIsBounded, TypeOK
<1> QED
  BY <1>2, <1>5, <1>6 DEF CountInv, CountIsBounded

(* Every step keeps the bound on the process count, in every window.          *)
LEMMA CountStep == TypeOK /\ CountInv /\ [Next]_vars => CountInv'
<1> SUFFICES ASSUME TypeOK, CountInv, [Next]_vars
             PROVE  CountInv'
  OBVIOUS
<1>1. CASE BootExecute
  BY <1>1, CountTaken DEF BootExecute
<1>2. CASE Execute
  BY <1>2, CountTaken DEF Execute
<1>3. CASE RestartBaseShell
  BY <1>3, CountTaken DEF RestartBaseShell
<1>4. CASE HaltChild
  <2>1. /\ IsFiniteSet(terminal_PID')
        /\ Cardinality(terminal_PID') >= Cardinality(terminal_PID) - 1
    <3>1. terminal_PID' = terminal_PID \ {current_pid}
      BY <1>4 DEF HaltChild
    <3>2. /\ IsFiniteSet(terminal_PID')
          /\ Cardinality(terminal_PID') = IF current_pid \in terminal_PID
                                          THEN Cardinality(terminal_PID) - 1
                                          ELSE Cardinality(terminal_PID)
      BY <3>1, FS_RemoveElement DEF CountInv
    <3>3. Cardinality(terminal_PID) \in Nat
      BY FS_CardinalityType DEF CountInv
    <3> QED
      BY <3>2, <3>3
  <2>2. Cardinality(terminal_PID) \in Nat /\ Cardinality(terminal_PID') \in Nat
    BY <2>1, FS_CardinalityType DEF CountInv
  <2>3. is_base_shell' = is_base_shell /\ global_process_count' = global_process_count - 1
    BY <1>4 DEF HaltChild
  <2> QED
    BY <2>1, <2>2, <2>3, SchedulingAssumption DEF CountInv, CountIsBounded, TypeOK
<1>5. CASE HaltBaseShell
  <2>1. Cardinality(terminal_PID) \in Nat
    BY FS_CardinalityType DEF CountInv
  <2>2. /\ terminal_PID' = terminal_PID
        /\ is_base_shell' = 1 /\ global_process_count' = global_process_count - 1
    BY <1>5 DEF HaltBaseShell
  <2>3. is_base_shell \in {0, 1} /\ global_process_count \in Int
    BY DEF TypeOK
  <2> QED
    BY <2>1, <2>2, <2>3, SchedulingAssumption DEF CountInv, CountIsBounded
<1>6. CASE UNCHANGED <<terminal_PID, global_process_count, is_base_shell>>
  BY <1>6 DEF CountInv, CountIsBounded
<1> QED
  BY <1>1, <1>2, <1>3, <1>4, <1>5, <1>6
     DEF Next, BootTick, BootExecuteRefused, PITTick, RestartRefused, TerminalSwap,
         SwitchLebronAI, vars

(* Whatever window a tick or a command hits, global_process_count stays at or *)
(* below both the number of identifiers in use and MaxProcesses: the test     *)
(* "global_process_count == MAX_PROCESS" of sys_execute is never jumped over. *)
THEOREM CountNeverExceeds == Spec => []CountIsBounded
<1>1. Init => CountInv
  BY FS_EmptySet, SchedulingAssumption DEF Init, CountInv, CountIsBounded
<1>2. CountInv => CountIsBounded
  BY DEF CountInv
<1> QED
  BY <1>1, <1>2, CountStep, TypeCorrect, PTL DEF Spec
-----------------------------------------------------------------------------
(* One step of HaltReturnsToParent.                                           *)
LEMMA HaltStep ==
    ASSUME SchedInv, NoWindows, [Next]_vars,
           NEW p \in terminal_PID \ terminal_PID'
    PROVE  /\ cpu = p
           /\ cpu' = <<p[1], p[2] - 1>>
           /\ user_page' = cpu' /\ kstack'[cpu'] = "user"
<1>1. HaltChild
  BY DEF Next, BootTick, BootExecute, BootExecuteRefused, PITTick, Execute, HaltBaseShell,
         RestartBaseShell, RestartRefused, TerminalSwap, SwitchLebronAI, LoadAndRun, vars
<1>2. /\ cpu \in Pid /\ cpu \in terminal_PID /\ current_pid = cpu /\ curr_pcb = cpu
      /\ current_pid[2] # 0
  BY <1>1, ProgramFacts DEF HaltChild
<1>3. p = cpu /\ p \in Pid
  BY <1>1, <1>2 DEF HaltChild
<1>4. /\ ebp[p] = ParentOf(p)
      /\ kstack[ParentOf(p)] = "wait"
      /\ ParentOf(p) \in Flow
  BY <1>2, <1>3, ParentIsPid, PidFacts DEF SchedInv, ControlInv, ParentWaits, ParentOf
<1> QED
  BY <1>1, <1>2, <1>3, <1>4 DEF HaltChild, EnterProcess, ParentOf

(* Outside the windows, the halt of a program resumes its parent and releases *)
(* nobody's identifier but its own (sys_halt).                                *)
THEOREM HaltIsReturn == NoWindows => (Spec => HaltReturnsToParent)
<1> SUFFICES ASSUME NoWindows PROVE Spec => HaltReturnsToParent
  OBVIOUS
<1>1. SchedInv /\ [Next]_vars
        => [\A p \in terminal_PID \ terminal_PID' :
               /\ cpu = p
               /\ cpu' = <<p[1], p[2] - 1>>
               /\ user_page' = cpu' /\ kstack'[cpu'] = "user"]_vars
  BY HaltStep
<1> QED
  BY <1>1, SchedInvariant, PTL DEF Spec, HaltReturnsToParent
-----------------------------------------------------------------------------
(* The processes of terminal t, whose number is Depth(t).                     *)
On(t) == {p \in terminal_PID : p[1] = t}

(* The number of processes of a terminal is a number of slots.                *)
LEMMA DepthType ==
    ASSUME SchedInv, NEW t \in Terminals
    PROVE  /\ IsFiniteSet(On(t)) /\ Depth(t) = Cardinality(On(t))
           /\ Depth(t) \in Nat
           /\ Depth(t) = 0 <=> On(t) = {}
<1>1. IsFiniteSet(On(t))
  <2>1. On(t) \in SUBSET terminal_PID
    BY DEF On
  <2> QED
    BY <2>1, FS_Subset DEF SchedInv, SlotInv
<1>2. Depth(t) = Cardinality(On(t))
  BY DEF Depth, On
<1> QED
  BY <1>1, <1>2, FS_CardinalityType, FS_EmptySet

(* One more process on its terminal, no change on the others.                 *)
LEMMA DepthAfterTake ==
    ASSUME SchedInv, NEW p \in Pid, p \notin terminal_PID,
           terminal_PID' = terminal_PID \cup {p}
    PROVE  [t \in Terminals |-> Depth(t)]'
              = [[t \in Terminals |-> Depth(t)] EXCEPT ![p[1]] = @ + 1]
<1> SUFFICES ASSUME NEW t \in Terminals
             PROVE  Depth(t)' = IF t = p[1] THEN Depth(t) + 1 ELSE Depth(t)
  BY PidFacts
<1>1. IsFiniteSet(On(t)) /\ Depth(t) = Cardinality(On(t))
  BY DepthType
<1>2. Depth(t)' = Cardinality(On(t)')
  BY DEF Depth, On
<1>3. CASE t = p[1]
  <2>1. On(t)' = On(t) \cup {p} /\ p \notin On(t)
    BY <1>3 DEF On
  <2> QED
    BY <1>1, <1>2, <1>3, <2>1, FS_AddElement
<1>4. CASE t # p[1]
  <2>1. On(t)' = On(t)
    BY <1>4 DEF On
  <2> QED
    BY <1>1, <1>2, <1>4, <2>1
<1> QED
  BY <1>3, <1>4

(* One process less on its terminal, no change on the others.                 *)
LEMMA DepthAfterRelease ==
    ASSUME SchedInv, NEW p \in terminal_PID,
           terminal_PID' = terminal_PID \ {p}
    PROVE  [t \in Terminals |-> Depth(t)]'
              = [[t \in Terminals |-> Depth(t)] EXCEPT ![p[1]] = @ - 1]
<1> SUFFICES ASSUME NEW t \in Terminals
             PROVE  Depth(t)' = IF t = p[1] THEN Depth(t) - 1 ELSE Depth(t)
  BY PidFacts DEF SchedInv, TypeOK
<1>1. IsFiniteSet(On(t)) /\ Depth(t) = Cardinality(On(t))
  BY DepthType
<1>2. Depth(t)' = Cardinality(On(t)')
  BY DEF Depth, On
<1>3. CASE t = p[1]
  <2>1. On(t)' = On(t) \ {p} /\ p \in On(t)
    BY <1>3 DEF On
  <2> QED
    BY <1>1, <1>2, <1>3, <2>1, FS_RemoveElement
<1>4. CASE t # p[1]
  <2>1. On(t)' = On(t)
    BY <1>4 DEF On
  <2> QED
    BY <1>1, <1>2, <1>4, <2>1
<1> QED
  BY <1>3, <1>4
-----------------------------------------------------------------------------
(* The kernel after boot is an initial state of TerminalStacks.               *)
LEMMA StacksInit == Init => Stacks!Init
<1> SUFFICES ASSUME Init PROVE Stacks!Init
  OBVIOUS
<1>1. \A t \in Terminals : Depth(t) = 0
  <2> SUFFICES ASSUME NEW t \in Terminals PROVE Depth(t) = 0
    OBVIOUS
  <2>1. {p \in terminal_PID : p[1] = t} = {}
    BY DEF Init
  <2> QED
    BY <2>1, FS_EmptySet DEF Depth
<1> QED
  BY <1>1, SchedulingAssumption DEF Init, Stacks!Init, Stacks!Terminals, Terminals

(* A step that moves neither a process nor the turn.                          *)
LEMMA StacksStutter ==
    ASSUME terminal_PID' = terminal_PID, current_terminal' = current_terminal,
           MaxProcesses - global_process_count' - is_base_shell'
              = MaxProcesses - global_process_count - is_base_shell
    PROVE  UNCHANGED Stacks!vars
BY DEF Stacks!vars, Depth

(* A step that leaves the process table alone and passes the turn on, or      *)
(* keeps it, is a step of TerminalStacks or a stutter.                        *)
LEMMA StacksAdvance ==
    ASSUME SchedInv, NEW p \in terminal_PID, p[1] = current_terminal,
           current_terminal' = NextTerminal,
           UNCHANGED <<terminal_PID, global_process_count, is_base_shell>>
    PROVE  Stacks!Advance
<1>1. current_terminal \in Terminals /\ p \in On(current_terminal)
  BY DEF SchedInv, TypeOK, On
<1>2. Depth(current_terminal) \in Nat /\ Depth(current_terminal) # 0
  BY <1>1, DepthType
<1> QED
  BY <1>1, <1>2 DEF Stacks!Advance, Depth, NextTerminal

(* A boot tick passes the turn on, or is the first of all.                    *)
LEMMA StacksBootTick ==
    ASSUME SchedInv, NoWindows, BootTick
    PROVE  Stacks!Advance \/ UNCHANGED Stacks!vars
<1> USE PidFacts, SchedulingAssumption
<1>1. /\ UNCHANGED <<terminal_PID, global_process_count, is_base_shell>>
      /\ current_terminal' = Lebron_FMVP_count
      /\ Lebron_FMVP_count \in Terminals
      /\ Booting /\ Started = Lebron_FMVP_count
  BY DEF BootTick, TickPossible, NoWindows, Booting, Started, SchedInv, TypeOK, Terminals
<1>2. CASE Lebron_FMVP_count = 0
  <2>1. current_terminal' = current_terminal
    BY <1>1, <1>2 DEF SchedInv, ControlInv, BootInv
  <2> QED
    BY <1>1, <2>1, StacksStutter
<1>3. CASE Lebron_FMVP_count # 0
  <2>1. current_terminal = Lebron_FMVP_count - 1 /\ current_terminal \in Terminals
    BY <1>1, <1>3 DEF SchedInv, ControlInv, BootInv, TypeOK, Terminals
  <2>2. <<current_terminal, 0>> \in terminal_PID
    BY <1>1, <2>1 DEF SchedInv, ControlInv, BootInv, Terminals
  <2>3. current_terminal' = NextTerminal
    BY <1>1, <2>1 DEF NextTerminal, Terminals
  <2> QED
    BY <1>1, <2>2, <2>3, StacksAdvance
<1> QED
  BY <1>2, <1>3

(* sys_execute in a boot tick starts a terminal of TerminalStacks.            *)
LEMMA StacksStart ==
    ASSUME SchedInv, NoWindows, BootExecute
    PROVE  Stacks!Start
<1> USE PidFacts, SchedulingAssumption
<1>1. PICK p \in Pid : /\ p = <<current_terminal, 0>> /\ LoadAndRun(p)
                      /\ CanExecute /\ current_terminal' = current_terminal
  BY BootSlotIsFree DEF BootExecute
<1>2. /\ \A q \in terminal_PID : q[1] # current_terminal
      /\ current_terminal \in Terminals
      /\ is_base_shell = 0
  BY BootSlotIsFree DEF BootExecute, SchedInv, TypeOK, ControlInv, BootInv, Booting
<1>3. Depth(current_terminal) = 0
  <2>1. On(current_terminal) = {}
    BY <1>2 DEF On
  <2>2. Depth(current_terminal) = Cardinality(On(current_terminal))
    BY <1>2, DepthType
  <2> QED
    BY <2>1, <2>2, FS_EmptySet
<1>4. [t \in Terminals |-> Depth(t)]'
          = [[t \in Terminals |-> Depth(t)] EXCEPT ![current_terminal] = @ + 1]
  <2>1. p[1] = current_terminal /\ p \notin terminal_PID
    BY <1>1, <1>2
  <2>2. terminal_PID' = terminal_PID \cup {p}
    BY <1>1 DEF LoadAndRun
  <2> QED
    BY <2>1, <2>2, DepthAfterTake
<1>5. [[t \in Terminals |-> Depth(t)] EXCEPT ![current_terminal] = @ + 1]
          = [[t \in Terminals |-> Depth(t)] EXCEPT ![current_terminal] = 1]
  BY <1>2, <1>3
<1>6. /\ is_base_shell' = 0 /\ global_process_count' = global_process_count + 1
      /\ global_process_count \in Int /\ global_process_count < MaxProcesses
  <2>1. is_base_shell' = 0 /\ global_process_count' = global_process_count + 1
    BY <1>1 DEF LoadAndRun
  <2>2. global_process_count \in Int
    BY DEF SchedInv, TypeOK
  <2>3. global_process_count < MaxProcesses
    BY <1>1, <1>2, <2>2 DEF CanExecute, SchedInv, SlotInv, ProcessLimit
  <2> QED
    BY <2>1, <2>2, <2>3
<1> QED
  BY <1>1, <1>2, <1>3, <1>4, <1>5, <1>6 DEF Stacks!Start

(* sys_execute called by a program is a push.                                 *)
LEMMA StacksPush ==
    ASSUME SchedInv, NoWindows, Execute
    PROVE  Stacks!Push
<1> USE PidFacts, SchedulingAssumption
<1>1. /\ cpu \in terminal_PID /\ cpu[1] = current_terminal
      /\ is_base_shell = 0 /\ current_terminal \in Terminals
  BY ProgramFacts DEF Execute, SchedInv, TypeOK
<1>2. PICK p \in Pid : /\ p[1] = current_terminal /\ p \notin terminal_PID
                      /\ LoadAndRun(p)
                      /\ CanExecute /\ current_terminal' = current_terminal
  BY <1>1 DEF Execute, NewPid, IsFirstFree
<1>3. Depth(current_terminal) \in Nat /\ Depth(current_terminal) # 0
  BY <1>1, DepthType DEF On
<1>4. [t \in Terminals |-> Depth(t)]'
          = [[t \in Terminals |-> Depth(t)] EXCEPT ![current_terminal] = @ + 1]
  BY <1>2, DepthAfterTake DEF LoadAndRun
<1>5. /\ is_base_shell' = 0 /\ global_process_count' = global_process_count + 1
      /\ global_process_count \in Int /\ global_process_count < MaxProcesses
  <2>1. is_base_shell' = 0 /\ global_process_count' = global_process_count + 1
    BY <1>2 DEF LoadAndRun
  <2>2. /\ global_process_count \in Int /\ global_process_count <= MaxProcesses
        /\ global_process_count # MaxProcesses
    BY <1>1, <1>2 DEF CanExecute, SchedInv, SlotInv, ProcessLimit, TypeOK
  <2> QED
    BY <2>1, <2>2
<1> QED
  BY <1>1, <1>2, <1>3, <1>4, <1>5 DEF Stacks!Push

(* sys_halt of a program is a pop.                                            *)
LEMMA StacksPop ==
    ASSUME SchedInv, NoWindows, HaltChild
    PROVE  Stacks!Pop
<1> USE PidFacts, SchedulingAssumption
<1>1. /\ cpu \in terminal_PID /\ cpu[1] = current_terminal /\ current_pid = cpu
      /\ current_terminal \in Terminals /\ cpu \in Pid /\ cpu[2] # 0
  BY ProgramFacts DEF HaltChild, SchedInv, TypeOK
<1>2. /\ terminal_PID' = terminal_PID \ {cpu}
      /\ is_base_shell' = is_base_shell /\ global_process_count' = global_process_count - 1
      /\ current_terminal' = current_terminal
  BY <1>1 DEF HaltChild
<1>3. <<cpu[1], cpu[2] - 1>> \in On(current_terminal) \ {cpu}
  <2>1. <<cpu[1], cpu[2] - 1>> \in terminal_PID
    BY <1>1 DEF SchedInv, ControlInv, ParentWaits
  <2>2. cpu[2] \in Int /\ <<cpu[1], cpu[2] - 1>> # cpu
    BY <1>1 DEF Slots
  <2> QED
    BY <1>1, <2>1, <2>2 DEF On
<1>4. Depth(current_terminal) \in Nat /\ Depth(current_terminal) > 1
  <2>1. /\ IsFiniteSet(On(current_terminal))
        /\ Depth(current_terminal) = Cardinality(On(current_terminal))
        /\ Depth(current_terminal) \in Nat
    BY <1>1, DepthType
  <2>2. /\ IsFiniteSet(On(current_terminal) \ {cpu})
        /\ Cardinality(On(current_terminal) \ {cpu}) = Depth(current_terminal) - 1
    BY <1>1, <2>1, FS_RemoveElement DEF On
  <2>3. /\ Cardinality(On(current_terminal) \ {cpu}) \in Nat
        /\ Cardinality(On(current_terminal) \ {cpu}) # 0
    BY <1>3, <2>2, FS_CardinalityType, FS_EmptySet
  <2> QED
    BY <2>1, <2>2, <2>3
<1>5. [t \in Terminals |-> Depth(t)]'
          = [[t \in Terminals |-> Depth(t)] EXCEPT ![current_terminal] = @ - 1]
  BY <1>1, <1>2, DepthAfterRelease
<1> QED
  BY <1>1, <1>2, <1>4, <1>5 DEF Stacks!Pop, SchedInv, TypeOK

(* Every step of the kernel is a step of TerminalStacks or a stutter.         *)
LEMMA StacksStep ==
    ASSUME SchedInv, NoWindows, [Next]_vars
    PROVE  [Stacks!Next]_(Stacks!vars)
<1>1. CASE BootTick
  BY <1>1, StacksBootTick DEF Stacks!Next
<1>2. CASE BootExecute
  BY <1>2, StacksStart DEF Stacks!Next
<1>3. CASE BootExecuteRefused \/ RestartRefused
  BY <1>3, KernelExecuteSucceeds
<1>4. CASE PITTick
  <2>1. cpu \in terminal_PID /\ cpu[1] = current_terminal
    BY <1>4, SteadyFacts
       DEF PITTick, TickPossible, NoWindows, IsTop
  <2> QED
    BY <1>4, <2>1, StacksAdvance DEF PITTick, Dispatch, Stacks!Next
<1>5. CASE Execute
  BY <1>5, StacksPush DEF Stacks!Next
<1>6. CASE HaltChild
  BY <1>6, StacksPop DEF Stacks!Next
<1>7. CASE HaltBaseShell
  <2>1. is_base_shell = 0
    BY <1>7, ProgramFacts DEF HaltBaseShell
  <2> QED
    BY <1>7, <2>1, SchedulingAssumption, StacksStutter DEF HaltBaseShell, SchedInv, TypeOK
<1>8. CASE RestartBaseShell
  <2>1. LoadAndRun(cpu) /\ cpu \in terminal_PID
    BY <1>8, RestartFacts DEF RestartBaseShell
  <2>2. is_base_shell = 1 /\ current_terminal' = current_terminal
    BY <1>8 DEF RestartBaseShell, SchedInv, ControlInv, FlowInv
  <2>3. /\ terminal_PID' = terminal_PID
        /\ global_process_count' = global_process_count + 1 /\ is_base_shell' = 0
    BY <2>1 DEF LoadAndRun
  <2> QED
    BY <2>2, <2>3, SchedulingAssumption, StacksStutter DEF SchedInv, TypeOK
<1>9. CASE UNCHANGED <<terminal_PID, current_terminal, global_process_count, is_base_shell>>
  BY <1>9, StacksStutter
<1> QED
  BY <1>1, <1>2, <1>3, <1>4, <1>5, <1>6, <1>7, <1>8, <1>9
     DEF Next, TerminalSwap, SwitchLebronAI, vars

(* The process manager and the scheduler implement TerminalStacks step by     *)
(* step, for any number of terminals and slots: boot ticks and later ticks    *)
(* pass the turn on, sys_execute pushes, sys_halt pops, the restart of a base *)
(* shell is invisible.  (The fairness of TerminalStacks stays with TLC.)      *)
THEOREM SchedulingRefinesStacks ==
    NoWindows => (Spec => Stacks!Init /\ [][Stacks!Next]_(Stacks!vars))
<1> SUFFICES ASSUME NoWindows
             PROVE  Spec => Stacks!Init /\ [][Stacks!Next]_(Stacks!vars)
  OBVIOUS
<1>1. SchedInv /\ [Next]_vars => [Stacks!Next]_(Stacks!vars)
  BY StacksStep
<1> QED
  BY <1>1, StacksInit, SchedInvariant, PTL DEF Spec
-----------------------------------------------------------------------------
(* What the entries are, between steps: the translations in use are those of  *)
(* the tables, the page at 128 MB is that of the record the process manager   *)
(* keeps, and the images of the programs that live are in their frames.       *)
MemInv ==
    /\ tlb = entry
    /\ entry \in [user : Frames, vid : 0 .. NumTerminals, user_vid : 0 .. NumTerminals]
    /\ user_page # NULL => entry.user = FrameOf(user_page)
    /\ entry.user_vid = entry.vid
    /\ entry.vid \in {0, current_terminal + 1}
    /\ DOMAIN image = Frames
    /\ \A p \in terminal_PID : image[FrameOf(p)] = p
-----------------------------------------------------------------------------
(* No two identifiers share a frame.                                          *)
LEMMA FramesDiffer ==
    ASSUME NEW p \in Pid, NEW q \in Pid, FrameOf(p) = FrameOf(q)
    PROVE  p = q
<1>1. /\ p = <<p[1], p[2]>> /\ q = <<q[1], q[2]>>
      /\ p[1] \in Nat /\ q[1] \in Nat
      /\ p[2] \in 0 .. MaxProcesses - 1 /\ q[2] \in 0 .. MaxProcesses - 1
  BY SchedulingAssumption DEF Pid, Terminals, Slots
<1>2. ASSUME NEW a \in Nat, NEW b \in Nat, NEW r \in 0 .. MaxProcesses - 1,
             NEW s \in 0 .. MaxProcesses - 1, a < b
      PROVE  MaxProcesses * a + r # MaxProcesses * b + s
  <2>1. PICK d \in Nat : b = a + 1 + d
    <3>1. b - a - 1 \in Nat /\ b = a + 1 + (b - a - 1)
      BY <1>2
    <3> QED
      BY <3>1
  <2>2. MaxProcesses \in Nat
    BY SchedulingAssumption
  <2>3. MaxProcesses * b = MaxProcesses * a + MaxProcesses + MaxProcesses * d
    BY <2>1, <2>2
  <2>4. MaxProcesses * d \in Nat /\ MaxProcesses * a \in Nat
    BY <2>2, <2>1
  <2> QED
    BY <2>2, <2>3, <2>4
<1>3. MaxProcesses * p[1] + p[2] = MaxProcesses * q[1] + q[2]
  <2>1. MaxProcesses * p[1] \in Nat /\ MaxProcesses * q[1] \in Nat
    BY <1>1, SchedulingAssumption
  <2> QED
    BY <1>1, <2>1, SchedulingAssumption DEF FrameOf
<1>4. ~(p[1] < q[1]) /\ ~(q[1] < p[1])
  BY <1>1, <1>2, <1>3
<1>5. p[1] = q[1]
  BY <1>1, <1>4
<1>6. p[2] = q[2]
  <2>1. MaxProcesses * p[1] \in Nat
    BY <1>1, SchedulingAssumption
  <2> QED
    BY <1>1, <1>3, <1>5, <2>1
<1> QED
  BY <1>1, <1>5, <1>6

(* A frame is one of the frames of the user.                                  *)
LEMMA FrameType == \A p \in Pid : FrameOf(p) \in Frames
BY DEF Frames

(* Frame of process 0.                                                        *)
LEMMA FirstFrame == FrameOf(<<0, 0>>) = 2
BY SchedulingAssumption DEF FrameOf

(* The page behind B8 is the screen or the terminal's own backing page.       *)
LEMMA PageType ==
    ASSUME NEW t \in Terminals
    PROVE  PageFor(t) \in {0, t + 1} /\ PageFor(t) \in 0 .. NumTerminals
BY SchedulingAssumption DEF PageFor, Terminals

(* paging_init maps the frame of process 0 and the screen.                    *)
LEMMA MemInitInv == MemInit => MemInv
<1> SUFFICES ASSUME MemInit PROVE MemInv
  OBVIOUS
<1>1. 2 \in Frames
  BY FrameType, FirstFrame, PidFacts
<1>2. 0 \in 0 .. NumTerminals
  BY SchedulingAssumption
<1> QED
  BY <1>1, <1>2 DEF MemInit, Init, MemInv, paging_init

(* A boot tick changes the video pages for the terminal it passes to.         *)
LEMMA BootTickMapsInv ==
    ASSUME SchedInv, SchedInv', MemInv, BootTickMaps
    PROVE  MemInv'
<1>1. /\ entry' = remapB8(entry, current_terminal') /\ tlb' = entry'
      /\ UNCHANGED <<image, user_page, terminal_PID, terminal_shown>>
  BY DEF BootTickMaps, BootTick, SetEntries, flush_tlb
<1>2. current_terminal' \in Terminals
  BY DEF SchedInv, TypeOK
<1>3. /\ PageFor(current_terminal') \in {0, current_terminal' + 1}
      /\ PageFor(current_terminal') \in 0 .. NumTerminals
  BY <1>2, PageType
<1> QED
  BY <1>1, <1>3 DEF MemInv, remapB8

(* A switch maps the process it passes to, and the video pages with it.       *)
LEMMA SwitchMapsInv ==
    ASSUME SchedInv, SchedInv', MemInv, SwitchMaps
    PROVE  MemInv'
<1>1. /\ entry' = remapB8(set_user_page(entry, destination_PID'), current_terminal')
      /\ tlb' = entry'
      /\ user_page' = destination_PID'
      /\ UNCHANGED <<image, terminal_PID, terminal_shown>>
  BY DEF SwitchMaps, PITTick, BootExecuteRefused, Dispatch, EnterProcess, SetEntries, flush_tlb
<1>2. current_terminal' \in Terminals /\ destination_PID' \in Pid
  BY DEF SchedInv, TypeOK
<1>3. /\ PageFor(current_terminal') \in {0, current_terminal' + 1}
      /\ PageFor(current_terminal') \in 0 .. NumTerminals
  BY <1>2, PageType
<1>4. FrameOf(destination_PID') \in Frames
  BY <1>2, FrameType
<1> QED
  BY <1>1, <1>3, <1>4 DEF MemInv, remapB8, set_user_page

(* An execute loads the frame of the new process and no other.                *)
LEMMA ExecuteLoadsInv ==
    ASSUME SchedInv, SchedInv', MemInv, ExecuteLoads
    PROVE  MemInv'
<1>1. /\ entry' = set_user_page(entry, current_pid') /\ tlb' = entry'
      /\ terminal_PID' = terminal_PID \cup {current_pid'}
      /\ user_page' = current_pid'
      /\ UNCHANGED current_terminal
  BY DEF ExecuteLoads, BootExecute, Execute, RestartBaseShell, LoadAndRun, EnterProcess,
         SetEntries, flush_tlb
<1>2. current_pid' \in Pid /\ terminal_PID \subseteq Pid
  BY DEF SchedInv, TypeOK
<1>3. FrameOf(current_pid') \in Frames
  BY <1>2, FrameType
<1>4. entry'.user = FrameOf(current_pid')
  BY <1>1 DEF MemInv, set_user_page
<1>5. image' = [image EXCEPT ![FrameOf(current_pid')] = current_pid']
  BY <1>1, <1>4 DEF ExecuteLoads
<1>6. \A p \in terminal_PID' : image'[FrameOf(p)] = p
  BY <1>1, <1>2, <1>3, <1>5, FramesDiffer, FrameType DEF MemInv
<1> QED
  BY <1>1, <1>3, <1>4, <1>5, <1>6 DEF MemInv, set_user_page

(* A halt maps the parent, whose image is where it was.                       *)
LEMMA HaltMapsInv ==
    ASSUME SchedInv, SchedInv', MemInv, HaltMaps
    PROVE  MemInv'
<1>1. /\ entry' = set_user_page(entry, current_pid') /\ tlb' = entry'
      /\ terminal_PID' = terminal_PID \ {current_pid}
      /\ user_page' = current_pid'
      /\ UNCHANGED current_terminal
      /\ image' = [image EXCEPT ![FrameOf(current_pid)] = NULL]
  BY DEF HaltMaps, HaltChild, EnterProcess, SetEntries, flush_tlb
<1>2. current_pid \in Pid /\ current_pid' \in Pid /\ terminal_PID \subseteq Pid
  BY DEF SchedInv, TypeOK
<1>3. FrameOf(current_pid') \in Frames
  BY <1>2, FrameType
<1>4. \A p \in terminal_PID' : image'[FrameOf(p)] = p
  BY <1>1, <1>2, FramesDiffer, FrameType DEF MemInv
<1> QED
  BY <1>1, <1>3, <1>4 DEF MemInv, set_user_page

(* Every step keeps the invariant of the tables.                              *)
LEMMA MemStep ==
    ASSUME SchedInv, SchedInv', MemInv, [MemNext]_allVars
    PROVE  MemInv'
<1>1. CASE MapsNothing
  BY <1>1 DEF MapsNothing, MemInv, memory, HaltBaseShell, RestartRefused, SwitchLebronAI,
              TerminalSwap
<1>2. CASE UNCHANGED allVars
  BY <1>2 DEF allVars, memory, vars, MemInv
<1> QED
  BY <1>1, <1>2, BootTickMapsInv, SwitchMapsInv, ExecuteLoadsInv, HaltMapsInv DEF MemNext

(* The page tables add to the process manager and change nothing of what it   *)
(* does: every behaviour of AddressSpaces is one of Scheduling.               *)
THEOREM MemoryFollowsScheduling == MemSpec => Spec
<1>1. MemInit => Init
  BY DEF MemInit
<1>2. [MemNext]_allVars => [Next]_vars
  BY DEF MemNext, allVars, BootTickMaps, SwitchMaps, ExecuteLoads, HaltMaps, MapsNothing, Next
<1> QED
  BY <1>1, <1>2, PTL DEF MemSpec, Spec

(* Outside the windows of HazardKinds the entries agree with the records of   *)
(* the process manager (set_user_page, remapB8).                              *)
THEOREM MemInvariant == NoWindows => (MemSpec => [](SchedInv /\ MemInv))
<1> SUFFICES ASSUME NoWindows PROVE MemSpec => [](SchedInv /\ MemInv)
  OBVIOUS
<1>1. MemSpec => []SchedInv
  BY MemoryFollowsScheduling, SchedInvariant, PTL
<1>2. MemInit => MemInv
  BY MemInitInv
<1>3. SchedInv /\ SchedInv' /\ MemInv /\ [MemNext]_allVars => MemInv'
  BY MemStep
<1> QED
  BY <1>1, <1>2, <1>3, PTL DEF MemSpec

(* Outside the windows, every program that runs finds its own image at 128 MB *)
(* (sys_execute, sys_halt, PIT_interrupt_handler), with caching as it is.     *)
THEOREM ProgramsKeepTheirImages == NoWindows => (MemSpec => []RunsItsImage)
<1> SUFFICES ASSUME NoWindows PROVE MemSpec => []RunsItsImage
  OBVIOUS
<1>1. SchedInv /\ MemInv => RunsItsImage
  <2> SUFFICES ASSUME SchedInv, MemInv PROVE RunsItsImage
    OBVIOUS
  <2>1. ASSUME ProcessRuns
        PROVE  \A f \in Reached("user") : image[f] = cpu
    <3>1. user_page = cpu /\ cpu \in terminal_PID /\ cpu \in Pid
      BY <2>1 DEF SchedInv, ControlInv, RunningIsCurrent, IsTop, ProcessRuns
    <3>2. user_page # NULL
      BY <3>1, PidFacts
    <3>3. Reached("user") = {FrameOf(cpu)}
      BY <3>1, <3>2 DEF Reached, MemInv
    <3> QED
      BY <3>1, <3>3 DEF MemInv
  <2> QED
    BY <2>1 DEF RunsItsImage, MemInv
<1> QED
  BY <1>1, MemInvariant, PTL

(* Between steps there is one translation for what is printed and drawn.      *)
LEMMA OnePage ==
    ASSUME MemInv
    PROVE  /\ Reached("vid") = {entry.vid} /\ Reached("user_vid") = {entry.vid}
           /\ OutputOnPicture <=> entry.vid = PageFor(current_terminal)
<1>1. Reached("vid") = {entry.vid} /\ Reached("user_vid") = {entry.vid}
  BY DEF MemInv, Reached
<1> QED
  BY <1>1 DEF OutputOnPicture

(* A switch of terminals puts output on the picture; nothing but a swap takes *)
(* it off.                                                                    *)
LEMMA OutputStep ==
    ASSUME MemInv, MemInv', [MemNext]_allVars, terminal_shown' = terminal_shown,
           current_terminal' # current_terminal \/ OutputOnPicture
    PROVE  OutputOnPicture'
<1>1. OutputOnPicture' <=> entry'.vid = PageFor(current_terminal)'
  BY DEF OutputOnPicture, Reached, MemInv
<1>2. PageFor(current_terminal)' = PageFor(current_terminal')
  BY DEF PageFor
<1>3. ASSUME NEW table, entry' = remapB8(table, current_terminal'),
             table \in [user : Frames, vid : 0 .. NumTerminals, user_vid : 0 .. NumTerminals]
      PROVE  OutputOnPicture'
  BY <1>1, <1>2, <1>3 DEF remapB8
<1>4. ASSUME current_terminal' = current_terminal, entry'.vid = entry.vid
      PROVE  OutputOnPicture'
  <2>1. entry.vid = PageFor(current_terminal)
    BY <1>4, OnePage
  <2> QED
    BY <1>1, <1>4, <2>1 DEF PageFor
<1>5. CASE BootTickMaps
  BY <1>3, <1>5 DEF BootTickMaps, SetEntries, MemInv
<1>6. CASE SwitchMaps
  <2>1. entry' = remapB8(set_user_page(entry, destination_PID'), current_terminal')
    BY <1>6 DEF SwitchMaps, SetEntries
  <2>2. /\ DOMAIN entry = {"user", "vid", "user_vid"}
        /\ entry'.vid = PageFor(current_terminal')
    BY <2>1 DEF MemInv, remapB8, set_user_page
  <2> QED
    BY <1>1, <1>2, <2>2
<1>7. CASE ExecuteLoads
  <2>1. entry' = set_user_page(entry, current_pid') /\ current_terminal' = current_terminal
    BY <1>7 DEF ExecuteLoads, BootExecute, Execute, RestartBaseShell, SetEntries
  <2> QED
    BY <1>4, <2>1 DEF MemInv, set_user_page
<1>8. CASE HaltMaps
  <2>1. entry' = set_user_page(entry, current_pid') /\ current_terminal' = current_terminal
    BY <1>8 DEF HaltMaps, HaltChild, SetEntries
  <2> QED
    BY <1>4, <2>1 DEF MemInv, set_user_page
<1>9. CASE MapsNothing
  BY <1>4, <1>9 DEF MapsNothing, memory, HaltBaseShell, RestartRefused, SwitchLebronAI,
                    TerminalSwap
<1>10. CASE UNCHANGED allVars
  BY <1>4, <1>10 DEF allVars, memory, vars
<1> QED
  BY <1>5, <1>6, <1>7, <1>8, <1>9, <1>10 DEF MemNext

(* Outside the windows, the kernel's video page and the program's are one, the*)
(* screen or the backing page of the running terminal.  Every switch of       *)
(* terminals makes it the one of the two that holds the terminal's picture,   *)
(* and it stays that until the screen is swapped (remapB8).                   *)
THEOREM OutputStaysOnTerminal == NoWindows => (MemSpec => OutputReachesTerminal)
<1> SUFFICES ASSUME NoWindows PROVE MemSpec => OutputReachesTerminal
  OBVIOUS
<1>1. MemInv => OnePlace
  BY OnePage DEF MemInv, OnePlace
<1>2. MemInv /\ MemInv' /\ [MemNext]_allVars => [Follows]_allVars
  BY OutputStep DEF Follows
<1> QED
  BY <1>1, <1>2, MemInvariant, PTL DEF MemSpec, OutputReachesTerminal
=============================================================================
