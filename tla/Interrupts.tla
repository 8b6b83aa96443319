----------------------------- MODULE Interrupts -----------------------------
(* Interrupt delivery: the 8259 pair as i8259.c programs it, the gates of     *)
(* idt.c and the linkage of idt_helper.S, the order in which kernel.c:entry   *)
(* brings the devices up, and how the handlers of the timer, the keyboard and *)
(* the RTC nest, pass the processor on and acknowledge their interrupts.      *)
(*                                                                            *)
(* A flow is the kernel stack of the program that runs on a terminal, or the  *)
(* boot stack.  A handler turns interrupts on again as its last act; an       *)
(* interrupt that gets in between there and the iret is modelled as coming    *)
(* right after the iret.                                                      *)
EXTENDS Integers, Sequences, SequencesExt

CONSTANTS NumTerminals, (* 3 in the code                                      *)
          Hazards       (* the windows a run lets the environment hit         *)

HazardKinds == {"bootkey"}  \* a character is typed before the first tick

ASSUME InterruptsAssumption ==
    /\ NumTerminals \in Nat \ {0}
    /\ Hazards \subseteq HazardKinds

(* The lines in use: the slave's request comes in on line 2 of the master.    *)
PIT     == 0
KBD     == 1
CASCADE == 2
RTC     == 8
Devices == {PIT, KBD, RTC}
Lines   == Devices \cup {CASCADE}
EXC     == -1                       \* an exception: no line

BOOT      == -1
Terminals == 0 .. NumTerminals - 1
Flow      == Terminals \cup {BOOT}

VARIABLES
    booted,            (* steps of kernel.c:entry done                        *)
    imr,               (* lines masked                                        *)
    irr,               (* requests latched by the 8259s                       *)
    isr,               (* lines in service                                    *)
    register_c,        (* the RTC has not been read since its last interrupt  *)
    output_full,       (* the keyboard has not been read since its last one   *)
    cli,               (* the program runs a section with interrupts off      *)
    nested,            (* nested[f]: handlers flow f is inside of             *)
    current_terminal,  (* the flow that executes                              *)
    Lebron_FMVP_count  (* boot ticks seen                                     *)

picVars    == <<imr, irr, isr>>
deviceVars == <<register_c, output_full>>
vars == <<booted, picVars, deviceVars, cli, nested, current_terminal, Lebron_FMVP_count>>

(* What kernel.c:entry calls, in order.                                       *)
BootSteps == <<"initialize_IDT", "i8259_init", "paging_init", "file_system_init",
               "rtc_init", "keyboard_init", "init_processes", "init_terminal_struct",
               "init_pcb_start", "PIT_init">>

Done(step) == \E k \in 1 .. booted : BootSteps[k] = step

(* A handler that has just been entered, with interrupts off; one that has    *)
(* turned them on; a tick that has passed the processor on.                   *)
Frame == [irq : Devices \cup {EXC}, stage : {"off", "on", "switched"}]

(* The registers of the 8259s and the handlers of every flow have their       *)
(* types.                                                                     *)
TypeOK ==
    /\ booted \in 0 .. Len(BootSteps)
    /\ imr \subseteq Lines
    /\ irr \subseteq Devices
    /\ isr \subseteq Lines
    /\ register_c \in BOOLEAN
    /\ output_full \in BOOLEAN
    /\ cli \in BOOLEAN
    /\ nested \in [Flow -> Seq(Frame)]
    /\ current_terminal \in Flow
    /\ Lebron_FMVP_count \in 0 .. NumTerminals

(* The boot loader leaves any mask; boot.S has turned interrupts off.         *)
Init ==
    /\ booted = 0
    /\ imr \in SUBSET Lines
    /\ irr = {}
    /\ isr = {}
    /\ register_c = FALSE
    /\ output_full = FALSE
    /\ cli = TRUE
    /\ nested = [f \in Flow |-> <<>>]
    /\ current_terminal = BOOT
    /\ Lebron_FMVP_count = 0
-----------------------------------------------------------------------------
Idle == nested[current_terminal] = <<>>
Top  == Last(nested[current_terminal])

(* The interrupt flag of the processor.                                       *)
IF_on == ~cli /\ (~Idle => Top.stage = "on")

Push(frame) == nested' = [nested EXCEPT ![current_terminal] = Append(@, frame)]
Pop         == nested' = [nested EXCEPT ![current_terminal] = Front(@)]

(* Seeded fault: the masks are not restored after the control words.          *)
MaskAfterInitNone == {}

(* i8259_init: MASK_ALL, and enable_irq(2).                                   *)
MaskAfterInit == Lines \ {CASCADE}

(* enable_irq: its own bit only.                                              *)
enable_irq(irq) == imr' = imr \ {irq}

(* The next step of kernel.c:entry.  rtc_init, keyboard_init and i8259_init   *)
(* end with an sti; the steps before have interrupts off.                     *)
Boot ==
    /\ current_terminal = BOOT
    /\ Idle
    /\ booted < Len(BootSteps)
    /\ booted' = booted + 1
    /\ LET step == BootSteps[booted + 1] IN
       /\ CASE step = "i8259_init"    -> imr' = MaskAfterInit
            [] step = "rtc_init"      -> enable_irq(RTC)
            [] step = "keyboard_init" -> enable_irq(KBD)
            [] step = "PIT_init"      -> enable_irq(PIT)
            [] OTHER                  -> imr' = imr
       /\ irr' = IF step = "i8259_init" THEN {} ELSE irr
       /\ cli' = (cli /\ step # "i8259_init")
    /\ UNCHANGED <<isr, deviceVars, nested, current_terminal, Lebron_FMVP_count>>

(* A program enters or leaves terminal_write, sys_execute or another section  *)
(* between cli and sti.                                                       *)
Cli ==
    /\ current_terminal # BOOT
    /\ Idle
    /\ ~cli
    /\ cli' = TRUE
    /\ UNCHANGED <<booted, picVars, deviceVars, nested, current_terminal, Lebron_FMVP_count>>

Sti ==
    /\ current_terminal # BOOT
    /\ cli
    /\ cli' = FALSE
    /\ UNCHANGED <<booted, picVars, deviceVars, nested, current_terminal, Lebron_FMVP_count>>

(* A program faults: a trap gate, which leaves the interrupt flag alone.      *)
Exception ==
    /\ current_terminal # BOOT
    /\ Idle
    /\ ~cli
    /\ Push([irq |-> EXC, stage |-> "on"])
    /\ UNCHANGED <<booted, picVars, deviceVars, cli, current_terminal, Lebron_FMVP_count>>

(* Its handler prints a line and halts the program: what was on its kernel    *)
(* stack is gone.                                                             *)
ExceptionHalts ==
    /\ ~Idle
    /\ Top.irq = EXC
    /\ nested' = [nested EXCEPT ![current_terminal] = <<>>]
    /\ UNCHANGED <<booted, picVars, deviceVars, cli, current_terminal, Lebron_FMVP_count>>
-----------------------------------------------------------------------------
(* The devices.  The RTC and the keyboard controller ask again only after     *)
(* they have been read; ticks come regardless.                                *)
RaiseTick ==
    /\ Done("i8259_init")
    /\ irr' = irr \cup {PIT}
    /\ UNCHANGED <<booted, imr, isr, deviceVars, cli, nested, current_terminal, Lebron_FMVP_count>>

RaiseKey ==
    /\ Done("i8259_init")
    /\ ~output_full
    /\ output_full' = TRUE
    /\ irr' = irr \cup {KBD}
    /\ UNCHANGED <<booted, imr, isr, register_c, cli, nested, current_terminal, Lebron_FMVP_count>>

RaiseRtc ==
    /\ Done("rtc_init")
    /\ ~register_c
    /\ register_c' = TRUE
    /\ irr' = irr \cup {RTC}
    /\ UNCHANGED <<booted, imr, isr, output_full, cli, nested, current_terminal, Lebron_FMVP_count>>

(* The lines a request goes through.                                          *)
LinesOf(irq) == IF irq = RTC THEN {RTC, CASCADE} ELSE {irq}

(* Fully nested mode: a line in service shuts out itself and what is lower; a *)
(* pending request of higher priority goes first.                             *)
Offered(irq) ==
    /\ irq \in irr
    /\ LinesOf(irq) \cap imr = {}
    /\ \A s \in isr : s > (IF irq = RTC THEN CASCADE ELSE irq)
    /\ \A q \in irr \ imr : q >= irq

(* The processor takes the interrupt: an interrupt gate, which turns          *)
(* interrupts off.                                                            *)
Deliver(irq) ==
    /\ IF_on
    /\ Offered(irq)
    /\ irr' = irr \ {irq}
    /\ isr' = isr \cup LinesOf(irq)
    /\ Push([irq |-> irq, stage |-> "off"])
    /\ UNCHANGED <<booted, imr, deviceVars, cli, current_terminal, Lebron_FMVP_count>>

(* Seeded fault: the slave's interrupts are not acknowledged at the master.   *)
AfterEoiSlaveOnly(irq) == isr \ {irq}

(* send_eoi: the lines in service after it.                                   *)
AfterEoi(irq) == isr \ LinesOf(irq)

(* Seeded fault: register C is not read.                                      *)
RegisterCUnread == register_c

RegisterCAfterHandler == FALSE

(* rtc_interrupt_handler: read register C, acknowledge, return.               *)
rtc_interrupt_handler ==
    /\ ~Idle
    /\ Top.irq = RTC
    /\ register_c' = RegisterCAfterHandler
    /\ isr' = AfterEoi(RTC)
    /\ Pop
    /\ UNCHANGED <<booted, imr, irr, output_full, cli, current_terminal, Lebron_FMVP_count>>

(* keyboard_interrupt_handler reads the key.  A key that is echoed goes       *)
(* through terminal_write, whose sti comes before the acknowledgement.        *)
KeyEchoed ==
    /\ ~Idle
    /\ Top = [irq |-> KBD, stage |-> "off"]
    /\ current_terminal = BOOT => "bootkey" \in Hazards
    /\ output_full' = FALSE
    /\ nested' = [nested EXCEPT ![current_terminal] = Append(Front(@), [Top EXCEPT !.stage = "on"])]
    /\ UNCHANGED <<booted, picVars, register_c, cli, current_terminal, Lebron_FMVP_count>>

(* The end of the handler, straight away for any other key.                   *)
KeyDone ==
    /\ ~Idle
    /\ Top.irq = KBD
    /\ output_full' = IF Top.stage = "off" THEN FALSE ELSE output_full
    /\ isr' = AfterEoi(KBD)
    /\ Pop
    /\ UNCHANGED <<booted, imr, irr, register_c, cli, current_terminal, Lebron_FMVP_count>>

Switched == [irq |-> PIT, stage |-> "switched"]

(* Seeded fault: one shell less is started.                                   *)
BootTicksOneShort == NumTerminals - 1

(* After_Three_Execute_Flag is set by this many ticks.                        *)
BootTicks == NumTerminals

NextTerminal == (current_terminal + 1) % NumTerminals

(* PIT_interrupt_handler, a boot tick: acknowledge, and start the shell of    *)
(* the next terminal on a kernel stack of its own.                            *)
BootTick ==
    /\ ~Idle
    /\ Top = [irq |-> PIT, stage |-> "off"]
    /\ Lebron_FMVP_count < BootTicks
    /\ isr' = AfterEoi(PIT)
    /\ nested' = [nested EXCEPT ![current_terminal] = Append(Front(@), Switched)]
    /\ current_terminal' = Lebron_FMVP_count
    /\ Lebron_FMVP_count' = Lebron_FMVP_count + 1
    /\ UNCHANGED <<booted, imr, irr, deviceVars, cli>>

(* Any later tick.  remapB8 turns interrupts on, but the line is in service   *)
(* and outranks all others.  The stack is switched, and the acknowledgement   *)
(* and the iret happen in the flow that was suspended longest.                *)
PIT_interrupt_handler ==
    /\ ~Idle
    /\ Top = [irq |-> PIT, stage |-> "off"]
    /\ Lebron_FMVP_count >= BootTicks
    /\ isr' = AfterEoi(PIT)
    /\ current_terminal' = NextTerminal
    /\ LET suspended == [nested EXCEPT ![current_terminal] = Append(Front(@), Switched)]
       IN  nested' = [suspended EXCEPT ![NextTerminal] = IF @ = <<>> THEN @ ELSE Front(@)]
    /\ UNCHANGED <<booted, imr, irr, deviceVars, cli, Lebron_FMVP_count>>

Handler == rtc_interrupt_handler \/ KeyDone \/ BootTick \/ PIT_interrupt_handler

Next ==
    \/ Boot \/ Cli \/ Sti \/ Exception \/ ExceptionHalts
    \/ RaiseTick \/ RaiseKey \/ RaiseRtc
    \/ \E irq \in Devices : Deliver(irq)
    \/ KeyEchoed \/ Handler

(* The timer and the RTC keep asking, the processor takes an interrupt it is  *)
(* offered again and again, and code inside the kernel goes on.               *)
Fairness ==
    /\ WF_vars(Boot) /\ WF_vars(Sti) /\ WF_vars(ExceptionHalts)
    /\ WF_vars(RaiseTick) /\ WF_vars(RaiseRtc)
    /\ \A irq \in Devices : SF_vars(Deliver(irq))
    /\ WF_vars(Handler) /\ SF_vars(KeyDone)

Spec == Init /\ [][Next]_vars /\ Fairness
-----------------------------------------------------------------------------
(* Frame k of flow f is a handler that has still to acknowledge its interrupt.*)
Owes(f, k) == nested[f][k].irq # EXC /\ nested[f][k].stage # "switched"
Owing(f)   == {nested[f][k] : k \in {j \in DOMAIN nested[f] : Owes(f, j)}}

(* A line is in service exactly while one handler, in one flow, has still to  *)
(* acknowledge it, however handlers nest and whatever flows the timer switches*)
(* between: no interrupt is acknowledged twice, early, or never.              *)
InServiceHasHandler ==
    /\ isr = UNION {LinesOf(frame.irq) : frame \in UNION {Owing(f) : f \in Flow}}
    /\ \A f, g \in Flow : \A j \in DOMAIN nested[f], k \in DOMAIN nested[g] :
          Owes(f, j) /\ Owes(g, k) /\ nested[f][j].irq = nested[g][k].irq => f = g /\ j = k

(* A terminal that has its shell and is off the processor was left by a tick, *)
(* with interrupts on: the tail of the timer's handler, which runs on its     *)
(* stack next, finds its own frame there.                                     *)
SuspendedByTick ==
    \A t \in Terminals :
        /\ Lebron_FMVP_count >= BootTicks /\ t # current_terminal
              => nested[t] # <<>> /\ Last(nested[t]) = Switched
        /\ \A k \in DOMAIN nested[t] : nested[t][k] = Switched => t # current_terminal

(* No handler runs before its gate is set, and no tick before everything that *)
(* sys_execute needs has been initialised, although i8259_init, rtc_init and  *)
(* keyboard_init turn interrupts on in the middle of the boot.                *)
BootOrder ==
    \A f \in Flow : \A k \in DOMAIN nested[f] :
        /\ Done("initialize_IDT")
        /\ nested[f][k].irq = PIT => booted = Len(BootSteps)

(* No request of a higher priority, pending or in service.                    *)
Quiet(irq) == \A q \in Devices : q < irq => q \notin irr \cup isr

(* A request that the lines above it leave room for again and again is taken. *)
NoStarvation ==
    \A irq \in Devices :
        []<>Quiet(irq) => (booted = Len(BootSteps) /\ irq \in irr ~> irq \notin irr)

(* The RTC interrupts again and again.                                        *)
RtcKeepsTicking == []<>Quiet(RTC) => []<>(RTC \in isr)
=============================================================================
