-------------------------------- MODULE Rtc --------------------------------
(* The real-time clock driver (rtc.c): one device that interrupts at a fixed  *)
(* rate, and one virtual clock per terminal, a counter that the interrupt     *)
(* handler raises up to the interval the terminal asked for.  The flow of     *)
(* each terminal is that of its foreground program; the other programs of the *)
(* terminal are inside sys_execute.  Sections with interrupts off are one     *)
(* action; where rtc.c turns them on again, a tick or an interrupt may land.  *)
EXTENDS Integers

CONSTANTS NumTerminals,   (* 3 in the code                                    *)
          Fastest,        (* FASTEST_FREQ_FOR_QEMU = 1024                     *)
          MinFrequency,   (* min_frequency = 2                                *)
          MaxFrequency,   (* max_frequency = 32768                            *)
          WordSize,       (* 2^32: rtc_interval and rtc_counter are unsigned  *)
          Frequencies     (* bound: the numbers programs write                *)

Terminals == 0 .. NumTerminals - 1

ASSUME RtcAssumption ==
    /\ NumTerminals \in Nat \ {0}
    /\ Fastest \in Nat \ {0}
    /\ MinFrequency \in Int
    /\ MaxFrequency \in Int
    /\ WordSize \in Nat \ {0}
    /\ Frequencies \subseteq Int

VARIABLES
    current_terminal,
    rtc_interval,      (* rtc_interval[t]: interrupts one rtc_read waits for  *)
    rtc_counter,       (* rtc_counter[t]: interrupts counted, at most that    *)
    rate,              (* rate bits of register A; 0 until the first open     *)
    irqf,              (* register C: an interrupt is flagged and not yet read*)
    irq8,              (* the request latched in the 8259                     *)
    pc,                (* where the flow of each terminal is                  *)
    asked,             (* the frequency rtc_write is working on               *)
    waited             (* history: interrupts handled since rtc_read began,   *)
                       (* counted up to the interval                          *)

vars == <<current_terminal, rtc_interval, rtc_counter, rate, irqf, irq8, pc, asked, waited>>

(* The program; rtc_open and rtc_write behind their sti; rtc_open returned and*)
(* nothing written yet; the loop of rtc_read.                                 *)
Place == {"program", "opening", "writing", "opened", "reading"}

(* Counters and intervals stay in the machine word, whatever frequency a      *)
(* program writes (rtc_write).                                                *)
TypeOK ==
    /\ current_terminal \in Terminals
    /\ rtc_interval \in [Terminals -> 0 .. WordSize - 1]
    /\ rtc_counter \in [Terminals -> 0 .. WordSize - 1]
    /\ rate \in {0, 6}
    /\ irqf \in {0, 1}
    /\ irq8 \in {0, 1}
    /\ pc \in [Terminals -> Place]
    /\ asked \in [Terminals -> Frequencies \cup {0}]
    /\ waited \in [Terminals -> 0 .. WordSize - 1]
-----------------------------------------------------------------------------
(* init_terminal_struct and rtc_init.                                         *)
Init ==
    /\ current_terminal = 0
    /\ rtc_interval = [t \in Terminals |-> 0]
    /\ rtc_counter = [t \in Terminals |-> 0]
    /\ rate = 0
    /\ irqf = 0
    /\ irq8 = 0
    /\ pc = [t \in Terminals |-> "program"]
    /\ asked = [t \in Terminals |-> 0]
    /\ waited = [t \in Terminals |-> 0]

(* Seeded fault: the quotient keeps its sign.                                 *)
IntervalSigned(f) == IF f > 0 THEN Fastest \div f ELSE -(Fastest \div (-f))

(* 1024 / frequency as C computes it: rounded toward zero, stored in 32 bits. *)
Interval(f) ==
    LET quotient == IF f > 0 THEN Fastest \div f ELSE -(Fastest \div (-f))
    IN  quotient % WordSize

Accepted(f) == f >= MinFrequency /\ f <= MaxFrequency

(* Seeded fault: a counter that runs past the interval.                       *)
CountedWithoutLimit(t) == (rtc_counter[t] + 1) % WordSize

(* The counter of terminal t after an interrupt.                              *)
Counted(t) == IF rtc_counter[t] < rtc_interval[t] THEN rtc_counter[t] + 1 ELSE rtc_counter[t]

(* Seeded fault: rtc_read goes on with what is already counted.               *)
CounterKept(t) == rtc_counter

(* rtc_counter with the counter of terminal t started again.                  *)
CounterReset(t) == [rtc_counter EXCEPT ![t] = 0]
-----------------------------------------------------------------------------
(* The device: the periodic interrupt is requested once, until register C has *)
(* been read.                                                                 *)
DeviceTick ==
    /\ irqf = 0
    /\ irqf' = 1
    /\ irq8' = 1
    /\ UNCHANGED <<current_terminal, rtc_interval, rtc_counter, rate, pc, asked, waited>>

(* rtc_interrupt_handler, in whatever flow executes: count for every terminal,*)
(* read register C so that the device can interrupt again.                    *)
rtc_interrupt_handler ==
    /\ irq8 = 1
    /\ irq8' = 0
    /\ rtc_counter' = [t \in Terminals |-> Counted(t)]
    /\ irqf' = 0
    /\ waited' = [t \in Terminals |->
                    IF pc[t] = "reading" /\ waited[t] < rtc_interval[t]
                    THEN waited[t] + 1 ELSE waited[t]]
    /\ UNCHANGED <<current_terminal, rtc_interval, rate, pc, asked>>

(* rtc_open up to its sti.                                                    *)
Open ==
    LET t == current_terminal IN
    /\ pc[t] \in {"program", "opened"}
    /\ rate' = 6
    /\ pc' = [pc EXCEPT ![t] = "opening"]
    /\ UNCHANGED <<current_terminal, rtc_interval, rtc_counter, irqf, irq8, asked, waited>>

(* The rest of rtc_open.                                                      *)
OpenReturns ==
    LET t == current_terminal IN
    /\ pc[t] = "opening"
    /\ rtc_counter' = CounterReset(t)
    /\ pc' = [pc EXCEPT ![t] = "opened"]
    /\ UNCHANGED <<current_terminal, rtc_interval, rate, irqf, irq8, asked, waited>>

(* rtc_write up to its sti: the interval is stored before the frequency has   *)
(* been looked at.                                                            *)
Write(f) ==
    LET t == current_terminal IN
    /\ pc[t] \in {"program", "opened"}
    /\ f # 0
    /\ rtc_interval' = [rtc_interval EXCEPT ![t] = Interval(f)]
    /\ asked' = [asked EXCEPT ![t] = f]
    /\ pc' = [pc EXCEPT ![t] = "writing"]
    /\ UNCHANGED <<current_terminal, rtc_counter, rate, irqf, irq8, waited>>

(* The division by zero: the exception handler halts the program.             *)
WriteZero ==
    LET t == current_terminal IN
    /\ pc[t] \in {"program", "opened"}
    /\ 0 \in Frequencies
    /\ pc' = [pc EXCEPT ![t] = "program"]
    /\ UNCHANGED <<current_terminal, rtc_interval, rtc_counter, rate, irqf, irq8, asked, waited>>

(* The rest of rtc_write: a refused frequency leaves the counter alone.       *)
WriteReturns ==
    LET t == current_terminal IN
    /\ pc[t] = "writing"
    /\ rtc_counter' = IF Accepted(asked[t]) THEN CounterReset(t) ELSE rtc_counter
    /\ asked' = [asked EXCEPT ![t] = 0]
    /\ pc' = [pc EXCEPT ![t] = "program"]
    /\ UNCHANGED <<current_terminal, rtc_interval, rate, irqf, irq8, waited>>

(* rtc_read up to its loop.                                                   *)
Read ==
    LET t == current_terminal IN
    /\ pc[t] \in {"program", "opened"}
    /\ rtc_counter' = CounterReset(t)
    /\ waited' = [waited EXCEPT ![t] = 0]
    /\ pc' = [pc EXCEPT ![t] = "reading"]
    /\ UNCHANGED <<current_terminal, rtc_interval, rate, irqf, irq8, asked>>

(* The loop of rtc_read finds the counter equal to the interval.              *)
ReadReturns(t) ==
    /\ t = current_terminal
    /\ pc[t] = "reading"
    /\ rtc_counter[t] = rtc_interval[t]
    /\ pc' = [pc EXCEPT ![t] = "program"]
    /\ UNCHANGED <<current_terminal, rtc_interval, rtc_counter, rate, irqf, irq8, asked, waited>>

(* The PIT handler passes the processor to the next terminal.                 *)
PITTick ==
    /\ current_terminal' = (current_terminal + 1) % NumTerminals
    /\ UNCHANGED <<rtc_interval, rtc_counter, rate, irqf, irq8, pc, asked, waited>>

Next ==
    \/ DeviceTick \/ rtc_interrupt_handler
    \/ Open \/ OpenReturns \/ WriteZero \/ WriteReturns \/ Read
    \/ \E f \in Frequencies : Write(f)
    \/ \E t \in Terminals : ReadReturns(t)
    \/ PITTick

(* The device and the timer keep ticking, and their latched requests are      *)
(* served; a program that has the processor again and again, with something   *)
(* to do each time, gets it done (a time slice is 25 ms).                     *)
Fairness ==
    /\ WF_vars(DeviceTick) /\ WF_vars(rtc_interrupt_handler) /\ WF_vars(PITTick)
    /\ \A t \in Terminals : SF_vars(ReadReturns(t))

Spec == Init /\ [][Next]_vars /\ Fairness
-----------------------------------------------------------------------------
(* While a program reads, its counter has counted exactly the interrupts      *)
(* since it began to read, whatever the other terminals opened, wrote or read *)
(* in the meantime and however long it was off the processor.                 *)
CountsItsOwnWait ==
    \A t \in Terminals : pc[t] = "reading" =>
        /\ waited[t] = rtc_counter[t]
        /\ rtc_counter[t] <= rtc_interval[t]

(* Every read returns, although the counter passes the interval while other   *)
(* terminals have the processor.                                              *)
EveryReadReturns == \A t \in Terminals : pc[t] = "reading" ~> pc[t] # "reading"
=============================================================================
