----------------------------- MODULE RtcProofs -----------------------------
(* Theorems about Rtc, for any number of terminals and any frequencies.       *)
EXTENDS Rtc, TLAPS

(* The interval rtc_write stores is an unsigned word.                         *)
LEMMA IntervalType ==
    ASSUME NEW f \in Frequencies, f # 0
    PROVE  Interval(f) \in 0 .. WordSize - 1
<1>1. f \in Int /\ Fastest \in Int /\ WordSize \in Nat /\ WordSize > 0
  BY RtcAssumption
<1>2. CASE f > 0
  <2>1. Fastest \div f \in Int
    BY <1>1, <1>2
  <2>2. (Fastest \div f) % WordSize \in 0 .. WordSize - 1
    BY <1>1, <2>1
  <2> QED
    BY <1>2, <2>2 DEF Interval
<1>3. CASE ~(f > 0)
  <2>1. -f \in Int /\ -f > 0
    BY <1>1, <1>3
  <2>2. Fastest \div (-f) \in Int
    BY <1>1, <2>1
  <2>3. (-(Fastest \div (-f))) % WordSize \in 0 .. WordSize - 1
    BY <1>1, <2>2
  <2> QED
    BY <1>3, <2>3 DEF Interval
<1> QED
  BY <1>2, <1>3

(* One interrupt leaves every counter an unsigned word.                       *)
LEMMA CountedType ==
    ASSUME TypeOK, NEW t \in Terminals
    PROVE  Counted(t) \in 0 .. WordSize - 1
BY RtcAssumption DEF TypeOK, Counted

(* Every step of the clock keeps the types.                                   *)
LEMMA TypeStep == TypeOK /\ [Next]_vars => TypeOK'
<1> SUFFICES ASSUME TypeOK, [Next]_vars
             PROVE  TypeOK'
  OBVIOUS
<1> USE RtcAssumption
<1>1. CASE DeviceTick
  BY <1>1 DEF DeviceTick, TypeOK
<1>2. CASE rtc_interrupt_handler
  <2>1. rtc_counter' \in [Terminals -> 0 .. WordSize - 1]
    BY <1>2, CountedType DEF rtc_interrupt_handler
  <2>2. waited' \in [Terminals -> 0 .. WordSize - 1]
    <3> SUFFICES ASSUME NEW t \in Terminals
                 PROVE  (IF pc[t] = "reading" /\ waited[t] < rtc_interval[t]
                         THEN waited[t] + 1 ELSE waited[t]) \in 0 .. WordSize - 1
      BY <1>2 DEF rtc_interrupt_handler
    <3> QED
      BY DEF TypeOK
  <2> QED
    BY <1>2, <2>1, <2>2 DEF rtc_interrupt_handler, TypeOK
<1>3. CASE Open
  BY <1>3 DEF Open, TypeOK, Place
<1>4. CASE OpenReturns
  BY <1>4 DEF OpenReturns, CounterReset, TypeOK, Place
<1>5. CASE WriteZero
  BY <1>5 DEF WriteZero, TypeOK, Place
<1>6. CASE WriteReturns
  BY <1>6 DEF WriteReturns, CounterReset, TypeOK, Place
<1>7. CASE Read
  BY <1>7 DEF Read, CounterReset, TypeOK, Place
<1>8. ASSUME NEW f \in Frequencies, Write(f)
      PROVE  TypeOK'
  <2>1. Interval(f) \in 0 .. WordSize - 1
    BY <1>8, IntervalType DEF Write
  <2> QED
    BY <1>8, <2>1 DEF Write, TypeOK, Place
<1>9. ASSUME NEW t \in Terminals, ReadReturns(t)
      PROVE  TypeOK'
  BY <1>9 DEF ReadReturns, TypeOK, Place
<1>10. CASE PITTick
  <2>1. current_terminal' \in Terminals
    BY <1>10 DEF PITTick, TypeOK, Terminals
  <2> QED
    BY <1>10, <2>1 DEF PITTick, TypeOK
<1>11. CASE UNCHANGED vars
  BY <1>11 DEF vars, TypeOK
<1> QED
  BY <1>1, <1>2, <1>3, <1>4, <1>5, <1>6, <1>7, <1>8, <1>9, <1>10, <1>11 DEF Next

(* Every variable of the clock driver keeps its type: in particular intervals *)
(* and counters stay in a word, negative frequencies included.                *)
THEOREM TypeCorrect == Spec => []TypeOK
<1>1. Init => TypeOK
  BY RtcAssumption DEF Init, TypeOK, Terminals, Place
<1> QED
  BY <1>1, TypeStep, PTL DEF Spec

(* Every step of the clock keeps the count of a reading program.              *)
LEMMA CountStep == TypeOK /\ CountsItsOwnWait /\ [Next]_vars => CountsItsOwnWait'
<1> SUFFICES ASSUME TypeOK, CountsItsOwnWait, [Next]_vars,
                    NEW t \in Terminals, pc'[t] = "reading"
             PROVE  waited'[t] = rtc_counter'[t] /\ rtc_counter'[t] <= rtc_interval'[t]
  BY DEF CountsItsOwnWait
<1> USE RtcAssumption
<1>1. CASE DeviceTick \/ PITTick \/ UNCHANGED vars
  BY <1>1 DEF DeviceTick, PITTick, vars, CountsItsOwnWait
<1>2. CASE rtc_interrupt_handler
  <2>1. waited[t] = rtc_counter[t] /\ rtc_counter[t] <= rtc_interval[t] /\ pc[t] = "reading"
    BY <1>2 DEF rtc_interrupt_handler, CountsItsOwnWait
  <2>2. /\ rtc_counter'[t] = Counted(t) /\ rtc_interval' = rtc_interval
        /\ waited'[t] = IF waited[t] < rtc_interval[t] THEN waited[t] + 1 ELSE waited[t]
    BY <1>2, <2>1 DEF rtc_interrupt_handler
  <2> QED
    BY <2>1, <2>2 DEF Counted, TypeOK
<1>3. CASE Read
  <2>1. CASE t = current_terminal
    BY <1>3, <2>1 DEF Read, CounterReset, TypeOK
  <2>2. CASE t # current_terminal
    BY <1>3, <2>2 DEF Read, CounterReset, TypeOK, CountsItsOwnWait
  <2> QED
    BY <2>1, <2>2
<1>4. CASE Open \/ OpenReturns \/ WriteZero \/ WriteReturns
  <2>1. t # current_terminal /\ pc[t] = "reading"
    BY <1>4 DEF Open, OpenReturns, WriteZero, WriteReturns, TypeOK
  <2> QED
    BY <1>4, <2>1 DEF Open, OpenReturns, WriteZero, WriteReturns, CounterReset, TypeOK,
                      CountsItsOwnWait
<1>5. ASSUME NEW f \in Frequencies, Write(f)
      PROVE  waited'[t] = rtc_counter'[t] /\ rtc_counter'[t] <= rtc_interval'[t]
  <2>1. t # current_terminal /\ pc[t] = "reading"
    BY <1>5 DEF Write, TypeOK
  <2> QED
    BY <1>5, <2>1 DEF Write, TypeOK, CountsItsOwnWait
<1>6. ASSUME NEW u \in Terminals, ReadReturns(u)
      PROVE  waited'[t] = rtc_counter'[t] /\ rtc_counter'[t] <= rtc_interval'[t]
  <2>1. t # u /\ pc[t] = "reading"
    BY <1>6 DEF ReadReturns, TypeOK
  <2> QED
    BY <1>6, <2>1 DEF ReadReturns, TypeOK, CountsItsOwnWait
<1> QED
  BY <1>1, <1>2, <1>3, <1>4, <1>5, <1>6 DEF Next

(* A read in progress has counted exactly the interrupts since it began,      *)
(* whatever happens on the other terminals (rtc_read, rtc_interrupt_handler). *)
THEOREM ReadsCountTheirOwn == Spec => []CountsItsOwnWait
<1>1. Init => CountsItsOwnWait
  BY DEF Init, CountsItsOwnWait
<1> QED
  BY <1>1, CountStep, TypeCorrect, PTL DEF Spec
=============================================================================
