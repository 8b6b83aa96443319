-------------------------- MODULE InterruptsProofs --------------------------
(* Theorems about Interrupts, for any number of terminals, any depth of       *)
(* nesting and in the window of HazardKinds.                                  *)
EXTENDS Interrupts, SequenceTheorems, TLAPS

(* Frame k of flow f is a handler that has not acknowledged its interrupt.    *)
Debt(f, k) == k \in DOMAIN nested[f] /\ Owes(f, k)

(* The lines in service are those of the debts, one debt for each line.       *)
ServiceInv ==
    /\ \A l : l \in isr <=> \E f \in Flow, k \in Nat : Debt(f, k) /\ l \in LinesOf(nested[f][k].irq)
    /\ \A f, g \in Flow, j, k \in Nat :
          Debt(f, j) /\ Debt(g, k) /\ nested[f][j].irq = nested[g][k].irq => f = g /\ j = k

(* An exception is the outermost frame of its flow; a tick that has passed the*)
(* processor on is the innermost one, of a flow off the processor.            *)
StackInv ==
    \A f \in Flow : \A k \in DOMAIN nested[f] :
        /\ nested[f][k].irq = EXC => k = 1 /\ nested[f][k].stage = "on"
        /\ nested[f][k].stage = "switched" =>
              nested[f][k] = Switched /\ k = Len(nested[f]) /\ f # current_terminal

(* Which flow executes, and what the others are suspended in.                 *)
FlowInv ==
    /\ current_terminal = BOOT <=> Lebron_FMVP_count = 0
    /\ Lebron_FMVP_count \in 1 .. BootTicks - 1 => current_terminal = Lebron_FMVP_count - 1
    /\ \A t \in Terminals :
          /\ t >= Lebron_FMVP_count => nested[t] = <<>>
          /\ t < Lebron_FMVP_count /\ t # current_terminal =>
                nested[t] # <<>> /\ nested[t][Len(nested[t])] = Switched

(* How far the boot is.                                                       *)
BootInv ==
    /\ ~cli => booted >= 2
    /\ PIT \notin imr /\ booted >= 2 => booted = Len(BootSteps)
    /\ Lebron_FMVP_count > 0 => booted = Len(BootSteps)
    /\ \A f \in Flow : \A k \in DOMAIN nested[f] :
          /\ booted >= 2
          /\ nested[f][k].irq = PIT => booted = Len(BootSteps)

IntInv == TypeOK /\ StackInv /\ FlowInv /\ BootInv /\ ServiceInv
-----------------------------------------------------------------------------
(* Pushing, popping and replacing the innermost frame of a stack.             *)
LEMMA Appended ==
    ASSUME NEW s \in Seq(Frame), NEW x \in Frame
    PROVE  /\ Append(s, x) \in Seq(Frame)
           /\ Append(s, x) # <<>>
           /\ Len(s) \in Nat
           /\ DOMAIN s = 1 .. Len(s)
           /\ Len(Append(s, x)) = Len(s) + 1
           /\ DOMAIN Append(s, x) = 1 .. Len(s) + 1
           /\ \A k \in 1 .. Len(s) : Append(s, x)[k] = s[k]
           /\ Append(s, x)[Len(s) + 1] = x
<1>1. /\ Append(s, x) \in Seq(Frame)
      /\ Len(s) \in Nat
      /\ DOMAIN s = 1 .. Len(s)
      /\ Len(Append(s, x)) = Len(s) + 1
      /\ \A k \in 1 .. Len(s) : Append(s, x)[k] = s[k]
      /\ Append(s, x)[Len(s) + 1] = x
  OBVIOUS
<1>2. DOMAIN Append(s, x) = 1 .. Len(s) + 1
  BY <1>1, LenProperties
<1>3. Append(s, x) # <<>>
  BY <1>1
<1> QED
  BY <1>1, <1>2, <1>3

(* The stack without its innermost frame.                                     *)
LEMMA FrontOf ==
    ASSUME NEW s \in Seq(Frame), s # <<>>
    PROVE  /\ Len(s) \in Nat \ {0}
           /\ DOMAIN s = 1 .. Len(s)
           /\ s[Len(s)] \in Frame
           /\ Front(s) \in Seq(Frame)
           /\ Len(Front(s)) = Len(s) - 1
           /\ DOMAIN Front(s) = 1 .. Len(s) - 1
           /\ \A k \in 1 .. Len(s) - 1 : Front(s)[k] = s[k]
<1>1. Len(s) \in Nat \ {0} /\ DOMAIN s = 1 .. Len(s) /\ s[Len(s)] \in Frame
  OBVIOUS
<1> DEFINE n == Len(s) - 1
<1>2. n \in Nat /\ \A k \in 1 .. n : s[k] \in Frame
  BY <1>1
<1>3. Front(s) = SubSeq(s, 1, n)
  BY DEF Front
<1> HIDE DEF n
<1>4. /\ SubSeq(s, 1, n) \in Seq(Frame)
      /\ Len(SubSeq(s, 1, n)) = IF 1 <= n THEN n - 1 + 1 ELSE 0
      /\ \A k \in 1 .. n - 1 + 1 : SubSeq(s, 1, n)[k] = s[1 + k - 1]
  BY <1>2, SubSeqProperties
<1>5. Len(SubSeq(s, 1, n)) = n
  BY <1>2, <1>4
<1>6. DOMAIN SubSeq(s, 1, n) = 1 .. n
  BY <1>4, <1>5, LenProperties
<1>7. \A k \in 1 .. n : SubSeq(s, 1, n)[k] = s[k]
  BY <1>2, <1>4
<1> QED
  BY <1>1, <1>3, <1>4, <1>5, <1>6, <1>7 DEF n

(* The stack with another innermost frame.                                    *)
LEMMA Replaced ==
    ASSUME NEW s \in Seq(Frame), s # <<>>, NEW x \in Frame
    PROVE  /\ Append(Front(s), x) \in Seq(Frame)
           /\ Append(Front(s), x) # <<>>
           /\ Len(Append(Front(s), x)) = Len(s)
           /\ DOMAIN Append(Front(s), x) = 1 .. Len(s)
           /\ \A k \in 1 .. Len(s) - 1 : Append(Front(s), x)[k] = s[k]
           /\ Append(Front(s), x)[Len(s)] = x
<1> DEFINE r == Front(s)
<1>1. /\ Len(s) \in Nat \ {0}
      /\ r \in Seq(Frame)
      /\ Len(r) = Len(s) - 1
      /\ \A k \in 1 .. Len(s) - 1 : r[k] = s[k]
  BY FrontOf
<1> HIDE DEF r
<1>2. /\ Append(r, x) \in Seq(Frame)
      /\ Append(r, x) # <<>>
      /\ Len(Append(r, x)) = Len(r) + 1
      /\ DOMAIN Append(r, x) = 1 .. Len(r) + 1
      /\ \A k \in 1 .. Len(r) : Append(r, x)[k] = r[k]
      /\ Append(r, x)[Len(r) + 1] = x
  BY <1>1, Appended
<1>3. Len(r) + 1 = Len(s)
  BY <1>1
<1>4. \A k \in 1 .. Len(s) - 1 : Append(r, x)[k] = s[k]
  BY <1>1, <1>2
<1>5. /\ Append(r, x) \in Seq(Frame)
      /\ Append(r, x) # <<>>
      /\ Len(Append(r, x)) = Len(s)
      /\ DOMAIN Append(r, x) = 1 .. Len(s)
      /\ Append(r, x)[Len(s)] = x
  BY <1>2, <1>3
<1> QED
  BY <1>4, <1>5 DEF r

(* The stack of the flow that executes.                                       *)
LEMMA TopType ==
    ASSUME TypeOK
    PROVE  /\ current_terminal \in Flow
           /\ nested[current_terminal] \in Seq(Frame)
           /\ Len(nested[current_terminal]) \in Nat
           /\ DOMAIN nested[current_terminal] = 1 .. Len(nested[current_terminal])
           /\ ~Idle => /\ Len(nested[current_terminal]) >= 1
                       /\ Top = nested[current_terminal][Len(nested[current_terminal])]
                       /\ Top \in Frame
<1>1. current_terminal \in Flow /\ nested[current_terminal] \in Seq(Frame)
  BY DEF TypeOK
<1> QED
  BY <1>1, FrontOf DEF Idle, Top, Last

(* A debt is a frame of Frame.                                                *)
LEMMA DebtType ==
    ASSUME TypeOK, NEW f \in Flow, NEW k, k \in DOMAIN nested[f]
    PROVE  /\ k \in Nat \ {0} /\ nested[f][k] \in Frame
           /\ nested[f][k].irq \in Devices \cup {EXC}
           /\ nested[f][k].stage \in {"off", "on", "switched"}
<1>1. nested[f] \in Seq(Frame)
  BY DEF TypeOK
<1>2. k \in Nat \ {0} /\ nested[f][k] \in Frame
  BY <1>1
<1> QED
  BY <1>2 DEF Frame

(* No two devices share a line.                                               *)
LEMMA LinesDiffer ==
    \A p, q \in Devices : p # q => LinesOf(p) \cap LinesOf(q) = {}
BY DEF LinesOf, Devices, PIT, KBD, RTC, CASCADE
-----------------------------------------------------------------------------
(* An acknowledgement pays one debt.                                          *)
LEMMA DebtPaid ==
    ASSUME TypeOK, ServiceInv, NEW c \in Flow, NEW n \in Nat, Debt(c, n),
           isr' = AfterEoi(nested[c][n].irq),
           \A f \in Flow, k \in Nat : Debt(f, k)' <=> Debt(f, k) /\ ~(f = c /\ k = n),
           \A f \in Flow, k \in Nat : Debt(f, k)' => nested'[f][k].irq = nested[f][k].irq
    PROVE  ServiceInv'
<1>1. \A f \in Flow, k \in Nat : Debt(f, k) => nested[f][k].irq \in Devices
  BY DebtType DEF Debt, Owes
<1>2. \A f \in Flow, k \in Nat : Debt(f, k)' =>
          LinesOf(nested[f][k].irq) \cap LinesOf(nested[c][n].irq) = {}
  BY <1>1, LinesDiffer DEF ServiceInv
<1>3. \A l : l \in isr' <=> l \in isr /\ l \notin LinesOf(nested[c][n].irq)
  BY DEF AfterEoi
<1>4. ASSUME NEW l
      PROVE  l \in isr' <=> \E f \in Flow, k \in Nat : Debt(f, k)' /\ l \in LinesOf(nested'[f][k].irq)
  <2>1. ASSUME l \in isr'
        PROVE  \E f \in Flow, k \in Nat : Debt(f, k)' /\ l \in LinesOf(nested'[f][k].irq)
    <3>1. PICK f \in Flow, k \in Nat : Debt(f, k) /\ l \in LinesOf(nested[f][k].irq)
      BY <1>3, <2>1 DEF ServiceInv
    <3>2. ~(f = c /\ k = n)
      BY <1>3, <2>1, <3>1
    <3> QED
      BY <3>1, <3>2
  <2>2. ASSUME NEW f \in Flow, NEW k \in Nat, Debt(f, k)', l \in LinesOf(nested'[f][k].irq)
        PROVE  l \in isr'
    <3>1. Debt(f, k) /\ l \in LinesOf(nested[f][k].irq)
      BY <2>2
    <3>2. l \in isr
      BY <3>1 DEF ServiceInv
    <3> QED
      BY <1>2, <1>3, <2>2, <3>1, <3>2
  <2> QED
    BY <2>1, <2>2
<1>5. \A f, g \in Flow, j, k \in Nat :
          Debt(f, j)' /\ Debt(g, k)' /\ nested'[f][j].irq = nested'[g][k].irq => f = g /\ j = k
  BY DEF ServiceInv
<1> QED
  BY <1>4, <1>5 DEF ServiceInv

(* A delivery incurs one.                                                     *)
LEMMA DebtIncurred ==
    ASSUME TypeOK, ServiceInv, NEW c \in Flow, NEW n \in Nat, NEW irq \in Devices,
           Debt(c, n)', ~Debt(c, n), nested'[c][n].irq = irq,
           LinesOf(irq) \cap isr = {},
           isr' = isr \cup LinesOf(irq),
           \A f \in Flow, k \in Nat : Debt(f, k)' <=> Debt(f, k) \/ (f = c /\ k = n),
           \A f \in Flow, k \in Nat : Debt(f, k) => nested'[f][k].irq = nested[f][k].irq
    PROVE  ServiceInv'
<1>1. irq \in LinesOf(irq)
  BY DEF LinesOf
<1>2. \A f \in Flow, k \in Nat : Debt(f, k) => LinesOf(nested[f][k].irq) \subseteq isr
  BY DEF ServiceInv
<1>3. \A f \in Flow, k \in Nat : Debt(f, k) => nested[f][k].irq # irq
  BY <1>1, <1>2
<1>4. ASSUME NEW l
      PROVE  l \in isr' <=> \E f \in Flow, k \in Nat : Debt(f, k)' /\ l \in LinesOf(nested'[f][k].irq)
  <2>1. ASSUME l \in isr'
        PROVE  \E f \in Flow, k \in Nat : Debt(f, k)' /\ l \in LinesOf(nested'[f][k].irq)
    <3>1. CASE l \in isr
      <4>1. PICK f \in Flow, k \in Nat : Debt(f, k) /\ l \in LinesOf(nested[f][k].irq)
        BY <3>1 DEF ServiceInv
      <4> QED
        BY <4>1
    <3>2. CASE l \in LinesOf(irq)
      BY <3>2
    <3> QED
      BY <2>1, <3>1, <3>2
  <2>2. ASSUME NEW f \in Flow, NEW k \in Nat, Debt(f, k)', l \in LinesOf(nested'[f][k].irq)
        PROVE  l \in isr'
    <3>1. CASE f = c /\ k = n
      BY <2>2, <3>1
    <3>2. CASE ~(f = c /\ k = n)
      <4>1. Debt(f, k) /\ l \in LinesOf(nested[f][k].irq)
        BY <2>2, <3>2
      <4> QED
        BY <1>2, <4>1
    <3> QED
      BY <3>1, <3>2
  <2> QED
    BY <2>1, <2>2
<1>5. \A f, g \in Flow, j, k \in Nat :
          Debt(f, j)' /\ Debt(g, k)' /\ nested'[f][j].irq = nested'[g][k].irq => f = g /\ j = k
  BY <1>3 DEF ServiceInv
<1> QED
  BY <1>4, <1>5 DEF ServiceInv

(* A step that leaves the debts and the lines in service alone.               *)
LEMMA DebtsKept ==
    ASSUME ServiceInv, isr' = isr,
           \A f \in Flow, k \in Nat : Debt(f, k)' <=> Debt(f, k),
           \A f \in Flow, k \in Nat : Debt(f, k) => nested'[f][k].irq = nested[f][k].irq
    PROVE  ServiceInv'
<1>1. ASSUME NEW l
      PROVE  l \in isr' <=> \E f \in Flow, k \in Nat : Debt(f, k)' /\ l \in LinesOf(nested'[f][k].irq)
  BY DEF ServiceInv
<1>2. \A f, g \in Flow, j, k \in Nat :
          Debt(f, j)' /\ Debt(g, k)' /\ nested'[f][j].irq = nested'[g][k].irq => f = g /\ j = k
  BY DEF ServiceInv
<1> QED
  BY <1>1, <1>2 DEF ServiceInv
-----------------------------------------------------------------------------
(* The steps of the boot that matter.                                         *)
LEMMA BootStepsAre ==
    /\ Len(BootSteps) = 10
    /\ \A k \in 1 .. 10 : /\ BootSteps[k] = "i8259_init" <=> k = 2
                          /\ BootSteps[k] = "PIT_init" <=> k = 10
                          /\ BootSteps[k] = "initialize_IDT" <=> k = 1
BY DEF BootSteps

(* At boot nothing is nested and nothing in service.                          *)
LEMMA InitInv == Init => IntInv
<1> SUFFICES ASSUME Init PROVE IntInv
  OBVIOUS
<1>1. TypeOK
  <2>1. nested \in [Flow -> Seq(Frame)]
    <3>1. <<>> \in Seq(Frame)
      OBVIOUS
    <3>2. nested = [f \in Flow |-> <<>>]
      BY DEF Init
    <3> QED
      BY <3>1, <3>2
  <2>2. /\ booted \in 0 .. Len(BootSteps)
        /\ Lebron_FMVP_count \in 0 .. NumTerminals
    BY InterruptsAssumption, BootStepsAre DEF Init
  <2>3. current_terminal \in Flow
    BY DEF Init, Flow
  <2>4. /\ imr \subseteq Lines /\ irr \subseteq Devices /\ isr \subseteq Lines
        /\ register_c \in BOOLEAN /\ output_full \in BOOLEAN /\ cli \in BOOLEAN
    BY DEF Init
  <2> QED
    BY <2>1, <2>2, <2>3, <2>4 DEF TypeOK
<1>2. StackInv
  BY DEF Init, StackInv
<1>3. FlowInv
  <2>1. \A t \in Terminals : nested[t] = <<>> /\ t >= 0 /\ ~(t < 0)
    BY DEF Init, Flow, Terminals
  <2> QED
    BY <2>1 DEF Init, FlowInv
<1>4. BootInv
  BY BootStepsAre DEF Init, BootInv
<1>5. ServiceInv
  BY DEF Init, ServiceInv, Debt
<1> QED
  BY <1>1, <1>2, <1>3, <1>4, <1>5 DEF IntInv

(* A step that changes no stack and no line in service.                       *)
LEMMA StacksKept ==
    ASSUME IntInv, UNCHANGED <<isr, nested, current_terminal, Lebron_FMVP_count>>
    PROVE  StackInv' /\ FlowInv' /\ ServiceInv'
<1>1. StackInv'
  BY DEF IntInv, StackInv
<1>2. FlowInv'
  BY DEF IntInv, FlowInv
<1>3. \A f \in Flow, k \in Nat : Debt(f, k)' <=> Debt(f, k)
  BY DEF Debt, Owes
<1>4. ServiceInv'
  BY <1>3, DebtsKept DEF IntInv
<1> QED
  BY <1>1, <1>2, <1>4

(* The steps of kernel.c:entry: the timer's line is the last to be unmasked.  *)
LEMMA BootStep == ASSUME IntInv, Boot PROVE IntInv'
<1>1. booted \in 0 .. 9 /\ booted' = booted + 1 /\ Len(BootSteps) = 10
  BY BootStepsAre DEF IntInv, TypeOK, Boot
<1>2. imr' \subseteq Lines
  BY DEF IntInv, TypeOK, Boot, MaskAfterInit, enable_irq
<1>3. TypeOK'
  BY <1>1, <1>2 DEF IntInv, TypeOK, Boot, deviceVars
<1>4. Lebron_FMVP_count = 0 /\ Lebron_FMVP_count' = 0
  BY DEF IntInv, FlowInv, Boot
<1>5. ~cli' => booted' >= 2
  <2>1. CASE cli
    <3>1. ~cli' => BootSteps[booted + 1] = "i8259_init"
      BY <2>1 DEF Boot
    <3> QED
      BY <1>1, <3>1, BootStepsAre
  <2>2. CASE ~cli
    BY <1>1, <2>2 DEF IntInv, BootInv
  <2> QED
    BY <2>1, <2>2
<1>6. PIT \notin imr' /\ booted' >= 2 => booted' = 10
  <2>1. CASE BootSteps[booted + 1] = "i8259_init"
    BY <2>1 DEF Boot, MaskAfterInit, Lines, Devices, PIT, CASCADE
  <2>2. CASE BootSteps[booted + 1] = "PIT_init"
    BY <1>1, <2>2, BootStepsAre
  <2>3. CASE BootSteps[booted + 1] \notin {"i8259_init", "PIT_init"}
    <3>1. PIT \notin imr' => PIT \notin imr
      BY <2>3 DEF Boot, enable_irq, PIT, RTC, KBD
    <3>2. booted' >= 2 => booted >= 2
      BY <1>1, <2>3, BootStepsAre
    <3> QED
      BY <1>1, <3>1, <3>2 DEF IntInv, BootInv
  <2> QED
    BY <2>1, <2>2, <2>3
<1>7. \A f \in Flow : nested'[f] = nested[f]
  BY DEF Boot
<1>8. \A f \in Flow : \A k \in DOMAIN nested[f] : booted >= 2 /\ nested[f][k].irq # PIT
  BY <1>1 DEF IntInv, BootInv
<1>9. BootInv'
  BY <1>1, <1>4, <1>5, <1>6, <1>7, <1>8 DEF BootInv
<1> QED
  BY <1>3, <1>9, StacksKept DEF IntInv, Boot

(* Programs that turn interrupts off and on, and devices that ask.            *)
LEMMA DeviceStep ==
    ASSUME IntInv, Cli \/ Sti \/ RaiseTick \/ RaiseKey \/ RaiseRtc
    PROVE  IntInv'
<1>1. /\ UNCHANGED <<booted, imr, isr, nested, current_terminal, Lebron_FMVP_count>>
      /\ irr' \subseteq Devices
      /\ register_c' \in BOOLEAN /\ output_full' \in BOOLEAN /\ cli' \in BOOLEAN
  BY DEF IntInv, TypeOK, Cli, Sti, RaiseTick, RaiseKey, RaiseRtc, picVars, deviceVars, Devices
<1>2. TypeOK'
  BY <1>1 DEF IntInv, TypeOK
<1>3. ~cli' => booted >= 2
  <2>1. CASE Sti
    <3>1. Lebron_FMVP_count > 0
      BY <2>1, InterruptsAssumption DEF Sti, IntInv, FlowInv, TypeOK
    <3> QED
      BY <3>1, BootStepsAre DEF IntInv, BootInv
  <2>2. CASE ~Sti
    BY <2>2 DEF IntInv, BootInv, Cli, RaiseTick, RaiseKey, RaiseRtc
  <2> QED
    BY <2>1, <2>2
<1>4. BootInv'
  BY <1>1, <1>3 DEF IntInv, BootInv
<1> QED
  BY <1>1, <1>2, <1>4, StacksKept DEF IntInv
-----------------------------------------------------------------------------
(* A line that is offered is not in service, nor is the cascade for the RTC.  *)
LEMMA DeliverStep ==
    ASSUME IntInv, NEW irq \in Devices, Deliver(irq)
    PROVE  IntInv'
<1> DEFINE x == [irq |-> irq, stage |-> "off"]
<1>1. TypeOK
  BY DEF IntInv
<1>a. PICK c \in Flow : c = current_terminal
  BY <1>1, TopType
<1>b. PICK n \in Nat : n = Len(nested[c]) + 1
  BY <1>1, <1>a, TopType
<1>2. c \in Flow /\ nested \in [Flow -> Seq(Frame)] /\ nested[c] \in Seq(Frame) /\ x \in Frame
  BY <1>1, <1>a, TopType DEF TypeOK, Frame
<1>3. nested' = [nested EXCEPT ![c] = Append(nested[c], x)]
  BY <1>a DEF Deliver, Push
<1>4. /\ UNCHANGED <<booted, imr, register_c, output_full, cli, current_terminal, Lebron_FMVP_count>>
      /\ isr' = isr \cup LinesOf(irq) /\ irr' \subseteq irr
      /\ ~cli
  BY DEF Deliver, deviceVars, IF_on
<1>5. /\ nested'[c] \in Seq(Frame) /\ nested'[c] # <<>>
      /\ n \in Nat \ {0} /\ Len(nested'[c]) = n
      /\ DOMAIN nested[c] = 1 .. n - 1 /\ DOMAIN nested'[c] = 1 .. n
      /\ \A k \in 1 .. n - 1 : nested'[c][k] = nested[c][k]
      /\ nested'[c][n] = x
  <2>1. nested'[c] = Append(nested[c], x)
    BY <1>2, <1>3
  <2> QED
    BY <1>2, <1>b, <2>1, Appended
<1>6. \A f \in Flow : f # c => nested'[f] = nested[f]
  BY <1>2, <1>3
<1> HIDE DEF x
<1>7. nested' \in [Flow -> Seq(Frame)]
  BY <1>2, <1>3, <1>5
<1>8. TypeOK'
  <2>1. LinesOf(irq) \subseteq Lines
    BY DEF LinesOf, Lines, Devices
  <2> QED
    BY <1>1, <1>4, <1>7, <2>1 DEF TypeOK
<1>9. x.irq = irq /\ x.stage = "off"
  BY DEF x
<1>10. StackInv'
  <2> SUFFICES ASSUME NEW f \in Flow, NEW k \in DOMAIN nested'[f]
               PROVE  /\ nested'[f][k].irq = EXC => k = 1 /\ nested'[f][k].stage = "on"
                      /\ nested'[f][k].stage = "switched" =>
                            nested'[f][k] = Switched /\ k = Len(nested'[f]) /\ f # current_terminal'
    BY DEF StackInv, Switched
  <2>1. CASE f # c
    BY <1>4, <1>6, <1>a, <2>1 DEF IntInv, StackInv
  <2>2. CASE f = c /\ k = n
    BY <1>5, <1>9, <2>2 DEF EXC, Devices, PIT, KBD, RTC
  <2>3. CASE f = c /\ k # n
    <3>1. k \in DOMAIN nested[c] /\ nested'[c][k] = nested[c][k]
      BY <1>5, <2>3
    <3> QED
      BY <1>2, <1>4, <1>a, <2>3, <3>1 DEF IntInv, StackInv
  <2> QED
    BY <2>1, <2>2, <2>3
<1>11. Lebron_FMVP_count > 0 \/ c = BOOT
  BY <1>1, <1>a, InterruptsAssumption DEF IntInv, FlowInv, TypeOK
<1>12. FlowInv'
  <2>1. \A t \in Terminals : t \in Flow /\ (t = c => t < Lebron_FMVP_count)
    <3>1. ASSUME c \in Terminals PROVE c < Lebron_FMVP_count
      BY <3>1, <1>1, <1>a, InterruptsAssumption DEF IntInv, FlowInv, TypeOK, Terminals, BootTicks, BOOT
    <3> QED
      BY <3>1 DEF Flow
  <2>2. \A t \in Terminals : t # c => nested'[t] = nested[t]
    BY <1>6, <2>1
  <2>3. \A t \in Terminals : t >= Lebron_FMVP_count => t # c
    BY <1>1, <2>1 DEF Terminals, TypeOK
  <2> QED
    BY <1>4, <1>a, <2>2, <2>3 DEF IntInv, FlowInv
<1>13. booted >= 2 /\ (irq = PIT => booted = Len(BootSteps))
  BY <1>4 DEF IntInv, BootInv, Deliver, Offered, LinesOf, RTC, PIT
<1>14. BootInv'
  <2> SUFFICES ASSUME NEW f \in Flow, NEW k \in DOMAIN nested'[f]
               PROVE  nested'[f][k].irq = PIT => booted = Len(BootSteps)
    BY <1>4, <1>13 DEF IntInv, BootInv
  <2>1. CASE f = c /\ k = n
    BY <1>5, <1>9, <1>13, <2>1
  <2>2. CASE ~(f = c /\ k = n)
    <3>1. k \in DOMAIN nested[f] /\ nested'[f][k] = nested[f][k]
      BY <1>5, <1>6, <2>2
    <3> QED
      BY <3>1 DEF IntInv, BootInv
  <2> QED
    BY <2>1, <2>2
<1>15. LinesOf(irq) \cap isr = {}
  <2>1. ASSUME NEW s \in isr, s \in LinesOf(irq)
        PROVE  FALSE
    <3>1. s > (IF irq = RTC THEN CASCADE ELSE irq)
      BY DEF Deliver, Offered
    <3>2. CASE irq # RTC
      BY <2>1, <3>1, <3>2 DEF LinesOf, Devices, PIT, KBD, RTC
    <3>3. CASE irq = RTC /\ s = CASCADE
      BY <3>1, <3>3 DEF CASCADE
    <3>4. CASE irq = RTC /\ s = RTC
      \* the debt of the RTC keeps the cascade in service as well
      <4>1. PICK f \in Flow, k \in Nat : Debt(f, k) /\ RTC \in LinesOf(nested[f][k].irq)
        BY <3>4 DEF IntInv, ServiceInv
      <4>2. nested[f][k].irq = RTC
        BY <4>1 DEF LinesOf, RTC, CASCADE
      <4>3. CASCADE \in isr
        <5>1. CASCADE \in LinesOf(nested[f][k].irq)
          BY <4>2 DEF LinesOf
        <5> QED
          BY <4>1, <5>1 DEF IntInv, ServiceInv
      <4>4. CASCADE > CASCADE
        BY <3>4, <4>3 DEF Deliver, Offered
      <4> QED
        BY <4>4 DEF CASCADE
    <3> QED
      BY <2>1, <3>2, <3>3, <3>4 DEF LinesOf
  <2> QED
    BY <2>1
<1>16. \A f \in Flow, k \in Nat : Debt(f, k)' <=> Debt(f, k) \/ (f = c /\ k = n)
  <2> SUFFICES ASSUME NEW f \in Flow, NEW k \in Nat
               PROVE  Debt(f, k)' <=> Debt(f, k) \/ (f = c /\ k = n)
    OBVIOUS
  <2>1. CASE f # c
    BY <1>6, <2>1 DEF Debt, Owes
  <2>2. CASE f = c /\ k = n
    BY <1>5, <1>9, <2>2 DEF Debt, Owes, EXC, Devices, PIT, KBD, RTC
  <2>3. CASE f = c /\ k # n
    BY <1>5, <2>3 DEF Debt, Owes
  <2> QED
    BY <2>1, <2>2, <2>3
<1>17. \A f \in Flow, k \in Nat : Debt(f, k) => nested'[f][k] = nested[f][k]
  BY <1>5, <1>6 DEF Debt
<1>18. ~Debt(c, n)
  BY <1>5 DEF Debt
<1>19. ServiceInv'
  <2>1. Debt(c, n)'
    BY <1>2, <1>5, <1>16
  <2> QED
    BY <1>1, <1>2, <1>4, <1>5, <1>9, <1>15, <1>16, <1>17, <1>18, <2>1, DebtIncurred DEF IntInv
<1> QED
  BY <1>8, <1>10, <1>12, <1>14, <1>19 DEF IntInv
-----------------------------------------------------------------------------
(* What the top frame of the flow that executes is: no tick that has passed   *)
(* the processor on.                                                          *)
LEMMA TopFacts ==
    ASSUME IntInv, ~Idle
    PROVE  /\ current_terminal \in Flow
           /\ Len(nested[current_terminal]) \in Nat \ {0}
           /\ nested[current_terminal] \in Seq(Frame)
           /\ DOMAIN nested[current_terminal] = 1 .. Len(nested[current_terminal])
           /\ Top = nested[current_terminal][Len(nested[current_terminal])]
           /\ Top \in Frame
           /\ Top.stage # "switched"
           /\ Top.irq # EXC => Debt(current_terminal, Len(nested[current_terminal]))
<1>1. TypeOK
  BY DEF IntInv
<1>2. /\ current_terminal \in Flow
      /\ nested[current_terminal] \in Seq(Frame)
      /\ Len(nested[current_terminal]) \in Nat
      /\ DOMAIN nested[current_terminal] = 1 .. Len(nested[current_terminal])
      /\ Len(nested[current_terminal]) >= 1
      /\ Top = nested[current_terminal][Len(nested[current_terminal])]
      /\ Top \in Frame
  BY <1>1, TopType
<1>3. Top.stage # "switched"
  BY <1>2 DEF IntInv, StackInv
<1> QED
  BY <1>2, <1>3 DEF Debt, Owes

(* A frame of the flow that executes changes into another one of the same     *)
(* interrupt that has still to acknowledge it.                                *)
LEMMA KeyEchoedStep == ASSUME IntInv, KeyEchoed PROVE IntInv'
<1> DEFINE x == [irq |-> KBD, stage |-> "on"]
<1>1. TypeOK /\ ~Idle /\ Top = [irq |-> KBD, stage |-> "off"]
  BY DEF IntInv, KeyEchoed
<1>a. PICK c \in Flow : c = current_terminal
  BY <1>1, TopFacts
<1>b. PICK n \in Nat \ {0} : n = Len(nested[c])
  BY <1>1, <1>a, TopFacts
<1>2. /\ nested \in [Flow -> Seq(Frame)] /\ nested[c] \in Seq(Frame) /\ nested[c] # <<>>
      /\ x \in Frame /\ DOMAIN nested[c] = 1 .. n
      /\ nested[c][n] = [irq |-> KBD, stage |-> "off"]
      /\ Debt(c, n)
  BY <1>1, <1>a, <1>b, TopFacts DEF TypeOK, Frame, Devices, Idle, KBD, EXC
<1>3. nested' = [nested EXCEPT ![c] = Append(Front(nested[c]), x)]
  <2>1. [Top EXCEPT !.stage = "on"] = x
    BY <1>1
  <2>2. nested' = [nested EXCEPT ![c] = Append(Front(nested[c]), [Top EXCEPT !.stage = "on"])]
    BY <1>a DEF KeyEchoed
  <2> QED
    BY <2>1, <2>2
<1> HIDE DEF x
<1>4. /\ UNCHANGED <<booted, imr, irr, isr, register_c, cli, current_terminal, Lebron_FMVP_count>>
      /\ output_full' = FALSE
  BY DEF KeyEchoed, picVars
<1>5. /\ nested'[c] \in Seq(Frame) /\ nested'[c] # <<>>
      /\ Len(nested'[c]) = n /\ DOMAIN nested'[c] = 1 .. n
      /\ \A k \in 1 .. n - 1 : nested'[c][k] = nested[c][k]
      /\ nested'[c][n] = x
  <2>1. nested'[c] = Append(Front(nested[c]), x)
    BY <1>2, <1>3
  <2> DEFINE r == Append(Front(nested[c]), x)
  <2>2. /\ r \in Seq(Frame) /\ r # <<>>
        /\ Len(r) = n /\ DOMAIN r = 1 .. n
        /\ \A k \in 1 .. n - 1 : r[k] = nested[c][k]
        /\ r[n] = x
    BY <1>2, <1>b, Replaced
  <2> HIDE DEF r
  <2> QED
    BY <2>1, <2>2 DEF r
<1>6. \A f \in Flow : f # c => nested'[f] = nested[f]
  BY <1>2, <1>3
<1>7. TypeOK'
  <2>1. nested' \in [Flow -> Seq(Frame)]
    BY <1>2, <1>3, <1>5
  <2> QED
    BY <1>1, <1>4, <2>1 DEF TypeOK
<1>8. x.irq = KBD /\ x.stage = "on"
  BY DEF x
<1>9. \A f \in Flow : DOMAIN nested'[f] = DOMAIN nested[f] /\ Len(nested'[f]) = Len(nested[f])
  BY <1>2, <1>b, <1>5, <1>6
<1>10. \A f \in Flow : \A k \in DOMAIN nested[f] :
           \/ nested'[f][k] = nested[f][k] /\ ~(f = c /\ k = n)
           \/ f = c /\ k = n /\ nested'[f][k] = x
  BY <1>2, <1>5, <1>6
<1>11. StackInv'
  BY <1>4, <1>8, <1>9, <1>10 DEF IntInv, StackInv, Switched, EXC, KBD
<1>12. FlowInv'
  <2>1. \A t \in Terminals : t # c => nested'[t] = nested[t]
    BY <1>6 DEF Flow
  <2>2. \A t \in Terminals : t >= Lebron_FMVP_count => t # c
    BY <1>2 DEF IntInv, FlowInv
  <2> QED
    BY <1>4, <1>a, <2>1, <2>2 DEF IntInv, FlowInv
<1>13. BootInv'
  BY <1>4, <1>8, <1>9, <1>10 DEF IntInv, BootInv, PIT, KBD
<1>14. ServiceInv'
  <2>1. \A f \in Flow, k \in Nat : Debt(f, k)' <=> Debt(f, k)
    BY <1>2, <1>8, <1>9, <1>10 DEF Debt, Owes, EXC, KBD
  <2>2. \A f \in Flow, k \in Nat : Debt(f, k) => nested'[f][k].irq = nested[f][k].irq
    BY <1>2, <1>8, <1>10 DEF Debt
  <2> QED
    BY <1>4, <2>1, <2>2, DebtsKept DEF IntInv
<1> QED
  BY <1>7, <1>11, <1>12, <1>13, <1>14 DEF IntInv

(* A handler that acknowledges its interrupt and returns.                     *)
LEMMA ReturnStep ==
    ASSUME IntInv, rtc_interrupt_handler \/ KeyDone
    PROVE  IntInv'
<1>1. TypeOK /\ ~Idle /\ Top.irq \in Devices
  BY DEF IntInv, rtc_interrupt_handler, KeyDone, Devices
<1>a. PICK c \in Flow : c = current_terminal
  BY <1>1, TopFacts
<1>b. PICK n \in Nat \ {0} : n = Len(nested[c])
  BY <1>1, <1>a, TopFacts
<1>2. /\ nested \in [Flow -> Seq(Frame)] /\ nested[c] \in Seq(Frame) /\ nested[c] # <<>>
      /\ DOMAIN nested[c] = 1 .. n
      /\ nested[c][n] = Top
      /\ Debt(c, n)
  BY <1>1, <1>a, <1>b, TopFacts DEF TypeOK, Devices, Idle, KBD, EXC, PIT, RTC
<1>3. /\ nested' = [nested EXCEPT ![c] = Front(nested[c])]
      /\ isr' = AfterEoi(nested[c][n].irq)
      /\ UNCHANGED <<booted, imr, irr, cli, current_terminal, Lebron_FMVP_count>>
  BY <1>2, <1>a DEF rtc_interrupt_handler, KeyDone, Pop
<1>4. register_c' \in BOOLEAN /\ output_full' \in BOOLEAN
  BY <1>1 DEF rtc_interrupt_handler, KeyDone, TypeOK, RegisterCAfterHandler
<1>5. /\ nested'[c] \in Seq(Frame)
      /\ Len(nested'[c]) = n - 1 /\ DOMAIN nested'[c] = 1 .. n - 1
      /\ \A k \in 1 .. n - 1 : nested'[c][k] = nested[c][k]
  <2>1. nested'[c] = Front(nested[c])
    BY <1>2, <1>3
  <2> QED
    BY <1>2, <1>b, <2>1, FrontOf
<1>6. \A f \in Flow : f # c => nested'[f] = nested[f]
  BY <1>2, <1>3
<1>7. TypeOK'
  <2>1. nested' \in [Flow -> Seq(Frame)]
    BY <1>2, <1>3, <1>5
  <2>2. isr' \subseteq Lines
    BY <1>1, <1>3 DEF TypeOK, AfterEoi
  <2> QED
    BY <1>1, <1>3, <1>4, <2>1, <2>2 DEF TypeOK
<1>8. \A f \in Flow : \A k \in DOMAIN nested'[f] :
          k \in DOMAIN nested[f] /\ nested'[f][k] = nested[f][k] /\ ~(f = c /\ k = n)
  BY <1>2, <1>5, <1>6
<1>9. StackInv'
  BY <1>3, <1>6, <1>8, <1>a DEF IntInv, StackInv, Switched
<1>10. FlowInv'
  <2>1. \A t \in Terminals : t # c => nested'[t] = nested[t]
    BY <1>6 DEF Flow
  <2>2. \A t \in Terminals : t >= Lebron_FMVP_count => t # c
    BY <1>2 DEF IntInv, FlowInv
  <2> QED
    BY <1>3, <1>a, <2>1, <2>2 DEF IntInv, FlowInv
<1>11. BootInv'
  BY <1>3, <1>8 DEF IntInv, BootInv
<1>12. ServiceInv'
  <2>1. \A f \in Flow, k \in Nat : Debt(f, k)' <=> Debt(f, k) /\ ~(f = c /\ k = n)
    <3> SUFFICES ASSUME NEW f \in Flow, NEW k \in Nat
                 PROVE  Debt(f, k)' <=> Debt(f, k) /\ ~(f = c /\ k = n)
      OBVIOUS
    <3>1. k \in DOMAIN nested'[f] <=> k \in DOMAIN nested[f] /\ ~(f = c /\ k = n)
      BY <1>2, <1>5, <1>6
    <3> QED
      BY <1>8, <3>1 DEF Debt, Owes
  <2>2. \A f \in Flow, k \in Nat : Debt(f, k)' => nested'[f][k].irq = nested[f][k].irq
    BY <1>8 DEF Debt
  <2> QED
    BY <1>1, <1>2, <1>3, <2>1, <2>2, DebtPaid DEF IntInv
<1> QED
  BY <1>7, <1>9, <1>10, <1>11, <1>12 DEF IntInv

(* An exception, whose frame is the only one of its flow.                     *)
LEMMA ExceptionStep == ASSUME IntInv, Exception PROVE IntInv'
<1> DEFINE x == [irq |-> EXC, stage |-> "on"]
<1>1. TypeOK /\ Idle
  BY DEF IntInv, Exception
<1>a. PICK c \in Flow : c = current_terminal
  BY <1>1, TopType
<1>2. /\ nested \in [Flow -> Seq(Frame)] /\ nested[c] = <<>> /\ x \in Frame /\ c # BOOT
  BY <1>1, <1>a DEF TypeOK, Frame, Idle, Exception
<1>3. nested' = [nested EXCEPT ![c] = Append(<<>>, x)]
  BY <1>2, <1>a DEF Exception, Push
<1> HIDE DEF x
<1>4. UNCHANGED <<booted, imr, irr, isr, register_c, output_full, cli, current_terminal, Lebron_FMVP_count>>
  BY DEF Exception, picVars, deviceVars
<1>5. /\ nested'[c] \in Seq(Frame) /\ nested'[c] # <<>>
      /\ Len(nested'[c]) = 1 /\ DOMAIN nested'[c] = 1 .. 1
      /\ nested'[c][1] = x
  <2>1. nested'[c] = <<x>>
    BY <1>2, <1>3
  <2> QED
    BY <1>2, <2>1
<1>6. \A f \in Flow : f # c => nested'[f] = nested[f]
  BY <1>2, <1>3
<1>7. TypeOK'
  <2>1. nested' \in [Flow -> Seq(Frame)]
    BY <1>2, <1>3, <1>5
  <2> QED
    BY <1>1, <1>4, <2>1 DEF TypeOK
<1>8. x.irq = EXC /\ x.stage = "on"
  BY DEF x
<1>9. \A f \in Flow : \A k \in DOMAIN nested'[f] :
          \/ f = c /\ k = 1 /\ nested'[f][k] = x
          \/ f # c /\ k \in DOMAIN nested[f] /\ nested'[f][k] = nested[f][k]
  BY <1>5, <1>6
<1>10. StackInv'
  BY <1>4, <1>6, <1>8, <1>9 DEF IntInv, StackInv, Switched
<1>11. Lebron_FMVP_count > 0 /\ booted = Len(BootSteps)
  BY <1>1, <1>2, <1>a, InterruptsAssumption DEF IntInv, FlowInv, BootInv, TypeOK
<1>12. FlowInv'
  <2>1. \A t \in Terminals : t # c => nested'[t] = nested[t]
    BY <1>6 DEF Flow
  <2>2. \A t \in Terminals : t >= Lebron_FMVP_count => t # c
    BY <1>1, <1>2, <1>11, <1>a, InterruptsAssumption
       DEF IntInv, FlowInv, TypeOK, Terminals, BootTicks
  <2> QED
    BY <1>4, <1>a, <2>1, <2>2 DEF IntInv, FlowInv
<1>13. BootInv'
  BY <1>4, <1>8, <1>9, <1>11, BootStepsAre DEF IntInv, BootInv, EXC, PIT
<1>14. ServiceInv'
  <2>1. \A f \in Flow, k \in Nat : Debt(f, k)' <=> Debt(f, k)
    BY <1>2, <1>5, <1>6, <1>8, <1>9 DEF Debt, Owes
  <2>2. \A f \in Flow, k \in Nat : Debt(f, k) => nested'[f][k].irq = nested[f][k].irq
    BY <1>2, <1>6 DEF Debt
  <2> QED
    BY <1>4, <2>1, <2>2, DebtsKept DEF IntInv
<1> QED
  BY <1>7, <1>10, <1>12, <1>13, <1>14 DEF IntInv

(* What the halt after an exception throws away is only its own frame.        *)
LEMMA ExceptionHaltsStep == ASSUME IntInv, ExceptionHalts PROVE IntInv'
<1>1. TypeOK /\ ~Idle /\ Top.irq = EXC
  BY DEF IntInv, ExceptionHalts
<1>a. PICK c \in Flow : c = current_terminal
  BY <1>1, TopFacts
<1>2. /\ nested \in [Flow -> Seq(Frame)]
      /\ DOMAIN nested[c] = 1 .. 1 /\ nested[c][1].irq = EXC
  BY <1>1, <1>a, TopFacts DEF TypeOK, IntInv, StackInv
<1>3. /\ nested' = [nested EXCEPT ![c] = <<>>]
      /\ UNCHANGED <<booted, imr, irr, isr, register_c, output_full, cli, current_terminal,
                     Lebron_FMVP_count>>
  BY <1>a DEF ExceptionHalts, picVars, deviceVars
<1>4. nested'[c] = <<>> /\ DOMAIN nested'[c] = {}
  BY <1>2, <1>3
<1>5. \A f \in Flow : f # c => nested'[f] = nested[f]
  BY <1>2, <1>3
<1>6. TypeOK'
  <2>1. nested' \in [Flow -> Seq(Frame)]
    BY <1>2, <1>3
  <2> QED
    BY <1>1, <1>3, <2>1 DEF TypeOK
<1>7. StackInv'
  BY <1>3, <1>4, <1>5 DEF IntInv, StackInv, Switched
<1>8. FlowInv'
  <2>1. \A t \in Terminals : t # c => nested'[t] = nested[t]
    BY <1>5 DEF Flow
  <2> QED
    BY <1>3, <1>4, <1>a, <2>1 DEF IntInv, FlowInv
<1>9. BootInv'
  BY <1>3, <1>4, <1>5 DEF IntInv, BootInv
<1>10. ServiceInv'
  <2>1. \A f \in Flow, k \in Nat : Debt(f, k)' <=> Debt(f, k)
    BY <1>2, <1>4, <1>5 DEF Debt, Owes
  <2>2. \A f \in Flow, k \in Nat : Debt(f, k) => nested'[f][k].irq = nested[f][k].irq
    BY <1>2, <1>5 DEF Debt, Owes
  <2> QED
    BY <1>3, <2>1, <2>2, DebtsKept DEF IntInv
<1> QED
  BY <1>6, <1>7, <1>8, <1>9, <1>10 DEF IntInv
-----------------------------------------------------------------------------
(* The tick's frame is number n, the top one, of the flow c that executes.     *)
TickTop(c, n) ==
    /\ c = current_terminal /\ n = Len(nested[c])
    /\ nested \in [Flow -> Seq(Frame)] /\ nested[c] # <<>>
    /\ DOMAIN nested[c] = 1 .. n
    /\ nested[c][n].irq = PIT
    /\ Debt(c, n)
    /\ Switched \in Frame
    /\ booted = Len(BootSteps)
    /\ Append(Front(nested[c]), Switched) \in Seq(Frame)
    /\ Append(Front(nested[c]), Switched) # <<>>
    /\ Len(Append(Front(nested[c]), Switched)) = n
    /\ DOMAIN Append(Front(nested[c]), Switched) = 1 .. n
    /\ \A k \in 1 .. n - 1 : Append(Front(nested[c]), Switched)[k] = nested[c][k]
    /\ Append(Front(nested[c]), Switched)[n] = Switched

(* A tick finds its own frame on top of the flow it interrupted.              *)
LEMMA TickFacts ==
    ASSUME IntInv, ~Idle, Top = [irq |-> PIT, stage |-> "off"]
    PROVE  \E c \in Flow, n \in Nat \ {0} : TickTop(c, n)
<1>a. PICK c \in Flow : c = current_terminal
  BY TopFacts
<1>b. PICK n \in Nat \ {0} : n = Len(nested[c])
  BY <1>a, TopFacts
<1>1. Top.irq = PIT /\ Top.irq # EXC
  BY DEF PIT, EXC
<1>2. /\ nested \in [Flow -> Seq(Frame)] /\ nested[c] # <<>> /\ nested[c] \in Seq(Frame)
      /\ DOMAIN nested[c] = 1 .. n
      /\ nested[c][n].irq = PIT
      /\ Debt(c, n)
  BY <1>1, <1>a, <1>b, TopFacts DEF IntInv, TypeOK, Idle
<1>3. Switched \in Frame
  BY DEF Switched, Frame, Devices
<1>4. booted = Len(BootSteps)
  BY <1>2 DEF IntInv, BootInv
<1>5. /\ Append(Front(nested[c]), Switched) \in Seq(Frame)
      /\ Append(Front(nested[c]), Switched) # <<>>
      /\ Len(Append(Front(nested[c]), Switched)) = n
      /\ DOMAIN Append(Front(nested[c]), Switched) = 1 .. n
      /\ \A k \in 1 .. n - 1 : Append(Front(nested[c]), Switched)[k] = nested[c][k]
      /\ Append(Front(nested[c]), Switched)[n] = Switched
  BY <1>2, <1>3, <1>b, Replaced
<1> QED
  BY <1>2, <1>3, <1>4, <1>5, <1>a, <1>b DEF TickTop

(* What a tick leaves of the stacks: the flow c that it interrupted has its   *)
(* frame n switched, and the flow g that goes on has lost its switched frame. *)
TickStacks(c, n, g) ==
    /\ c \in Flow /\ g \in Flow /\ n \in Nat
    /\ nested' \in [Flow -> Seq(Frame)]
    /\ \A f \in Flow : \A k \in DOMAIN nested'[f] :
          /\ k \in DOMAIN nested[f]
          /\ IF f = c /\ k = n THEN nested'[f][k] = Switched /\ k = Len(nested'[f]) /\ f # g
             ELSE nested'[f][k] = nested[f][k] /\ (f # c /\ f # g => Len(nested'[f]) = Len(nested[f]))
          /\ f = g => nested[f][k].stage # "switched"
    /\ \A f \in Flow : \A k \in DOMAIN nested[f] :
          k \in DOMAIN nested'[f] \/ (f = g /\ (nested[f][k] = Switched \/ (f = c /\ k = n)))

(* The invariants of stacks and lines after a tick.                           *)
LEMMA TickInv ==
    ASSUME IntInv, NEW c \in Flow, NEW n \in Nat \ {0}, NEW g \in Flow, TickStacks(c, n, g),
           c = current_terminal, g = current_terminal',
           Debt(c, n), nested[c][n].irq = PIT, booted = Len(BootSteps),
           isr' = AfterEoi(PIT),
           UNCHANGED <<booted, imr, irr, register_c, output_full, cli>>
    PROVE  /\ StackInv' /\ BootInv' /\ ServiceInv' /\ isr' \subseteq Lines
<1>1. TypeOK
  BY DEF IntInv
<1>2. Switched.irq = PIT /\ Switched.stage = "switched" /\ PIT # EXC
  BY DEF Switched, PIT, EXC
<1>3. \A f \in Flow : \A k \in DOMAIN nested'[f] :
          \/ f = c /\ k = n /\ nested'[f][k] = Switched /\ k = Len(nested'[f]) /\ f # g
          \/ /\ k \in DOMAIN nested[f] /\ ~(f = c /\ k = n) /\ nested'[f][k] = nested[f][k]
             /\ f # c /\ f # g => Len(nested'[f]) = Len(nested[f])
             /\ f = g => nested[f][k].stage # "switched"
  BY DEF TickStacks
<1>4. \A k \in DOMAIN nested[c] : nested[c][k].stage # "switched"
  BY DEF IntInv, StackInv
<1>5. StackInv'
  BY <1>2, <1>3, <1>4 DEF IntInv, StackInv, Switched
<1>6. BootInv'
  <2>1. booted >= 2
    BY BootStepsAre
  <2> QED
    BY <2>1 DEF IntInv, BootInv
<1>7. \A f \in Flow, k \in Nat : Debt(f, k)' <=> Debt(f, k) /\ ~(f = c /\ k = n)
  <2> SUFFICES ASSUME NEW f \in Flow, NEW k \in Nat
               PROVE  Debt(f, k)' <=> Debt(f, k) /\ ~(f = c /\ k = n)
    OBVIOUS
  <2>1. ASSUME Debt(f, k)' PROVE Debt(f, k) /\ ~(f = c /\ k = n)
    BY <1>2, <1>3, <2>1 DEF Debt, Owes
  <2>2. ASSUME Debt(f, k), ~(f = c /\ k = n) PROVE Debt(f, k)'
    <3>1. k \in DOMAIN nested[f] /\ nested[f][k] # Switched
      BY <1>2, <2>2 DEF Debt, Owes
    <3>2. k \in DOMAIN nested'[f]
      BY <2>2, <3>1 DEF TickStacks
    <3>3. nested'[f][k] = nested[f][k]
      BY <1>3, <2>2, <3>2
    <3> QED
      BY <2>2, <3>2, <3>3 DEF Debt, Owes
  <2> QED
    BY <2>1, <2>2
<1>8. \A f \in Flow, k \in Nat : Debt(f, k)' => nested'[f][k].irq = nested[f][k].irq
  BY <1>3, <1>7 DEF Debt
<1>9. ServiceInv'
  BY <1>1, <1>7, <1>8, DebtPaid DEF IntInv
<1>10. isr' \subseteq Lines
  BY <1>1 DEF TypeOK, AfterEoi
<1> QED
  BY <1>5, <1>6, <1>9, <1>10

(* A boot tick starts the next shell on an empty stack.                       *)
LEMMA BootTickStep == ASSUME IntInv, BootTick PROVE IntInv'
<1> USE DEF TickTop
<1> DEFINE g == Lebron_FMVP_count
<1>1. TypeOK /\ ~Idle /\ Top = [irq |-> PIT, stage |-> "off"]
  BY DEF IntInv, BootTick
<1>2. PICK c \in Flow, n \in Nat \ {0} : TickTop(c, n)
  BY <1>1, TickFacts
<1>3. /\ nested' = [nested EXCEPT ![c] = Append(Front(nested[c]), Switched)]
      /\ isr' = AfterEoi(PIT)
      /\ UNCHANGED <<booted, imr, irr, register_c, output_full, cli>>
      /\ current_terminal' = g /\ Lebron_FMVP_count' = g + 1
  BY <1>2 DEF BootTick, deviceVars
<1>4. g \in Terminals /\ g \in Flow /\ g \in Nat /\ g + 1 \in 0 .. NumTerminals
  BY <1>1, InterruptsAssumption DEF BootTick, TypeOK, Terminals, Flow, BootTicks
<1>5. nested[g] = <<>> /\ DOMAIN nested[g] = {} /\ c # g
  BY <1>2, <1>4 DEF IntInv, FlowInv
<1>6. nested'[c] = Append(Front(nested[c]), Switched) /\ \A f \in Flow : f # c => nested'[f] = nested[f]
  BY <1>2, <1>3
<1>7. nested' \in [Flow -> Seq(Frame)]
  BY <1>2, <1>3
<1>8. TickStacks(c, n, g)
  <2>1. /\ DOMAIN nested[c] = 1 .. n /\ DOMAIN nested'[c] = 1 .. n /\ Len(nested'[c]) = n
        /\ \A k \in 1 .. n - 1 : nested'[c][k] = nested[c][k]
        /\ nested'[c][n] = Switched
        /\ c # g
    BY <1>2, <1>5, <1>6
  <2>2. nested'[g] = nested[g] /\ DOMAIN nested[g] = {}
    BY <1>4, <1>5, <1>6
  <2>3. ASSUME NEW f \in Flow, NEW k \in DOMAIN nested'[f]
        PROVE  /\ k \in DOMAIN nested[f]
               /\ IF f = c /\ k = n THEN nested'[f][k] = Switched /\ k = Len(nested'[f]) /\ f # g
                  ELSE /\ nested'[f][k] = nested[f][k]
                       /\ (f # c /\ f # g => Len(nested'[f]) = Len(nested[f]))
               /\ f = g => nested[f][k].stage # "switched"
    <3>1. CASE f = c
      BY <2>1, <2>3, <3>1
    <3>2. CASE f # c
      BY <1>6, <2>2, <2>3, <3>2
    <3> QED
      BY <3>1, <3>2
  <2>4. \A f \in Flow : DOMAIN nested[f] = DOMAIN nested'[f]
    BY <1>6, <2>1
  <2> QED
    BY <1>4, <1>7, <2>3, <2>4 DEF TickStacks
<1>9. StackInv' /\ BootInv /\ ServiceInv' /\ isr' \subseteq Lines
  <2>1. StackInv' /\ BootInv' /\ ServiceInv' /\ isr' \subseteq Lines
    BY <1>2, <1>3, <1>4, <1>8, TickInv
  <2> QED
    BY <2>1 DEF IntInv
<1>10. TypeOK'
  BY <1>1, <1>3, <1>4, <1>7, <1>9 DEF TypeOK
<1>11. BootInv'
  <2>1. booted >= 2
    BY <1>2, BootStepsAre
  <2> QED
    BY <1>2, <1>3, <2>1 DEF IntInv, BootInv
<1>12. FlowInv'
  <2>1. c = IF g = 0 THEN BOOT ELSE g - 1
    BY <1>2, <1>4 DEF IntInv, FlowInv, Terminals, BootTicks
  <2>2. \A t \in Terminals : t \in Flow /\ t \in Nat
    BY DEF Terminals, Flow
  <2>3. \A t \in Terminals : t >= g => t # c
    BY <2>1, <1>4 DEF BOOT, Terminals
  <2>4. \A t \in Terminals : t >= g + 1 => nested'[t] = <<>>
    BY <1>4, <1>6, <2>2, <2>3 DEF IntInv, FlowInv
  <2>5. ASSUME NEW t \in Terminals, t < g + 1, t # g
        PROVE  nested'[t] # <<>> /\ nested'[t][Len(nested'[t])] = Switched
    <3>1. CASE t = c
      BY <1>2, <1>6, <3>1
    <3>2. CASE t # c
      <4>1. nested'[t] = nested[t] /\ t # current_terminal /\ t < g
        <5>1. nested'[t] = nested[t]
          BY <1>6, <2>2, <3>2
        <5>2. t # current_terminal
          BY <1>2, <3>2
        <5>3. t < g
          BY <1>4, <2>2, <2>5
        <5> QED
          BY <5>1, <5>2, <5>3
      <4> QED
        BY <4>1 DEF IntInv, FlowInv
    <3> QED
      BY <3>1, <3>2
  <2>6. g # BOOT /\ g + 1 > 0 /\ g = (g + 1) - 1
    BY <1>4 DEF BOOT
  <2> QED
    BY <1>3, <1>4, <2>4, <2>5, <2>6 DEF FlowInv
<1> QED
  BY <1>9, <1>10, <1>11, <1>12 DEF IntInv

(* Any later tick: the flow that goes on is the next terminal, which a tick   *)
(* had suspended.                                                             *)
LEMMA PITStep == ASSUME IntInv, PIT_interrupt_handler PROVE IntInv'
<1> USE DEF TickTop
<1>1. TypeOK /\ ~Idle /\ Top = [irq |-> PIT, stage |-> "off"]
  BY DEF IntInv, PIT_interrupt_handler
<1>2. PICK c \in Flow, n \in Nat \ {0} : TickTop(c, n)
  BY <1>1, TickFacts
<1>3. c \in Terminals
  BY <1>1, <1>2, InterruptsAssumption
     DEF PIT_interrupt_handler, BootTicks, IntInv, FlowInv, TypeOK, Flow
<1>4. PICK g \in Terminals : g = NextTerminal
  <2>1. current_terminal \in 0 .. NumTerminals - 1 /\ NumTerminals \in Nat \ {0}
    BY <1>2, <1>3, InterruptsAssumption DEF Terminals
  <2>2. NextTerminal \in Terminals
    BY <2>1 DEF NextTerminal, Terminals
  <2> QED
    BY <2>2
<1> DEFINE s == Append(Front(nested[c]), Switched)
           suspended == [nested EXCEPT ![c] = s]
<1>5. /\ nested' = [suspended EXCEPT ![g] = IF @ = <<>> THEN @ ELSE Front(@)]
      /\ isr' = AfterEoi(PIT)
      /\ UNCHANGED <<booted, imr, irr, register_c, output_full, cli, Lebron_FMVP_count>>
      /\ current_terminal' = g
  BY <1>2, <1>4 DEF PIT_interrupt_handler, deviceVars
<1>6. /\ s \in Seq(Frame) /\ s # <<>> /\ Len(s) = n /\ DOMAIN s = 1 .. n
      /\ \A k \in 1 .. n - 1 : s[k] = nested[c][k]
      /\ s[n] = Switched
  BY <1>2
<1> HIDE DEF s
<1>7. /\ suspended \in [Flow -> Seq(Frame)] /\ suspended[c] = s
      /\ \A f \in Flow : f # c => suspended[f] = nested[f]
  BY <1>2, <1>6
<1> HIDE DEF suspended
<1>8. g \in Flow
  BY DEF Flow
<1>9. suspended[g] # <<>> /\ suspended[g] \in Seq(Frame) /\ suspended[g][Len(suspended[g])] = Switched
  <2>1. CASE g = c
    BY <1>6, <1>7, <2>1
  <2>2. CASE g # c
    <3>1. g < Lebron_FMVP_count
      BY <1>1, InterruptsAssumption DEF PIT_interrupt_handler, BootTicks, Terminals, TypeOK
    <3> QED
      BY <1>2, <1>7, <1>8, <2>2, <3>1 DEF IntInv, FlowInv, TypeOK
  <2> QED
    BY <2>1, <2>2
<1>10. PICK m \in Nat \ {0} :
          /\ m = Len(suspended[g]) /\ DOMAIN suspended[g] = 1 .. m
          /\ Front(suspended[g]) \in Seq(Frame)
          /\ Len(Front(suspended[g])) = m - 1
          /\ DOMAIN Front(suspended[g]) = 1 .. m - 1
          /\ \A k \in 1 .. m - 1 : Front(suspended[g])[k] = suspended[g][k]
  BY <1>9, FrontOf
<1>11. /\ nested'[g] = Front(suspended[g])
       /\ \A f \in Flow : f # g => nested'[f] = suspended[f]
       /\ nested' \in [Flow -> Seq(Frame)]
  BY <1>5, <1>7, <1>8, <1>9, <1>10
<1>12. \A k \in DOMAIN nested[c] : nested[c][k].stage # "switched"
  BY <1>2 DEF IntInv, StackInv
<1>13. g # c => /\ nested[g][m] = Switched /\ m = Len(nested[g]) /\ DOMAIN nested[g] = 1 .. m
                /\ \A k \in 1 .. m - 1 : nested[g][k].stage # "switched"
  <2> SUFFICES ASSUME g # c
               PROVE  /\ nested[g][m] = Switched /\ m = Len(nested[g]) /\ DOMAIN nested[g] = 1 .. m
                      /\ \A k \in 1 .. m - 1 : nested[g][k].stage # "switched"
    OBVIOUS
  <2>1. nested[g][m] = Switched /\ m = Len(nested[g]) /\ DOMAIN nested[g] = 1 .. m
    BY <1>7, <1>8, <1>9, <1>10
  <2> QED
    BY <1>8, <2>1 DEF IntInv, StackInv
<1>14. TickStacks(c, n, g)
  <2>1. CASE g = c
    <3>1. /\ DOMAIN nested'[c] = 1 .. n - 1
          /\ \A k \in 1 .. n - 1 : nested'[c][k] = nested[c][k]
          /\ \A f \in Flow : f # c => nested'[f] = nested[f]
      BY <1>6, <1>7, <1>10, <1>11, <2>1
    <3>2. DOMAIN nested[c] = 1 .. n
      BY <1>2
    <3>3. ASSUME NEW f \in Flow, NEW k \in DOMAIN nested'[f]
          PROVE  /\ k \in DOMAIN nested[f] /\ ~(f = c /\ k = n)
                 /\ nested'[f][k] = nested[f][k]
                 /\ (f # c => Len(nested'[f]) = Len(nested[f]))
                 /\ f = c => nested[f][k].stage # "switched"
      <4>1. CASE f = c
        BY <1>12, <3>1, <3>2, <3>3, <4>1
      <4>2. CASE f # c
        BY <3>1, <3>3, <4>2
      <4> QED
        BY <4>1, <4>2
    <3>4. ASSUME NEW f \in Flow, NEW k \in DOMAIN nested[f]
          PROVE  k \in DOMAIN nested'[f] \/ (f = c /\ k = n)
      BY <3>1, <3>2, <3>4
    <3> QED
      BY <1>8, <1>11, <2>1, <3>3, <3>4 DEF TickStacks
  <2>2. CASE g # c
    <3>1. /\ nested'[c] = s
          /\ DOMAIN nested'[g] = 1 .. m - 1
          /\ \A k \in 1 .. m - 1 : nested'[g][k] = nested[g][k]
          /\ \A f \in Flow : f # c /\ f # g => nested'[f] = nested[f]
      BY <1>7, <1>8, <1>10, <1>11, <2>2
    <3>2. ASSUME NEW f \in Flow, NEW k \in DOMAIN nested'[f]
          PROVE  /\ k \in DOMAIN nested[f]
                 /\ IF f = c /\ k = n THEN nested'[f][k] = Switched /\ k = Len(nested'[f]) /\ f # g
                    ELSE /\ nested'[f][k] = nested[f][k]
                         /\ (f # c /\ f # g => Len(nested'[f]) = Len(nested[f]))
                 /\ f = g => nested[f][k].stage # "switched"
      <4>1. CASE f = c
        <5>1. DOMAIN nested[c] = 1 .. n /\ DOMAIN nested'[c] = 1 .. n /\ Len(nested'[c]) = n
          BY <1>2, <1>6, <3>1
        <5>2. /\ \A j \in 1 .. n - 1 : nested'[c][j] = nested[c][j]
              /\ nested'[c][n] = Switched
          BY <1>6, <3>1
        <5> QED
          BY <2>2, <3>2, <4>1, <5>1, <5>2
      <4>2. CASE f = g
        BY <1>13, <2>2, <3>1, <3>2, <4>2
      <4>3. CASE f # c /\ f # g
        BY <3>1, <3>2, <4>3
      <4> QED
        BY <4>1, <4>2, <4>3
    <3>3. ASSUME NEW f \in Flow, NEW k \in DOMAIN nested[f]
          PROVE  k \in DOMAIN nested'[f] \/ (f = g /\ (nested[f][k] = Switched \/ (f = c /\ k = n)))
      <4>1. CASE f = c
        BY <1>2, <1>6, <3>1, <4>1
      <4>2. CASE f = g
        BY <1>13, <2>2, <3>1, <4>2
      <4>3. CASE f # c /\ f # g
        BY <3>1, <4>3
      <4> QED
        BY <4>1, <4>2, <4>3
    <3> QED
      BY <1>8, <1>11, <3>2, <3>3 DEF TickStacks
  <2> QED
    BY <2>1, <2>2
<1>15. StackInv' /\ BootInv' /\ ServiceInv' /\ isr' \subseteq Lines
  BY <1>2, <1>5, <1>8, <1>14, TickInv
<1>16. TypeOK'
  BY <1>1, <1>5, <1>8, <1>11, <1>15 DEF TypeOK
<1>17. FlowInv'
  <2>1. /\ Lebron_FMVP_count = NumTerminals /\ NumTerminals \in Nat \ {0} /\ g # BOOT
        /\ \A t \in Terminals : t \in Flow /\ t < NumTerminals /\ ~(t >= NumTerminals)
    BY <1>1, InterruptsAssumption
       DEF PIT_interrupt_handler, BootTicks, TypeOK, Terminals, BOOT, Flow
  <2>2. ASSUME NEW t \in Terminals, t # g
        PROVE  nested'[t] # <<>> /\ nested'[t][Len(nested'[t])] = Switched
    <3>1. nested'[t] = suspended[t]
      BY <1>11, <2>1, <2>2
    <3>2. CASE t = c
      BY <1>6, <1>7, <3>1, <3>2
    <3>3. CASE t # c
      BY <1>2, <1>7, <2>1, <3>1, <3>3 DEF IntInv, FlowInv
    <3> QED
      BY <3>2, <3>3
  <2>3. NumTerminals \notin 1 .. BootTicks - 1 /\ NumTerminals # 0
    BY <2>1 DEF BootTicks
  <2> QED
    BY <1>5, <2>1, <2>2, <2>3 DEF FlowInv, BootTicks
<1> QED
  BY <1>15, <1>16, <1>17 DEF IntInv
-----------------------------------------------------------------------------
(* Every step keeps the invariant.                                            *)
LEMMA NextInv == IntInv /\ [Next]_vars => IntInv'
<1> SUFFICES ASSUME IntInv, [Next]_vars PROVE IntInv'
  OBVIOUS
<1>1. CASE UNCHANGED vars
  <2>1. UNCHANGED <<booted, imr, irr, isr, register_c, output_full, cli, nested,
                    current_terminal, Lebron_FMVP_count>>
    BY <1>1 DEF vars, picVars, deviceVars
  <2>2. TypeOK' /\ BootInv'
    BY <2>1 DEF IntInv, TypeOK, BootInv
  <2> QED
    BY <2>1, <2>2, StacksKept DEF IntInv
<1> QED
  BY <1>1, BootStep, DeviceStep, ExceptionStep, ExceptionHaltsStep, DeliverStep, KeyEchoedStep,
     ReturnStep, BootTickStep, PITStep DEF Next, Handler

(* The inductive invariant of interrupt delivery, in the window as well: what *)
(* the flows are suspended in, how far the boot is, and what is owed.         *)
THEOREM IntInvariant == Spec => []IntInv
BY InitInv, NextInv, PTL DEF Spec

(* The registers and the stacks of handlers keep their types.                 *)
THEOREM TypeCorrect == Spec => []TypeOK
<1>1. IntInv => TypeOK
  BY DEF IntInv
<1> QED
  BY <1>1, IntInvariant, PTL

(* Every line in service has exactly one handler that will acknowledge it     *)
(* (send_eoi), on whatever stack the timer has left that handler.             *)
THEOREM EveryLineHasItsHandler == Spec => []InServiceHasHandler
<1>1. IntInv => InServiceHasHandler
  <2> SUFFICES ASSUME IntInv PROVE InServiceHasHandler
    OBVIOUS
  <2>1. TypeOK /\ ServiceInv
    BY DEF IntInv
  <2>2. \A f \in Flow : \A k : Debt(f, k) => k \in Nat
    BY <2>1, DebtType DEF Debt
  <2>3. \A f, g \in Flow : \A j \in DOMAIN nested[f], k \in DOMAIN nested[g] :
            Owes(f, j) /\ Owes(g, k) /\ nested[f][j].irq = nested[g][k].irq => f = g /\ j = k
    BY <2>1, <2>2 DEF ServiceInv, Debt
  <2>4. ASSUME NEW l
        PROVE  l \in isr <=>
               l \in UNION {LinesOf(frame.irq) : frame \in UNION {Owing(f) : f \in Flow}}
    <3>1. ASSUME NEW f \in Flow, NEW k, Debt(f, k)
          PROVE  nested[f][k] \in UNION {Owing(h) : h \in Flow}
      BY <3>1 DEF Debt, Owing
    <3>2. ASSUME NEW frame \in UNION {Owing(f) : f \in Flow}
          PROVE  \E f \in Flow, k \in Nat : Debt(f, k) /\ frame = nested[f][k]
      BY <2>2 DEF Debt, Owing
    <3>3. l \in isr => l \in UNION {LinesOf(frame.irq) : frame \in UNION {Owing(f) : f \in Flow}}
      <4> SUFFICES ASSUME l \in isr
                   PROVE  \E frame \in UNION {Owing(f) : f \in Flow} : l \in LinesOf(frame.irq)
        OBVIOUS
      <4>1. PICK f \in Flow, k \in Nat : Debt(f, k) /\ l \in LinesOf(nested[f][k].irq)
        BY <2>1 DEF ServiceInv
      <4> QED
        BY <3>1, <4>1
    <3>4. ASSUME NEW frame \in UNION {Owing(f) : f \in Flow}, l \in LinesOf(frame.irq)
          PROVE  l \in isr
      <4>1. PICK f \in Flow, k \in Nat : Debt(f, k) /\ frame = nested[f][k]
        BY <3>2
      <4> QED
        BY <2>1, <3>4, <4>1 DEF ServiceInv
    <3> QED
      BY <3>3, <3>4
  <2>5. isr = UNION {LinesOf(frame.irq) : frame \in UNION {Owing(f) : f \in Flow}}
    BY <2>4
  <2> QED
    BY <2>3, <2>5 DEF InServiceHasHandler
<1> QED
  BY <1>1, IntInvariant, PTL

(* PIT_interrupt_handler finds its own frame on the stack it switches to.     *)
THEOREM SwitchFindsItsFrame == Spec => []SuspendedByTick
<1>1. IntInv => SuspendedByTick
  <2> SUFFICES ASSUME IntInv, NEW t \in Terminals
               PROVE  /\ Lebron_FMVP_count >= BootTicks /\ t # current_terminal
                            => nested[t] # <<>> /\ Last(nested[t]) = Switched
                      /\ \A k \in DOMAIN nested[t] : nested[t][k] = Switched => t # current_terminal
    BY DEF SuspendedByTick
  <2>1. Lebron_FMVP_count >= BootTicks => t < Lebron_FMVP_count
    BY InterruptsAssumption DEF IntInv, TypeOK, Terminals, BootTicks
  <2>2. t \in Flow
    BY DEF Flow
  <2>3. Switched.stage = "switched"
    BY DEF Switched
  <2> QED
    BY <2>1, <2>2, <2>3 DEF IntInv, FlowInv, StackInv, Last
<1> QED
  BY <1>1, IntInvariant, PTL

(* No handler runs before the IDT is set, no tick before the end of the boot. *)
THEOREM BootIsInOrder == Spec => []BootOrder
<1>1. IntInv => BootOrder
  <2> SUFFICES ASSUME IntInv, NEW f \in Flow, NEW k \in DOMAIN nested[f]
               PROVE  /\ Done("initialize_IDT")
                      /\ nested[f][k].irq = PIT => booted = Len(BootSteps)
    BY DEF BootOrder
  <2>1. booted >= 2 /\ booted \in 0 .. 10
    BY BootStepsAre DEF IntInv, BootInv, TypeOK
  <2>2. 1 \in 1 .. booted /\ BootSteps[1] = "initialize_IDT"
    BY <2>1, BootStepsAre
  <2> QED
    BY <2>2 DEF IntInv, BootInv, Done
<1> QED
  BY <1>1, IntInvariant, PTL
=============================================================================
