---------------------------- MODULE TerminalLine ----------------------------
(* The line discipline: keyboard_interrupt_handler (keyboard.c), which fills  *)
(* the buffer of the terminal on the screen, terminal_read (terminal.c),      *)
(* which a program of some terminal waits in, and the part of sys_halt that   *)
(* resets the buffer.                                                         *)
(*                                                                            *)
(* terminal_write turns interrupts on again before the keyboard handler has   *)
(* counted the character it stored.  IRQ1 is still in service, so no key and  *)
(* no clock interrupt gets in, but a PIT tick does: the handler stays behind  *)
(* in the flow it interrupted, and other terminals run.  The handler of       *)
(* Alt+Fn has sent its end of interrupt before terminal_swap: there other     *)
(* keys get in as well.                                                       *)
EXTENDS Integers, Sequences, SequencesExt

CONSTANTS NumTerminals,     (* 3 in the code                                  *)
          BufferSize,       (* MAX_BUFFER_SIZE = 128                          *)
          TabWidth,         (* 4: spaces of a tab                             *)
          PointerSize,      (* 4: sizeof(terminal_shown_buf)                  *)
          Keys,             (* what a key may produce                         *)
          NUL,              (* '\0'                                           *)
          SPACE,            (* ' '                                            *)
          OLD,              (* what the buffer of the program held before     *)
          Readers,          (* bound: the terminals whose program reads       *)
          Sizes,            (* bound: values of nbytes                        *)
          MaxNested,        (* bound: handlers inside one another in one flow *)
          Hazards           (* the windows a run lets the environment hit     *)

HazardKinds == {"key",      (* a key between Enter and the end of the read    *)
                "halt"}     (* a program halts while a key of its terminal is *)
                            (* stored and not yet counted                     *)

Terminals == 0 .. NumTerminals - 1
Index     == 0 .. BufferSize - 1
Char      == Keys \cup {SPACE}
UNSET     == -1             \* a value C has not computed

ASSUME LineAssumption ==
    /\ NumTerminals \in Nat \ {0}
    /\ BufferSize \in Nat \ {0}
    /\ TabWidth \in 1 .. BufferSize
    /\ PointerSize \in 1 .. BufferSize
    /\ NUL \notin Char
    /\ Readers \subseteq Terminals
    /\ Sizes \subseteq Nat
    /\ MaxNested \in Nat
    /\ Hazards \subseteq HazardKinds

VARIABLES
    terminal_shown,
    current_terminal,
    terminal_buffer,   (* terminal_buffer[t][k]                               *)
    numchar,           (* numchar_for_this_terminal                           *)
    enter_flag,
    nested,            (* nested[t]: keyboard handlers the flow of terminal t *)
                       (* is inside of, the innermost last                    *)
    pc,                (* where terminal_read of terminal t is                *)
    nbytes,
    i,
    read,
    data,              (* the buffer of the program                           *)
    line               (* history: what the user has typed and not erased     *)
                       (* since the last read of the terminal                 *)

keyboardVars == <<terminal_buffer, numchar, enter_flag, line>>
readVars     == <<pc, nbytes, i, read, data>>
vars == <<terminal_shown, current_terminal, keyboardVars, nested, readVars>>

(* A handler suspended in one of its windows: it will swap to a terminal, or  *)
(* has "left" characters to count for the terminal it works for, the first of *)
(* them not yet stored ("put"), stored ("load"), or stored with the old count *)
(* in a register ("store").                                                   *)
Frame == [kind : {"swap"}, to : Terminals]
         \cup [kind : {"put", "load", "store"}, to : Terminals,
               left : 1 .. TabWidth, seen : Index \cup {UNSET}]

(* terminal_read: outside, waiting for Enter, at its two tests of nbytes, in  *)
(* its two loops, at read = numchar, numchar = 0 and memset.                  *)
Place == {"program", "waiting", "first", "copyN", "second", "copyAll", "count", "reset", "wipe"}

(* Every variable keeps its type: no index and no count leaves its buffer.    *)
TypeOK ==
    /\ terminal_shown \in Terminals
    /\ current_terminal \in Terminals
    /\ terminal_buffer \in [Terminals -> [Index -> Char \cup {NUL}]]
    /\ numchar \in [Terminals -> 0 .. BufferSize]
    /\ enter_flag \in [Terminals -> {0, 1}]
    /\ nested \in [Terminals -> Seq(Frame)]
    /\ pc \in [Terminals -> Place]
    /\ nbytes \in [Terminals -> Sizes \cup {UNSET}]
    /\ i \in [Terminals -> 0 .. BufferSize]
    /\ read \in [Terminals -> 0 .. BufferSize \cup {UNSET}]
    /\ data \in [Terminals -> [Index -> Char \cup {OLD}]]
    /\ line \in [Terminals -> Seq(Char)]

Blank == [k \in Index |-> NUL]

(* init_terminal_struct; no program reads yet.                                *)
Init ==
    /\ terminal_shown = 0
    /\ current_terminal = 0
    /\ terminal_buffer = [t \in Terminals |-> Blank]
    /\ numchar = [t \in Terminals |-> 0]
    /\ enter_flag = [t \in Terminals |-> 0]
    /\ nested = [t \in Terminals |-> <<>>]
    /\ pc = [t \in Terminals |-> "program"]
    /\ nbytes = [t \in Terminals |-> UNSET]
    /\ i = [t \in Terminals |-> 0]
    /\ read = [t \in Terminals |-> UNSET]
    /\ data = [t \in Terminals |-> [k \in Index |-> OLD]]
    /\ line = [t \in Terminals |-> <<>>]
-----------------------------------------------------------------------------
(* The innermost handler of the flow that executes.                           *)
Top == Last(nested[current_terminal])

InHandler == nested[current_terminal] # <<>>

(* A handler that counts characters has not sent its end of interrupt.        *)
Counting(f) == f.kind \in {"put", "load", "store"}

IRQ1InService == \E t \in Terminals : \E k \in DOMAIN nested[t] : Counting(nested[t][k])

(* A key interrupt can be delivered to the flow that executes.                *)
KeyPossible ==
    /\ ~IRQ1InService
    /\ Len(nested[current_terminal]) < MaxNested

(* A key that edits the line of the terminal on the screen.                   *)
EditPossible ==
    /\ KeyPossible
    /\ enter_flag[terminal_shown] = 1 => "key" \in Hazards

(* In the windows of Hazards the kernel and the user may disagree about the   *)
(* line; no history is kept there.                                            *)
History(h) == IF Hazards = {} THEN h ELSE line

Push(frame) == nested' = [nested EXCEPT ![current_terminal] = Append(@, frame)]
Replace(frame) == nested' = [nested EXCEPT ![current_terminal] = Append(Front(@), frame)]
Pop == nested' = [nested EXCEPT ![current_terminal] = Front(@)]

(* Seeded fault: room for one space is taken for room for a tab.              *)
SpacesOfTabUnchecked(n) == IF n < BufferSize THEN TabWidth ELSE 0

(* The characters a tab adds to a line of n; the last places of the buffer    *)
(* take one space.                                                            *)
SpacesOfTab(n) ==
    IF n < BufferSize - (TabWidth - 1) THEN TabWidth
    ELSE IF n < BufferSize THEN 1 ELSE 0
-----------------------------------------------------------------------------
(* A key that produces characters, up to the sti of terminal_write: the first *)
(* one is stored and echoed, not yet counted.                                 *)
Type(c, n) ==
    LET s == terminal_shown IN
    /\ EditPossible
    /\ n > 0
    /\ terminal_buffer' = [terminal_buffer EXCEPT ![s][numchar[s]] = c]
    /\ Push([kind |-> "load", to |-> s, left |-> n, seen |-> UNSET])
    /\ line' = History([line EXCEPT ![s] = @ \o [k \in 1 .. n |-> c]])
    /\ UNCHANGED <<terminal_shown, current_terminal, numchar, enter_flag, readVars>>

KeyChar(c) == numchar[terminal_shown] < BufferSize /\ Type(c, 1)

KeyTab == Type(SPACE, SpacesOfTab(numchar[terminal_shown]))

KeyBackspace ==
    LET s == terminal_shown IN
    /\ EditPossible
    /\ numchar[s] > 0
    /\ numchar' = [numchar EXCEPT ![s] = @ - 1]
    /\ terminal_buffer' = [terminal_buffer EXCEPT ![s][numchar[s] - 1] = NUL]
    /\ line' = History([line EXCEPT ![s] = IF @ = <<>> THEN @ ELSE Front(@)])
    /\ UNCHANGED <<terminal_shown, current_terminal, enter_flag, nested, readVars>>

(* Control-L: the line is forgotten, the buffer is not wiped.                 *)
KeyClear ==
    LET s == terminal_shown IN
    /\ EditPossible
    /\ numchar' = [numchar EXCEPT ![s] = 0]
    /\ line' = History([line EXCEPT ![s] = <<>>])
    /\ UNCHANGED <<terminal_shown, current_terminal, terminal_buffer, enter_flag, nested, readVars>>

(* Enter wakes the reader of the terminal on the screen.                      *)
KeyEnter ==
    /\ KeyPossible
    /\ enter_flag' = [enter_flag EXCEPT ![terminal_shown] = 1]
    /\ UNCHANGED <<terminal_shown, current_terminal, terminal_buffer, numchar, line, nested, readVars>>

(* Alt+Fn up to the sti in front of terminal_swap.                            *)
KeySwap(t) ==
    /\ KeyPossible
    /\ Push([kind |-> "swap", to |-> t])
    /\ UNCHANGED <<terminal_shown, current_terminal, keyboardVars, readVars>>

(* terminal_swap.                                                             *)
Swap ==
    /\ InHandler
    /\ Top.kind = "swap"
    /\ terminal_shown' = Top.to
    /\ Pop
    /\ UNCHANGED <<current_terminal, keyboardVars, readVars>>

(* A space of a tab after the first: stored and echoed.                       *)
Put ==
    /\ InHandler
    /\ Top.kind = "put"
    /\ terminal_buffer' = [terminal_buffer EXCEPT ![Top.to][numchar[Top.to]] = SPACE]
    /\ Replace([Top EXCEPT !.kind = "load"])
    /\ UNCHANGED <<terminal_shown, current_terminal, numchar, enter_flag, line, readVars>>

(* ( *terminal_numchar )++, a load and a store.                               *)
Load ==
    /\ InHandler
    /\ Top.kind = "load"
    /\ Replace([Top EXCEPT !.kind = "store", !.seen = numchar[Top.to]])
    /\ UNCHANGED <<terminal_shown, current_terminal, keyboardVars, readVars>>

(* Seeded fault: the count of the terminal that is on the screen by now.      *)
CountedForShown(f) == terminal_shown

(* The terminal whose count the handler raises: the one shown when the key    *)
(* was pressed.                                                               *)
CountedFor(f) == f.to

(* The store; after the last character the handler sends its end of interrupt.*)
Store ==
    /\ InHandler
    /\ Top.kind = "store"
    /\ numchar' = [numchar EXCEPT ![CountedFor(Top)] = Top.seen + 1]
    /\ IF Top.left = 1 THEN Pop
       ELSE Replace([kind |-> "put", to |-> Top.to, left |-> Top.left - 1, seen |-> UNSET])
    /\ UNCHANGED <<terminal_shown, current_terminal, terminal_buffer, enter_flag, line, readVars>>

HandlerStep(t) == t = current_terminal /\ (Swap \/ Put \/ Load \/ Store)
-----------------------------------------------------------------------------
(* The program of the terminal that runs is not interrupted.                  *)
Runs(t) == t = current_terminal /\ nested[t] = <<>>

Goto(t, place) == pc' = [pc EXCEPT ![t] = place]

(* terminal_read up to its loop.                                              *)
ReadStart(t, n) ==
    /\ Runs(t)
    /\ t \in Readers
    /\ pc[t] = "program"
    /\ nbytes' = [nbytes EXCEPT ![t] = n]
    /\ enter_flag' = [enter_flag EXCEPT ![t] = 0]
    /\ Goto(t, "waiting")
    /\ UNCHANGED <<terminal_shown, current_terminal, terminal_buffer, numchar, line, nested, i, read, data>>

(* Seeded fault: the flag of the terminal on the screen.                      *)
EnterSeenShown(t) == enter_flag[terminal_shown] = 1

(* The condition of the loop terminal_read waits in.                          *)
EnterSeen(t) == enter_flag[t] = 1

ReadWake(t) ==
    /\ pc[t] = "waiting"
    /\ EnterSeen(t)
    /\ Goto(t, "first")
    /\ UNCHANGED <<keyboardVars, nbytes, i, read, data>>

(* if(nbytes < numchar), and the other test after it.                         *)
FirstTest(t) ==
    /\ pc[t] = "first"
    /\ Goto(t, IF nbytes[t] < numchar[t] THEN "copyN" ELSE "second")
    /\ UNCHANGED <<keyboardVars, nbytes, i, read, data>>

SecondTest(t) ==
    /\ pc[t] = "second"
    /\ Goto(t, IF nbytes[t] >= numchar[t] THEN "copyAll" ELSE "reset")
    /\ i' = [i EXCEPT ![t] = 0]
    /\ UNCHANGED <<keyboardVars, nbytes, read, data>>

(* Seeded fault: one character more.                                          *)
GoesOnAtLimit(k, limit) == k <= limit /\ k < BufferSize

GoesOn(k, limit) == k < limit

(* One round of a loop: null characters leave the program's buffer alone.     *)
CopyOne(t) ==
    /\ data' = IF terminal_buffer[t][i[t]] = NUL THEN data
               ELSE [data EXCEPT ![t][i[t]] = terminal_buffer[t][i[t]]]
    /\ i' = [i EXCEPT ![t] = @ + 1]
    /\ UNCHANGED <<keyboardVars, pc, nbytes, read>>

CopyN(t) ==
    /\ pc[t] = "copyN"
    /\ GoesOn(i[t], nbytes[t])
    /\ CopyOne(t)

CopyNEnds(t) ==
    /\ pc[t] = "copyN"
    /\ ~GoesOn(i[t], nbytes[t])
    /\ read' = [read EXCEPT ![t] = nbytes[t]]
    /\ Goto(t, "second")
    /\ UNCHANGED <<keyboardVars, nbytes, i, data>>

CopyAll(t) ==
    /\ pc[t] = "copyAll"
    /\ GoesOn(i[t], numchar[t])
    /\ CopyOne(t)

CopyAllEnds(t) ==
    /\ pc[t] = "copyAll"
    /\ ~GoesOn(i[t], numchar[t])
    /\ Goto(t, "count")
    /\ UNCHANGED <<keyboardVars, nbytes, i, read, data>>

ReadCount(t) ==
    /\ pc[t] = "count"
    /\ read' = [read EXCEPT ![t] = numchar[t]]
    /\ Goto(t, "reset")
    /\ UNCHANGED <<keyboardVars, nbytes, i, data>>

(* *terminal_numchar = 0.                                                     *)
NumcharAfterRead(t) == [numchar EXCEPT ![t] = 0]

ReadReset(t) ==
    /\ pc[t] = "reset"
    /\ numchar' = NumcharAfterRead(t)
    /\ line' = History([line EXCEPT ![t] = <<>>])
    /\ Goto(t, "wipe")
    /\ UNCHANGED <<terminal_buffer, enter_flag, nbytes, i, read, data>>

(* memset of sizeof(a pointer) characters, and the return.                    *)
ReadReturns(t) ==
    /\ pc[t] = "wipe"
    /\ terminal_buffer' = [terminal_buffer EXCEPT ![t] =
                              [k \in Index |-> IF k < PointerSize THEN NUL ELSE @[k]]]
    /\ Goto(t, "program")
    /\ nbytes' = [nbytes EXCEPT ![t] = UNSET]
    /\ i' = [i EXCEPT ![t] = 0]
    /\ read' = [read EXCEPT ![t] = UNSET]
    /\ data' = [data EXCEPT ![t] = [k \in Index |-> OLD]]
    /\ UNCHANGED <<numchar, enter_flag, line>>

(* A step of terminal_read once it has been called.                           *)
ReadStep(t) ==
    /\ Runs(t)
    /\ \/ ReadWake(t) \/ FirstTest(t) \/ SecondTest(t) \/ CopyN(t) \/ CopyNEnds(t)
       \/ CopyAll(t) \/ CopyAllEnds(t) \/ ReadCount(t) \/ ReadReset(t) \/ ReadReturns(t)
    /\ UNCHANGED <<terminal_shown, current_terminal, nested>>

(* sys_halt of the program on terminal t; its parent, or the base shell that  *)
(* is started again, goes on.                                                 *)
Halt(t) ==
    /\ Runs(t)
    /\ pc[t] = "program"
    /\ (\E u \in Terminals : \E k \in DOMAIN nested[u] :
           Counting(nested[u][k]) /\ nested[u][k].to = t) => "halt" \in Hazards
    /\ terminal_buffer' = [terminal_buffer EXCEPT ![t] = Blank]
    /\ numchar' = [numchar EXCEPT ![t] = 0]
    /\ enter_flag' = [enter_flag EXCEPT ![t] = 0]
    /\ line' = History([line EXCEPT ![t] = <<>>])
    /\ UNCHANGED <<terminal_shown, current_terminal, nested, readVars>>

(* Seeded fault: the last terminal keeps the processor.                       *)
NextTerminalNoWrap(t) == IF t = NumTerminals - 1 THEN t ELSE t + 1

NextTerminal(t) == (t + 1) % NumTerminals

(* The PIT handler passes the processor on.                                   *)
PITTick ==
    /\ current_terminal' = NextTerminal(current_terminal)
    /\ UNCHANGED <<terminal_shown, keyboardVars, nested, readVars>>

Next ==
    \/ \E c \in Keys : KeyChar(c)
    \/ KeyTab \/ KeyBackspace \/ KeyClear \/ KeyEnter
    \/ \E t \in Terminals : KeySwap(t)
    \/ \E t \in Terminals : HandlerStep(t) \/ ReadStep(t) \/ Halt(t)
    \/ \E t \in Terminals, n \in Sizes : ReadStart(t, n)
    \/ PITTick

(* The timer ticks, and a flow that has the processor again and again makes   *)
(* its next step inside the kernel.  Users and programs owe nothing.          *)
Fairness ==
    /\ WF_vars(PITTick)
    /\ \A t \in Terminals : SF_vars(HandlerStep(t))
    /\ \A t \in Readers : SF_vars(ReadStep(t))

Spec == Init /\ [][Next]_vars /\ Fairness
-----------------------------------------------------------------------------
(* The room a handler found in the buffer is still there when it counts, even *)
(* if reads, halts and swaps come between: no index leaves the buffer.        *)
BufferNeverOverflows ==
    \A t \in Terminals : \A k \in DOMAIN nested[t] :
        LET f == nested[t][k] IN
        Counting(f) => /\ numchar[f.to] + f.left <= BufferSize
                       /\ f.kind = "store" => f.seen + f.left <= BufferSize

(* What the kernel has buffered for a terminal is what its user sees as the   *)
(* line being typed, whatever terminal ran, was shown or swapped to meanwhile.*)
BufferIsLine ==
    \A t \in Terminals :
        (\A u \in Terminals : \A k \in DOMAIN nested[u] :
            Counting(nested[u][k]) => nested[u][k].to # t)
        => /\ numchar[t] = Len(line[t])
           /\ \A k \in 1 .. Len(line[t]) : terminal_buffer[t][k - 1] = line[t][k]

(* A read delivers the line that was typed on its terminal, cut to nbytes.    *)
ReadDeliversLine ==
    \A t \in Terminals : pc[t] = "reset" =>
        /\ read[t] = IF Len(line[t]) < nbytes[t] THEN Len(line[t]) ELSE nbytes[t]
        /\ \A k \in Index : data[t][k] = IF k < read[t] THEN line[t][k + 1] ELSE OLD

(* Enter ends the read that waits for it.                                     *)
EnterEndsRead ==
    \A t \in Readers : pc[t] = "waiting" /\ enter_flag[t] = 1 ~> pc[t] = "program"

(* A handler suspended by the timer is resumed: keys are not shut out for     *)
(* good.                                                                      *)
KeyboardComesBack == IRQ1InService ~> ~IRQ1InService
-----------------------------------------------------------------------------
(* A claim of the comment on terminal_read that the code does not keep.       *)

(* "Outputs: how many bytes we read": read has been given a value.            *)
ReadReturnsCount == \A t \in Terminals : pc[t] = "wipe" => read[t] # UNSET
=============================================================================
