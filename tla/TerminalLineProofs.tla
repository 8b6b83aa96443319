------------------------ MODULE TerminalLineProofs ------------------------
(* Theorems about TerminalLine, for any number of terminals, any buffer and   *)
(* tab width, any reads, any nesting: LineInv in every window of HazardKinds, *)
(* TypedInv outside them.                                                     *)
EXTENDS TerminalLine, SequenceTheorems, TLAPS

(* At most one handler counts: it keeps IRQ1 in service.                      *)
OnlyOneCounts ==
    \A t, u \in Terminals : \A k \in DOMAIN nested[t], l \in DOMAIN nested[u] :
        Counting(nested[t][k]) /\ Counting(nested[u][l]) => t = u /\ k = l

(* The loop over nbytes stays in the buffer even when numchar changes.        *)
CopyBound == \A t \in Terminals : pc[t] = "copyN" => nbytes[t] <= BufferSize

LineInv == TypeOK /\ OnlyOneCounts /\ BufferNeverOverflows /\ CopyBound
-----------------------------------------------------------------------------
(* What pushing, replacing and popping a frame does to the flows.             *)

(* The innermost handler is a frame.                                          *)
LEMMA TopType ==
    ASSUME TypeOK, InHandler
    PROVE  /\ current_terminal \in Terminals
           /\ nested[current_terminal] \in Seq(Frame)
           /\ Len(nested[current_terminal]) \in Nat \ {0}
           /\ Top = nested[current_terminal][Len(nested[current_terminal])]
           /\ Top \in Frame
           /\ Len(nested[current_terminal]) \in DOMAIN nested[current_terminal]
<1>1. current_terminal \in Terminals /\ nested[current_terminal] \in Seq(Frame)
  BY DEF TypeOK
<1>2. nested[current_terminal] # <<>>
  BY DEF InHandler
<1> QED
  BY <1>1, <1>2 DEF Top, Last

(* A new handler keeps the handlers of every flow frames.                     *)
LEMMA PushFrame ==
    ASSUME TypeOK, NEW f \in Frame, Push(f)
    PROVE  /\ nested' \in [Terminals -> Seq(Frame)]
           /\ \A t \in Terminals : \A k \in DOMAIN nested'[t] :
                 \/ k \in DOMAIN nested[t] /\ nested'[t][k] = nested[t][k]
                 \/ /\ t = current_terminal
                    /\ k = Len(nested[t]) + 1
                    /\ nested'[t][k] = f
<1>1. current_terminal \in Terminals /\ nested \in [Terminals -> Seq(Frame)]
  BY DEF TypeOK
<1>2. nested' = [nested EXCEPT ![current_terminal] = Append(@, f)]
  BY DEF Push
<1>3. Append(nested[current_terminal], f) \in Seq(Frame)
  BY <1>1
<1>4. ASSUME NEW t \in Terminals, NEW k \in DOMAIN nested'[t]
      PROVE  \/ k \in DOMAIN nested[t] /\ nested'[t][k] = nested[t][k]
             \/ t = current_terminal /\ k = Len(nested[t]) + 1 /\ nested'[t][k] = f
  <2>1. CASE t # current_terminal
    BY <1>1, <1>2, <2>1
  <2>2. CASE t = current_terminal
    <3>1. nested[t] \in Seq(Frame) /\ nested'[t] = Append(nested[t], f)
      BY <1>1, <1>2, <2>2
    <3> QED
      BY <2>2, <3>1
  <2> QED
    BY <2>1, <2>2
<1> QED
  BY <1>1, <1>2, <1>3, <1>4

(* The outer handlers of a flow are frames.                                   *)
LEMMA FrontFrames ==
    ASSUME NEW s \in Seq(Frame), s # <<>>
    PROVE  /\ Front(s) \in Seq(Frame)
           /\ Len(Front(s)) = Len(s) - 1
           /\ \A k \in DOMAIN Front(s) : k \in DOMAIN s /\ k # Len(s) /\ Front(s)[k] = s[k]
<1>1. Len(s) \in Nat /\ Len(s) >= 1
  OBVIOUS
<1>2. Front(s) = SubSeq(s, 1, Len(s) - 1)
  BY DEF Front
<1>3. \A k \in 1 .. Len(s) - 1 : s[k] \in Frame
  BY <1>1
<1> DEFINE n == Len(s) - 1
<1>5. n \in Nat
  BY <1>1
<1> HIDE DEF n
<1>6. /\ SubSeq(s, 1, n) \in Seq(Frame)
      /\ Len(SubSeq(s, 1, n)) = IF 1 <= n THEN n - 1 + 1 ELSE 0
      /\ \A k \in 1 .. n - 1 + 1 : SubSeq(s, 1, n)[k] = s[1 + k - 1]
  <2>1. \A k \in 1 .. n : s[k] \in Frame
    BY <1>3 DEF n
  <2> QED
    BY <1>5, <2>1, SubSeqProperties
<1>7. /\ Len(Front(s)) = n
      /\ DOMAIN Front(s) = 1 .. n
      /\ Front(s) \in Seq(Frame)
  <2>1. Front(s) = SubSeq(s, 1, n)
    BY <1>2 DEF n
  <2>2. Len(SubSeq(s, 1, n)) = n
    BY <1>5, <1>6
  <2>3. DOMAIN SubSeq(s, 1, n) = 1 .. n
    BY <1>6, <2>2, LenProperties
  <2> QED
    BY <1>6, <2>1, <2>2, <2>3
<1>8. \A k \in 1 .. n : Front(s)[k] = s[k]
  BY <1>2, <1>5, <1>6 DEF n
<1> QED
  BY <1>1, <1>7, <1>8 DEF n

(* The return of a handler keeps the handlers of every flow frames.           *)
LEMMA PopFrame ==
    ASSUME TypeOK, InHandler, Pop
    PROVE  /\ nested' \in [Terminals -> Seq(Frame)]
           /\ \A t \in Terminals : \A k \in DOMAIN nested'[t] :
                 /\ k \in DOMAIN nested[t]
                 /\ nested'[t][k] = nested[t][k]
                 /\ t = current_terminal => k # Len(nested[t])
<1> DEFINE c == current_terminal
<1>1. c \in Terminals /\ nested \in [Terminals -> Seq(Frame)] /\ nested[c] # <<>>
  BY DEF TypeOK, InHandler
<1>2. nested' = [nested EXCEPT ![c] = Front(nested[c])]
  BY DEF Pop
<1>3. /\ Front(nested[c]) \in Seq(Frame)
      /\ \A k \in DOMAIN Front(nested[c]) :
            /\ k \in DOMAIN nested[c]
            /\ k # Len(nested[c])
            /\ Front(nested[c])[k] = nested[c][k]
  BY <1>1, FrontFrames
<1> QED
  BY <1>1, <1>2, <1>3

(* A step of a handler keeps the handlers of every flow frames.               *)
LEMMA ReplaceFrame ==
    ASSUME TypeOK, InHandler, NEW f \in Frame, Replace(f)
    PROVE  /\ nested' \in [Terminals -> Seq(Frame)]
           /\ \A t \in Terminals : \A k \in DOMAIN nested'[t] :
                 /\ k \in DOMAIN nested[t]
                 /\ IF t = current_terminal /\ k = Len(nested[t])
                    THEN nested'[t][k] = f
                    ELSE nested'[t][k] = nested[t][k]
<1> DEFINE c == current_terminal
           g == Front(nested[c])
<1>1. c \in Terminals /\ nested \in [Terminals -> Seq(Frame)] /\ nested[c] # <<>>
  BY DEF TypeOK, InHandler
<1>2. nested' = [nested EXCEPT ![c] = Append(g, f)]
  BY DEF Replace
<1>3. /\ g \in Seq(Frame)
      /\ Len(g) = Len(nested[c]) - 1
      /\ \A k \in DOMAIN g : k \in DOMAIN nested[c] /\ k # Len(nested[c]) /\ g[k] = nested[c][k]
  BY <1>1, FrontFrames
<1> HIDE DEF g
<1>4. Append(g, f) \in Seq(Frame)
  BY <1>3
<1>5. \A k \in DOMAIN Append(g, f) :
          /\ k \in DOMAIN nested[c]
          /\ IF k = Len(nested[c]) THEN Append(g, f)[k] = f ELSE Append(g, f)[k] = nested[c][k]
  <2>1. nested[c] \in Seq(Frame) /\ Len(nested[c]) \in Nat /\ Len(nested[c]) >= 1
    BY <1>1
  <2> SUFFICES ASSUME NEW k \in DOMAIN Append(g, f)
               PROVE  /\ k \in DOMAIN nested[c]
                      /\ IF k = Len(nested[c]) THEN Append(g, f)[k] = f
                         ELSE Append(g, f)[k] = nested[c][k]
    OBVIOUS
  <2>2. k \in 1 .. Len(nested[c]) /\ DOMAIN nested[c] = 1 .. Len(nested[c])
    BY <1>3, <2>1
  <2>3. CASE k = Len(nested[c])
    BY <1>3, <2>1, <2>2, <2>3
  <2>4. CASE k # Len(nested[c])
    <3>1. k \in DOMAIN g
      BY <1>3, <2>1, <2>2, <2>4
    <3> QED
      BY <1>3, <2>1, <2>2, <2>4, <3>1
  <2> QED
    BY <2>2, <2>3, <2>4
<1> QED
  BY <1>1, <1>2, <1>4, <1>5
-----------------------------------------------------------------------------
(* A step that leaves the handlers alone and raises no count keeps their room.*)
LEMMA RoomKept ==
    ASSUME LineInv, nested' = nested, numchar' \in [Terminals -> 0 .. BufferSize],
           \A t \in Terminals : numchar'[t] <= numchar[t]
    PROVE  OnlyOneCounts' /\ BufferNeverOverflows'
<1>1. OnlyOneCounts'
  BY DEF LineInv, OnlyOneCounts, Counting
<1>2. ASSUME NEW t \in Terminals, NEW k \in DOMAIN nested'[t], Counting(nested'[t][k])
      PROVE  /\ numchar'[nested'[t][k].to] + nested'[t][k].left <= BufferSize
             /\ nested'[t][k].kind = "store" =>
                   nested'[t][k].seen + nested'[t][k].left <= BufferSize
  <2> DEFINE f == nested[t][k]
  <2>1. f \in Frame
    <3>1. nested[t] \in Seq(Frame) /\ k \in DOMAIN nested[t]
      BY <1>2 DEF LineInv, TypeOK
    <3> QED
      BY <3>1
  <2>2. f.to \in Terminals /\ f.left \in Nat
    BY <2>1, <1>2, LineAssumption DEF Frame, Counting
  <2>3. numchar[f.to] + f.left <= BufferSize /\ (f.kind = "store" => f.seen + f.left <= BufferSize)
    BY <1>2 DEF LineInv, BufferNeverOverflows
  <2>4. numchar[f.to] \in Int /\ numchar'[f.to] \in Int /\ numchar'[f.to] <= numchar[f.to]
    <3>1. numchar \in [Terminals -> 0 .. BufferSize]
      BY DEF LineInv, TypeOK
    <3> HIDE DEF f
    <3> QED
      BY <3>1, <2>2, LineAssumption
  <2> QED
    BY <2>2, <2>3, <2>4, LineAssumption
<1> QED
  BY <1>1, <1>2 DEF BufferNeverOverflows, Counting

(* The frame of a key that was let in.                                        *)
LEMMA SpacesType ==
    ASSUME NEW n \in 0 .. BufferSize
    PROVE  /\ SpacesOfTab(n) \in 0 .. TabWidth
           /\ n + SpacesOfTab(n) <= BufferSize
BY LineAssumption DEF SpacesOfTab

(* A line with a character more is a line.                                    *)
LEMMA TypedLine ==
    ASSUME NEW s \in Seq(Char), NEW c \in Char, NEW n \in Nat
    PROVE  s \o [k \in 1 .. n |-> c] \in Seq(Char)
<1>1. [k \in 1 .. n |-> c] \in Seq(Char)
  OBVIOUS
<1> QED
  BY <1>1, ConcatProperties

(* A line with its last character erased is a line.                           *)
LEMMA FrontLine ==
    ASSUME NEW s \in Seq(Char)
    PROVE  (IF s = <<>> THEN s ELSE Front(s)) \in Seq(Char)
<1>1. CASE s = <<>>
  BY <1>1
<1>2. CASE s # <<>>
  <2>1. Len(s) \in Nat /\ \A k \in 1 .. Len(s) - 1 : s[k] \in Char
    BY LenProperties
  <2>2. SubSeq(s, 1, Len(s) - 1) \in Seq(Char)
    BY <2>1, SubSeqProperties
  <2> QED
    BY <1>2, <2>2 DEF Front
<1> QED
  BY <1>1, <1>2

(* The history kept of a line is a line.                                      *)
LEMMA HistoryType ==
    ASSUME TypeOK, NEW s \in Terminals, NEW l \in Seq(Char), line' = History([line EXCEPT ![s] = l])
    PROVE  line' \in [Terminals -> Seq(Char)]
BY DEF TypeOK, History

(* A key that produces characters.                                            *)
LEMMA TypeInv ==
    ASSUME LineInv, NEW c \in Char, NEW n \in 1 .. TabWidth,
           numchar[terminal_shown] + n <= BufferSize, Type(c, n)
    PROVE  LineInv'
<1> DEFINE s == terminal_shown
           f == [kind |-> "load", to |-> s, left |-> n, seen |-> UNSET]
<1>1. TypeOK /\ s \in Terminals /\ numchar[s] \in 0 .. BufferSize /\ ~IRQ1InService
  BY DEF LineInv, TypeOK, Type, EditPossible, KeyPossible
<1>2. f \in Frame /\ Push(f)
  BY <1>1 DEF Type, Frame
<1>3. /\ nested' \in [Terminals -> Seq(Frame)]
      /\ \A t \in Terminals : \A k \in DOMAIN nested'[t] :
            \/ k \in DOMAIN nested[t] /\ nested'[t][k] = nested[t][k]
            \/ t = current_terminal /\ k = Len(nested[t]) + 1 /\ nested'[t][k] = f
  <2> HIDE DEF f
  <2> QED
    BY <1>1, <1>2, PushFrame
<1>4. \A t \in Terminals : \A k \in DOMAIN nested'[t] : Counting(nested'[t][k])
         => t = current_terminal /\ k = Len(nested[t]) + 1 /\ nested'[t][k] = f
  BY <1>1, <1>3 DEF IRQ1InService, Counting
<1>5. TypeOK'
  <2>1. terminal_buffer' \in [Terminals -> [Index -> Char \cup {NUL}]]
    BY <1>1 DEF Type, LineInv, TypeOK
  <2>2. line' \in [Terminals -> Seq(Char)]
    <3>1. line[s] \o [k \in 1 .. n |-> c] \in Seq(Char)
      BY <1>1, TypedLine DEF TypeOK
    <3>2. line' = History([line EXCEPT ![s] = line[s] \o [k \in 1 .. n |-> c]])
      BY DEF Type
    <3> QED
      BY <1>1, <3>1, <3>2, HistoryType
  <2> QED
    BY <1>1, <1>3, <2>1, <2>2 DEF Type, TypeOK, readVars
<1>6. OnlyOneCounts'
  <2> SUFFICES ASSUME NEW t \in Terminals, NEW u \in Terminals,
                      NEW k \in DOMAIN nested'[t], NEW l \in DOMAIN nested'[u],
                      Counting(nested'[t][k]), Counting(nested'[u][l])
               PROVE  t = u /\ k = l
    BY DEF OnlyOneCounts, Counting
  <2> QED
    BY <1>4
<1>7. BufferNeverOverflows'
  <2> SUFFICES ASSUME NEW t \in Terminals, NEW k \in DOMAIN nested'[t], Counting(nested'[t][k])
               PROVE  /\ numchar'[nested'[t][k].to] + nested'[t][k].left <= BufferSize
                      /\ nested'[t][k].kind = "store" =>
                            nested'[t][k].seen + nested'[t][k].left <= BufferSize
    BY DEF BufferNeverOverflows, Counting
  <2>1. nested'[t][k] = f
    BY <1>4
  <2> QED
    BY <2>1 DEF Type
<1>8. CopyBound'
  BY DEF LineInv, CopyBound, Type, readVars
<1> QED
  BY <1>5, <1>6, <1>7, <1>8 DEF LineInv

(* Push of a handler that counts nothing, and Pop.                            *)
LEMMA PushSwapInv ==
    ASSUME LineInv, NEW f \in Frame, ~Counting(f), Push(f), UNCHANGED numchar
    PROVE  /\ nested' \in [Terminals -> Seq(Frame)]
           /\ OnlyOneCounts'
           /\ BufferNeverOverflows'
<1>1. TypeOK
  BY DEF LineInv
<1>2. /\ nested' \in [Terminals -> Seq(Frame)]
      /\ \A t \in Terminals : \A k \in DOMAIN nested'[t] :
            \/ k \in DOMAIN nested[t] /\ nested'[t][k] = nested[t][k]
            \/ t = current_terminal /\ k = Len(nested[t]) + 1 /\ nested'[t][k] = f
  BY <1>1, PushFrame
<1>3. \A t \in Terminals : \A k \in DOMAIN nested'[t] :
         Counting(nested'[t][k]) => k \in DOMAIN nested[t] /\ nested'[t][k] = nested[t][k]
  BY <1>2
<1>4. OnlyOneCounts'
  BY <1>3 DEF LineInv, OnlyOneCounts, Counting
<1>5. BufferNeverOverflows'
  BY <1>3 DEF LineInv, BufferNeverOverflows, Counting
<1> QED
  BY <1>2, <1>4, <1>5

(* The innermost handler, when it counts: it is the only one that does.       *)
LEMMA TopCounts ==
    ASSUME LineInv, InHandler, Counting(Top)
    PROVE  /\ Top \in [kind : {"put", "load", "store"}, to : Terminals,
                       left : 1 .. TabWidth, seen : Index \cup {UNSET}]
           /\ numchar[Top.to] + Top.left <= BufferSize
           /\ Top.kind = "store" => Top.seen + Top.left <= BufferSize
           /\ \A t \in Terminals : \A k \in DOMAIN nested[t] :
                 Counting(nested[t][k]) => t = current_terminal /\ k = Len(nested[t])
<1> DEFINE c == current_terminal
<1>1. /\ c \in Terminals
      /\ Top = nested[c][Len(nested[c])]
      /\ Top \in Frame
      /\ Len(nested[c]) \in DOMAIN nested[c]
  BY TopType DEF LineInv
<1>2. Top \in [kind : {"put", "load", "store"}, to : Terminals,
               left : 1 .. TabWidth, seen : Index \cup {UNSET}]
  BY <1>1 DEF Frame, Counting
<1>3. /\ numchar[Top.to] + Top.left <= BufferSize
      /\ Top.kind = "store" => Top.seen + Top.left <= BufferSize
  BY <1>1 DEF LineInv, BufferNeverOverflows
<1>4. \A t \in Terminals : \A k \in DOMAIN nested[t] :
         Counting(nested[t][k]) => t = c /\ k = Len(nested[t])
  BY <1>1 DEF LineInv, OnlyOneCounts
<1> QED
  BY <1>2, <1>3, <1>4

(* A handler that counts goes on to its next place.                           *)
LEMMA ReplaceInv ==
    ASSUME LineInv, InHandler, Counting(Top), NEW f \in Frame, Counting(f), Replace(f),
           numchar'[f.to] + f.left <= BufferSize,
           f.kind = "store" => f.seen + f.left <= BufferSize
    PROVE  /\ nested' \in [Terminals -> Seq(Frame)]
           /\ OnlyOneCounts'
           /\ BufferNeverOverflows'
<1>1. TypeOK
  BY DEF LineInv
<1>2. /\ nested' \in [Terminals -> Seq(Frame)]
      /\ \A t \in Terminals : \A k \in DOMAIN nested'[t] :
            /\ k \in DOMAIN nested[t]
            /\ IF t = current_terminal /\ k = Len(nested[t])
               THEN nested'[t][k] = f
               ELSE nested'[t][k] = nested[t][k]
  BY <1>1, ReplaceFrame
<1>3. \A t \in Terminals : \A k \in DOMAIN nested'[t] : Counting(nested'[t][k])
         => t = current_terminal /\ k = Len(nested[t]) /\ nested'[t][k] = f
  BY <1>2, TopCounts
<1>4. OnlyOneCounts'
  <2> SUFFICES ASSUME NEW t \in Terminals, NEW u \in Terminals,
                      NEW k \in DOMAIN nested'[t], NEW l \in DOMAIN nested'[u],
                      Counting(nested'[t][k]), Counting(nested'[u][l])
               PROVE  t = u /\ k = l
    BY DEF OnlyOneCounts, Counting
  <2> QED
    BY <1>3
<1>5. BufferNeverOverflows'
  <2> SUFFICES ASSUME NEW t \in Terminals, NEW k \in DOMAIN nested'[t], Counting(nested'[t][k])
               PROVE  /\ numchar'[nested'[t][k].to] + nested'[t][k].left <= BufferSize
                      /\ nested'[t][k].kind = "store" =>
                            nested'[t][k].seen + nested'[t][k].left <= BufferSize
    BY DEF BufferNeverOverflows, Counting
  <2>1. nested'[t][k] = f
    BY <1>3
  <2> QED
    BY <2>1
<1> QED
  BY <1>2, <1>4, <1>5

(* The terminal_swap of the handler keeps the invariant.                      *)
LEMMA SwapStep == ASSUME LineInv, Swap PROVE LineInv'
<1>1. TypeOK /\ InHandler /\ Pop
  BY DEF LineInv, Swap
<1>2. /\ nested' \in [Terminals -> Seq(Frame)]
      /\ \A t \in Terminals : \A k \in DOMAIN nested'[t] :
            k \in DOMAIN nested[t] /\ nested'[t][k] = nested[t][k]
  BY <1>1, PopFrame
<1>3. Top.to \in Terminals
  BY <1>1, TopType DEF Swap, Frame
<1>4. TypeOK'
  BY <1>1, <1>2, <1>3 DEF Swap, TypeOK, keyboardVars, readVars
<1>5. OnlyOneCounts'
  BY <1>2 DEF LineInv, OnlyOneCounts, Counting
<1>6. BufferNeverOverflows'
  BY <1>2 DEF LineInv, BufferNeverOverflows, Counting, Swap, keyboardVars
<1>7. CopyBound'
  BY DEF LineInv, CopyBound, Swap, readVars
<1> QED
  BY <1>4, <1>5, <1>6, <1>7 DEF LineInv

(* The echo of a character keeps the invariant.                               *)
LEMMA PutStep == ASSUME LineInv, Put PROVE LineInv'
<1> DEFINE f == [Top EXCEPT !.kind = "load"]
<1>1. TypeOK /\ InHandler /\ Counting(Top) /\ Replace(f) /\ UNCHANGED numchar
  BY DEF LineInv, Put, Counting
<1>2. /\ Top \in [kind : {"put", "load", "store"}, to : Terminals,
                  left : 1 .. TabWidth, seen : Index \cup {UNSET}]
      /\ numchar[Top.to] + Top.left <= BufferSize
  BY <1>1, TopCounts
<1>3. f \in Frame /\ Counting(f) /\ f.to = Top.to /\ f.left = Top.left /\ f.kind = "load"
  BY <1>2 DEF Frame, Counting
<1>4. nested' \in [Terminals -> Seq(Frame)] /\ OnlyOneCounts' /\ BufferNeverOverflows'
  <2> HIDE DEF f
  <2> QED
    BY <1>1, <1>2, <1>3, ReplaceInv
<1>5. terminal_buffer' \in [Terminals -> [Index -> Char \cup {NUL}]]
  BY <1>1, <1>2 DEF Put, TypeOK, Char
<1>6. TypeOK'
  BY <1>1, <1>4, <1>5 DEF Put, TypeOK, readVars
<1>7. CopyBound'
  BY DEF LineInv, CopyBound, Put, readVars
<1> QED
  BY <1>4, <1>6, <1>7 DEF LineInv

(* The handler keeps the invariant as it reads the count.                     *)
LEMMA LoadStep == ASSUME LineInv, Load PROVE LineInv'
<1> DEFINE f == [Top EXCEPT !.kind = "store", !.seen = numchar[Top.to]]
<1>1. TypeOK /\ InHandler /\ Counting(Top) /\ Replace(f) /\ UNCHANGED numchar
  BY DEF LineInv, Load, Counting, keyboardVars
<1>2. /\ Top \in [kind : {"put", "load", "store"}, to : Terminals,
                  left : 1 .. TabWidth, seen : Index \cup {UNSET}]
      /\ numchar[Top.to] + Top.left <= BufferSize
  BY <1>1, TopCounts
<1>3. numchar[Top.to] \in Index
  <2>1. Top.to \in Terminals /\ Top.left \in 1 .. TabWidth
    BY <1>2
  <2>2. numchar[Top.to] \in 0 .. BufferSize
    BY <1>1, <2>1 DEF TypeOK
  <2> QED
    BY <1>2, <2>1, <2>2, LineAssumption DEF Index
<1>4. /\ f \in Frame
      /\ Counting(f)
      /\ f.to = Top.to
      /\ f.left = Top.left
      /\ f.seen = numchar[Top.to]
  BY <1>2, <1>3 DEF Frame, Counting
<1>5. nested' \in [Terminals -> Seq(Frame)] /\ OnlyOneCounts' /\ BufferNeverOverflows'
  <2> HIDE DEF f
  <2> QED
    BY <1>1, <1>2, <1>4, ReplaceInv
<1>6. TypeOK'
  BY <1>1, <1>5 DEF Load, TypeOK, keyboardVars, readVars
<1>7. CopyBound'
  BY DEF LineInv, CopyBound, Load, readVars
<1> QED
  BY <1>5, <1>6, <1>7 DEF LineInv

(* The handler keeps the invariant as it stores the count.                    *)
LEMMA StoreStep == ASSUME LineInv, Store PROVE LineInv'
<1> DEFINE f == [kind |-> "put", to |-> Top.to, left |-> Top.left - 1, seen |-> UNSET]
<1>1. TypeOK /\ InHandler /\ Counting(Top) /\ Top.kind = "store"
  BY DEF LineInv, Store, Counting
<1>2. /\ Top \in [kind : {"put", "load", "store"}, to : Terminals,
                  left : 1 .. TabWidth, seen : Index \cup {UNSET}]
      /\ Top.seen + Top.left <= BufferSize
  BY <1>1, TopCounts
<1>3. /\ Top.to \in Terminals
      /\ Top.left \in 1 .. TabWidth
      /\ Top.seen \in Index \cup {UNSET}
      /\ TabWidth \in Nat /\ BufferSize \in Nat
  BY <1>2, LineAssumption
<1>4. Top.seen + 1 \in 0 .. BufferSize
  BY <1>2, <1>3 DEF Index, UNSET
<1>5. numchar' = [numchar EXCEPT ![Top.to] = Top.seen + 1]
  BY DEF Store, CountedFor
<1>6. numchar' \in [Terminals -> 0 .. BufferSize] /\ numchar'[Top.to] = Top.seen + 1
  BY <1>1, <1>3, <1>4, <1>5 DEF TypeOK
<1>7. nested' \in [Terminals -> Seq(Frame)] /\ OnlyOneCounts' /\ BufferNeverOverflows'
  <2>1. CASE Top.left = 1
    <3>1. Pop
      BY <2>1 DEF Store
    <3>2. nested' \in [Terminals -> Seq(Frame)]
      BY <1>1, <3>1, PopFrame
    <3>3. \A t \in Terminals : \A k \in DOMAIN nested'[t] : ~Counting(nested'[t][k])
      BY <1>1, <3>1, PopFrame, TopCounts
    <3> QED
      BY <3>2, <3>3 DEF OnlyOneCounts, BufferNeverOverflows, Counting
  <2>2. CASE Top.left # 1
    <3>1. Replace(f)
      BY <2>2 DEF Store
    <3>2. /\ f \in Frame
          /\ Counting(f)
          /\ f.to = Top.to
          /\ f.left = Top.left - 1
          /\ f.kind = "put"
      <4>1. Top.left - 1 \in 1 .. TabWidth
        BY <1>3, <2>2
      <4> QED
        BY <1>3, <4>1 DEF Frame, Counting
    <3>3. numchar'[f.to] + f.left <= BufferSize
      BY <1>2, <1>3, <1>6, <3>2 DEF Index, UNSET
    <3> HIDE DEF f
    <3> QED
      BY <1>1, <3>1, <3>2, <3>3, ReplaceInv
  <2> QED
    BY <2>1, <2>2
<1>8. TypeOK'
  BY <1>1, <1>6, <1>7 DEF Store, TypeOK, readVars
<1>9. CopyBound'
  BY DEF LineInv, CopyBound, Store, readVars
<1> QED
  BY <1>7, <1>8, <1>9 DEF LineInv
-----------------------------------------------------------------------------
(* An empty buffer is a buffer.                                               *)
LEMMA BlankType == Blank \in [Index -> Char \cup {NUL}]
BY DEF Blank

(* The keys that produce nothing.                                             *)
LEMMA KeyStep ==
    ASSUME LineInv,
           KeyBackspace \/ KeyClear \/ KeyEnter \/ (\E t \in Terminals : KeySwap(t))
    PROVE  LineInv'
<1>1. TypeOK /\ terminal_shown \in Terminals /\ numchar[terminal_shown] \in 0 .. BufferSize
  BY DEF LineInv, TypeOK
<1> USE LineAssumption
<1>2. CASE KeyBackspace
  <2>1. numchar[terminal_shown] - 1 \in Index /\ Index \subseteq 0 .. BufferSize
    BY <1>1, <1>2 DEF KeyBackspace, Index
  <2>2. numchar' \in [Terminals -> 0 .. BufferSize]
    BY <1>1, <1>2, <2>1 DEF KeyBackspace, TypeOK
  <2>3. \A t \in Terminals : numchar'[t] <= numchar[t]
    BY <1>1, <1>2 DEF KeyBackspace, TypeOK
  <2>4. OnlyOneCounts' /\ BufferNeverOverflows'
    BY <1>2, <2>2, <2>3, RoomKept DEF KeyBackspace
  <2>5. terminal_buffer' \in [Terminals -> [Index -> Char \cup {NUL}]]
    BY <1>1, <1>2, <2>1 DEF KeyBackspace, TypeOK
  <2>6. line' \in [Terminals -> Seq(Char)]
    <3>1. (IF line[terminal_shown] = <<>> THEN line[terminal_shown]
           ELSE Front(line[terminal_shown])) \in Seq(Char)
      BY <1>1, FrontLine DEF TypeOK
    <3>2. line' = History([line EXCEPT ![terminal_shown] =
                      IF line[terminal_shown] = <<>> THEN line[terminal_shown]
                      ELSE Front(line[terminal_shown])])
      BY <1>2 DEF KeyBackspace
    <3> QED
      BY <1>1, <3>1, <3>2, HistoryType
  <2>7. TypeOK'
    BY <1>1, <1>2, <2>2, <2>5, <2>6 DEF KeyBackspace, TypeOK, readVars
  <2>8. CopyBound'
    BY <1>2 DEF LineInv, CopyBound, KeyBackspace, readVars
  <2> QED
    BY <2>4, <2>7, <2>8 DEF LineInv
<1>3. CASE KeyClear
  <2>1. numchar' \in [Terminals -> 0 .. BufferSize] /\ \A t \in Terminals : numchar'[t] <= numchar[t]
    BY <1>1, <1>3 DEF KeyClear, TypeOK
  <2>2. OnlyOneCounts' /\ BufferNeverOverflows'
    BY <1>3, <2>1, RoomKept DEF KeyClear
  <2>3. line' \in [Terminals -> Seq(Char)]
    BY <1>1, <1>3 DEF KeyClear, History, TypeOK
  <2>4. TypeOK'
    BY <1>1, <1>3, <2>1, <2>3 DEF KeyClear, TypeOK, readVars
  <2>5. CopyBound'
    BY <1>3 DEF LineInv, CopyBound, KeyClear, readVars
  <2> QED
    BY <2>2, <2>4, <2>5 DEF LineInv
<1>4. CASE KeyEnter
  <2>1. numchar' \in [Terminals -> 0 .. BufferSize] /\ \A t \in Terminals : numchar'[t] <= numchar[t]
    BY <1>1, <1>4 DEF KeyEnter, TypeOK
  <2>2. OnlyOneCounts' /\ BufferNeverOverflows'
    BY <1>4, <2>1, RoomKept DEF KeyEnter
  <2>3. TypeOK'
    BY <1>1, <1>4 DEF KeyEnter, TypeOK, readVars
  <2>4. CopyBound'
    BY <1>4 DEF LineInv, CopyBound, KeyEnter, readVars
  <2> QED
    BY <2>2, <2>3, <2>4 DEF LineInv
<1>5. ASSUME NEW t \in Terminals, KeySwap(t)
      PROVE  LineInv'
  <2> DEFINE f == [kind |-> "swap", to |-> t]
  <2>1. f \in Frame /\ ~Counting(f) /\ Push(f) /\ UNCHANGED numchar
    BY <1>5 DEF KeySwap, Frame, Counting, keyboardVars
  <2>2. nested' \in [Terminals -> Seq(Frame)] /\ OnlyOneCounts' /\ BufferNeverOverflows'
    <3> HIDE DEF f
    <3> QED
      BY <2>1, PushSwapInv
  <2>3. TypeOK'
    BY <1>1, <1>5, <2>2 DEF KeySwap, TypeOK, keyboardVars, readVars
  <2>4. CopyBound'
    BY <1>5 DEF LineInv, CopyBound, KeySwap, readVars
  <2> QED
    BY <2>2, <2>3, <2>4 DEF LineInv
<1> QED
  BY <1>2, <1>3, <1>4, <1>5
-----------------------------------------------------------------------------
(* terminal_read.                                                             *)

(* The call of terminal_read keeps the invariant.                             *)
LEMMA ReadStartStep ==
    ASSUME LineInv, NEW t \in Terminals, NEW n \in Sizes, ReadStart(t, n)
    PROVE  LineInv'
<1>1. TypeOK
  BY DEF LineInv
<1>2. \A u \in Terminals : numchar[u] \in Int /\ numchar'[u] <= numchar[u]
  BY <1>1, LineAssumption DEF ReadStart, TypeOK
<1>3. OnlyOneCounts' /\ BufferNeverOverflows'
  BY <1>1, <1>2, RoomKept DEF ReadStart, TypeOK
<1>4. TypeOK'
  BY <1>1 DEF ReadStart, Goto, TypeOK, Place
<1>5. CopyBound'
  BY <1>1 DEF LineInv, CopyBound, ReadStart, Goto, TypeOK
<1> QED
  BY <1>3, <1>4, <1>5 DEF LineInv

(* What is read off the buffer at index i.                                    *)
LEMMA CopyOneStep ==
    ASSUME LineInv, NEW t \in Terminals, i[t] \in Index, CopyOne(t)
    PROVE  /\ i' \in [Terminals -> 0 .. BufferSize]
           /\ data' \in [Terminals -> [Index -> Char \cup {OLD}]]
<1>1. TypeOK /\ BufferSize \in Nat
  BY LineAssumption DEF LineInv
<1>2. terminal_buffer[t][i[t]] \in Char \cup {NUL}
  BY <1>1 DEF TypeOK
<1>3. data' \in [Terminals -> [Index -> Char \cup {OLD}]]
  BY <1>1, <1>2 DEF CopyOne, TypeOK
<1>4. i[t] + 1 \in 0 .. BufferSize
  BY <1>1 DEF Index
<1> QED
  BY <1>1, <1>3, <1>4 DEF CopyOne, TypeOK

(* The sizes programs ask for are integers.                                   *)
LEMMA SizesAreIntegers == ASSUME TypeOK PROVE \A t \in Terminals : nbytes[t] \in Int
<1>1. Sizes \subseteq Int /\ -1 \in Int
  BY LineAssumption
<1>2. \A t \in Terminals : nbytes[t] \in Sizes \/ nbytes[t] = -1
  BY DEF TypeOK, UNSET
<1> QED
  BY <1>1, <1>2

(* A step that leaves the handlers and the counts alone keeps their room.     *)
LEMMA CountsStay ==
    ASSUME LineInv, nested' = nested, numchar' = numchar
    PROVE  OnlyOneCounts' /\ BufferNeverOverflows'
<1>1. numchar \in [Terminals -> 0 .. BufferSize] /\ BufferSize \in Nat
  BY LineAssumption DEF LineInv, TypeOK
<1>2. \A t \in Terminals : numchar[t] <= numchar[t]
  BY <1>1
<1> QED
  BY <1>1, <1>2, RoomKept

(* A read goes on at another place.                                           *)
LEMMA Moves ==
    ASSUME TypeOK, NEW t \in Terminals, NEW p \in Place, Goto(t, p)
    PROVE  /\ pc' \in [Terminals -> Place]
           /\ pc'[t] = p
           /\ \A u \in Terminals : u # t => pc'[u] = pc[u]
<1>1. pc \in [Terminals -> Place] /\ pc' = [pc EXCEPT ![t] = p]
  BY DEF TypeOK, Goto
<1> QED
  BY <1>1

(* A step of one read leaves the bound of the others alone.                   *)
LEMMA OthersBound ==
    ASSUME LineInv, NEW t \in Terminals, nbytes' = nbytes,
           \A u \in Terminals : u # t => pc'[u] = pc[u],
           pc'[t] = "copyN" => nbytes[t] <= BufferSize
    PROVE  CopyBound'
<1>1. ASSUME NEW u \in Terminals, pc'[u] = "copyN" PROVE nbytes'[u] <= BufferSize
  <2>1. CASE u = t
    BY <1>1, <2>1
  <2>2. CASE u # t
    BY <1>1, <2>2 DEF LineInv, CopyBound
  <2> QED
    BY <2>1, <2>2
<1> QED
  BY <1>1 DEF CopyBound

(* A step of a read that changes its place only, or its counters with types,  *)
(* keeps the invariant.                                                       *)
LEMMA PlaceInv ==
    ASSUME LineInv, NEW t \in Terminals, NEW p \in Place, Goto(t, p),
           p = "copyN" => nbytes[t] <= BufferSize,
           i' \in [Terminals -> 0 .. BufferSize],
           read' \in [Terminals -> 0 .. BufferSize \cup {UNSET}],
           UNCHANGED <<keyboardVars, nbytes, data, terminal_shown, current_terminal, nested>>
    PROVE  LineInv'
<1>1. TypeOK
  BY DEF LineInv
<1>2. /\ pc' \in [Terminals -> Place] /\ pc'[t] = p
      /\ \A u \in Terminals : u # t => pc'[u] = pc[u]
  BY <1>1, Moves
<1>3. TypeOK'
  BY <1>1, <1>2 DEF TypeOK, keyboardVars
<1>4. CopyBound'
  BY <1>2, OthersBound
<1>5. OnlyOneCounts' /\ BufferNeverOverflows'
  BY CountsStay DEF keyboardVars
<1> QED
  BY <1>3, <1>4, <1>5 DEF LineInv

(* A round of a loop of terminal_read keeps the invariant.                    *)
LEMMA RoundInv ==
    ASSUME LineInv, NEW t \in Terminals, i[t] \in Index, CopyOne(t),
           UNCHANGED <<terminal_shown, current_terminal, nested>>
    PROVE  LineInv'
<1>1. TypeOK
  BY DEF LineInv
<1>2. i' \in [Terminals -> 0 .. BufferSize] /\ data' \in [Terminals -> [Index -> Char \cup {OLD}]]
  BY CopyOneStep
<1>3. UNCHANGED <<keyboardVars, pc, nbytes, read>>
  BY DEF CopyOne
<1>4. TypeOK'
  BY <1>1, <1>2, <1>3 DEF TypeOK, keyboardVars
<1>5. CopyBound'
  BY <1>3 DEF LineInv, CopyBound
<1>6. OnlyOneCounts' /\ BufferNeverOverflows'
  BY <1>3, CountsStay DEF keyboardVars
<1> QED
  BY <1>4, <1>5, <1>6 DEF LineInv

(* Every step of terminal_read keeps the invariant.                           *)
LEMMA ReadStepInv ==
    ASSUME LineInv, NEW t \in Terminals, ReadStep(t)
    PROVE  LineInv'
<1>1. /\ TypeOK /\ BufferSize \in Nat
      /\ i \in [Terminals -> 0 .. BufferSize]
      /\ read \in [Terminals -> 0 .. BufferSize \cup {UNSET}]
      /\ numchar[t] \in 0 .. BufferSize /\ i[t] \in 0 .. BufferSize /\ nbytes[t] \in Int
  BY LineAssumption, SizesAreIntegers DEF LineInv, TypeOK
<1>2. UNCHANGED <<terminal_shown, current_terminal, nested>>
  BY DEF ReadStep
<1>3. /\ "waiting" \in Place /\ "first" \in Place /\ "copyN" \in Place /\ "second" \in Place
      /\ "copyAll" \in Place /\ "count" \in Place /\ "reset" \in Place /\ "wipe" \in Place
      /\ "program" \in Place
  BY DEF Place
<1>4. CASE ReadWake(t)
  <2>1. Goto(t, "first") /\ UNCHANGED <<keyboardVars, nbytes, i, read, data>>
    BY <1>4 DEF ReadWake
  <2> QED
    BY <1>1, <1>2, <1>3, <2>1, PlaceInv
<1>5. CASE FirstTest(t)
  <2>1. PICK p \in Place : /\ p = IF nbytes[t] < numchar[t] THEN "copyN" ELSE "second"
                           /\ Goto(t, p)
    BY <1>3, <1>5 DEF FirstTest
  <2>2. p = "copyN" => nbytes[t] <= BufferSize
    BY <1>1, <2>1
  <2>3. UNCHANGED <<keyboardVars, nbytes, i, read, data>>
    BY <1>5 DEF FirstTest
  <2> QED
    BY <1>1, <1>2, <2>1, <2>2, <2>3, PlaceInv
<1>6. CASE SecondTest(t)
  <2>1. PICK p \in Place : /\ p = IF nbytes[t] >= numchar[t] THEN "copyAll" ELSE "reset"
                           /\ Goto(t, p)
    BY <1>3, <1>6 DEF SecondTest
  <2>2. i' \in [Terminals -> 0 .. BufferSize] /\ UNCHANGED <<keyboardVars, nbytes, read, data>>
    BY <1>1, <1>6 DEF SecondTest
  <2> QED
    BY <1>1, <1>2, <2>1, <2>2, PlaceInv
<1>7. CASE CopyN(t)
  <2>1. i[t] < nbytes[t] /\ nbytes[t] <= BufferSize
    BY <1>7 DEF LineInv, CopyBound, CopyN, GoesOn
  <2>2. i[t] \in Index /\ CopyOne(t)
    BY <1>1, <1>7, <2>1 DEF Index, CopyN
  <2> QED
    BY <1>2, <2>2, RoundInv
<1>8. CASE CopyNEnds(t)
  <2>1. nbytes[t] \in 0 .. BufferSize \cup {UNSET}
    <3>1. nbytes[t] \in Nat \cup {UNSET}
      BY <1>1, LineAssumption DEF TypeOK
    <3>2. nbytes[t] <= BufferSize
      BY <1>8 DEF LineInv, CopyBound, CopyNEnds
    <3> QED
      BY <1>1, <3>1, <3>2 DEF UNSET
  <2>2. read' = [read EXCEPT ![t] = nbytes[t]] /\ Goto(t, "second")
        /\ UNCHANGED <<keyboardVars, nbytes, i, data>>
    BY <1>8 DEF CopyNEnds
  <2>3. read' \in [Terminals -> 0 .. BufferSize \cup {UNSET}]
    BY <1>1, <2>1, <2>2
  <2> QED
    BY <1>1, <1>2, <1>3, <2>2, <2>3, PlaceInv
<1>9. CASE CopyAll(t)
  <2>1. i[t] \in Index /\ CopyOne(t)
    BY <1>1, <1>9 DEF Index, CopyAll, GoesOn
  <2> QED
    BY <1>2, <2>1, RoundInv
<1>10. CASE CopyAllEnds(t)
  <2>1. Goto(t, "count") /\ UNCHANGED <<keyboardVars, nbytes, i, read, data>>
    BY <1>10 DEF CopyAllEnds
  <2> QED
    BY <1>1, <1>2, <1>3, <2>1, PlaceInv
<1>11. CASE ReadCount(t)
  <2>1. read' = [read EXCEPT ![t] = numchar[t]] /\ Goto(t, "reset")
        /\ UNCHANGED <<keyboardVars, nbytes, i, data>>
    BY <1>11 DEF ReadCount
  <2>2. read' \in [Terminals -> 0 .. BufferSize \cup {UNSET}]
    BY <1>1, <2>1
  <2> QED
    BY <1>1, <1>2, <1>3, <2>1, <2>2, PlaceInv
<1>12. CASE ReadReset(t)
  <2>1. line' \in [Terminals -> Seq(Char)]
    BY <1>1, <1>12 DEF ReadReset, History, TypeOK
  <2>2. numchar' \in [Terminals -> 0 .. BufferSize] /\ \A u \in Terminals : numchar'[u] <= numchar[u]
    BY <1>1, <1>12 DEF ReadReset, NumcharAfterRead, TypeOK
  <2>3. /\ pc' \in [Terminals -> Place] /\ pc'[t] = "wipe"
        /\ \A u \in Terminals : u # t => pc'[u] = pc[u]
    BY <1>1, <1>3, <1>12, Moves DEF ReadReset
  <2>4. UNCHANGED <<terminal_buffer, enter_flag, nbytes, i, read, data>>
    BY <1>12 DEF ReadReset
  <2>5. TypeOK'
    BY <1>1, <1>2, <2>1, <2>2, <2>3, <2>4 DEF TypeOK
  <2>6. CopyBound'
    BY <2>3, <2>4, OthersBound
  <2>7. OnlyOneCounts' /\ BufferNeverOverflows'
    BY <1>2, <2>2, RoomKept
  <2> QED
    BY <2>5, <2>6, <2>7 DEF LineInv
<1>13. CASE ReadReturns(t)
  <2>1. terminal_buffer' \in [Terminals -> [Index -> Char \cup {NUL}]]
    BY <1>1, <1>13 DEF ReadReturns, TypeOK
  <2>2. data' \in [Terminals -> [Index -> Char \cup {OLD}]]
    BY <1>1, <1>13 DEF ReadReturns, TypeOK
  <2>3. /\ nbytes' \in [Terminals -> Sizes \cup {UNSET}] /\ i' \in [Terminals -> 0 .. BufferSize]
        /\ read' \in [Terminals -> 0 .. BufferSize \cup {UNSET}]
        /\ \A u \in Terminals : u # t => nbytes'[u] = nbytes[u]
    BY <1>1, <1>13 DEF ReadReturns, TypeOK
  <2>4. /\ pc' \in [Terminals -> Place] /\ pc'[t] = "program"
        /\ \A u \in Terminals : u # t => pc'[u] = pc[u]
    BY <1>1, <1>3, <1>13, Moves DEF ReadReturns
  <2>5. UNCHANGED <<numchar, enter_flag, line>>
    BY <1>13 DEF ReadReturns
  <2>6. TypeOK'
    BY <1>1, <1>2, <2>1, <2>2, <2>3, <2>4, <2>5 DEF TypeOK
  <2>7. CopyBound'
    BY <2>3, <2>4 DEF LineInv, CopyBound
  <2>8. OnlyOneCounts' /\ BufferNeverOverflows'
    BY <1>2, <2>5, CountsStay
  <2> QED
    BY <2>6, <2>7, <2>8 DEF LineInv
<1> QED
  BY <1>4, <1>5, <1>6, <1>7, <1>8, <1>9, <1>10, <1>11, <1>12, <1>13 DEF ReadStep

(* The halt of a reader keeps the invariant.                                  *)
LEMMA HaltStep ==
    ASSUME LineInv, NEW t \in Terminals, Halt(t)
    PROVE  LineInv'
<1> USE LineAssumption
<1>1. TypeOK
  BY DEF LineInv
<1>2. numchar' \in [Terminals -> 0 .. BufferSize] /\ \A u \in Terminals : numchar'[u] <= numchar[u]
  <2>1. numchar \in [Terminals -> 0 .. BufferSize] /\ numchar' = [numchar EXCEPT ![t] = 0]
    BY <1>1 DEF Halt, TypeOK
  <2> QED
    BY <2>1
<1>3. OnlyOneCounts' /\ BufferNeverOverflows'
  BY <1>2, RoomKept DEF Halt
<1>4. terminal_buffer' \in [Terminals -> [Index -> Char \cup {NUL}]]
  BY <1>1, BlankType DEF Halt, TypeOK
<1>5. line' \in [Terminals -> Seq(Char)]
  BY <1>1 DEF Halt, History, TypeOK
<1>6. TypeOK'
  BY <1>1, <1>2, <1>4, <1>5 DEF Halt, TypeOK, readVars
<1>7. CopyBound'
  BY DEF LineInv, CopyBound, Halt, readVars
<1> QED
  BY <1>3, <1>6, <1>7 DEF LineInv

(* A tick keeps the invariant.                                                *)
LEMMA TickStep == ASSUME LineInv, PITTick PROVE LineInv'
<1> USE LineAssumption
<1>1. TypeOK
  BY DEF LineInv
<1>2. current_terminal' \in Terminals
  BY <1>1 DEF PITTick, NextTerminal, TypeOK, Terminals
<1>3. TypeOK'
  BY <1>1, <1>2 DEF PITTick, TypeOK, keyboardVars, readVars
<1>4. OnlyOneCounts' /\ BufferNeverOverflows' /\ CopyBound'
  BY DEF LineInv, OnlyOneCounts, BufferNeverOverflows, CopyBound, Counting, PITTick,
         keyboardVars, readVars
<1> QED
  BY <1>3, <1>4 DEF LineInv
-----------------------------------------------------------------------------
(* The invariant holds after the boot.                                        *)
LEMMA InitInv == Init => LineInv
<1> SUFFICES ASSUME Init PROVE LineInv
  OBVIOUS
<1> USE LineAssumption
<1>1. \A t \in Terminals : nested[t] = <<>> /\ DOMAIN nested[t] = {}
  BY DEF Init
<1>2. TypeOK
  BY BlankType DEF Init, TypeOK, Terminals, Place, UNSET
<1>3. OnlyOneCounts /\ BufferNeverOverflows
  BY <1>1 DEF OnlyOneCounts, BufferNeverOverflows
<1>4. CopyBound
  BY DEF Init, CopyBound
<1> QED
  BY <1>2, <1>3, <1>4 DEF LineInv

(* Every step keeps the invariant, in every window.                           *)
LEMMA NextInv == LineInv /\ [Next]_vars => LineInv'
<1> SUFFICES ASSUME LineInv, [Next]_vars
             PROVE  LineInv'
  OBVIOUS
<1>1. TypeOK /\ terminal_shown \in Terminals /\ numchar[terminal_shown] \in 0 .. BufferSize
  BY DEF LineInv, TypeOK
<1> USE LineAssumption
<1>2. ASSUME NEW c \in Keys, KeyChar(c)
      PROVE  LineInv'
  <2>1. c \in Char /\ numchar[terminal_shown] + 1 <= BufferSize /\ 1 \in 1 .. TabWidth /\ Type(c, 1)
    BY <1>1, <1>2 DEF KeyChar, Char
  <2> QED
    BY <2>1, TypeInv
<1>3. CASE KeyTab
  <2> DEFINE n == SpacesOfTab(numchar[terminal_shown])
  <2>1. n \in 0 .. TabWidth /\ numchar[terminal_shown] + n <= BufferSize
    BY <1>1, SpacesType
  <2>2. SPACE \in Char /\ Type(SPACE, n) /\ n > 0
    BY <1>3 DEF KeyTab, Char, Type
  <2> HIDE DEF n
  <2>3. n \in 1 .. TabWidth
    BY <2>1, <2>2
  <2> QED
    BY <2>1, <2>2, <2>3, TypeInv
<1>4. ASSUME NEW t \in Terminals, HandlerStep(t)
      PROVE  LineInv'
  BY <1>4, SwapStep, PutStep, LoadStep, StoreStep DEF HandlerStep
<1>5. CASE UNCHANGED vars
  BY <1>5 DEF vars, keyboardVars, readVars, LineInv, TypeOK, OnlyOneCounts,
              BufferNeverOverflows, CopyBound, Counting
<1> QED
  BY <1>2, <1>3, <1>4, <1>5, KeyStep, ReadStartStep, ReadStepInv, HaltStep, TickStep DEF Next

(* In every window, the inductive invariant LineInv holds always.             *)
THEOREM LineInvariant == Spec => []LineInv
BY InitInv, NextInv, PTL DEF Spec

(* Every variable keeps its type: neither keyboard_interrupt_handler nor      *)
(* terminal_read leaves the buffer of a terminal or of a program.             *)
THEOREM TypeCorrect == Spec => []TypeOK
<1>1. LineInv => TypeOK
  BY DEF LineInv
<1> QED
  BY <1>1, LineInvariant, PTL

(* The room keyboard_interrupt_handler found is still there when it counts,   *)
(* whatever ran between.                                                      *)
THEOREM NoOverflow == Spec => []BufferNeverOverflows
<1>1. LineInv => BufferNeverOverflows
  BY DEF LineInv
<1> QED
  BY <1>1, LineInvariant, PTL
-----------------------------------------------------------------------------
(* Outside the windows: what is buffered is what was typed.                   *)
NoWindows == Hazards = {}

(* No character of a terminal waits to be counted.                            *)
Settled(t) ==
    \A u \in Terminals : \A k \in DOMAIN nested[u] :
        Counting(nested[u][k]) => nested[u][k].to # t

(* The buffer of a terminal begins with the first n characters of its line.   *)
Holds(t, n) == \A k \in 1 .. n : terminal_buffer[t][k - 1] = line[t][k]

(* A read that has been woken keeps the keys of its line out.                 *)
FlagInv == \A t \in Terminals : pc[t] \notin {"program", "waiting"} => enter_flag[t] = 1

(* A handler that counts for a terminal has "left" characters of its line to  *)
(* count, of which the first is stored unless it is still to "put" it; only   *)
(* the spaces of a tab are more than one.                                     *)
PendingFor(f) ==
    LET t == f.to
        n == numchar[t]
    IN  /\ enter_flag[t] = 0
        /\ Len(line[t]) = n + f.left
        /\ f.kind = "store" => f.seen = n
        /\ Holds(t, n)
        /\ f.kind # "put" => terminal_buffer[t][n] = line[t][n + 1]
        /\ f.kind = "put" \/ f.left > 1 => \A k \in n + 1 .. Len(line[t]) : line[t][k] = SPACE

PendingInv ==
    \A u \in Terminals : \A k \in DOMAIN nested[u] :
        Counting(nested[u][k]) => PendingFor(nested[u][k])

(* The program's buffer has the first n characters of the line.               *)
Delivered(t, n) ==
    /\ n <= Len(line[t])
    /\ \A k \in Index : data[t][k] = IF k < n THEN line[t][k + 1] ELSE OLD

(* What terminal_read has delivered at each of its places.                    *)
ReadAt(t) ==
    /\ pc[t] # "program" => nbytes[t] \in Nat
    /\ pc[t] \in {"program", "waiting", "first"} => i[t] = 0 /\ data[t] = [k \in Index |-> OLD]
    /\ pc[t] = "copyN" => nbytes[t] < Len(line[t]) /\ i[t] <= nbytes[t] /\ Delivered(t, i[t])
    /\ pc[t] = "second" => IF nbytes[t] < Len(line[t])
                           THEN read[t] = nbytes[t] /\ Delivered(t, nbytes[t])
                           ELSE Delivered(t, 0)
    /\ pc[t] = "copyAll" => Len(line[t]) <= nbytes[t] /\ Delivered(t, i[t])
    /\ pc[t] = "count" => Len(line[t]) <= nbytes[t] /\ Delivered(t, Len(line[t]))
    /\ pc[t] = "reset" => /\ read[t] = IF Len(line[t]) < nbytes[t] THEN Len(line[t]) ELSE nbytes[t]
                          /\ Delivered(t, read[t])
    /\ pc[t] = "wipe" => line[t] = <<>>

(* The buffer of a terminal is its line as soon as all of it is counted.      *)
LinesInv == \A t \in Terminals : Settled(t) => numchar[t] = Len(line[t]) /\ Holds(t, Len(line[t]))

(* Every read is where it can be.                                             *)
ReadsInv == \A t \in Terminals : ReadAt(t)

(* What holds, outside the windows, beside LineInv.                           *)
TypedInv == FlagInv /\ LinesInv /\ PendingInv /\ ReadsInv

(* The characters of a line are counted by naturals.                          *)
LEMMA LineFacts ==
    ASSUME TypeOK
    PROVE  \A t \in Terminals :
              /\ line[t] \in Seq(Char) /\ Len(line[t]) \in Nat
              /\ numchar[t] \in Nat /\ numchar[t] <= BufferSize
              /\ enter_flag[t] \in {0, 1}
              /\ terminal_buffer[t] \in [Index -> Char \cup {NUL}]
<1>1. \A t \in Terminals : line[t] \in Seq(Char) /\ numchar[t] \in 0 .. BufferSize
  BY DEF TypeOK
<1> QED
  BY <1>1, LineAssumption DEF TypeOK

(* While a key can come in, every character is counted.                       *)
LEMMA KeyMeansSettled ==
    ASSUME KeyPossible PROVE \A t \in Terminals : Settled(t)
BY DEF KeyPossible, IRQ1InService, Settled

(* A key that edits finds a line that no woken read looks at.                 *)
LEMMA EditMeansUnread ==
    ASSUME NoWindows, TypeOK, TypedInv, EditPossible
    PROVE  /\ terminal_shown \in Terminals
           /\ enter_flag[terminal_shown] = 0
           /\ pc[terminal_shown] \in {"program", "waiting"}
           /\ \A t \in Terminals : Settled(t)
<1>1. terminal_shown \in Terminals /\ enter_flag[terminal_shown] \in {0, 1}
  BY DEF TypeOK
<1>2. enter_flag[terminal_shown] = 0
  BY <1>1 DEF EditPossible, NoWindows
<1> QED
  BY <1>1, <1>2, KeyMeansSettled DEF EditPossible, TypedInv, FlagInv

(* A line may be edited under a read that has not been woken.                 *)
LEMMA EditKeepsReads ==
    ASSUME TypedInv, NEW s \in Terminals, pc[s] \in {"program", "waiting"}, UNCHANGED readVars,
           \A t \in Terminals : t # s => line'[t] = line[t]
    PROVE  ReadsInv'
<1> SUFFICES ASSUME NEW t \in Terminals PROVE ReadAt(t)'
  BY DEF ReadsInv
<1>1. ReadAt(t)
  BY DEF TypedInv, ReadsInv
<1>2. CASE t = s
  BY <1>1, <1>2 DEF ReadAt, readVars
<1>3. CASE t # s
  BY <1>1, <1>3 DEF ReadAt, readVars, Delivered
<1> QED
  BY <1>2, <1>3

(* A change of one terminal's line, all of it counted, concerns no handler.   *)
LEMMA SettledChange ==
    ASSUME TypeOK, TypedInv, nested' = nested, NEW s \in Terminals, Settled(s),
           numchar'[s] = Len(line'[s]),
           \A k \in 1 .. Len(line'[s]) : terminal_buffer'[s][k - 1] = line'[s][k],
           \A t \in Terminals : t # s => /\ line'[t] = line[t] /\ numchar'[t] = numchar[t]
                                         /\ terminal_buffer'[t] = terminal_buffer[t]
                                         /\ enter_flag'[t] = enter_flag[t]
    PROVE  LinesInv' /\ PendingInv'
<1>1. \A t \in Terminals : Settled(t)' <=> Settled(t)
  BY DEF Settled, Counting
<1>2. ASSUME NEW t \in Terminals, Settled(t)'
      PROVE  numchar'[t] = Len(line'[t]) /\ Holds(t, Len(line[t]))'
  <2>1. CASE t = s
    BY <2>1 DEF Holds
  <2>2. CASE t # s
    BY <1>1, <1>2, <2>2 DEF TypedInv, LinesInv, Holds
  <2> QED
    BY <2>1, <2>2
<1>3. ASSUME NEW u \in Terminals, NEW k \in DOMAIN nested'[u], Counting(nested'[u][k])
      PROVE  PendingFor(nested[u][k])'
  <2> DEFINE f == nested[u][k]
  <2>1. Counting(f) /\ f.to # s /\ PendingFor(f)
    BY <1>3 DEF Settled, TypedInv, PendingInv
  <2>2. f.to \in Terminals
    <3>1. nested[u] \in Seq(Frame) /\ k \in DOMAIN nested[u]
      BY <1>3 DEF TypeOK
    <3>2. f \in Frame
      BY <3>1
    <3> QED
      BY <2>1, <3>2 DEF Frame, Counting
  <2>3. /\ line'[f.to] = line[f.to] /\ numchar'[f.to] = numchar[f.to]
        /\ terminal_buffer'[f.to] = terminal_buffer[f.to]
        /\ enter_flag'[f.to] = enter_flag[f.to]
    BY <2>1, <2>2
  <2>4. nested'[u][k] = f
    OBVIOUS
  <2> HIDE DEF f
  <2> QED
    BY <2>1, <2>3, <2>4 DEF PendingFor, Holds
<1>4. PendingInv'
  BY <1>3 DEF PendingInv, Counting
<1> QED
  BY <1>2, <1>4 DEF LinesInv

(* A new handler is the innermost one.                                        *)
LEMMA PushedIsThere ==
    ASSUME TypeOK, NEW f \in Frame, Push(f)
    PROVE  \E k \in DOMAIN nested'[current_terminal] : nested'[current_terminal][k] = f
<1> DEFINE c == current_terminal
<1>1. c \in Terminals /\ nested \in [Terminals -> Seq(Frame)] /\ nested[c] \in Seq(Frame)
  BY DEF TypeOK
<1>2. nested'[c] = Append(nested[c], f)
  BY <1>1 DEF Push
<1>3. Len(nested[c]) + 1 \in DOMAIN Append(nested[c], f)
      /\ Append(nested[c], f)[Len(nested[c]) + 1] = f
  BY <1>1
<1> QED
  BY <1>2, <1>3

(* A handler that goes on stays the innermost one.                            *)
LEMMA ReplacedIsThere ==
    ASSUME TypeOK, InHandler, NEW f \in Frame, Replace(f)
    PROVE  \E k \in DOMAIN nested'[current_terminal] : nested'[current_terminal][k] = f
<1> DEFINE c == current_terminal
           g == Front(nested[c])
<1>1. c \in Terminals /\ nested \in [Terminals -> Seq(Frame)] /\ nested[c] # <<>>
  BY DEF TypeOK, InHandler
<1>2. nested'[c] = Append(g, f)
  BY <1>1 DEF Replace
<1>3. g \in Seq(Frame)
  BY <1>1, FrontFrames
<1> HIDE DEF g
<1>4. Len(g) + 1 \in DOMAIN Append(g, f) /\ Append(g, f)[Len(g) + 1] = f
  BY <1>3
<1> QED
  BY <1>2, <1>4

(* The return of a handler leaves the others where they are.                  *)
LEMMA OthersStay ==
    ASSUME TypeOK, InHandler, Pop
    PROVE  \A t \in Terminals : \A k \in DOMAIN nested[t] :
              \/ t = current_terminal /\ k = Len(nested[t])
              \/ k \in DOMAIN nested'[t] /\ nested'[t][k] = nested[t][k]
<1> DEFINE c == current_terminal
           g == Front(nested[c])
<1>1. /\ c \in Terminals /\ nested \in [Terminals -> Seq(Frame)]
      /\ nested[c] \in Seq(Frame) /\ nested[c] # <<>>
  BY DEF TypeOK, InHandler
<1>2. nested' = [nested EXCEPT ![c] = g]
  BY DEF Pop
<1>3. g \in Seq(Frame) /\ Len(g) = Len(nested[c]) - 1 /\ \A k \in DOMAIN g : g[k] = nested[c][k]
  BY <1>1, FrontFrames
<1> HIDE DEF g
<1>4. \A k \in DOMAIN nested[c] : k # Len(nested[c]) => k \in DOMAIN g
  <2>1. DOMAIN g = 1 .. Len(g) /\ DOMAIN nested[c] = 1 .. Len(nested[c]) /\ Len(nested[c]) \in Nat
    BY <1>1, <1>3
  <2> QED
    BY <1>3, <2>1
<1> QED
  BY <1>1, <1>2, <1>3, <1>4

(* A step of the handlers, the only pending characters afterwards being those *)
(* of a new or changed handler.                                               *)
LEMMA OnePending ==
    ASSUME TypeOK, TypedInv, NEW c \in Terminals, NEW f, Counting(f), f.to \in Terminals,
           \A t \in Terminals : t # f.to => Settled(t),
           \E k \in DOMAIN nested'[c] : nested'[c][k] = f,
           \A u \in Terminals : \A k \in DOMAIN nested'[u] :
               Counting(nested'[u][k]) => nested'[u][k] = f,
           PendingFor(f)',
           \A t \in Terminals : t # f.to => /\ line'[t] = line[t] /\ numchar'[t] = numchar[t]
                                            /\ terminal_buffer'[t] = terminal_buffer[t]
    PROVE  LinesInv' /\ PendingInv'
<1>1. ASSUME NEW t \in Terminals, Settled(t)'
      PROVE  numchar'[t] = Len(line'[t]) /\ Holds(t, Len(line[t]))'
  <2>1. t # f.to
    BY <1>1 DEF Settled
  <2> QED
    BY <2>1 DEF TypedInv, LinesInv, Holds
<1>2. PendingInv'
  BY DEF PendingInv, Counting
<1> QED
  BY <1>1, <1>2 DEF LinesInv

(* A line with n characters more.                                             *)
LEMMA TypedChars ==
    ASSUME NEW l \in Seq(Char), NEW c \in Char, NEW n \in Nat,
           NEW w \in Seq(Char), Len(w) = n, \A k \in 1 .. n : w[k] = c
    PROVE  /\ Len(l \o w) = Len(l) + n
           /\ \A k \in 1 .. Len(l) : (l \o w)[k] = l[k]
           /\ \A k \in Len(l) + 1 .. Len(l) + n : (l \o w)[k] = c
<1>1. Len(l) \in Nat
  OBVIOUS
<1>2. /\ Len(l \o w) = Len(l) + Len(w)
      /\ \A k \in 1 .. Len(l) + Len(w) :
            (l \o w)[k] = IF k <= Len(l) THEN l[k] ELSE w[k - Len(l)]
  BY ConcatProperties
<1>3. ASSUME NEW k \in Len(l) + 1 .. Len(l) + n PROVE (l \o w)[k] = c
  <2>1. k \in 1 .. Len(l) + n /\ ~(k <= Len(l)) /\ k - Len(l) \in 1 .. n
    BY <1>1
  <2> QED
    BY <1>1, <1>2, <2>1
<1>4. ASSUME NEW k \in 1 .. Len(l) PROVE (l \o w)[k] = l[k]
  <2>1. k \in 1 .. Len(l) + n /\ k <= Len(l)
    BY <1>1
  <2> QED
    BY <1>1, <1>2, <2>1
<1> QED
  BY <1>1, <1>2, <1>3, <1>4

(* A key that produces n characters adds them to the line before it counts    *)
(* them.                                                                      *)
LEMMA TypedKeyInv ==
    ASSUME NoWindows, LineInv, TypedInv, NEW c \in Char, NEW n \in 1 .. TabWidth,
           n = 1 \/ c = SPACE, numchar[terminal_shown] + n <= BufferSize, Type(c, n)
    PROVE  TypedInv'
<1>1. TypeOK
  BY DEF LineInv
<1>2. PICK s \in Terminals : s = terminal_shown
  BY <1>1 DEF TypeOK
<1>3. /\ enter_flag[s] = 0 /\ pc[s] \in {"program", "waiting"}
      /\ \A t \in Terminals : Settled(t)
  BY <1>1, <1>2, EditMeansUnread DEF Type
<1>4. PICK f : f = [kind |-> "load", to |-> s, left |-> n, seen |-> UNSET]
  OBVIOUS
<1>5. /\ f \in Frame /\ Counting(f) /\ f.to = s /\ f.left = n /\ f.kind = "load"
       /\ Push(f)
  BY <1>1, <1>2, <1>4 DEF Type, Frame, Counting
<1>6. PICK m \in Nat : m = numchar[s]
  BY <1>1, LineFacts
<1>7. PICK w : w = [k \in 1 .. n |-> c]
  OBVIOUS
<1>8. /\ terminal_buffer' = [terminal_buffer EXCEPT ![s][m] = c]
      /\ line' = [line EXCEPT ![s] = line[s] \o w]
      /\ UNCHANGED <<terminal_shown, current_terminal, numchar, enter_flag, readVars>>
  BY <1>2, <1>6, <1>7 DEF Type, History, NoWindows
<1>9. /\ line[s] \in Seq(Char) /\ Len(line[s]) = m /\ Holds(s, m)
      /\ n \in Nat \ {0} /\ BufferSize \in Nat
      /\ terminal_buffer[s] \in [Index -> Char \cup {NUL}]
      /\ m \in Index
  BY <1>1, <1>2, <1>3, <1>6, LineFacts, LineAssumption DEF TypedInv, LinesInv, Index
<1>10. line'[s] = line[s] \o w /\ \A t \in Terminals : t # s => line'[t] = line[t]
  BY <1>1, <1>8 DEF TypeOK
<1>11. /\ Len(line'[s]) = m + n
       /\ \A k \in 1 .. m : line'[s][k] = line[s][k]
       /\ \A k \in m + 1 .. m + n : line'[s][k] = c
  <2>1. w \in Seq(Char) /\ Len(w) = n /\ \A k \in 1 .. n : w[k] = c
    BY <1>7, <1>9
  <2>2. /\ Len(line[s] \o w) = Len(line[s]) + n
        /\ \A k \in 1 .. Len(line[s]) : (line[s] \o w)[k] = line[s][k]
        /\ \A k \in Len(line[s]) + 1 .. Len(line[s]) + n : (line[s] \o w)[k] = c
    <3>1. line[s] \in Seq(Char) /\ n \in Nat
      BY <1>9
    <3> QED
      BY <2>1, <3>1, TypedChars
  <2>3. Len(line[s]) = m /\ line'[s] = line[s] \o w
    BY <1>9, <1>10
  <2> QED
    BY <2>2, <2>3
<1>12. /\ terminal_buffer'[s][m] = c
       /\ \A k \in Index : k # m => terminal_buffer'[s][k] = terminal_buffer[s][k]
       /\ \A t \in Terminals : t # s => terminal_buffer'[t] = terminal_buffer[t]
  BY <1>1, <1>8, <1>9 DEF TypeOK
<1>13. PendingFor(f)'
  <2>1. ASSUME NEW k \in 1 .. m PROVE terminal_buffer'[s][k - 1] = line'[s][k]
    <3>1. k - 1 \in Index /\ k - 1 # m
      BY <1>9 DEF Index
    <3> QED
      BY <1>9, <1>11, <1>12, <3>1 DEF Holds
  <2>2. line'[s][m + 1] = c
    BY <1>9, <1>11
  <2>3. n > 1 => \A k \in m + 1 .. m + n : line'[s][k] = SPACE
    <3>1. n > 1 => c = SPACE
      OBVIOUS
    <3> QED
      BY <1>11, <3>1
  <2>4. enter_flag'[s] = 0 /\ numchar'[s] = m
    BY <1>3, <1>6, <1>8
  <2> QED
    BY <1>5, <1>11, <1>12, <2>1, <2>2, <2>3, <2>4 DEF PendingFor, Holds
<1>14. LinesInv' /\ PendingInv'
  <2>1. \E k \in DOMAIN nested'[current_terminal] : nested'[current_terminal][k] = f
    BY <1>1, <1>5, PushedIsThere
  <2>2. \A u \in Terminals : \A k \in DOMAIN nested'[u] : Counting(nested'[u][k]) => nested'[u][k] = f
    <3>1. \A u \in Terminals : \A k \in DOMAIN nested[u] : ~Counting(nested[u][k])
      BY DEF Type, EditPossible, KeyPossible, IRQ1InService
    <3> QED
      BY <1>1, <1>5, <3>1, PushFrame
  <2>3. PICK u \in Terminals : u = current_terminal
    BY <1>1 DEF TypeOK
  <2>4. \A t \in Terminals : t # f.to => /\ line'[t] = line[t] /\ numchar'[t] = numchar[t]
                                         /\ terminal_buffer'[t] = terminal_buffer[t]
    BY <1>5, <1>8, <1>10, <1>12
  <2>5. Counting(f) /\ f.to \in Terminals /\ \A t \in Terminals : t # f.to => Settled(t)
    BY <1>3, <1>5
  <2> QED
    BY <1>1, <1>13, <2>1, <2>2, <2>3, <2>4, <2>5, OnePending
<1>15. ReadsInv'
  BY <1>3, <1>8, <1>10, EditKeepsReads
<1>16. FlagInv'
  BY <1>8 DEF TypedInv, FlagInv, readVars
<1> QED
  BY <1>14, <1>15, <1>16 DEF TypedInv

(* Where the handlers and the lines stay, what is known of them stays.        *)
LEMMA LinesKept ==
    ASSUME TypedInv, UNCHANGED <<keyboardVars, nested>>
    PROVE  LinesInv' /\ PendingInv'
BY DEF TypedInv, LinesInv, Settled, Holds, PendingInv, PendingFor, Counting, keyboardVars

(* While no character waits to be counted, every line is.                     *)
LEMMA NothingPending ==
    ASSUME TypedInv, \A t \in Terminals : Settled(t),
           \A u \in Terminals : \A k \in DOMAIN nested'[u] : ~Counting(nested'[u][k]),
           UNCHANGED <<terminal_buffer, numchar, line>>
    PROVE  LinesInv' /\ PendingInv'
<1>1. PendingInv'
  BY DEF PendingInv, Counting
<1> QED
  BY <1>1 DEF TypedInv, LinesInv, Holds

(* Backspace takes the last character from the line and from its buffer.      *)
LEMMA BackspaceInv ==
    ASSUME NoWindows, LineInv, TypedInv, KeyBackspace PROVE TypedInv'
<1>1. TypeOK
  BY DEF LineInv
<1>2. PICK s \in Terminals : s = terminal_shown
  BY <1>1 DEF TypeOK
<1>3. enter_flag[s] = 0 /\ pc[s] \in {"program", "waiting"} /\ Settled(s)
  BY <1>1, <1>2, EditMeansUnread DEF KeyBackspace
<1>4. PICK m \in Nat : m = numchar[s]
  BY <1>1, LineFacts
<1>5. /\ line[s] \in Seq(Char) /\ Len(line[s]) = m /\ Holds(s, m) /\ m > 0 /\ m <= BufferSize
      /\ terminal_buffer[s] \in [Index -> Char \cup {NUL}]
  BY <1>1, <1>2, <1>3, <1>4, LineFacts DEF TypedInv, LinesInv, KeyBackspace
<1>6. m - 1 \in Index /\ BufferSize \in Nat
  BY <1>5, LineAssumption DEF Index
<1>7. /\ numchar' = [numchar EXCEPT ![s] = m - 1]
      /\ terminal_buffer' = [terminal_buffer EXCEPT ![s][m - 1] = NUL]
      /\ line' = [line EXCEPT ![s] = Front(line[s])]
      /\ UNCHANGED <<terminal_shown, current_terminal, enter_flag, nested, readVars>>
  <2>1. line[s] # <<>>
    BY <1>5
  <2> QED
    BY <1>2, <1>4, <2>1 DEF KeyBackspace, History, NoWindows
<1>8. Len(line'[s]) = m - 1 /\ \A k \in 1 .. m - 1 : line'[s][k] = line[s][k]
  <2>1. line'[s] = SubSeq(line[s], 1, m - 1)
    BY <1>1, <1>5, <1>7 DEF TypeOK, Front
  <2> QED
    BY <1>5, <2>1
<1>9. \A k \in 1 .. m - 1 : terminal_buffer'[s][k - 1] = line'[s][k]
  <2> SUFFICES ASSUME NEW k \in 1 .. m - 1 PROVE terminal_buffer'[s][k - 1] = line'[s][k]
    OBVIOUS
  <2>1. k \in 1 .. m /\ k - 1 \in Index /\ k - 1 # m - 1
    BY <1>5, <1>6 DEF Index
  <2>2. terminal_buffer'[s][k - 1] = terminal_buffer[s][k - 1]
    BY <1>1, <1>5, <1>7, <2>1 DEF TypeOK
  <2> QED
    BY <1>5, <1>8, <2>1, <2>2 DEF Holds
<1>10. \A t \in Terminals : t # s => /\ line'[t] = line[t] /\ numchar'[t] = numchar[t]
                                     /\ terminal_buffer'[t] = terminal_buffer[t]
                                     /\ enter_flag'[t] = enter_flag[t]
  BY <1>1, <1>7 DEF TypeOK
<1>11. numchar'[s] = m - 1
  BY <1>1, <1>7 DEF TypeOK
<1>12. LinesInv' /\ PendingInv'
  BY <1>1, <1>3, <1>7, <1>8, <1>9, <1>10, <1>11, SettledChange
<1>13. ReadsInv'
  BY <1>3, <1>7, <1>10, EditKeepsReads
<1>14. FlagInv'
  BY <1>7 DEF TypedInv, FlagInv, readVars
<1> QED
  BY <1>12, <1>13, <1>14 DEF TypedInv

(* A forgotten line is an empty one.                                          *)
LEMMA ClearInv ==
    ASSUME NoWindows, LineInv, TypedInv, KeyClear PROVE TypedInv'
<1>1. TypeOK
  BY DEF LineInv
<1>2. PICK s \in Terminals : s = terminal_shown
  BY <1>1 DEF TypeOK
<1>3. enter_flag[s] = 0 /\ pc[s] \in {"program", "waiting"} /\ Settled(s)
  BY <1>1, <1>2, EditMeansUnread DEF KeyClear
<1>4. /\ numchar' = [numchar EXCEPT ![s] = 0]
      /\ line' = [line EXCEPT ![s] = <<>>]
      /\ UNCHANGED <<terminal_buffer, enter_flag, nested, readVars>>
  BY <1>2 DEF KeyClear, History, NoWindows
<1>5. /\ \A t \in Terminals : t # s => /\ line'[t] = line[t] /\ numchar'[t] = numchar[t]
                                       /\ terminal_buffer'[t] = terminal_buffer[t]
                                       /\ enter_flag'[t] = enter_flag[t]
      /\ numchar'[s] = 0 /\ line'[s] = <<>> /\ Len(line'[s]) = 0
  BY <1>1, <1>4 DEF TypeOK
<1>6. \A k \in 1 .. Len(line'[s]) : terminal_buffer'[s][k - 1] = line'[s][k]
  BY <1>5
<1>7. LinesInv' /\ PendingInv'
  BY <1>1, <1>3, <1>4, <1>5, <1>6, SettledChange
<1>8. ReadsInv'
  BY <1>3, <1>4, <1>5, EditKeepsReads
<1>9. FlagInv'
  BY <1>4 DEF TypedInv, FlagInv, readVars
<1> QED
  BY <1>7, <1>8, <1>9 DEF TypedInv

(* Enter changes no line.                                                     *)
LEMMA EnterInv ==
    ASSUME LineInv, TypedInv, KeyEnter PROVE TypedInv'
<1>1. /\ \A t \in Terminals : Settled(t)
      /\ \A u \in Terminals : \A k \in DOMAIN nested'[u] : ~Counting(nested'[u][k])
  BY KeyMeansSettled DEF KeyEnter, KeyPossible, IRQ1InService
<1>2. UNCHANGED <<terminal_buffer, numchar, line, nested, readVars>>
  BY DEF KeyEnter
<1>3. LinesInv' /\ PendingInv'
  BY <1>1, <1>2, NothingPending
<1>4. ReadsInv'
  BY <1>2 DEF TypedInv, ReadsInv, ReadAt, Delivered, readVars
<1>5. FlagInv'
  BY <1>2 DEF TypedInv, FlagInv, KeyEnter, LineInv, TypeOK, readVars
<1> QED
  BY <1>3, <1>4, <1>5 DEF TypedInv

(* A key that will swap changes no line.                                      *)
LEMMA KeySwapInv ==
    ASSUME LineInv, TypedInv, NEW t \in Terminals, KeySwap(t) PROVE TypedInv'
<1>1. TypeOK
  BY DEF LineInv
<1>2. PICK f : f = [kind |-> "swap", to |-> t]
  OBVIOUS
<1>3. f \in Frame /\ ~Counting(f) /\ Push(f)
  BY <1>2 DEF KeySwap, Frame, Counting
<1>4. /\ \A u \in Terminals : Settled(u)
      /\ \A u \in Terminals : \A k \in DOMAIN nested[u] : ~Counting(nested[u][k])
  BY KeyMeansSettled DEF KeySwap, KeyPossible, IRQ1InService
<1>5. \A u \in Terminals : \A k \in DOMAIN nested'[u] : ~Counting(nested'[u][k])
  BY <1>1, <1>3, <1>4, PushFrame
<1>6. UNCHANGED <<terminal_buffer, numchar, line, enter_flag, readVars>>
  BY DEF KeySwap, keyboardVars
<1>7. LinesInv' /\ PendingInv'
  BY <1>4, <1>5, <1>6, NothingPending
<1>8. FlagInv' /\ ReadsInv'
  BY <1>6 DEF TypedInv, ReadsInv, FlagInv, ReadAt, Delivered, readVars
<1> QED
  BY <1>7, <1>8 DEF TypedInv

(* terminal_swap changes no line.                                             *)
LEMMA SwapInv ==
    ASSUME LineInv, TypedInv, Swap PROVE TypedInv'
<1>1. TypeOK /\ InHandler /\ Pop /\ ~Counting(Top)
  BY DEF LineInv, Swap, Counting
<1>2. UNCHANGED <<terminal_buffer, numchar, line, enter_flag, readVars>>
  BY DEF Swap, keyboardVars
<1>3. Top = nested[current_terminal][Len(nested[current_terminal])]
  BY <1>1, TopType
<1>4. \A u \in Terminals : \A k \in DOMAIN nested[u] :
         Counting(nested[u][k]) => k \in DOMAIN nested'[u] /\ nested'[u][k] = nested[u][k]
  BY <1>1, <1>3, OthersStay
<1>5. \A u \in Terminals : \A k \in DOMAIN nested'[u] :
         k \in DOMAIN nested[u] /\ nested'[u][k] = nested[u][k]
  BY <1>1, PopFrame
<1>6. ASSUME NEW t \in Terminals, Settled(t)'
      PROVE  numchar'[t] = Len(line'[t]) /\ Holds(t, Len(line[t]))'
  <2>1. Settled(t)
    <3> SUFFICES ASSUME NEW u \in Terminals, NEW k \in DOMAIN nested[u], Counting(nested[u][k])
                 PROVE  nested[u][k].to # t
      BY DEF Settled
    <3>1. k \in DOMAIN nested'[u] /\ nested'[u][k] = nested[u][k]
      BY <1>4
    <3>2. Counting(nested'[u][k])
      BY <3>1
    <3>3. nested'[u][k].to # t
      BY <1>6, <3>1, <3>2 DEF Settled, Counting
    <3> QED
      BY <3>1, <3>3
  <2> QED
    BY <1>2, <2>1 DEF TypedInv, LinesInv, Holds
<1>7. PendingInv'
  <2> SUFFICES ASSUME NEW u \in Terminals, NEW k \in DOMAIN nested'[u], Counting(nested'[u][k])
               PROVE  PendingFor(nested[u][k])'
    BY DEF PendingInv, Counting
  <2>1. PICK f : f = nested[u][k]
    OBVIOUS
  <2>2. k \in DOMAIN nested[u] /\ nested'[u][k] = f
    BY <1>5, <2>1
  <2>3. PendingFor(f)
    BY <2>1, <2>2 DEF TypedInv, PendingInv
  <2> QED
    BY <1>2, <2>2, <2>3 DEF PendingFor, Holds
<1>8. FlagInv' /\ ReadsInv'
  BY <1>2 DEF TypedInv, ReadsInv, FlagInv, ReadAt, Delivered, readVars
<1> QED
  BY <1>6, <1>7, <1>8 DEF TypedInv, LinesInv

(* The innermost handler, when it counts: no other terminal has characters    *)
(* that wait to be counted.                                                   *)
LEMMA TopIsPending ==
    ASSUME LineInv, TypedInv, InHandler, Counting(Top)
    PROVE  /\ PendingFor(Top)
           /\ \A t \in Terminals : t # Top.to => Settled(t)
<1>1. TypeOK
  BY DEF LineInv
<1>2. /\ current_terminal \in Terminals
      /\ Top = nested[current_terminal][Len(nested[current_terminal])]
      /\ Len(nested[current_terminal]) \in DOMAIN nested[current_terminal]
  BY <1>1, TopType
<1>3. PendingFor(Top)
  BY <1>2 DEF TypedInv, PendingInv
<1>4. \A u \in Terminals : \A k \in DOMAIN nested[u] :
         Counting(nested[u][k]) => nested[u][k] = Top
  BY <1>2, TopCounts
<1> QED
  BY <1>3, <1>4 DEF Settled

(* A counting handler that goes on leaves its frame as the only one.          *)
LEMMA GoesOnAlone ==
    ASSUME LineInv, InHandler, Counting(Top), NEW f \in Frame, Replace(f)
    PROVE  /\ \E k \in DOMAIN nested'[current_terminal] : nested'[current_terminal][k] = f
           /\ \A u \in Terminals : \A k \in DOMAIN nested'[u] :
                 Counting(nested'[u][k]) => nested'[u][k] = f
<1>1. TypeOK
  BY DEF LineInv
<1>2. \A u \in Terminals : \A k \in DOMAIN nested'[u] :
         /\ k \in DOMAIN nested[u]
         /\ IF u = current_terminal /\ k = Len(nested[u]) THEN nested'[u][k] = f
            ELSE nested'[u][k] = nested[u][k]
  BY <1>1, ReplaceFrame
<1>3. \A u \in Terminals : \A k \in DOMAIN nested[u] :
         Counting(nested[u][k]) => u = current_terminal /\ k = Len(nested[u])
  BY TopCounts
<1> QED
  BY <1>1, <1>2, <1>3, ReplacedIsThere

(* A further space of a tab is stored where the line has it.                  *)
LEMMA PutInv ==
    ASSUME LineInv, TypedInv, Put PROVE TypedInv'
<1>1. TypeOK /\ InHandler /\ Counting(Top) /\ Top.kind = "put"
  BY DEF LineInv, Put, Counting
<1>2. PICK g : g = Top
  OBVIOUS
<1>3. /\ g \in [kind : {"put", "load", "store"}, to : Terminals,
                left : 1 .. TabWidth, seen : Index \cup {UNSET}]
      /\ numchar[g.to] + g.left <= BufferSize /\ PendingFor(g) /\ g.kind = "put"
      /\ \A t \in Terminals : t # g.to => Settled(t)
  BY <1>1, <1>2, TopCounts, TopIsPending
<1>4. PICK f : f = [g EXCEPT !.kind = "load"]
  OBVIOUS
<1>5. /\ f \in Frame /\ Counting(f) /\ f.kind = "load" /\ f.to = g.to /\ f.left = g.left
      /\ Replace(f)
  BY <1>2, <1>3, <1>4 DEF Put, Frame, Counting
<1>6. PICK s \in Terminals : s = g.to
  BY <1>3
<1>7. PICK m \in Nat : m = numchar[s]
  BY <1>1, LineFacts
<1>8. /\ m \in Index /\ g.left \in Nat \ {0}
      /\ terminal_buffer[s] \in [Index -> Char \cup {NUL}]
  BY <1>1, <1>3, <1>6, <1>7, LineFacts, LineAssumption DEF Index
<1>9. /\ terminal_buffer' = [terminal_buffer EXCEPT ![s][m] = SPACE]
      /\ UNCHANGED <<terminal_shown, current_terminal, numchar, enter_flag, line, readVars>>
  BY <1>2, <1>6, <1>7 DEF Put
<1>10. /\ enter_flag[s] = 0 /\ Len(line[s]) = m + g.left /\ Holds(s, m)
       /\ \A k \in m + 1 .. Len(line[s]) : line[s][k] = SPACE
  BY <1>3, <1>6, <1>7 DEF PendingFor
<1>11. /\ terminal_buffer'[s][m] = SPACE
       /\ \A k \in Index : k # m => terminal_buffer'[s][k] = terminal_buffer[s][k]
       /\ \A t \in Terminals : t # s => terminal_buffer'[t] = terminal_buffer[t]
  BY <1>1, <1>8, <1>9 DEF TypeOK
<1>12. PendingFor(f)'
  <2>1. ASSUME NEW k \in 1 .. m PROVE terminal_buffer'[s][k - 1] = line'[s][k]
    <3>1. k - 1 \in Index /\ k - 1 # m
      BY <1>8, LineAssumption DEF Index
    <3> QED
      BY <1>9, <1>10, <1>11, <3>1 DEF Holds
  <2>2. line'[s][m + 1] = SPACE /\ line'[s] = line[s]
    <3>1. line' = line
      BY <1>9
    <3>2. m + 1 \in m + 1 .. Len(line[s])
      BY <1>8, <1>10
    <3>3. line[s][m + 1] = SPACE
      BY <1>10, <3>2
    <3> QED
      BY <3>1, <3>3
  <2>3. enter_flag'[s] = 0 /\ numchar'[s] = m
    BY <1>7, <1>9, <1>10
  <2> QED
    BY <1>5, <1>6, <1>10, <1>11, <2>1, <2>2, <2>3 DEF PendingFor, Holds
<1>13. LinesInv' /\ PendingInv'
  <2>1. PICK c \in Terminals : c = current_terminal
    BY <1>1 DEF TypeOK
  <2>2. /\ \E k \in DOMAIN nested'[c] : nested'[c][k] = f
        /\ \A u \in Terminals : \A k \in DOMAIN nested'[u] :
              Counting(nested'[u][k]) => nested'[u][k] = f
    BY <1>1, <1>5, <2>1, GoesOnAlone
  <2>3. \A t \in Terminals : t # f.to => /\ line'[t] = line[t] /\ numchar'[t] = numchar[t]
                                         /\ terminal_buffer'[t] = terminal_buffer[t]
    BY <1>5, <1>6, <1>9, <1>11
  <2>4. Counting(f) /\ f.to \in Terminals /\ \A t \in Terminals : t # f.to => Settled(t)
    BY <1>3, <1>5
  <2> QED
    BY <1>1, <1>12, <2>2, <2>3, <2>4, OnePending
<1>14. FlagInv' /\ ReadsInv'
  BY <1>9 DEF TypedInv, ReadsInv, FlagInv, ReadAt, Delivered, readVars
<1> QED
  BY <1>13, <1>14 DEF TypedInv

(* The handler has read the count that it will raise.                         *)
LEMMA LoadInv ==
    ASSUME LineInv, TypedInv, Load PROVE TypedInv'
<1>1. TypeOK /\ InHandler /\ Counting(Top) /\ Top.kind = "load"
  BY DEF LineInv, Load, Counting
<1>2. PICK g : g = Top
  OBVIOUS
<1>3. /\ g \in [kind : {"put", "load", "store"}, to : Terminals,
                left : 1 .. TabWidth, seen : Index \cup {UNSET}]
      /\ numchar[g.to] + g.left <= BufferSize /\ PendingFor(g) /\ g.kind = "load"
      /\ \A t \in Terminals : t # g.to => Settled(t)
  BY <1>1, <1>2, TopCounts, TopIsPending
<1>4. PICK f : f = [g EXCEPT !.kind = "store", !.seen = numchar[g.to]]
  OBVIOUS
<1>5. numchar[g.to] \in Index
  <2>1. g.to \in Terminals /\ g.left \in 1 .. TabWidth
    BY <1>3
  <2>2. numchar[g.to] \in Nat
    BY <1>1, <2>1, LineFacts
  <2> QED
    BY <1>3, <2>1, <2>2, LineAssumption DEF Index
<1>6. /\ f \in Frame /\ Counting(f) /\ f.kind = "store" /\ f.to = g.to /\ f.left = g.left
      /\ f.seen = numchar[g.to] /\ Replace(f)
  BY <1>2, <1>3, <1>4, <1>5 DEF Load, Frame, Counting
<1>7. UNCHANGED <<terminal_shown, current_terminal, keyboardVars, readVars>>
  BY DEF Load
<1>8. PendingFor(f)'
  BY <1>3, <1>6, <1>7 DEF PendingFor, Holds, keyboardVars
<1>9. LinesInv' /\ PendingInv'
  <2>1. PICK c \in Terminals : c = current_terminal
    BY <1>1 DEF TypeOK
  <2>2. /\ \E k \in DOMAIN nested'[c] : nested'[c][k] = f
        /\ \A u \in Terminals : \A k \in DOMAIN nested'[u] :
              Counting(nested'[u][k]) => nested'[u][k] = f
    BY <1>1, <1>6, <2>1, GoesOnAlone
  <2>3. \A t \in Terminals : t # f.to => /\ line'[t] = line[t] /\ numchar'[t] = numchar[t]
                                         /\ terminal_buffer'[t] = terminal_buffer[t]
    BY <1>7 DEF keyboardVars
  <2>4. Counting(f) /\ f.to \in Terminals /\ \A t \in Terminals : t # f.to => Settled(t)
    BY <1>3, <1>6
  <2> QED
    BY <1>1, <1>8, <2>2, <2>3, <2>4, OnePending
<1>10. FlagInv' /\ ReadsInv'
  BY <1>7 DEF TypedInv, ReadsInv, FlagInv, ReadAt, Delivered, keyboardVars, readVars
<1> QED
  BY <1>9, <1>10 DEF TypedInv

(* A character is counted; after the last one the line is in the buffer.      *)
LEMMA StoreInv ==
    ASSUME LineInv, TypedInv, Store PROVE TypedInv'
<1>1. TypeOK /\ InHandler /\ Counting(Top) /\ Top.kind = "store"
  BY DEF LineInv, Store, Counting
<1>2. PICK g : g = Top
  OBVIOUS
<1>3. /\ g \in [kind : {"put", "load", "store"}, to : Terminals,
                left : 1 .. TabWidth, seen : Index \cup {UNSET}]
      /\ PendingFor(g) /\ g.kind = "store"
      /\ \A t \in Terminals : t # g.to => Settled(t)
  BY <1>1, <1>2, TopCounts, TopIsPending
<1>4. PICK s \in Terminals : s = g.to
  BY <1>3
<1>5. PICK m \in Nat : m = numchar[s]
  BY <1>1, LineFacts
<1>6. /\ enter_flag[s] = 0 /\ Len(line[s]) = m + g.left /\ g.seen = m /\ Holds(s, m)
      /\ terminal_buffer[s][m] = line[s][m + 1]
      /\ g.left > 1 => \A k \in m + 1 .. Len(line[s]) : line[s][k] = SPACE
      /\ g.left \in Nat \ {0} /\ g.left \in 1 .. TabWidth
  BY <1>3, <1>4, <1>5, LineAssumption DEF PendingFor
<1>7. /\ numchar' = [numchar EXCEPT ![s] = m + 1]
      /\ UNCHANGED <<terminal_shown, current_terminal, terminal_buffer, enter_flag, line, readVars>>
  BY <1>2, <1>4, <1>6 DEF Store, CountedFor
<1>8. numchar'[s] = m + 1 /\ \A t \in Terminals : t # s => numchar'[t] = numchar[t]
  BY <1>1, <1>7 DEF TypeOK
<1>9. \A k \in 1 .. m + 1 : terminal_buffer[s][k - 1] = line[s][k]
  <2> SUFFICES ASSUME NEW k \in 1 .. m + 1 PROVE terminal_buffer[s][k - 1] = line[s][k]
    OBVIOUS
  <2>1. CASE k = m + 1
    BY <1>6, <2>1
  <2>2. CASE k # m + 1
    <3>1. k \in 1 .. m
      BY <2>2
    <3> QED
      BY <1>6, <3>1 DEF Holds
  <2> QED
    BY <2>1, <2>2
<1>10. FlagInv' /\ ReadsInv'
  BY <1>7 DEF TypedInv, ReadsInv, FlagInv, ReadAt, Delivered, readVars
<1>11. LinesInv' /\ PendingInv'
  <2>1. CASE g.left = 1
    <3>1. Pop
      BY <1>2, <2>1 DEF Store
    <3>2. \A u \in Terminals : \A k \in DOMAIN nested'[u] :
             /\ k \in DOMAIN nested[u] /\ nested'[u][k] = nested[u][k]
             /\ u = current_terminal => k # Len(nested[u])
      BY <1>1, <3>1, PopFrame
    <3>3. \A u \in Terminals : \A k \in DOMAIN nested[u] :
             Counting(nested[u][k]) => u = current_terminal /\ k = Len(nested[u])
      BY <1>1, TopCounts
    <3>4. \A u \in Terminals : \A k \in DOMAIN nested'[u] : ~Counting(nested'[u][k])
      BY <3>2, <3>3
    <3>5. PendingInv'
      BY <3>4 DEF PendingInv, Counting
    <3>6. ASSUME NEW t \in Terminals
          PROVE  numchar'[t] = Len(line'[t]) /\ Holds(t, Len(line[t]))'
      <4>1. CASE t = s
        <5>1. Len(line[s]) = m + 1
          BY <1>6, <2>1
        <5>2. Holds(s, m + 1)
          BY <1>9 DEF Holds
        <5>3. line' = line /\ terminal_buffer' = terminal_buffer /\ numchar'[s] = m + 1
          BY <1>7, <1>8
        <5>4. Holds(s, Len(line[s]))'
          BY <5>1, <5>2, <5>3 DEF Holds
        <5> QED
          BY <4>1, <5>1, <5>3, <5>4
      <4>2. CASE t # s
        <5>1. numchar[t] = Len(line[t]) /\ Holds(t, Len(line[t]))
          BY <1>3, <1>4, <4>2 DEF TypedInv, LinesInv
        <5>2. line' = line /\ terminal_buffer' = terminal_buffer /\ numchar'[t] = numchar[t]
          BY <1>7, <1>8, <4>2
        <5> QED
          BY <5>1, <5>2 DEF Holds
      <4> QED
        BY <4>1, <4>2
    <3> QED
      BY <3>5, <3>6 DEF LinesInv
  <2>2. CASE g.left # 1
    <3>1. PICK f : f = [kind |-> "put", to |-> s, left |-> g.left - 1, seen |-> UNSET]
      OBVIOUS
    <3>2. f.kind = "put" /\ f.to = s /\ f.left = g.left - 1 /\ Counting(f)
      BY <3>1 DEF Counting
    <3>3. f \in Frame
      <4>1. g.left - 1 \in 1 .. TabWidth
        BY <1>6, <2>2, LineAssumption
      <4> QED
        BY <3>1, <4>1 DEF Frame
    <3>4. Replace(f)
      BY <1>2, <1>4, <2>2, <3>1 DEF Store
    <3>5. PendingFor(f)'
      <4>1. enter_flag'[s] = 0 /\ Len(line'[s]) = (m + 1) + f.left
        <5>1. PICK n \in Nat : n = g.left
          BY <1>6
        <5>2. m + n = (m + 1) + (n - 1)
          OBVIOUS
        <5> QED
          BY <1>6, <1>7, <3>2, <5>1, <5>2
      <4>2. \A k \in (m + 1) + 1 .. Len(line'[s]) : line'[s][k] = SPACE
        BY <1>6, <1>7, <2>2
      <4> QED
        BY <1>7, <1>8, <1>9, <3>2, <4>1, <4>2 DEF PendingFor, Holds
    <3>6. PICK c \in Terminals : c = current_terminal
      BY <1>1 DEF TypeOK
    <3>7. /\ \E k \in DOMAIN nested'[c] : nested'[c][k] = f
          /\ \A u \in Terminals : \A k \in DOMAIN nested'[u] :
                Counting(nested'[u][k]) => nested'[u][k] = f
      BY <1>1, <3>3, <3>4, <3>6, GoesOnAlone
    <3>8. \A t \in Terminals : t # f.to => /\ line'[t] = line[t] /\ numchar'[t] = numchar[t]
                                           /\ terminal_buffer'[t] = terminal_buffer[t]
      BY <1>7, <1>8, <3>2
    <3>9. f.to \in Terminals /\ \A t \in Terminals : t # f.to => Settled(t)
      BY <1>3, <1>4, <3>2
    <3> QED
      BY <1>1, <3>2, <3>5, <3>7, <3>8, <3>9, OnePending
  <2> QED
    BY <2>1, <2>2
<1> QED
  BY <1>10, <1>11 DEF TypedInv
-----------------------------------------------------------------------------
(* The reads.                                                                 *)

(* A read that has been woken looks at a line all of which is in the buffer.  *)
LEMMA WokenMeansSettled ==
    ASSUME LineInv, TypedInv, NEW t \in Terminals, pc[t] \notin {"program", "waiting"}
    PROVE  /\ enter_flag[t] = 1 /\ Settled(t)
           /\ numchar[t] = Len(line[t]) /\ Holds(t, Len(line[t]))
<1>1. enter_flag[t] = 1
  BY DEF TypedInv, FlagInv
<1>2. Settled(t)
  BY <1>1 DEF TypedInv, PendingInv, PendingFor, Settled
<1> QED
  BY <1>1, <1>2 DEF TypedInv, LinesInv

(* A step of one read keeps what the others have delivered.                   *)
LEMMA OtherReads ==
    ASSUME TypedInv, NEW t \in Terminals, ReadAt(t)',
           \A u \in Terminals : u # t => /\ pc'[u] = pc[u] /\ nbytes'[u] = nbytes[u]
                                         /\ i'[u] = i[u] /\ read'[u] = read[u]
                                         /\ data'[u] = data[u] /\ line'[u] = line[u]
    PROVE  ReadsInv'
<1>1. ASSUME NEW u \in Terminals, u # t PROVE ReadAt(u)'
  <2>1. ReadAt(u)
    BY DEF TypedInv, ReadsInv
  <2> QED
    BY <1>1, <2>1 DEF ReadAt, Delivered
<1> QED
  BY <1>1 DEF ReadsInv

(* A read begins with nothing delivered.                                      *)
LEMMA ReadStartInv ==
    ASSUME LineInv, TypedInv, NEW t \in Terminals, NEW n \in Sizes, ReadStart(t, n)
    PROVE  TypedInv'
<1>1. TypeOK /\ n \in Nat
  BY LineAssumption DEF LineInv
<1>2. UNCHANGED <<terminal_buffer, numchar, line, nested, i, read, data>>
  BY DEF ReadStart
<1>3. /\ pc[t] = "program" /\ pc'[t] = "waiting" /\ nbytes'[t] = n /\ enter_flag'[t] = 0
      /\ \A u \in Terminals : u # t => /\ pc'[u] = pc[u] /\ nbytes'[u] = nbytes[u]
                                       /\ enter_flag'[u] = enter_flag[u]
  BY <1>1 DEF ReadStart, Goto, TypeOK
<1>4. LinesInv'
  BY <1>2 DEF TypedInv, LinesInv, Settled, Holds, Counting
<1>5. PendingInv'
  <2> SUFFICES ASSUME NEW u \in Terminals, NEW k \in DOMAIN nested'[u], Counting(nested'[u][k])
               PROVE  PendingFor(nested[u][k])'
    BY DEF PendingInv, Counting
  <2>1. PICK f : f = nested[u][k]
    OBVIOUS
  <2>2. nested'[u][k] = f /\ Counting(f) /\ PendingFor(f)
    BY <1>2, <2>1 DEF TypedInv, PendingInv
  <2>3. f.to \in Terminals
    <3>1. nested[u] \in Seq(Frame) /\ k \in DOMAIN nested[u]
      BY <1>1, <1>2 DEF TypeOK
    <3>2. f \in Frame
      BY <2>1, <3>1
    <3> QED
      BY <2>2, <3>2 DEF Frame, Counting
  <2>4. enter_flag'[f.to] = 0
    BY <1>3, <2>2, <2>3 DEF PendingFor
  <2> QED
    BY <1>2, <2>2, <2>4 DEF PendingFor, Holds
<1>6. FlagInv'
  BY <1>3 DEF TypedInv, FlagInv
<1>7. ReadAt(t)'
  BY <1>1, <1>2, <1>3 DEF TypedInv, ReadsInv, ReadAt
<1>8. ReadsInv'
  BY <1>2, <1>3, <1>7, OtherReads
<1> QED
  BY <1>4, <1>5, <1>6, <1>8 DEF TypedInv

(* One more character of the line is delivered.                               *)
LEMMA CopyDelivers ==
    ASSUME LineInv, TypedInv, NEW t \in Terminals, pc[t] \notin {"program", "waiting"},
           Delivered(t, i[t]), i[t] < Len(line[t]), CopyOne(t)
    PROVE  /\ i'[t] = i[t] + 1 /\ Delivered(t, i[t])'
           /\ \A u \in Terminals : u # t => i'[u] = i[u] /\ data'[u] = data[u]
<1>1. TypeOK
  BY DEF LineInv
<1>2. PICK m \in Nat : m = i[t]
  BY <1>1, LineAssumption DEF TypeOK
<1>3. /\ line[t] \in Seq(Char) /\ Len(line[t]) \in Nat /\ Len(line[t]) <= BufferSize
      /\ BufferSize \in Nat
  BY <1>1, LineFacts, WokenMeansSettled, LineAssumption
<1>4. m \in Index /\ m + 1 \in 1 .. Len(line[t])
  BY <1>2, <1>3 DEF Index
<1>5. terminal_buffer[t][m] = line[t][m + 1]
  <2>1. terminal_buffer[t][(m + 1) - 1] = line[t][m + 1]
    BY <1>4, WokenMeansSettled DEF Holds
  <2> QED
    BY <1>2, <2>1
<1>6. line[t][m + 1] \in Char /\ line[t][m + 1] # NUL
  BY <1>3, <1>4, LineAssumption
<1>7. data' = [data EXCEPT ![t][m] = line[t][m + 1]]
  BY <1>2, <1>5, <1>6 DEF CopyOne
<1>8. /\ data'[t][m] = line[t][m + 1]
      /\ \A k \in Index : k # m => data'[t][k] = data[t][k]
      /\ \A u \in Terminals : u # t => data'[u] = data[u]
  BY <1>1, <1>4, <1>7 DEF TypeOK
<1>9. i'[t] = m + 1 /\ (\A u \in Terminals : u # t => i'[u] = i[u]) /\ line' = line
  BY <1>1, <1>2 DEF CopyOne, TypeOK, keyboardVars
<1>10. \A k \in Index : data'[t][k] = IF k < m + 1 THEN line[t][k + 1] ELSE OLD
  <2> SUFFICES ASSUME NEW k \in Index
               PROVE  data'[t][k] = IF k < m + 1 THEN line[t][k + 1] ELSE OLD
    OBVIOUS
  <2>1. k \in Int
    BY <1>3 DEF Index
  <2>2. CASE k = m
    BY <1>8, <2>1, <2>2
  <2>3. CASE k # m
    <3>1. k < m + 1 <=> k < m
      BY <2>1, <2>3
    <3>2. data[t][k] = IF k < m THEN line[t][k + 1] ELSE OLD
      BY <1>2 DEF Delivered
    <3> QED
      BY <1>8, <2>3, <3>1, <3>2
  <2> QED
    BY <2>2, <2>3
<1>11. m + 1 <= Len(line[t])
  BY <1>3, <1>4
<1> QED
  BY <1>2, <1>8, <1>9, <1>10, <1>11 DEF Delivered

(* A step inside a read that has been woken.                                  *)
LEMMA PlaceStep ==
    ASSUME TypedInv, NEW t \in Terminals, UNCHANGED <<keyboardVars, nested>>,
           enter_flag[t] = 1, ReadAt(t)',
           \A u \in Terminals : u # t => /\ pc'[u] = pc[u] /\ nbytes'[u] = nbytes[u]
                                         /\ i'[u] = i[u] /\ read'[u] = read[u]
                                         /\ data'[u] = data[u]
    PROVE  TypedInv'
<1>1. LinesInv' /\ PendingInv'
  BY LinesKept
<1>2. FlagInv'
  BY DEF TypedInv, FlagInv, keyboardVars
<1>3. ReadsInv'
  BY OtherReads DEF keyboardVars
<1> QED
  BY <1>1, <1>2, <1>3 DEF TypedInv

(* A read comes to an end, or its program does: the line is forgotten, or is  *)
(* already empty.                                                             *)
LEMMA LineForgotten ==
    ASSUME LineInv, TypedInv, nested' = nested, NEW t \in Terminals, Settled(t),
           line'[t] = <<>>, numchar'[t] = 0,
           \A u \in Terminals : u # t => /\ line'[u] = line[u] /\ numchar'[u] = numchar[u]
                                         /\ terminal_buffer'[u] = terminal_buffer[u]
                                         /\ enter_flag'[u] = enter_flag[u]
    PROVE  LinesInv' /\ PendingInv'
<1>1. TypeOK /\ Len(line'[t]) = 0
  BY DEF LineInv
<1>2. \A k \in 1 .. Len(line'[t]) : terminal_buffer'[t][k - 1] = line'[t][k]
  BY <1>1
<1> QED
  BY <1>1, <1>2, SettledChange

(* Every step of terminal_read keeps the buffers the lines, and what is       *)
(* delivered the beginning of them.                                           *)
LEMMA ReadStepTyped ==
    ASSUME NoWindows, LineInv, TypedInv, NEW t \in Terminals, ReadStep(t)
    PROVE  TypedInv'
<1>1. TypeOK /\ nested' = nested
  BY DEF LineInv, ReadStep
<1>2. ReadAt(t)
  BY DEF TypedInv, ReadsInv
<1>3. line[t] \in Seq(Char) /\ Len(line[t]) \in Nat
  BY <1>1, LineFacts
<1>4. CASE ReadWake(t)
  <2>1. /\ enter_flag[t] = 1 /\ pc[t] = "waiting" /\ pc'[t] = "first"
        /\ \A u \in Terminals : u # t => pc'[u] = pc[u]
        /\ UNCHANGED <<keyboardVars, nbytes, i, read, data>>
    BY <1>1, <1>4 DEF ReadWake, EnterSeen, Goto, TypeOK
  <2>2. ReadAt(t)'
    BY <1>2, <2>1 DEF ReadAt
  <2> QED
    BY <1>1, <2>1, <2>2, PlaceStep
<1>5. ASSUME pc[t] \notin {"program", "waiting"}
      PROVE  /\ enter_flag[t] = 1 /\ Settled(t)
             /\ numchar[t] = Len(line[t]) /\ Holds(t, Len(line[t]))
             /\ nbytes[t] \in Nat
  BY <1>2, <1>5, WokenMeansSettled DEF ReadAt
<1>6. CASE FirstTest(t)
  <2>1. /\ pc[t] = "first" /\ pc'[t] = IF nbytes[t] < numchar[t] THEN "copyN" ELSE "second"
        /\ \A u \in Terminals : u # t => pc'[u] = pc[u]
        /\ UNCHANGED <<keyboardVars, nbytes, i, read, data>>
    BY <1>1, <1>6 DEF FirstTest, Goto, TypeOK
  <2>2. enter_flag[t] = 1 /\ numchar[t] = Len(line[t]) /\ nbytes[t] \in Nat
    BY <1>5, <2>1
  <2>3. Delivered(t, 0)' /\ i[t] = 0
    <3>1. i[t] = 0 /\ data[t] = [k \in Index |-> OLD]
      BY <1>2, <2>1 DEF ReadAt
    <3>2. \A k \in Index : ~(k < 0)
      BY DEF Index
    <3> QED
      BY <1>3, <2>1, <3>1, <3>2 DEF Delivered, keyboardVars
  <2>4. line' = line
    BY <2>1 DEF keyboardVars
  <2>5. ReadAt(t)'
    BY <1>3, <2>1, <2>2, <2>3, <2>4 DEF ReadAt
  <2> QED
    BY <1>1, <2>1, <2>2, <2>5, PlaceStep
<1>7. CASE SecondTest(t)
  <2>1. /\ pc[t] = "second" /\ pc'[t] = IF nbytes[t] >= numchar[t] THEN "copyAll" ELSE "reset"
        /\ i'[t] = 0
        /\ \A u \in Terminals : u # t => pc'[u] = pc[u] /\ i'[u] = i[u]
        /\ UNCHANGED <<keyboardVars, nbytes, read, data>>
    BY <1>1, <1>7 DEF SecondTest, Goto, TypeOK
  <2>2. enter_flag[t] = 1 /\ numchar[t] = Len(line[t]) /\ nbytes[t] \in Nat
    BY <1>5, <2>1
  <2>3. IF nbytes[t] < Len(line[t]) THEN read[t] = nbytes[t] /\ Delivered(t, nbytes[t])
        ELSE Delivered(t, 0)
    BY <1>2, <2>1 DEF ReadAt
  <2>4. line' = line
    BY <2>1 DEF keyboardVars
  <2>5. ReadAt(t)'
    <3>1. CASE nbytes[t] >= Len(line[t])
      <4>1. pc'[t] = "copyAll" /\ Delivered(t, i[t])' /\ Len(line[t]) <= nbytes[t]
        BY <1>3, <2>1, <2>2, <2>3, <2>4, <3>1 DEF Delivered
      <4> QED
        BY <2>1, <2>2, <2>4, <4>1 DEF ReadAt
    <3>2. CASE nbytes[t] < Len(line[t])
      <4>1. pc'[t] = "reset" /\ read'[t] = nbytes[t] /\ Delivered(t, read[t])'
        BY <1>3, <2>1, <2>2, <2>3, <2>4, <3>2 DEF Delivered
      <4> QED
        BY <2>1, <2>2, <2>4, <3>2, <4>1 DEF ReadAt
    <3> QED
      BY <1>3, <2>2, <3>1, <3>2
  <2> QED
    BY <1>1, <2>1, <2>2, <2>5, PlaceStep
<1>8. CASE CopyN(t)
  <2>1. pc[t] = "copyN" /\ i[t] < nbytes[t] /\ CopyOne(t)
    BY <1>8 DEF CopyN, GoesOn
  <2>2. enter_flag[t] = 1 /\ nbytes[t] \in Nat
    BY <1>5, <2>1
  <2>3. nbytes[t] < Len(line[t]) /\ Delivered(t, i[t])
    BY <1>2, <2>1 DEF ReadAt
  <2>4. i[t] \in Nat
    BY <1>1, LineAssumption DEF TypeOK
  <2>5. i[t] < Len(line[t])
    BY <1>3, <2>1, <2>2, <2>3, <2>4
  <2>6. /\ i'[t] = i[t] + 1 /\ Delivered(t, i[t])'
        /\ \A u \in Terminals : u # t => i'[u] = i[u] /\ data'[u] = data[u]
    BY <2>1, <2>3, <2>5, CopyDelivers
  <2>7. UNCHANGED <<keyboardVars, pc, nbytes, read>> /\ line' = line
    BY <2>1 DEF CopyOne, keyboardVars
  <2>8. i[t] + 1 <= nbytes[t]
    BY <2>1, <2>2, <2>4
  <2>9. ReadAt(t)'
    BY <2>1, <2>2, <2>3, <2>6, <2>7, <2>8 DEF ReadAt
  <2> QED
    BY <1>1, <2>2, <2>6, <2>7, <2>9, PlaceStep
<1>9. CASE CopyNEnds(t)
  <2>1. /\ pc[t] = "copyN" /\ ~(i[t] < nbytes[t]) /\ read'[t] = nbytes[t] /\ pc'[t] = "second"
        /\ \A u \in Terminals : u # t => pc'[u] = pc[u] /\ read'[u] = read[u]
        /\ UNCHANGED <<keyboardVars, nbytes, i, data>>
    BY <1>1, <1>9 DEF CopyNEnds, GoesOn, Goto, TypeOK
  <2>2. enter_flag[t] = 1 /\ nbytes[t] \in Nat
    BY <1>5, <2>1
  <2>3. nbytes[t] < Len(line[t]) /\ i[t] <= nbytes[t] /\ Delivered(t, i[t]) /\ i[t] \in Nat
    BY <1>1, <1>2, <2>1, LineAssumption DEF ReadAt, TypeOK
  <2>4. i[t] = nbytes[t]
    BY <2>1, <2>2, <2>3
  <2>5. line' = line
    BY <2>1 DEF keyboardVars
  <2>6. Delivered(t, nbytes[t])'
    BY <2>1, <2>3, <2>4, <2>5 DEF Delivered
  <2>7. ReadAt(t)'
    BY <2>1, <2>2, <2>3, <2>5, <2>6 DEF ReadAt
  <2> QED
    BY <1>1, <2>1, <2>2, <2>7, PlaceStep
<1>10. CASE CopyAll(t)
  <2>1. pc[t] = "copyAll" /\ i[t] < numchar[t] /\ CopyOne(t)
    BY <1>10 DEF CopyAll, GoesOn
  <2>2. enter_flag[t] = 1 /\ nbytes[t] \in Nat /\ numchar[t] = Len(line[t])
    BY <1>5, <2>1
  <2>3. Len(line[t]) <= nbytes[t] /\ Delivered(t, i[t])
    BY <1>2, <2>1 DEF ReadAt
  <2>4. /\ i'[t] = i[t] + 1 /\ Delivered(t, i[t])'
        /\ \A u \in Terminals : u # t => i'[u] = i[u] /\ data'[u] = data[u]
    BY <2>1, <2>2, <2>3, CopyDelivers
  <2>5. UNCHANGED <<keyboardVars, pc, nbytes, read>> /\ line' = line
    BY <2>1 DEF CopyOne, keyboardVars
  <2>6. ReadAt(t)'
    BY <2>1, <2>2, <2>3, <2>4, <2>5 DEF ReadAt
  <2> QED
    BY <1>1, <2>2, <2>4, <2>5, <2>6, PlaceStep
<1>11. CASE CopyAllEnds(t)
  <2>1. /\ pc[t] = "copyAll" /\ ~(i[t] < numchar[t]) /\ pc'[t] = "count"
        /\ \A u \in Terminals : u # t => pc'[u] = pc[u]
        /\ UNCHANGED <<keyboardVars, nbytes, i, read, data>>
    BY <1>1, <1>11 DEF CopyAllEnds, GoesOn, Goto, TypeOK
  <2>2. enter_flag[t] = 1 /\ nbytes[t] \in Nat /\ numchar[t] = Len(line[t])
    BY <1>5, <2>1
  <2>3. Len(line[t]) <= nbytes[t] /\ Delivered(t, i[t]) /\ i[t] \in Nat
    BY <1>1, <1>2, <2>1, LineAssumption DEF ReadAt, TypeOK
  <2>4. i[t] = Len(line[t])
    BY <1>3, <2>1, <2>2, <2>3 DEF Delivered
  <2>5. line' = line
    BY <2>1 DEF keyboardVars
  <2>6. Delivered(t, Len(line[t]))'
    BY <2>1, <2>3, <2>4, <2>5 DEF Delivered
  <2>7. ReadAt(t)'
    BY <2>1, <2>2, <2>3, <2>5, <2>6 DEF ReadAt
  <2> QED
    BY <1>1, <2>1, <2>2, <2>7, PlaceStep
<1>12. CASE ReadCount(t)
  <2>1. /\ pc[t] = "count" /\ read'[t] = numchar[t] /\ pc'[t] = "reset"
        /\ \A u \in Terminals : u # t => pc'[u] = pc[u] /\ read'[u] = read[u]
        /\ UNCHANGED <<keyboardVars, nbytes, i, data>>
    BY <1>1, <1>12 DEF ReadCount, Goto, TypeOK
  <2>2. enter_flag[t] = 1 /\ nbytes[t] \in Nat /\ numchar[t] = Len(line[t])
    BY <1>5, <2>1
  <2>3. Len(line[t]) <= nbytes[t] /\ Delivered(t, Len(line[t]))
    BY <1>2, <2>1 DEF ReadAt
  <2>4. line' = line
    BY <2>1 DEF keyboardVars
  <2>5. Delivered(t, read[t])'
    BY <2>1, <2>2, <2>3, <2>4 DEF Delivered
  <2>6. read'[t] = IF Len(line[t]) < nbytes[t] THEN Len(line[t]) ELSE nbytes[t]
    BY <1>3, <2>1, <2>2, <2>3
  <2>7. ReadAt(t)'
    BY <2>1, <2>2, <2>4, <2>5, <2>6 DEF ReadAt
  <2> QED
    BY <1>1, <2>1, <2>2, <2>7, PlaceStep
<1>13. CASE ReadReset(t)
  <2>1. /\ pc[t] = "reset" /\ pc'[t] = "wipe" /\ numchar'[t] = 0 /\ line'[t] = <<>>
        /\ \A u \in Terminals : u # t => /\ pc'[u] = pc[u] /\ numchar'[u] = numchar[u]
                                         /\ line'[u] = line[u]
        /\ UNCHANGED <<terminal_buffer, enter_flag, nbytes, i, read, data>>
    BY <1>1, <1>13 DEF ReadReset, NumcharAfterRead, History, NoWindows, Goto, TypeOK
  <2>2. enter_flag[t] = 1 /\ Settled(t) /\ nbytes[t] \in Nat
    BY <1>5, <2>1
  <2>3. LinesInv' /\ PendingInv'
    BY <1>1, <2>1, <2>2, LineForgotten
  <2>4. FlagInv'
    BY <2>1, <2>2 DEF TypedInv, FlagInv
  <2>5. ReadAt(t)'
    BY <2>1, <2>2 DEF ReadAt
  <2>6. ReadsInv'
    BY <2>1, <2>5, OtherReads
  <2> QED
    BY <2>3, <2>4, <2>6 DEF TypedInv
<1>14. CASE ReadReturns(t)
  <2>1. /\ pc[t] = "wipe" /\ pc'[t] = "program"
        /\ i'[t] = 0 /\ data'[t] = [k \in Index |-> OLD]
        /\ \A u \in Terminals : u # t => /\ pc'[u] = pc[u] /\ nbytes'[u] = nbytes[u]
                                         /\ i'[u] = i[u] /\ read'[u] = read[u]
                                         /\ data'[u] = data[u]
                                         /\ terminal_buffer'[u] = terminal_buffer[u]
        /\ UNCHANGED <<numchar, enter_flag, line>>
    BY <1>1, <1>14 DEF ReadReturns, Goto, TypeOK
  <2>2. Settled(t) /\ numchar[t] = Len(line[t]) /\ line[t] = <<>>
    BY <1>2, <1>5, <2>1 DEF ReadAt
  <2>3. line'[t] = <<>> /\ numchar'[t] = 0
    BY <2>1, <2>2
  <2>4. LinesInv' /\ PendingInv'
    BY <1>1, <2>1, <2>2, <2>3, LineForgotten
  <2>5. FlagInv'
    BY <2>1 DEF TypedInv, FlagInv
  <2>6. ReadAt(t)'
    BY <2>1 DEF ReadAt
  <2>7. ReadsInv'
    BY <2>1, <2>6, OtherReads
  <2> QED
    BY <2>4, <2>5, <2>7 DEF TypedInv
<1> QED
  BY <1>4, <1>6, <1>7, <1>8, <1>9, <1>10, <1>11, <1>12, <1>13, <1>14 DEF ReadStep

(* The halt of a program forgets the line of its terminal.                    *)
LEMMA HaltInv ==
    ASSUME NoWindows, LineInv, TypedInv, NEW t \in Terminals, Halt(t)
    PROVE  TypedInv'
<1>1. TypeOK /\ nested' = nested /\ pc[t] = "program" /\ UNCHANGED readVars
  BY DEF LineInv, Halt
<1>2. Settled(t)
  BY DEF Halt, NoWindows, Settled
<1>3. /\ line'[t] = <<>> /\ numchar'[t] = 0
      /\ \A u \in Terminals : u # t => /\ line'[u] = line[u] /\ numchar'[u] = numchar[u]
                                       /\ terminal_buffer'[u] = terminal_buffer[u]
                                       /\ enter_flag'[u] = enter_flag[u]
  BY <1>1 DEF Halt, History, NoWindows, TypeOK
<1>4. LinesInv' /\ PendingInv'
  BY <1>1, <1>2, <1>3, LineForgotten
<1>5. ReadsInv'
  BY <1>1, <1>3, EditKeepsReads
<1>6. FlagInv'
  BY <1>1, <1>3 DEF TypedInv, FlagInv, readVars
<1> QED
  BY <1>4, <1>5, <1>6 DEF TypedInv

(* A step that changes neither lines, handlers nor reads.                     *)
LEMMA NothingTyped ==
    ASSUME TypedInv, UNCHANGED <<keyboardVars, nested, readVars>>
    PROVE  TypedInv'
<1>1. LinesInv' /\ PendingInv'
  BY LinesKept
<1>2. FlagInv' /\ ReadsInv'
  BY DEF TypedInv, FlagInv, ReadsInv, ReadAt, Delivered, keyboardVars, readVars
<1> QED
  BY <1>1, <1>2 DEF TypedInv
-----------------------------------------------------------------------------
(* Nothing is typed after the boot.                                           *)
LEMMA InitTyped == Init => TypedInv
<1> SUFFICES ASSUME Init PROVE TypedInv
  OBVIOUS
<1>1. \A t \in Terminals : /\ nested[t] = <<>> /\ DOMAIN nested[t] = {} /\ pc[t] = "program"
                           /\ line[t] = <<>> /\ Len(line[t]) = 0 /\ numchar[t] = 0
                           /\ i[t] = 0 /\ data[t] = [k \in Index |-> OLD]
  BY DEF Init
<1>2. FlagInv /\ PendingInv
  BY <1>1 DEF FlagInv, PendingInv
<1>3. LinesInv
  BY <1>1 DEF LinesInv, Holds
<1>4. ReadsInv
  BY <1>1 DEF ReadsInv, ReadAt
<1> QED
  BY <1>2, <1>3, <1>4 DEF TypedInv

(* Outside the windows, every step keeps the buffers the lines.               *)
LEMMA NextTyped ==
    ASSUME NoWindows, LineInv, TypedInv, [Next]_vars
    PROVE  TypedInv'
<1>1. TypeOK /\ terminal_shown \in Terminals /\ numchar[terminal_shown] \in 0 .. BufferSize
  BY DEF LineInv, TypeOK
<1> USE LineAssumption
<1>2. ASSUME NEW c \in Keys, KeyChar(c)
      PROVE  TypedInv'
  <2>1. c \in Char /\ numchar[terminal_shown] + 1 <= BufferSize /\ 1 \in 1 .. TabWidth /\ Type(c, 1)
    BY <1>1, <1>2 DEF KeyChar, Char
  <2> QED
    BY <2>1, TypedKeyInv
<1>3. CASE KeyTab
  <2> DEFINE n == SpacesOfTab(numchar[terminal_shown])
  <2>1. n \in 0 .. TabWidth /\ numchar[terminal_shown] + n <= BufferSize
    BY <1>1, SpacesType
  <2>2. PICK w : w = n
    OBVIOUS
  <2>3. SPACE \in Char /\ Type(SPACE, n) /\ n > 0
    BY <1>3 DEF KeyTab, Char, Type
  <2> HIDE DEF n
  <2>4. w \in 1 .. TabWidth /\ numchar[terminal_shown] + w <= BufferSize /\ Type(SPACE, w)
    BY <2>1, <2>2, <2>3
  <2> QED
    BY <2>3, <2>4, TypedKeyInv
<1>4. ASSUME NEW t \in Terminals, HandlerStep(t)
      PROVE  TypedInv'
  BY <1>4, SwapInv, PutInv, LoadInv, StoreInv DEF HandlerStep
<1>5. CASE PITTick \/ UNCHANGED vars
  BY <1>5, NothingTyped DEF PITTick, vars
<1> QED
  BY <1>2, <1>3, <1>4, <1>5, BackspaceInv, ClearInv, EnterInv, KeySwapInv, ReadStartInv,
     ReadStepTyped, HaltInv DEF Next

(* Outside the windows, the invariant of the lines holds always.              *)
THEOREM TypedInvariant == NoWindows => (Spec => [](LineInv /\ TypedInv))
<1> SUFFICES ASSUME NoWindows PROVE Spec => [](LineInv /\ TypedInv)
  OBVIOUS
<1>1. Init => LineInv /\ TypedInv
  BY InitInv, InitTyped
<1>2. LineInv /\ TypedInv /\ [Next]_vars => (LineInv /\ TypedInv)'
  BY NextInv, NextTyped
<1> QED
  BY <1>1, <1>2, PTL DEF Spec

(* Outside the windows, what keyboard_interrupt_handler has buffered for a    *)
(* terminal is the line its user has typed and not erased, whatever ran, was  *)
(* shown or halted between.                                                   *)
THEOREM BufferKeepsTheLine == NoWindows => (Spec => []BufferIsLine)
<1>1. LineInv /\ TypedInv => BufferIsLine
  BY DEF TypedInv, LinesInv, Settled, Holds, BufferIsLine
<1> QED
  BY <1>1, TypedInvariant, PTL

(* Outside the windows, terminal_read delivers the line typed on its terminal,*)
(* cut to nbytes, and returns its length.                                     *)
THEOREM ReadsDeliverTheLine == NoWindows => (Spec => []ReadDeliversLine)
<1>1. LineInv /\ TypedInv => ReadDeliversLine
  BY DEF TypedInv, ReadsInv, ReadAt, Delivered, ReadDeliversLine
<1> QED
  BY <1>1, TypedInvariant, PTL
=============================================================================
