---------------------------- MODULE LibraryProofs ----------------------------
(* Theorems about Library: memory of any size and double words of any width,  *)
(* and any formats and arguments.                                             *)
EXTENDS Library, SequenceTheorems, WellFoundedInduction, TLAPS

(* How many bytes a memory routine has written.                               *)
Moved == IF Backwards(call) THEN call.dest + call.n - 1 - edi ELSE edi - call.dest

(* Which bytes these are, and what memory holds meanwhile.                    *)
IsMoved(a) ==
    IF Backwards(call) THEN a \in call.dest + call.n - Moved .. call.dest + call.n - 1
    ELSE a \in call.dest .. call.dest + Moved - 1

Contents ==
    \A a \in Address :
        mem[a] = IF ~IsMoved(a) THEN a
                 ELSE IF call.name = "memset" THEN FILL ELSE call.src + a - call.dest

(* The registers count what is left in each of the loops.                     *)
Left == call.n - Moved

Counters ==
    /\ edi \in Int /\ ecx \in Nat /\ edx \in Nat
    /\ Moved \in 0 .. call.n
    /\ esi = call.src + (edi - call.dest)
    /\ \/ phase = "top" /\ call.name # "memmove" /\ edx = 0 /\ ecx = Left
       \/ phase = "words" /\ call.name # "memmove" /\ WORD * ecx + edx = Left
       \/ phase = "movsb" /\ call.name = "memmove" /\ edx = 0 /\ ecx = Left
       \/ phase = "done" /\ Left = 0

MemoryInv ==
    call.name # "printf" =>
        /\ call \in MemoryCalls
        /\ Counters
        /\ MayOverlap(call) => Contents
-----------------------------------------------------------------------------
(* A call of a memory routine, as the provers need to see it.                 *)
LEMMA CallFacts ==
    ASSUME call \in MemoryCalls
    PROVE  /\ call.name \in {"memset", "memcpy", "memmove"}
           /\ call.dest \in Nat /\ call.src \in Nat /\ call.n \in Nat
           /\ call.dest + call.n <= Size /\ call.src + call.n <= Size
           /\ Backwards(call) => call.name = "memmove" /\ call.src < call.dest
           /\ MayOverlap(call) /\ ~Backwards(call) /\ call.name # "memset" =>
                 call.dest <= call.src \/ call.src + call.n <= call.dest
BY LibraryAssumption DEF MemoryCalls, Address, Backwards, MayOverlap

(* A store of the next bytes at the end a forward routine is at.              *)
LEMMA StoreForward ==
    ASSUME MemoryInv, call.name # "printf", ~Backwards(call),
           NEW k \in Nat, k <= Left, Store(k), Advance(k), UNCHANGED call
    PROVE  /\ edi' \in Int
           /\ Moved' = Moved + k
           /\ Left' = Left - k
           /\ esi' = call.src + (edi' - call.dest)
           /\ MayOverlap(call) => Contents'
<1>1. /\ call \in MemoryCalls /\ edi \in Int /\ Moved = edi - call.dest
      /\ Moved \in 0 .. call.n /\ Left = call.n - Moved
      /\ esi = call.src + (edi - call.dest)
      /\ MayOverlap(call) => Contents
  BY DEF MemoryInv, Counters, Moved, Left
<1>2. edi' = edi + k /\ esi' = esi + k /\ call' = call /\ Moved' = edi' - call.dest
      /\ Left' = call.n - Moved'
  BY DEF Advance, Moved, Left, Backwards
<1>3. /\ edi' \in Int
      /\ Moved' = Moved + k
      /\ Left' = Left - k
      /\ esi' = call.src + (edi' - call.dest)
  BY <1>1, <1>2, CallFacts
<1>4. ASSUME MayOverlap(call), NEW a \in Address
      PROVE  mem'[a] = IF a \notin call.dest .. call.dest + Moved' - 1 THEN a
                       ELSE IF call.name = "memset" THEN FILL ELSE call.src + a - call.dest
  <2>1. mem[a] = IF a \notin call.dest .. call.dest + Moved - 1 THEN a
                 ELSE IF call.name = "memset" THEN FILL ELSE call.src + a - call.dest
    BY <1>1, <1>4 DEF Contents, IsMoved
  <2>2. mem'[a] = IF a \notin edi .. edi + k - 1 THEN mem[a]
                  ELSE IF call.name = "memset" THEN FILL ELSE mem[esi + a - edi]
    BY DEF Store
  <2>3. a \in Nat /\ Size \in Nat
    BY LibraryAssumption DEF Address
  <2>4. CASE a \notin edi .. edi + k - 1
    BY <1>1, <1>2, <2>1, <2>2, <2>3, <2>4, CallFacts
  <2>5. CASE a \in edi .. edi + k - 1 /\ call.name = "memset"
    BY <1>1, <1>2, <2>2, <2>3, <2>5, CallFacts
  <2>6. CASE a \in edi .. edi + k - 1 /\ call.name # "memset"
    <3> DEFINE x == esi + a - edi
    <3>1. x = call.src + a - call.dest
      BY <1>1, <2>3, CallFacts
    <3>2. x \in Address /\ x \notin call.dest .. call.dest + Moved - 1
      BY <1>1, <1>4, <2>3, <2>6, <3>1, CallFacts DEF Address
    <3>3. mem[x] = x
      BY <1>1, <1>4, <3>2 DEF Contents, IsMoved
    <3>4. a \in call.dest .. call.dest + Moved' - 1
      BY <1>1, <1>2, <2>3, <2>6, CallFacts
    <3> QED
      BY <2>2, <2>6, <3>1, <3>3, <3>4
  <2> QED
    BY <2>4, <2>5, <2>6
<1>5. MayOverlap(call) => Contents'
  BY <1>2, <1>4 DEF Contents, IsMoved, Backwards
<1> QED
  BY <1>3, <1>5

(* A store of the next byte when memmove goes backwards.                      *)
LEMMA StoreBackward ==
    ASSUME MemoryInv, call.name # "printf", Backwards(call),
           1 <= Left, Store(1), Advance(-1), UNCHANGED call
    PROVE  /\ edi' \in Int
           /\ Moved' = Moved + 1
           /\ Left' = Left - 1
           /\ esi' = call.src + (edi' - call.dest)
           /\ Contents'
<1>1. /\ call \in MemoryCalls /\ edi \in Int /\ Moved = call.dest + call.n - 1 - edi
      /\ Moved \in 0 .. call.n /\ Left = call.n - Moved
      /\ esi = call.src + (edi - call.dest)
      /\ call.name = "memmove" /\ call.src < call.dest
      /\ Contents
  BY CallFacts DEF MemoryInv, Counters, Moved, Left, MayOverlap
<1>2. edi' = edi + (-1) /\ esi' = esi + (-1) /\ call' = call
      /\ Moved' = call.dest + call.n - 1 - edi' /\ Left' = call.n - Moved'
  BY DEF Advance, Moved, Left, Backwards
<1>3. /\ edi' \in Int
      /\ Moved' = Moved + 1
      /\ Left' = Left - 1
      /\ esi' = call.src + (edi' - call.dest)
  BY <1>1, <1>2, CallFacts
<1>4. ASSUME NEW a \in Address
      PROVE  mem'[a] = IF a \notin call.dest + call.n - Moved' .. call.dest + call.n - 1 THEN a
                       ELSE call.src + a - call.dest
  <2>1. \A b \in Address :
            mem[b] = IF b \notin call.dest + call.n - Moved .. call.dest + call.n - 1 THEN b
                     ELSE call.src + b - call.dest
    BY <1>1 DEF Contents, IsMoved
  <2>2. mem'[a] = IF a \notin edi .. edi + 1 - 1 THEN mem[a] ELSE mem[esi + a - edi]
    BY <1>1 DEF Store
  <2>3. a \in Nat /\ Size \in Nat
    BY LibraryAssumption DEF Address
  <2>4. CASE a # edi
    <3>1. mem'[a] = mem[a]
      BY <1>1, <2>2, <2>3, <2>4
    <3> QED
      BY <1>1, <1>2, <2>1, <2>3, <2>4, <3>1, CallFacts
  <2>5. CASE a = edi
    <3>1. mem'[a] = mem[esi]
      <4>1. esi + a - edi = esi /\ a \in edi .. edi + 1 - 1
        BY <1>1, <2>3, <2>5, CallFacts
      <4> QED
        BY <2>2, <4>1
    <3>2. esi \in Address /\ esi \notin call.dest + call.n - Moved .. call.dest + call.n - 1
      BY <1>1, <2>3, <2>5, CallFacts DEF Address
    <3>3. mem[esi] = esi
      BY <2>1, <3>2
    <3>4. a \in call.dest + call.n - Moved' .. call.dest + call.n - 1 /\ esi = call.src + a - call.dest
      BY <1>1, <1>2, <2>3, <2>5, CallFacts
    <3> QED
      BY <3>1, <3>3, <3>4
  <2> QED
    BY <2>4, <2>5
<1>5. Contents'
  BY <1>1, <1>2, <1>4 DEF Contents, IsMoved, Backwards
<1> QED
  BY <1>3, <1>5
-----------------------------------------------------------------------------
(* The invariant holds when a routine is called.                              *)
LEMMA MemoryInit == Init => MemoryInv
<1> SUFFICES ASSUME Init, call.name # "printf"
             PROVE  call \in MemoryCalls /\ Counters /\ Contents
  BY DEF MemoryInv
<1>1. call \in MemoryCalls
  BY DEF Init, PrintCalls
<1> DEFINE last == IF Backwards(call) THEN call.n - 1 ELSE 0
<1>2. edi = call.dest + last /\ esi = call.src + last /\ ecx = call.n /\ edx = 0
  BY DEF Init
<1>3. /\ phase = IF call.name = "memmove" THEN "movsb" ELSE "top"
      /\ mem = [a \in Address |-> a]
  BY DEF Init
<1>4. last \in Int
  BY <1>1, CallFacts
<1>5. Moved = 0 /\ Left = call.n /\ edi \in Int /\ esi = call.src + (edi - call.dest)
  BY <1>1, <1>2, <1>4, CallFacts DEF Moved, Left
<1>6. Counters
  BY <1>1, <1>2, <1>3, <1>5, CallFacts DEF Counters
<1>7. Contents
  <2> SUFFICES ASSUME NEW a \in Address
               PROVE  mem[a] = a /\ ~IsMoved(a)
    BY DEF Contents
  <2>1. a \in Nat
    BY LibraryAssumption DEF Address
  <2> QED
    BY <1>1, <1>3, <1>5, <2>1, CallFacts DEF IsMoved
<1> QED
  BY <1>1, <1>6, <1>7

(* Every step of a memory routine keeps it; printf has steps of its own.      *)
LEMMA MemoryStepInv ==
    ASSUME MemoryInv, Next, call.name # "printf"
    PROVE  MemoryInv'
<1>1. /\ call \in MemoryCalls /\ Counters
      /\ MayOverlap(call) => Contents
      /\ WORD \in Nat /\ WORD > 0
  BY LibraryAssumption DEF MemoryInv
<1>2. /\ ecx \in Nat /\ edx \in Nat /\ edi \in Int /\ Moved \in 0 .. call.n
      /\ Left = call.n - Moved /\ Left \in Nat /\ call.n \in Nat
      /\ phase \in {"top", "words", "movsb", "done"}
  BY <1>1, CallFacts DEF Counters, Left
<1>3. ASSUME NEW k \in Nat, k <= Left, ~Backwards(call), Store(k), Advance(k), UNCHANGED call
      PROVE  /\ edi' \in Int /\ Moved' \in 0 .. call'.n /\ Left' = Left - k
             /\ esi' = call'.src + (edi' - call'.dest)
             /\ MayOverlap(call') => Contents'
  <2>1. /\ edi' \in Int /\ Moved' = Moved + k /\ Left' = Left - k
        /\ esi' = call.src + (edi' - call.dest)
        /\ MayOverlap(call) => Contents'
    BY <1>3, StoreForward
  <2> QED
    BY <1>2, <1>3, <2>1
<1>4. CASE TopByte
  <2>1. /\ phase = "top" /\ ecx # 0 /\ Store(1) /\ Advance(1) /\ ecx' = ecx - 1
        /\ UNCHANGED <<call, phase, edx>>
    BY <1>4 DEF TopByte, MemoryStep
  <2>2. call.name # "memmove" /\ edx = 0 /\ ecx = Left /\ ~Backwards(call)
    BY <1>1, <2>1 DEF Counters, Backwards
  <2>3. /\ edi' \in Int /\ Moved' \in 0 .. call'.n /\ Left' = Left - 1
        /\ esi' = call'.src + (edi' - call'.dest)
        /\ MayOverlap(call') => Contents'
    BY <1>2, <1>3, <2>1, <2>2
  <2>4. Counters'
    BY <1>2, <2>1, <2>2, <2>3 DEF Counters
  <2> QED
    BY <1>1, <2>1, <2>3, <2>4 DEF MemoryInv
<1>5. CASE Aligned
  <2>1. /\ phase = "top" /\ edx' = ecx % WORD /\ ecx' = ecx \div WORD /\ phase' = "words"
        /\ UNCHANGED <<call, mem, edi, esi>>
    BY <1>5 DEF Aligned, MemoryStep, Remainder
  <2>2. call.name # "memmove" /\ edx = 0 /\ ecx = Left
    BY <1>1, <2>1 DEF Counters
  <2>3. ecx' \in Nat /\ edx' \in Nat /\ WORD * ecx' + edx' = ecx
    <3>1. ASSUME NEW k \in Nat, NEW d \in Nat, d > 0
          PROVE  k \div d \in Nat /\ k % d \in Nat /\ d * (k \div d) + (k % d) = k
      BY <3>1
    <3> QED
      BY <1>1, <1>2, <2>1, <3>1
  <2>4. Moved' = Moved /\ Left' = Left /\ (Contents => Contents')
    BY <2>1 DEF Moved, Left, Contents, IsMoved, Backwards
  <2>5. Counters'
    BY <1>1, <1>2, <2>1, <2>2, <2>3, <2>4 DEF Counters
  <2> QED
    BY <1>1, <2>1, <2>4, <2>5 DEF MemoryInv
<1>6. CASE MoveWord
  <2>1. /\ phase = "words" /\ ecx # 0 /\ Store(WORD) /\ Advance(WORD) /\ ecx' = ecx - 1
        /\ UNCHANGED <<call, phase, edx>>
    BY <1>6 DEF MoveWord, MemoryStep
  <2>2. call.name # "memmove" /\ WORD * ecx + edx = Left /\ ~Backwards(call)
    BY <1>1, <2>1 DEF Counters, Backwards
  <2>3. ecx' \in Nat /\ WORD * ecx = WORD * ecx' + WORD /\ WORD * ecx' \in Nat
    BY <1>1, <1>2, <2>1
  <2>4. /\ edi' \in Int /\ Moved' \in 0 .. call'.n /\ Left' = Left - WORD
        /\ esi' = call'.src + (edi' - call'.dest)
        /\ MayOverlap(call') => Contents'
    <3>1. WORD <= Left
      <4> DEFINE rest == WORD * ecx'
      <4>1. rest \in Nat /\ rest + WORD + edx = Left
        BY <2>2, <2>3
      <4> HIDE DEF rest
      <4> QED
        BY <1>1, <1>2, <4>1
    <3> QED
      BY <1>1, <1>3, <2>1, <2>2, <3>1
  <2>5. WORD * ecx' + edx' = Left'
    BY <1>1, <1>2, <2>1, <2>2, <2>3, <2>4
  <2>6. Counters'
    BY <1>2, <2>1, <2>2, <2>3, <2>4, <2>5 DEF Counters
  <2> QED
    BY <1>1, <2>1, <2>4, <2>6 DEF MemoryInv
<1>7. CASE BottomByte
  <2>1. /\ phase = "words" /\ ecx = 0 /\ edx # 0 /\ Store(1) /\ Advance(1) /\ edx' = edx - 1
        /\ UNCHANGED <<call, phase, ecx>>
    BY <1>7 DEF BottomByte, MemoryStep
  <2>2. call.name # "memmove" /\ WORD * ecx + edx = Left /\ ~Backwards(call)
    BY <1>1, <2>1 DEF Counters, Backwards
  <2>3. WORD * ecx = 0 /\ edx = Left
    BY <1>1, <1>2, <2>1, <2>2
  <2>4. /\ edi' \in Int /\ Moved' \in 0 .. call'.n /\ Left' = Left - 1
        /\ esi' = call'.src + (edi' - call'.dest)
        /\ MayOverlap(call') => Contents'
    BY <1>2, <1>3, <2>1, <2>2, <2>3
  <2>5. WORD * ecx' + edx' = Left' /\ edx' \in Nat
    BY <1>2, <2>1, <2>3, <2>4
  <2>6. Counters'
    BY <1>2, <2>1, <2>2, <2>4, <2>5 DEF Counters
  <2> QED
    BY <1>1, <2>1, <2>4, <2>6 DEF MemoryInv
<1>8. CASE MoveByte
  <2>1. /\ phase = "movsb" /\ ecx # 0 /\ Store(1) /\ ecx' = ecx - 1
        /\ Advance(IF Backwards(call) THEN -1 ELSE 1)
        /\ UNCHANGED <<call, phase, edx>>
    BY <1>8 DEF MoveByte, MemoryStep
  <2>2. call.name = "memmove" /\ edx = 0 /\ ecx = Left /\ MayOverlap(call)
    BY <1>1, <2>1 DEF Counters, MayOverlap
  <2>3. /\ edi' \in Int /\ Moved' \in 0 .. call'.n /\ Left' = Left - 1
        /\ esi' = call'.src + (edi' - call'.dest)
        /\ Contents'
    <3>1. CASE ~Backwards(call)
      BY <1>2, <1>3, <2>1, <2>2, <3>1
    <3>2. CASE Backwards(call)
      <4>1. /\ edi' \in Int /\ Moved' = Moved + 1 /\ Left' = Left - 1
            /\ esi' = call.src + (edi' - call.dest)
            /\ Contents'
        BY <1>2, <2>1, <2>2, <3>2, StoreBackward
      <4> QED
        BY <1>2, <2>1, <2>2, <4>1
    <3> QED
      BY <3>1, <3>2
  <2>4. Counters'
    BY <1>2, <2>1, <2>2, <2>3 DEF Counters
  <2> QED
    BY <1>1, <2>1, <2>3, <2>4 DEF MemoryInv
<1>9. CASE MemoryDone
  <2>1. /\ phase \in {"top", "words", "movsb"} /\ ecx = 0 /\ edx = 0 /\ phase' = "done"
        /\ UNCHANGED <<call, mem, edi, esi, ecx, edx>>
    BY <1>9 DEF MemoryDone, MemoryStep, registers
  <2>2. Left = 0
    BY <1>1, <1>2, <2>1 DEF Counters
  <2>3. Moved' = Moved /\ Left' = Left /\ (Contents => Contents')
    BY <2>1 DEF Moved, Left, Contents, IsMoved, Backwards
  <2>4. Counters'
    BY <1>1, <1>2, <2>1, <2>2, <2>3 DEF Counters
  <2> QED
    BY <1>1, <2>1, <2>3, <2>4 DEF MemoryInv
<1> QED
  BY <1>2, <1>4, <1>5, <1>6, <1>7, <1>8, <1>9
     DEF Next, PrintfChar, PrintfConvert, PrintfNumber, itoa, strrev, PrintfPrint, PrintfDone

(* No step changes what was called.                                           *)
LEMMA CallStays == [Next]_vars => call' = call
BY DEF Next, vars, TopByte, Aligned, MoveWord, BottomByte, MoveByte, MemoryDone, MemoryStep,
       PrintfChar, PrintfConvert, PrintfNumber, itoa, strrev, PrintfPrint, PrintfDone, PrintStep

(* Every step keeps the invariant.                                            *)
LEMMA MemoryNext == MemoryInv /\ [Next]_vars => MemoryInv'
<1> SUFFICES ASSUME MemoryInv, [Next]_vars
             PROVE  MemoryInv'
  OBVIOUS
<1>1. call' = call
  BY CallStays
<1>2. CASE call.name = "printf"
  BY <1>1, <1>2 DEF MemoryInv
<1>3. CASE call.name # "printf" /\ Next
  BY <1>3, MemoryStepInv
<1>4. CASE UNCHANGED vars
  BY <1>4 DEF vars, registers, MemoryInv, Counters, Contents, IsMoved, Moved, Left, Backwards
<1> QED
  BY <1>2, <1>3, <1>4

(* memset, memcpy and memmove write the bytes they were given and no other,   *)
(* for any alignment, length, width of a double word and overlap but that of  *)
(* a memcpy that moves memory up.                                             *)
THEOREM MemoryRoutinesCopy == Spec => []MemoryIsCopied
<1>1. MemoryInv => MemoryIsCopied
  <2> SUFFICES ASSUME MemoryInv, call.name # "printf", MayOverlap(call), NEW a \in Address
               PROVE  IF a \notin call.dest .. call.dest + call.n - 1 THEN mem[a] = a
                      ELSE phase = "done" =>
                              mem[a] = IF call.name = "memset" THEN FILL
                                       ELSE call.src + a - call.dest
    BY DEF MemoryIsCopied
  <2>1. /\ call \in MemoryCalls /\ Contents
        /\ Moved \in 0 .. call.n /\ a \in Nat
        /\ phase = "done" => Moved = call.n
    <3>1. call \in MemoryCalls /\ Contents /\ Counters
      BY DEF MemoryInv
    <3>2. Moved \in 0 .. call.n /\ (phase = "done" => call.n - Moved = 0)
      BY <3>1 DEF Counters, Left
    <3> QED
      BY <3>1, <3>2, CallFacts, LibraryAssumption DEF Address
  <2>2. a \notin call.dest .. call.dest + call.n - 1 => ~IsMoved(a)
    BY <2>1, CallFacts DEF IsMoved
  <2>3. a \in call.dest .. call.dest + call.n - 1 /\ phase = "done" => IsMoved(a)
    BY <2>1, CallFacts DEF IsMoved
  <2> QED
    BY <2>1, <2>2, <2>3 DEF Contents
<1> QED
  BY <1>1, MemoryInit, MemoryNext, PTL DEF Spec
-----------------------------------------------------------------------------
(* A set of natural numbers has a least element.                              *)
LEMMA LeastNatural ==
    ASSUME NEW S, S \subseteq Nat, S # {}
    PROVE  \E m \in S : \A k \in S : m <= k
<1> DEFINE Less == OpToRel(<, Nat)
<1>1. PICK m \in S : \A k \in S : ~(<<k, m>> \in Less)
  <2> HIDE DEF Less
  <2>1. IsWellFoundedOn(Less, Nat)
    BY NatLessThanWellFounded DEF Less
  <2> QED
    BY <2>1, WFMin
<1>2. \A k \in S : ~(k < m)
  BY <1>1 DEF OpToRel
<1> QED
  BY <1>2

(* Induction up to a bound, for the numbers in a set.                         *)
LEMMA InductionTo ==
    ASSUME NEW T \in Nat, NEW P, 0 \in P,
           \A n \in 1 .. T : n - 1 \in P => n \in P
    PROVE  \A n \in 0 .. T : n \in P
<1> DEFINE Rest == (0 .. T) \ P
<1>1. ASSUME Rest # {}
      PROVE  FALSE
  <2>1. Rest \subseteq Nat
    OBVIOUS
  <2>2. PICK m \in Rest : \A k \in Rest : m <= k
    <3> HIDE DEF Rest
    <3> QED
      BY <1>1, <2>1, LeastNatural
  <2>3. m \in 1 .. T /\ m \notin P
    BY <2>2
  <2>4. m - 1 \in 0 .. T /\ ~(m <= m - 1)
    BY <2>3
  <2>5. m - 1 \in P
    BY <2>2, <2>4
  <2> QED
    BY <2>3, <2>5
<1> QED
  BY <1>1
-----------------------------------------------------------------------------
(* What printf remembers of the characters it has read.                       *)
States == {"text", "%", "#"} \X (Nat \ {0})

(* r is what the first n characters of format f leave.                        *)
Reads(r, n, f) ==
    /\ r \in [0 .. n -> States]
    /\ r[0] = <<"text", 1>>
    /\ \A k \in 1 .. n : r[k] = Follow(f[k], r[k - 1])

(* A character leaves a state behind a state, and no fewer arguments behind.  *)
LEMMA FollowFacts ==
    ASSUME NEW c, NEW r \in States
    PROVE  Follow(c, r) \in States /\ r[2] \in Nat \ {0} /\ r[2] <= Follow(c, r)[2]
BY DEF Follow, States

(* The recursion of Reading has a solution.                                   *)
LEMMA ReadingExists ==
    ASSUME NEW f, Len(f) \in Nat
    PROVE  \E r : Reads(r, Len(f), f)
<1> DEFINE T == Len(f)
           P == {n \in Nat : \E r : Reads(r, n, f)}
<1>1. 0 \in P
  <2>1. Reads([k \in 0 .. 0 |-> <<"text", 1>>], 0, f)
    BY DEF Reads, States
  <2> QED
    BY <2>1
<1>2. ASSUME NEW n \in 1 .. T, n - 1 \in P
      PROVE  n \in P
  <2>1. n \in Nat /\ n - 1 \in Nat /\ n # 0 /\ n - 1 \in 0 .. n - 1
    OBVIOUS
  <2>2. PICK r : Reads(r, n - 1, f)
    BY <1>2
  <2> DEFINE h == [k \in 0 .. n |-> IF k = n THEN Follow(f[n], r[n - 1]) ELSE r[k]]
  <2>3. r[n - 1] \in States
    BY <2>1, <2>2 DEF Reads
  <2>4. Follow(f[n], r[n - 1]) \in States
    BY <2>3, FollowFacts
  <2>5. h \in [0 .. n -> States]
    BY <2>1, <2>2, <2>4 DEF Reads
  <2>6. h[0] = <<"text", 1>>
    BY <2>1, <2>2 DEF Reads
  <2>7. \A k \in 1 .. n : h[k] = Follow(f[k], h[k - 1])
    BY <2>1, <2>2 DEF Reads
  <2>8. Reads(h, n, f)
    BY <2>5, <2>6, <2>7 DEF Reads
  <2> QED
    BY <2>1, <2>8
<1>3. T \in 0 .. T /\ T \in Nat
  OBVIOUS
<1>4. \A n \in 0 .. T : n \in P
  <2> HIDE DEF P, T
  <2> QED
    BY <1>1, <1>2, <1>3, InductionTo
<1> QED
  BY <1>3, <1>4

(* What a format leaves: what its recursion says.                             *)
LEMMA ReadingFacts ==
    ASSUME NEW f, Len(f) \in Nat
    PROVE  Reads(Reading(f), Len(f), f)
<1> DEFINE T == Len(f)
           Def(h) == [k \in 0 .. T |-> IF k = 0 THEN <<"text", 1>> ELSE Follow(f[k], h[k - 1])]
           g == CHOOSE h : h = Def(h)
<1>1. PICK r : Reads(r, T, f)
  BY ReadingExists
<1>2. r = Def(r)
  <2>1. r \in [0 .. T -> States] /\ T \in Nat
    BY <1>1 DEF Reads
  <2>2. \A k \in 0 .. T : r[k] = IF k = 0 THEN <<"text", 1>> ELSE Follow(f[k], r[k - 1])
    <3> SUFFICES ASSUME NEW k \in 0 .. T
                 PROVE  r[k] = IF k = 0 THEN <<"text", 1>> ELSE Follow(f[k], r[k - 1])
      OBVIOUS
    <3>1. CASE k = 0
      BY <1>1, <3>1 DEF Reads
    <3>2. CASE k # 0
      <4>1. k \in 1 .. T
        BY <2>1, <3>2
      <4> QED
        BY <1>1, <3>2, <4>1 DEF Reads
    <3> QED
      BY <3>1, <3>2
  <2> HIDE DEF T
  <2> QED
    BY <2>1, <2>2
<1>3. g = Def(g)
  <2> HIDE DEF Def
  <2> QED
    BY <1>2
<1>4. Reading(f) = g
  BY DEF Reading
<1>5. \A n \in 0 .. T : g[n] = r[n]
  <2> DEFINE P == {n \in 0 .. T : g[n] = r[n]}
  <2> HIDE DEF g
  <2>1. 0 \in P
    BY <1>1, <1>3 DEF Reads
  <2>2. ASSUME NEW n \in 1 .. T, n - 1 \in P
        PROVE  n \in P
    <3>1. g[n] = Follow(f[n], g[n - 1])
      <4>1. n \in 0 .. T /\ n # 0
        OBVIOUS
      <4> HIDE DEF T
      <4> QED
        BY <1>3, <4>1
    <3>2. r[n] = Follow(f[n], r[n - 1])
      BY <1>1 DEF Reads
    <3> QED
      BY <2>2, <3>1, <3>2
  <2>3. \A n \in 0 .. T : n \in P
    <3> HIDE DEF P, T
    <3> QED
      BY <2>1, <2>2, InductionTo DEF T
  <2> QED
    BY <2>3
<1>6. g = [k \in 0 .. T |-> g[k]]
  <2> HIDE DEF g
  <2> QED
    BY <1>3
<1> HIDE DEF g
<1> QED
  BY <1>1, <1>4, <1>5, <1>6 DEF Reads

(* Formats and arguments of a call: the arguments suffice.                    *)
LEMMA FormatFacts ==
    ASSUME NEW f \in Formats, NEW args \in Arguments
    PROVE  /\ f \in Seq(Characters) /\ Len(f) \in Nat
           /\ Reading(f)[0] = <<"text", 1>>
           /\ \A k \in 0 .. Len(f) : Reading(f)[k] \in States
           /\ \A k \in 1 .. Len(f) : Reading(f)[k] = Follow(f[k], Reading(f)[k - 1])
           /\ Reading(f)[Len(f)][1] = "text"
           /\ \A k \in 0 .. Len(f) : Reading(f)[k][2] <= Len(args) + 1
           /\ args \in Seq(0 .. WordSize - 1) /\ Len(args) \in Nat
<1>1. /\ f \in Seq(Characters) /\ WellFormed(f) /\ Len(f) \in Nat
      /\ args \in Seq(0 .. WordSize - 1) /\ Len(args) \in Nat
      /\ Reading(f)[Len(f)][2] <= Len(args) + 1
  BY LibraryAssumption, LenProperties
<1> DEFINE r == Reading(f)
           T == Len(f)
<1>2. Reads(r, T, f)
  BY <1>1, ReadingFacts
<1> HIDE DEF r
<1>3. \A k \in 0 .. T : r[k] \in States /\ r[k][2] \in Nat
  BY <1>2 DEF Reads, States
<1>4. ASSUME NEW k \in 0 .. T
      PROVE  r[k][2] <= r[T][2]
  <2> DEFINE P == {n \in 0 .. T : k <= n => r[k][2] <= r[n][2]}
  <2>1. 0 \in P
    BY <1>1, <1>3
  <2>2. ASSUME NEW n \in 1 .. T, n - 1 \in P
        PROVE  n \in P
    <3>1. n - 1 \in 0 .. T /\ n \in 0 .. T /\ r[n - 1] \in States
      BY <1>3
    <3>2. r[n - 1][2] <= r[n][2]
      BY <1>2, <3>1, FollowFacts DEF Reads
    <3>3. CASE k = n
      BY <1>3, <3>3
    <3>4. CASE k # n
      BY <1>3, <2>2, <3>1, <3>2, <3>4
    <3> QED
      BY <3>3, <3>4
  <2>3. \A n \in 0 .. T : n \in P
    <3> HIDE DEF P
    <3> QED
      BY <1>1, <2>1, <2>2, InductionTo
  <2>4. T \in 0 .. T
    BY <1>1
  <2> QED
    BY <2>3, <2>4
<1>5. \A k \in 0 .. T : r[k][2] <= Len(args) + 1
  <2>1. r[T][2] \in Nat /\ r[T][2] <= Len(args) + 1
    BY <1>1, <1>3 DEF r
  <2> QED
    BY <1>1, <1>3, <1>4, <2>1
<1> QED
  BY <1>1, <1>2, <1>3, <1>5 DEF r, Reads, WellFormed
-----------------------------------------------------------------------------
(* The characters that printf may print.                                      *)
Glyphs == Characters \cup {lookup(d) : d \in 0 .. 15} \cup {"%", "-"}

Radixes == {10, 16}

(* A function on an initial segment is a sequence.                            *)
LEMMA IsSequence ==
    ASSUME NEW S, NEW n \in Nat, NEW f \in [1 .. n -> S]
    PROVE  f \in Seq(S) /\ Len(f) = n
OBVIOUS

(* A digit is a character, the only one for its number.                       *)
LEMMA LookupFacts ==
    ASSUME NEW d \in 0 .. 15
    PROVE  /\ lookup(d) \in Glyphs
           /\ lookup(d) = "0" <=> d = 0
           /\ \A e \in 0 .. 15 : lookup(d) = lookup(e) => d = e
<1>1. lookup(d) \in Glyphs
  BY DEF Glyphs
<1>2. lookup(d) = "0" <=> d = 0
  BY DEF lookup
<1>3. ASSUME NEW e \in 0 .. 15, lookup(d) = lookup(e)
      PROVE  d = e
  BY <1>3 DEF lookup
<1> QED
  BY <1>1, <1>2, <1>3

(* The number of a digit.                                                     *)
LEMMA DigitFacts ==
    ASSUME NEW base \in Radixes, NEW d \in 0 .. base - 1
    PROVE  DigitOf(lookup(d), base) = d
<1> DEFINE g == CHOOSE e \in 0 .. base - 1 : lookup(e) = lookup(d)
<1>1. \A e \in 0 .. base - 1 : e \in 0 .. 15
  BY DEF Radixes
<1>2. g \in 0 .. base - 1 /\ lookup(g) = lookup(d)
  OBVIOUS
<1> HIDE DEF g
<1>3. g = d
  BY <1>1, <1>2, LookupFacts
<1> QED
  BY <1>3 DEF DigitOf, g

(* v is what the first n digits of s denote, for every n.                     *)
Denotes(v, s, base) ==
    /\ v \in [0 .. Len(s) -> Nat]
    /\ v[0] = 0
    /\ \A n \in 1 .. Len(s) :
          \E d \in 0 .. base - 1 : s[n] = lookup(d) /\ v[n] = base * v[n - 1] + d

(* The recursion of ValueOf has no other solution.                            *)
LEMMA ValueIs ==
    ASSUME NEW base \in Radixes, NEW s, Len(s) \in Nat, NEW v, Denotes(v, s, base)
    PROVE  ValueOf(s, base) = v[Len(s)]
<1> DEFINE T == Len(s)
           Def(h) == [n \in 0 .. T |-> IF n = 0 THEN 0 ELSE base * h[n - 1] + DigitOf(s[n], base)]
           g == CHOOSE h : h = Def(h)
<1>1. v \in [0 .. T -> Nat] /\ v[0] = 0 /\ T \in Nat
  BY DEF Denotes
<1>2. \A n \in 1 .. T : v[n] = base * v[n - 1] + DigitOf(s[n], base)
  BY DigitFacts DEF Denotes
<1>3. ValueOf(s, base) = g[T]
  BY DEF ValueOf
<1> HIDE DEF T
<1>4. v = Def(v)
  <2>1. \A n \in 0 .. T : n # 0 => n \in 1 .. T
    BY <1>1
  <2>2. \A n \in 0 .. T : v[n] = IF n = 0 THEN 0 ELSE base * v[n - 1] + DigitOf(s[n], base)
    BY <1>1, <1>2, <2>1
  <2> QED
    BY <1>1, <2>2
<1>5. g = Def(g)
  <2> HIDE DEF Def
  <2> QED
    BY <1>4
<1>6. \A n \in 0 .. T : g[n] = v[n]
  <2> DEFINE P == {n \in 0 .. T : g[n] = v[n]}
  <2> HIDE DEF g
  <2>1. 0 \in P
    BY <1>1, <1>5
  <2>2. ASSUME NEW n \in 1 .. T, n - 1 \in P
        PROVE  n \in P
    <3>1. n \in 0 .. T /\ n # 0
      OBVIOUS
    <3>2. g[n] = base * g[n - 1] + DigitOf(s[n], base)
      BY <1>5, <3>1
    <3>3. v[n] = base * v[n - 1] + DigitOf(s[n], base)
      BY <1>2
    <3>4. g[n - 1] = v[n - 1]
      BY <2>2
    <3> QED
      BY <3>1, <3>2, <3>3, <3>4
  <2>3. \A n \in 0 .. T : n \in P
    <3> HIDE DEF P
    <3> QED
      BY <1>1, <2>1, <2>2, InductionTo
  <2> QED
    BY <2>3
<1>7. T \in 0 .. T
  BY <1>1
<1> QED
  BY <1>3, <1>6, <1>7 DEF T

(* s is a numeral of a value, without a zero in front.                        *)
Numeral(s, base, value) ==
    /\ s \in Seq(Glyphs) /\ Len(s) >= 1
    /\ s[1] # "0" \/ Len(s) = 1
    /\ \E v : Denotes(v, s, base) /\ v[Len(s)] = value

(* Such a numeral is what an unpadded number has to look like.                *)
LEMMA NumeralIs ==
    ASSUME NEW base \in Radixes, NEW s, NEW value, Numeral(s, base, value)
    PROVE  IsNumeral(s, value, base, 1)
<1>1. Len(s) \in Nat
  BY LenProperties DEF Numeral
<1>2. PICK v : Denotes(v, s, base) /\ v[Len(s)] = value
  BY DEF Numeral
<1>3. ValueOf(s, base) = value
  BY <1>1, <1>2, ValueIs
<1>4. \A k \in 1 .. Len(s) : \E d \in 0 .. base - 1 : s[k] = lookup(d)
  BY <1>2 DEF Denotes
<1> QED
  BY <1>3, <1>4 DEF IsNumeral, Numeral

(* The numeral of zero, which itoa writes itself.                             *)
LEMMA ZeroNumeral ==
    ASSUME NEW base \in Radixes
    PROVE  Numeral(<<"0">>, base, 0)
<1> DEFINE s == <<"0">>
           v == [n \in 0 .. 1 |-> 0]
<1>1. lookup(0) = "0" /\ lookup(0) \in Glyphs
  BY LookupFacts
<1>2. s \in Seq(Glyphs) /\ Len(s) = 1 /\ s[1] = "0"
  BY <1>1
<1>3. v \in [0 .. 1 -> Nat] /\ v[0] = 0 /\ v[1] = 0
  OBVIOUS
<1>4. 0 \in 0 .. base - 1 /\ 0 = base * 0 + 0
  BY DEF Radixes
<1> HIDE DEF s, v
<1>5. Denotes(v, s, base)
  <2> SUFFICES ASSUME NEW n \in 1 .. 1
               PROVE  s[n] = lookup(0) /\ v[n] = base * v[n - 1] + 0
    BY <1>2, <1>3, <1>4 DEF Denotes
  <2>1. n = 1
    OBVIOUS
  <2> QED
    BY <1>1, <1>2, <1>3, <1>4, <2>1
<1>6. Numeral(s, base, 0)
  BY <1>2, <1>3, <1>5 DEF Numeral
<1> QED
  BY <1>6 DEF s

(* Zeros in front fill a numeral up to a width.                               *)
LEMMA PaddedNumeral ==
    ASSUME NEW base \in Radixes, NEW s, NEW value, Numeral(s, base, value), NEW width \in Nat,
           NEW z, z = [k \in 1 .. width - Len(s) |-> "0"]
    PROVE  z \o s \in Seq(Glyphs) /\ IsNumeral(z \o s, value, base, width)
<1> DEFINE L == Len(s)
           p == IF width > L THEN width - L ELSE 0
<1>1. s \in Seq(Glyphs) /\ L \in Nat /\ L >= 1
  BY LenProperties DEF Numeral
<1>2. PICK v : Denotes(v, s, base) /\ v[L] = value
  BY DEF Numeral
<1>3. lookup(0) = "0" /\ lookup(0) \in Glyphs
  BY LookupFacts
<1>4. p \in Nat /\ 1 .. width - L = 1 .. p
  BY <1>1
<1>5. z = [k \in 1 .. p |-> "0"]
  BY <1>4
<1>6. z \in [1 .. p -> Glyphs]
  BY <1>3, <1>5
<1>7. z \in Seq(Glyphs) /\ Len(z) = p
  <2> HIDE DEF p
  <2> QED
    BY <1>4, <1>6, IsSequence
<1> HIDE DEF L
<1> DEFINE t == z \o s
<1>8. /\ t \in Seq(Glyphs) /\ Len(t) = p + L
      /\ \A k \in 1 .. p + L : t[k] = IF k <= p THEN z[k] ELSE s[k - p]
  <2> HIDE DEF p
  <2>1. /\ z \o s \in Seq(Glyphs)
        /\ Len(z \o s) = Len(z) + Len(s)
        /\ \A k \in 1 .. Len(z) + Len(s) :
              (z \o s)[k] = IF k <= Len(z) THEN z[k] ELSE s[k - Len(z)]
    BY <1>1, <1>7, ConcatProperties
  <2> QED
    BY <1>7, <2>1 DEF L
<1> DEFINE u == [n \in 0 .. p + L |-> IF n <= p THEN 0 ELSE v[n - p]]
<1> HIDE DEF t, p
<1>9. v \in [0 .. L -> Nat] /\ v[0] = 0
  BY <1>2 DEF Denotes, L
<1>10. u \in [0 .. p + L -> Nat] /\ u[0] = 0 /\ u[p + L] = v[L]
  BY <1>1, <1>4, <1>9
<1>11. ASSUME NEW n \in 1 .. p + L
       PROVE  \E d \in 0 .. base - 1 : t[n] = lookup(d) /\ u[n] = base * u[n - 1] + d
  <2>1. CASE n <= p
    <3>1. t[n] = lookup(0)
      BY <1>1, <1>3, <1>4, <1>5, <1>8, <2>1
    <3>2. u[n] = 0 /\ u[n - 1] = 0
      BY <1>1, <1>4, <2>1
    <3>3. 0 = base * 0 + 0 /\ 0 \in 0 .. base - 1
      BY DEF Radixes
    <3> HIDE DEF u
    <3> QED
      BY <3>1, <3>2, <3>3
  <2>2. CASE ~(n <= p)
    <3>1. n - p \in 1 .. L /\ n - 1 - p = n - p - 1 /\ n - p - 1 \in Nat
      BY <1>1, <1>4, <2>2
    <3>2. PICK d \in 0 .. base - 1 : s[n - p] = lookup(d) /\ v[n - p] = base * v[n - p - 1] + d
      BY <1>2, <3>1 DEF Denotes, L
    <3>3. t[n] = s[n - p] /\ u[n] = v[n - p]
      BY <1>1, <1>4, <1>8, <2>2
    <3>4. u[n - 1] = v[n - p - 1]
      <4>1. CASE n - 1 <= p
        <5>1. n - p - 1 = 0 /\ n - 1 \in 0 .. p + L
          BY <1>1, <1>4, <2>2, <4>1
        <5> QED
          BY <1>9, <4>1, <5>1
      <4>2. CASE ~(n - 1 <= p)
        BY <1>1, <1>4, <3>1, <4>2
      <4> QED
        BY <4>1, <4>2
    <3> HIDE DEF u
    <3> QED
      BY <3>2, <3>3, <3>4
  <2> QED
    BY <2>1, <2>2
<1>12. Denotes(u, t, base)
  <2> HIDE DEF u
  <2> QED
    BY <1>8, <1>10, <1>11 DEF Denotes
<1>13. p + L \in Nat
  BY <1>1, <1>4
<1>14. ValueOf(t, base) = value
  <2>1. ValueOf(t, base) = u[Len(t)]
    BY <1>8, <1>12, <1>13, ValueIs
  <2> QED
    BY <1>2, <1>8, <1>10, <2>1
<1>15. \A k \in 1 .. Len(t) : \E d \in 0 .. base - 1 : t[k] = lookup(d)
  BY <1>8, <1>11
<1>16. Len(t) >= width /\ (Len(t) > width => t[1] # "0" \/ Len(t) = 1)
  <2>1. Len(t) >= width
    BY <1>1, <1>8 DEF p
  <2>2. ASSUME Len(t) > width
        PROVE  t[1] # "0" \/ Len(t) = 1
    <3>1. p = 0
      BY <1>1, <1>8, <2>2 DEF p
    <3>2. t[1] = s[1] /\ Len(t) = L
      BY <1>1, <1>8, <3>1
    <3> QED
      BY <3>2 DEF Numeral, L
  <2> QED
    BY <2>1, <2>2
<1>17. IsNumeral(t, value, base, width)
  BY <1>14, <1>15, <1>16 DEF IsNumeral
<1> QED
  BY <1>8, <1>17 DEF t
-----------------------------------------------------------------------------
(* The digits c of a number, least significant first, and what remains of it  *)
(* behind each of them: never zero but at the end.                            *)
Remains(left, c, base, value, rest) ==
    /\ left \in [0 .. Len(c) -> Nat]
    /\ left[0] = value /\ left[Len(c)] = rest
    /\ \A n \in 1 .. Len(c) :
          /\ left[n - 1] > 0
          /\ \E d \in 0 .. base - 1 : c[n] = lookup(d) /\ left[n - 1] = base * left[n] + d

Converted(c, base, value, rest) ==
    /\ c \in Seq(Glyphs)
    /\ \E left : Remains(left, c, base, value, rest)

(* Before the first digit all of the number remains.                          *)
LEMMA ConvertedInit ==
    ASSUME NEW base, NEW value \in Nat
    PROVE  Converted(<<>>, base, value, value)
<1> DEFINE left == [n \in 0 .. 0 |-> value]
<1>1. Len(<<>>) = 0 /\ <<>> \in Seq(Glyphs)
  BY EmptySeq
<1>2. Remains(left, <<>>, base, value, value)
  BY <1>1 DEF Remains
<1> QED
  BY <1>1, <1>2 DEF Converted

(* A turn of the loop of itoa takes the last digit off what remains.          *)
LEMMA ConvertedStep ==
    ASSUME NEW base \in Radixes, NEW c, NEW value, NEW rest \in Nat, rest > 0,
           Converted(c, base, value, rest)
    PROVE  /\ rest \div base \in Nat
           /\ Converted(Append(c, lookup(rest % base)), base, value, rest \div base)
<1> DEFINE L == Len(c)
           q == rest \div base
           d == rest % base
<1>1. c \in Seq(Glyphs) /\ L \in Nat
  BY LenProperties DEF Converted
<1>2. PICK left : Remains(left, c, base, value, rest)
  BY DEF Converted
<1>3. q \in Nat /\ d \in 0 .. base - 1 /\ rest = base * q + d
  <2>1. ASSUME NEW b \in Nat, b > 0
        PROVE  /\ rest \div b \in Nat /\ rest % b \in 0 .. b - 1
               /\ rest = b * (rest \div b) + (rest % b)
    BY <2>1
  <2>2. base \in Nat /\ base > 0
    BY DEF Radixes
  <2> QED
    BY <2>1, <2>2
<1> HIDE DEF q, d
<1>4. d \in 0 .. 15
  BY <1>3 DEF Radixes
<1>5. lookup(d) \in Glyphs
  BY <1>4, LookupFacts
<1> DEFINE s == Append(c, lookup(d))
           h == [n \in 0 .. L + 1 |-> IF n = L + 1 THEN q ELSE left[n]]
<1>6. /\ s \in Seq(Glyphs) /\ Len(s) = L + 1
      /\ \A k \in 1 .. L : s[k] = c[k]
      /\ s[L + 1] = lookup(d)
  BY <1>1, <1>5, AppendProperties
<1> HIDE DEF s
<1>7. /\ left \in [0 .. L -> Nat] /\ left[0] = value /\ left[L] = rest
  BY <1>2 DEF Remains
<1> HIDE DEF L
<1>8. h \in [0 .. L + 1 -> Nat] /\ h[0] = value /\ h[L + 1] = q
  BY <1>1, <1>3, <1>7
<1>9. ASSUME NEW n \in 1 .. L + 1
      PROVE  /\ h[n - 1] > 0
             /\ \E e \in 0 .. base - 1 : s[n] = lookup(e) /\ h[n - 1] = base * h[n] + e
  <2>1. CASE n = L + 1
    <3>1. h[n - 1] = rest /\ h[n] = q /\ s[n] = lookup(d)
      BY <1>1, <1>6, <1>7, <2>1
    <3> HIDE DEF h
    <3> QED
      BY <1>3, <3>1
  <2>2. CASE n # L + 1
    <3>1. n \in 1 .. L /\ h[n - 1] = left[n - 1] /\ h[n] = left[n] /\ s[n] = c[n]
      BY <1>1, <1>6, <2>2
    <3>2. /\ left[n - 1] > 0
          /\ \E e \in 0 .. base - 1 : c[n] = lookup(e) /\ left[n - 1] = base * left[n] + e
      BY <1>2, <3>1 DEF Remains, L
    <3> HIDE DEF h
    <3> QED
      BY <3>1, <3>2
  <2> QED
    BY <2>1, <2>2
<1>10. Remains(h, s, base, value, q)
  <2> HIDE DEF h
  <2> QED
    BY <1>6, <1>8, <1>9 DEF Remains
<1>11. Converted(s, base, value, q)
  BY <1>6, <1>10 DEF Converted
<1> QED
  BY <1>3, <1>11 DEF s, q, d

(* All digits of a number in the opposite order are its numeral.              *)
LEMMA ReversedNumeral ==
    ASSUME NEW base \in Radixes, NEW c, NEW value \in Nat, value > 0,
           Converted(c, base, value, 0),
           NEW s \in Seq(Glyphs), Len(s) = Len(c),
           \A k \in 1 .. Len(c) : s[k] = c[Len(c) + 1 - k]
    PROVE  Numeral(s, base, value)
<1> DEFINE L == Len(c)
<1>1. c \in Seq(Glyphs) /\ L \in Nat
  BY LenProperties DEF Converted
<1>2. PICK left : Remains(left, c, base, value, 0)
  BY DEF Converted
<1>3. /\ left \in [0 .. L -> Nat] /\ left[0] = value /\ left[L] = 0
  BY <1>2 DEF Remains
<1>4. \A n \in 1 .. L :
          /\ left[n - 1] > 0
          /\ \E d \in 0 .. base - 1 : c[n] = lookup(d) /\ left[n - 1] = base * left[n] + d
  BY <1>2 DEF Remains
<1>5. Len(s) = L /\ \A k \in 1 .. L : s[k] = c[L + 1 - k]
  OBVIOUS
<1> HIDE DEF L
<1>6. L >= 1
  BY <1>1, <1>3
<1> DEFINE v == [n \in 0 .. L |-> left[L - n]]
<1>7. v \in [0 .. L -> Nat] /\ v[0] = 0 /\ v[L] = value
  <2>1. \A n \in 0 .. L : L - n \in 0 .. L
    BY <1>1
  <2>2. L - 0 = L /\ L - L = 0 /\ 0 \in 0 .. L /\ L \in 0 .. L
    BY <1>1
  <2> QED
    BY <1>3, <2>1, <2>2
<1>8. ASSUME NEW n \in 1 .. L
      PROVE  \E d \in 0 .. base - 1 : s[n] = lookup(d) /\ v[n] = base * v[n - 1] + d
  <2> DEFINE m == L + 1 - n
  <2>1. m \in 1 .. L /\ L - n = m - 1 /\ L - (n - 1) = m
    BY <1>1
  <2>2. v[n] = left[m - 1] /\ v[n - 1] = left[m] /\ s[n] = c[m]
    <3>1. n \in 0 .. L /\ n - 1 \in 0 .. L
      BY <1>1
    <3> HIDE DEF m
    <3> QED
      BY <1>5, <2>1, <3>1 DEF m
  <2> HIDE DEF m, v
  <2> QED
    BY <1>4, <2>1, <2>2
<1>9. Denotes(v, s, base)
  <2> HIDE DEF v
  <2> QED
    BY <1>5, <1>7, <1>8 DEF Denotes
<1>10. s[1] # "0"
  <2>1. s[1] = c[L] /\ L \in 1 .. L
    <3>1. 1 \in 1 .. L /\ L + 1 - 1 = L
      BY <1>1, <1>6
    <3> QED
      BY <1>5, <3>1
  <2>2. PICK d \in 0 .. base - 1 : c[L] = lookup(d) /\ left[L - 1] = base * left[L] + d
    BY <1>4, <2>1
  <2>3. d # 0 /\ d \in 0 .. 15
    <3>1. left[L - 1] > 0
      BY <1>4, <2>1
    <3>2. base * 0 = 0 /\ d \in 0 .. 15
      BY DEF Radixes
    <3> QED
      BY <1>3, <2>2, <3>1, <3>2
  <2> QED
    BY <2>1, <2>2, <2>3, LookupFacts
<1>11. v[Len(s)] = value
  BY <1>5, <1>7
<1> HIDE DEF v
<1> QED
  BY <1>5, <1>6, <1>9, <1>10, <1>11 DEF Numeral

(* strrev has exchanged the digits outside beg .. end, and no others.         *)
HalfReversed(s, c, from) ==
    /\ s \in Seq(Glyphs) /\ Len(s) = Len(c)
    /\ \A k \in 1 .. Len(c) :
          s[k] = IF k < from \/ k > Len(c) + 1 - from THEN c[Len(c) + 1 - k] ELSE c[k]

(* A turn of strrev exchanges one pair more.                                  *)
LEMMA ReverseStep ==
    ASSUME NEW c \in Seq(Glyphs), NEW s, NEW from \in Nat, from >= 1,
           HalfReversed(s, c, from), from < Len(s) + 1 - from
    PROVE  LET end == Len(s) + 1 - from
           IN  HalfReversed([s EXCEPT ![from] = s[end], ![end] = s[from]], c, from + 1)
<1> DEFINE L == Len(c)
           end == L + 1 - from
           h == [s EXCEPT ![from] = s[end], ![end] = s[from]]
<1>1. L \in Nat /\ Len(s) = L /\ s \in Seq(Glyphs)
  BY LenProperties DEF HalfReversed
<1>2. \A k \in 1 .. L : s[k] = IF k < from \/ k > L + 1 - from THEN c[L + 1 - k] ELSE c[k]
  BY DEF HalfReversed
<1>3. s \in [1 .. L -> Glyphs]
  BY <1>1, LenProperties
<1>4. from \in 1 .. L /\ end \in 1 .. L /\ from < end /\ end = L + 1 - from
  BY <1>1
<1> HIDE DEF L, end
<1>5. s[from] \in Glyphs /\ s[end] \in Glyphs
  BY <1>3, <1>4
<1>6. /\ h \in [1 .. L -> Glyphs]
      /\ \A k \in 1 .. L : h[k] = IF k = end THEN s[from] ELSE IF k = from THEN s[end] ELSE s[k]
  <2> DEFINE r == [s EXCEPT ![from] = s[end]]
  <2>1. r \in [1 .. L -> Glyphs]
    BY <1>3, <1>5
  <2>2. \A k \in 1 .. L : r[k] = IF k = from THEN s[end] ELSE s[k]
    BY <1>3
  <2>3. h = [r EXCEPT ![end] = s[from]]
    OBVIOUS
  <2> HIDE DEF r, h
  <2>4. h \in [1 .. L -> Glyphs]
    BY <1>5, <2>1, <2>3
  <2>5. \A k \in 1 .. L : h[k] = IF k = end THEN s[from] ELSE r[k]
    BY <2>1, <2>3
  <2> QED
    BY <2>2, <2>4, <2>5
<1> HIDE DEF h
<1>7. h \in Seq(Glyphs) /\ Len(h) = L
  BY <1>1, <1>6, IsSequence
<1>8. ASSUME NEW k \in 1 .. L
      PROVE  h[k] = IF k < from + 1 \/ k > L + 1 - (from + 1) THEN c[L + 1 - k] ELSE c[k]
  <2>1. s[from] = c[from] /\ s[end] = c[end]
    <3>1. ~(from < from \/ from > L + 1 - from)
      BY <1>1, <1>4
    <3>2. ~(end < from \/ end > L + 1 - from)
      BY <1>1, <1>4
    <3> QED
      BY <1>2, <1>4, <3>1, <3>2
  <2>2. CASE k = end
    <3>1. L + 1 - k = from
      BY <1>1, <1>4, <2>2
    <3>2. h[k] = c[from]
      BY <1>6, <2>1, <2>2
    <3>3. k > L + 1 - (from + 1)
      BY <1>1, <1>4, <2>2
    <3> QED
      BY <3>1, <3>2, <3>3
  <2>3. CASE k = from
    <3>1. L + 1 - k = end /\ k # end
      BY <1>1, <1>4, <2>3
    <3> QED
      BY <1>1, <1>4, <1>6, <2>1, <2>3, <3>1
  <2>4. CASE k # end /\ k # from
    <3>1. h[k] = s[k]
      BY <1>6, <2>4
    <3>2. k < from + 1 \/ k > L + 1 - (from + 1) <=> k < from \/ k > L + 1 - from
      BY <1>1, <1>4, <2>4
    <3> QED
      BY <1>2, <3>1, <3>2
  <2> QED
    BY <2>2, <2>3, <2>4
<1>9. HalfReversed(h, c, from + 1)
  BY <1>7, <1>8 DEF HalfReversed, L
<1> QED
  BY <1>1, <1>9 DEF h, end

(* When strrev ends, the digits are in the opposite order.                    *)
LEMMA ReverseEnds ==
    ASSUME NEW c \in Seq(Glyphs), NEW s, NEW from \in Nat, from >= 1,
           HalfReversed(s, c, from), ~(from < Len(s) + 1 - from)
    PROVE  \A k \in 1 .. Len(c) : s[k] = c[Len(c) + 1 - k]
<1> DEFINE L == Len(c)
<1>1. L \in Nat /\ Len(s) = L
  BY LenProperties DEF HalfReversed
<1>2. \A k \in 1 .. L : s[k] = IF k < from \/ k > L + 1 - from THEN c[L + 1 - k] ELSE c[k]
  BY DEF HalfReversed
<1> HIDE DEF L
<1>3. ASSUME NEW k \in 1 .. L
      PROVE  s[k] = c[L + 1 - k]
  <2>1. CASE k < from \/ k > L + 1 - from
    BY <1>2, <2>1
  <2>2. CASE ~(k < from \/ k > L + 1 - from)
    <3>1. L + 1 - k = k
      BY <1>1, <2>2
    <3> QED
      BY <1>2, <2>2, <3>1
  <2> QED
    BY <2>1, <2>2
<1> QED
  BY <1>3 DEF L
-----------------------------------------------------------------------------
(* A character of a format that prints a text it stands for expands one       *)
(* character more.                                                            *)
LEMMA ExpandsMore ==
    ASSUME NEW S, NEW t \in Seq(S), NEW p \in Seq(S), NEW n \in Nat, NEW f, NEW args,
           Expands(n, f, args, t),
           StandsFor(p, f[n + 1], Reading(f)[n], args)
    PROVE  Expands(n + 1, f, args, t \o p)
<1> DEFINE L == Len(t)
           M == Len(p)
           w == t \o p
<1>1. L \in Nat /\ M \in Nat
  BY LenProperties
<1>2. PICK cut \in [0 .. n -> 0 .. L] :
          /\ cut[0] = 0 /\ cut[n] = L
          /\ \A k \in 1 .. n :
                /\ cut[k - 1] <= cut[k]
                /\ StandsFor(SubSeq(t, cut[k - 1] + 1, cut[k]), f[k], Reading(f)[k - 1], args)
  BY DEF Expands
<1>3. /\ w \in Seq(S) /\ Len(w) = L + M
      /\ \A k \in 1 .. L + M : w[k] = IF k <= L THEN t[k] ELSE p[k - L]
  BY ConcatProperties
<1> HIDE DEF L, M, w
<1>4. ASSUME NEW a \in Nat, NEW b \in Nat, b <= L
      PROVE  SubSeq(w, a + 1, b) = SubSeq(t, a + 1, b)
  <2>1. \A k \in a + 1 .. b : k \in 1 .. L /\ w[k] = t[k] /\ t[k] \in S
    BY <1>1, <1>3, <1>4, ElementOfSeq DEF L
  <2> DEFINE x == SubSeq(w, a + 1, b)
             y == SubSeq(t, a + 1, b)
  <2>2. /\ x \in Seq(S) /\ Len(x) = IF a + 1 <= b THEN b - (a + 1) + 1 ELSE 0
        /\ \A k \in 1 .. b - (a + 1) + 1 : x[k] = w[a + 1 + k - 1]
    BY <2>1, SubSeqProperties
  <2>3. /\ y \in Seq(S) /\ Len(y) = IF a + 1 <= b THEN b - (a + 1) + 1 ELSE 0
        /\ \A k \in 1 .. b - (a + 1) + 1 : y[k] = t[a + 1 + k - 1]
    BY <2>1, SubSeqProperties
  <2> HIDE DEF x, y
  <2>4. Len(x) = Len(y) /\ \A k \in 1 .. Len(x) : x[k] = y[k]
    <3>1. Len(x) = Len(y)
      BY <2>2, <2>3
    <3>2. ASSUME NEW k \in 1 .. Len(x)
          PROVE  x[k] = y[k]
      <4>1. k \in 1 .. b - (a + 1) + 1 /\ a + 1 + k - 1 \in a + 1 .. b
        BY <2>2
      <4> QED
        BY <2>1, <2>2, <2>3, <4>1
    <3> QED
      BY <3>1, <3>2
  <2>5. x = y
    BY <2>2, <2>3, <2>4, SeqEqual
  <2> QED
    BY <2>5 DEF x, y
<1>5. SubSeq(w, L + 1, L + M) = p
  <2>1. \A k \in L + 1 .. L + M : w[k] = p[k - L] /\ k - L \in 1 .. M /\ p[k - L] \in S
    BY <1>1, <1>3, ElementOfSeq DEF M
  <2> DEFINE x == SubSeq(w, L + 1, L + M)
  <2>2. /\ x \in Seq(S) /\ Len(x) = IF L + 1 <= L + M THEN L + M - (L + 1) + 1 ELSE 0
        /\ \A k \in 1 .. L + M - (L + 1) + 1 : x[k] = w[L + 1 + k - 1]
    BY <1>1, <2>1, SubSeqProperties
  <2> HIDE DEF x
  <2>3. Len(x) = M
    BY <1>1, <2>2
  <2>4. ASSUME NEW k \in 1 .. M
        PROVE  x[k] = p[k]
    <3> DEFINE j == L + 1 + k - 1
    <3>1. k \in 1 .. L + M - (L + 1) + 1 /\ j \in L + 1 .. L + M /\ j - L = k
      BY <1>1
    <3>2. x[k] = w[j]
      BY <2>2, <3>1
    <3> HIDE DEF j
    <3>3. w[j] = p[j - L]
      BY <2>1, <3>1
    <3> QED
      BY <3>1, <3>2, <3>3
  <2>5. x = p
    BY <2>2, <2>3, <2>4, SeqEqual DEF M
  <2> QED
    BY <2>5 DEF x
<1> DEFINE h == [k \in 0 .. n + 1 |-> IF k = n + 1 THEN L + M ELSE cut[k]]
<1>6. \A k \in 0 .. n : cut[k] \in Nat /\ cut[k] <= L
  BY <1>1, <1>2
<1>7. h \in [0 .. n + 1 -> 0 .. L + M] /\ h[0] = 0 /\ h[n + 1] = L + M
  <2>1. \A k \in 0 .. n + 1 : k # n + 1 => k \in 0 .. n
    OBVIOUS
  <2> QED
    BY <1>1, <1>2, <1>6, <2>1
<1>8. ASSUME NEW k \in 1 .. n + 1
      PROVE  /\ h[k - 1] <= h[k]
             /\ StandsFor(SubSeq(w, h[k - 1] + 1, h[k]), f[k], Reading(f)[k - 1], args)
  <2>1. CASE k = n + 1
    <3>1. k - 1 = n /\ h[k - 1] = L /\ h[k] = L + M
      BY <1>2, <2>1
    <3> HIDE DEF h
    <3>2. h[k - 1] <= h[k]
      BY <1>1, <3>1
    <3>3. SubSeq(w, h[k - 1] + 1, h[k]) = p
      BY <1>5, <3>1
    <3>4. StandsFor(p, f[k], Reading(f)[k - 1], args)
      BY <2>1, <3>1
    <3> QED
      BY <3>2, <3>3, <3>4
  <2>2. CASE k # n + 1
    <3>1. k \in 1 .. n /\ k - 1 \in 0 .. n /\ k \in 0 .. n /\ h[k - 1] = cut[k - 1] /\ h[k] = cut[k]
      BY <2>2
    <3> HIDE DEF h
    <3>2. SubSeq(w, cut[k - 1] + 1, cut[k]) = SubSeq(t, cut[k - 1] + 1, cut[k])
      BY <1>4, <1>6, <3>1
    <3> QED
      BY <1>2, <3>1, <3>2
  <2> QED
    BY <2>1, <2>2
<1>9. Expands(n + 1, f, args, w)
  <2> HIDE DEF h
  <2> QED
    BY <1>3, <1>7, <1>8 DEF Expands
<1> QED
  BY <1>9 DEF w

(* Nothing is what no character stands for.                                   *)
LEMMA ExpandsNothing ==
    ASSUME NEW f, NEW args
    PROVE  Expands(0, f, args, <<>>)
<1> DEFINE cut == [k \in 0 .. 0 |-> 0]
<1>1. Len(<<>>) = 0
  OBVIOUS
<1>2. cut \in [0 .. 0 -> 0 .. 0] /\ cut[0] = 0
  OBVIOUS
<1> HIDE DEF cut
<1> QED
  BY <1>1, <1>2 DEF Expands

(* A character that prints nothing expands the same text.                     *)
LEMMA ExpandsSame ==
    ASSUME NEW S, NEW t \in Seq(S), NEW n \in Nat, NEW f, NEW args,
           Expands(n, f, args, t),
           StandsFor(<<>>, f[n + 1], Reading(f)[n], args)
    PROVE  Expands(n + 1, f, args, t)
<1>1. <<>> \in Seq(S) /\ t \o <<>> = t
  BY EmptySeq, ConcatEmptySeq
<1>2. Expands(n + 1, f, args, t \o <<>>)
  BY <1>1, ExpandsMore
<1> QED
  BY <1>1, <1>2
-----------------------------------------------------------------------------
Marked == {"shown", "running"} \X Glyphs

(* The number that is converted.                                              *)
Value == IF IsNegative THEN WordSize - Argument ELSE Argument

NumberInv ==
    phase \in {"itoa", "strrev", "print"} =>
        /\ Char \in {"d", "u", "x"}
        /\ phase = "itoa" =>
              newval \in Nat /\ Value > 0 /\ Converted(conv_buf, radix, Value, newval)
        /\ phase = "strrev" =>
              /\ beg \in Nat /\ beg >= 1 /\ Value > 0
              /\ \E c : Converted(c, radix, Value, 0) /\ HalfReversed(conv_buf, c, beg)
        /\ phase = "print" => Numeral(conv_buf, radix, Value)

(* How the format has been read and what has been printed of it agree.        *)
FormatInv ==
    /\ call \in PrintCalls
    /\ phase \in {"format", "convert", "itoa", "strrev", "print", "done"}
    /\ alternate \in {0, 1}
    /\ buf \in 1 .. Len(call.format) + 1
    /\ phase = "done" => buf = Len(call.format) + 1
    /\ Reading(call.format)[buf - 1] =
          <<IF phase \in {"format", "done"} THEN "text" ELSE IF alternate = 1 THEN "#" ELSE "%", esp>>
    /\ out \in Seq(Marked)
    /\ Expands(buf - 1, call.format, call.args, Text)

PrintInv == call.name = "printf" => FormatInv /\ NumberInv
-----------------------------------------------------------------------------
(* What a call of printf is given.                                            *)
LEMMA PrintCallFacts ==
    ASSUME call \in PrintCalls
    PROVE  call.format \in Formats /\ call.args \in Arguments /\ Len(call.format) \in Nat
BY FormatFacts DEF PrintCalls

(* Inside a conversion there is a character left, and its argument.           *)
LEMMA ConversionFacts ==
    ASSUME FormatInv, phase \notin {"format", "done"}
    PROVE  /\ buf \in 1 .. Len(call.format)
           /\ Reading(call.format)[buf] =
                 IF Char = "#" THEN <<"#", esp>>
                 ELSE <<"text", IF Char \in TakesArgument THEN esp + 1 ELSE esp>>
           /\ esp \in Nat \ {0}
           /\ Char \in TakesArgument =>
                 esp \in 1 .. Len(call.args) /\ Argument \in 0 .. WordSize - 1
<1> DEFINE f == call.format
           args == call.args
           r == Reading(f)
<1>1. f \in Formats /\ args \in Arguments /\ Len(f) \in Nat
  BY PrintCallFacts DEF FormatInv
<1>2. /\ \A k \in 0 .. Len(f) : r[k] \in States /\ r[k][2] <= Len(args) + 1
      /\ \A k \in 1 .. Len(f) : r[k] = Follow(f[k], r[k - 1])
      /\ r[Len(f)][1] = "text"
      /\ args \in Seq(0 .. WordSize - 1) /\ Len(args) \in Nat
  BY <1>1, FormatFacts
<1>3. /\ buf \in 1 .. Len(f) + 1
      /\ r[buf - 1] = <<IF alternate = 1 THEN "#" ELSE "%", esp>>
  BY DEF FormatInv
<1> HIDE DEF f, args, r
<1>4. r[buf - 1][1] # "text" /\ r[buf - 1][2] = esp
  BY <1>3
<1>5. buf \in 1 .. Len(f) /\ buf - 1 \in 0 .. Len(f) /\ buf \in 0 .. Len(f)
  <2>1. buf # Len(f) + 1
    <3>1. SUFFICES ASSUME buf = Len(f) + 1 PROVE FALSE
      OBVIOUS
    <3>2. buf - 1 = Len(f)
      BY <1>1, <3>1
    <3> QED
      BY <1>2, <1>4, <3>2
  <2> QED
    BY <1>1, <1>3, <2>1
<1>6. Char = f[buf] /\ Argument = args[esp]
  BY DEF Char, Argument, f, args
<1>7. r[buf] = Follow(Char, r[buf - 1])
  BY <1>2, <1>5, <1>6
<1>8. r[buf] = IF Char = "#" THEN <<"#", esp>>
               ELSE <<"text", IF Char \in TakesArgument THEN esp + 1 ELSE esp>>
  BY <1>4, <1>7 DEF Follow
<1>9. esp \in Nat \ {0}
  BY <1>2, <1>4, <1>5 DEF States
<1>10. ASSUME Char \in TakesArgument
       PROVE  esp \in 1 .. Len(args) /\ Argument \in 0 .. WordSize - 1
  <2>1. r[buf][2] = esp + 1
    <3>1. Char # "#"
      BY <1>10 DEF TakesArgument
    <3> QED
      BY <1>8, <1>10, <3>1
  <2>2. esp + 1 <= Len(args) + 1
    BY <1>2, <1>5, <2>1
  <2>3. esp \in 1 .. Len(args)
    BY <1>2, <1>9, <2>2
  <2> QED
    BY <1>2, <1>6, <2>3, ElementOfSeq
<1> QED
  BY <1>5, <1>8, <1>9, <1>10 DEF f, args, r

(* What is printed is characters.                                             *)
LEMMA TextFacts ==
    ASSUME out \in Seq(Marked)
    PROVE  Text \in Seq(Glyphs) /\ Len(Text) = Len(out)
<1>1. Len(out) \in Nat /\ \A k \in 1 .. Len(out) : out[k] \in Marked
  BY LenProperties, ElementOfSeq
<1>2. Text \in [1 .. Len(out) -> Glyphs]
  BY <1>1 DEF Text, Marked
<1> QED
  BY <1>1, <1>2, IsSequence

(* Shown and Running print a text behind the others.                          *)
LEMMA PrintingFacts ==
    ASSUME out \in Seq(Marked), NEW p \in Seq(Glyphs), Shown(p) \/ Running(p)
    PROVE  out' \in Seq(Marked) /\ Text' = Text \o p
<1>1. PICK w \in {"shown", "running"} : out' = out \o [k \in 1 .. Len(p) |-> <<w, p[k]>>]
  BY DEF Shown, Running
<1> DEFINE q == [k \in 1 .. Len(p) |-> <<w, p[k]>>]
<1>2. Len(p) \in Nat /\ \A k \in 1 .. Len(p) : p[k] \in Glyphs
  BY LenProperties, ElementOfSeq
<1>3. q \in [1 .. Len(p) -> Marked] /\ \A k \in 1 .. Len(p) : q[k][2] = p[k]
  BY <1>2 DEF Marked
<1> HIDE DEF q
<1>4. q \in Seq(Marked) /\ Len(q) = Len(p)
  BY <1>2, <1>3, IsSequence
<1>5. /\ out' \in Seq(Marked) /\ Len(out') = Len(out) + Len(p)
      /\ \A k \in 1 .. Len(out) + Len(p) : out'[k] = IF k <= Len(out) THEN out[k] ELSE q[k - Len(out)]
  <2>1. /\ out \o q \in Seq(Marked)
        /\ Len(out \o q) = Len(out) + Len(q)
        /\ \A k \in 1 .. Len(out) + Len(q) :
              (out \o q)[k] = IF k <= Len(out) THEN out[k] ELSE q[k - Len(out)]
    BY <1>4, ConcatProperties
  <2> QED
    BY <1>1, <1>4, <2>1 DEF q
<1>6. Text \in Seq(Glyphs) /\ Len(Text) = Len(out) /\ Len(out) \in Nat
      /\ \A k \in 1 .. Len(out) : Text[k] = out[k][2]
  BY TextFacts, LenProperties DEF Text
<1> DEFINE x == Text
           t == x \o p
           u == Text'
<1>7. /\ t \in Seq(Glyphs) /\ Len(t) = Len(out) + Len(p)
      /\ \A k \in 1 .. Len(out) + Len(p) : t[k] = IF k <= Len(out) THEN Text[k] ELSE p[k - Len(out)]
  <2>1. x \in Seq(Glyphs) /\ Len(x) = Len(out) /\ \A k \in 1 .. Len(out) : x[k] = Text[k]
    BY <1>6
  <2> HIDE DEF x
  <2>2. /\ x \o p \in Seq(Glyphs)
        /\ Len(x \o p) = Len(x) + Len(p)
        /\ \A k \in 1 .. Len(x) + Len(p) :
              (x \o p)[k] = IF k <= Len(x) THEN x[k] ELSE p[k - Len(x)]
    BY <2>1, ConcatProperties
  <2>3. ASSUME NEW k \in 1 .. Len(out) + Len(p)
        PROVE  t[k] = IF k <= Len(out) THEN x[k] ELSE p[k - Len(out)]
    BY <2>1, <2>2
  <2> QED
    BY <2>1, <2>2, <2>3 DEF x
<1>8. u = [k \in 1 .. Len(out') |-> out'[k][2]]
  BY DEF Text
<1>9. /\ u \in Seq(Glyphs) /\ Len(u) = Len(out) + Len(p)
      /\ \A k \in 1 .. Len(out) + Len(p) : u[k] = out'[k][2]
  <2>1. u \in [1 .. Len(out') -> Glyphs] /\ Len(out') \in Nat
    <3>1. Len(out') \in Nat /\ \A k \in 1 .. Len(out') : out'[k] \in Marked
      BY <1>5, LenProperties, ElementOfSeq
    <3> QED
      BY <1>8, <3>1 DEF Marked
  <2> HIDE DEF u
  <2> QED
    BY <1>5, <1>8, <2>1, IsSequence
<1> HIDE DEF t, u
<1>10. ASSUME NEW k \in 1 .. Len(out) + Len(p)
       PROVE  u[k] = t[k]
  <2>1. CASE k <= Len(out)
    <3>1. k \in 1 .. Len(out)
      BY <1>6, <2>1
    <3> QED
      BY <1>5, <1>6, <1>7, <1>9, <2>1, <3>1
  <2>2. CASE ~(k <= Len(out))
    <3> DEFINE j == k - Len(out)
    <3>1. j \in 1 .. Len(p)
      BY <1>2, <1>6, <2>2
    <3>2. out'[k] = q[j] /\ t[k] = p[j]
      BY <1>5, <1>7, <2>2
    <3> HIDE DEF j
    <3> QED
      BY <1>3, <1>9, <3>1, <3>2
  <2> QED
    BY <2>1, <2>2
<1>11. u = t
  BY <1>7, <1>9, <1>10, SeqEqual
<1> QED
  BY <1>5, <1>11 DEF t, u, x

(* A character that has been read, and has printed what it stands for.        *)
LEMMA CharacterDone ==
    ASSUME FormatInv, NEW p \in Seq(Glyphs),
           StandsFor(p, Char, Reading(call.format)[buf - 1], call.args),
           Shown(p) \/ Running(p) \/ (p = <<>> /\ out' = out),
           UNCHANGED call, buf' = buf + 1
    PROVE  out' \in Seq(Marked) /\ Expands(buf - 1, call.format, call.args, Text)'
<1>1. /\ out \in Seq(Marked) /\ buf \in Nat /\ buf >= 1
      /\ Expands(buf - 1, call.format, call.args, Text)
      /\ Text \in Seq(Glyphs)
  BY TextFacts DEF FormatInv
<1>2. out' \in Seq(Marked) /\ Text' = Text \o p
  <2>1. CASE Shown(p) \/ Running(p)
    BY <1>1, <2>1, PrintingFacts
  <2>2. CASE p = <<>> /\ out' = out
    <3>1. Text' = Text
      BY <2>2 DEF Text
    <3> QED
      BY <1>1, <2>2, <3>1, ConcatEmptySeq
  <2> QED
    BY <2>1, <2>2
<1> DEFINE n == buf - 1
<1>3. n \in Nat /\ n + 1 = buf /\ buf' - 1 = n + 1 /\ Char = call.format[n + 1]
  BY <1>1 DEF Char
<1>4. Expands(n + 1, call.format, call.args, Text \o p)
  <2> HIDE DEF n
  <2>1. Expands(n, call.format, call.args, Text)
    BY <1>1 DEF n
  <2>2. StandsFor(p, call.format[n + 1], Reading(call.format)[n], call.args)
    BY <1>3 DEF n
  <2> QED
    BY <1>1, <1>3, <2>1, <2>2, ExpandsMore
<1> QED
  BY <1>2, <1>3, <1>4
-----------------------------------------------------------------------------
(* The steps that go to the next character of the format.                     *)
LEMMA NextCharacter ==
    ASSUME FormatInv, buf <= Len(call.format), buf' = buf + 1, UNCHANGED call,
           NEW p \in Seq(Glyphs),
           StandsFor(p, Char, Reading(call.format)[buf - 1], call.args),
           Shown(p) \/ Running(p) \/ (p = <<>> /\ out' = out),
           phase' \in {"format", "convert"}, alternate' \in {0, 1},
           Reading(call.format)[buf] =
              <<IF phase' = "format" THEN "text" ELSE IF alternate' = 1 THEN "#" ELSE "%", esp'>>
    PROVE  FormatInv' /\ NumberInv'
<1>1. out' \in Seq(Marked) /\ Expands(buf - 1, call.format, call.args, Text)'
  BY CharacterDone
<1>2. buf \in 1 .. Len(call.format) + 1 /\ Len(call.format) \in Nat /\ call \in PrintCalls
  BY PrintCallFacts DEF FormatInv
<1>3. buf' \in 1 .. Len(call'.format) + 1 /\ buf' - 1 = buf
  BY <1>2
<1>4. Reading(call'.format)[buf' - 1] =
          <<IF phase' \in {"format", "done"} THEN "text" ELSE IF alternate' = 1 THEN "#" ELSE "%", esp'>>
  <2>1. phase' \in {"format", "done"} <=> phase' = "format"
    OBVIOUS
  <2> QED
    BY <1>3, <2>1
<1>5. FormatInv'
  BY <1>1, <1>2, <1>3, <1>4 DEF FormatInv
<1>6. NumberInv'
  BY DEF NumberInv
<1> QED
  BY <1>5, <1>6

(* The steps within a conversion, which print nothing.                        *)
LEMMA SameCharacter ==
    ASSUME FormatInv, phase \notin {"format", "done"},
           UNCHANGED <<call, buf, esp, alternate, out>>,
           phase' \in {"itoa", "strrev", "print"}
    PROVE  /\ FormatInv'
           /\ Char' = Char /\ Argument' = Argument /\ radix' = radix /\ Value' = Value
           /\ radix \in Radixes
<1>1. Text' = Text
  BY DEF Text
<1>2. phase' \notin {"format", "done"}
  OBVIOUS
<1>3. FormatInv'
  BY <1>1, <1>2 DEF FormatInv
<1>4. Char' = Char /\ Argument' = Argument
  BY DEF Char, Argument
<1>5. radix' = radix /\ Value' = Value
  BY <1>4 DEF radix, Value, IsNegative
<1>6. radix \in Radixes
  BY DEF radix, Radixes
<1> QED
  BY <1>3, <1>4, <1>5, <1>6

(* The number that is converted is one.                                       *)
LEMMA ValueFacts ==
    ASSUME FormatInv, phase \notin {"format", "done"}, Char \in {"d", "u", "x"}
    PROVE  Value \in Nat /\ WordSize \in Nat \ {0} /\ Argument \in 0 .. WordSize - 1
<1>1. WordSize \in Nat \ {0} /\ Argument \in 0 .. WordSize - 1
  BY LibraryAssumption, ConversionFacts DEF TakesArgument
<1> QED
  BY <1>1 DEF Value

(* The digits that a word is made of.                                         *)
LEMMA WordFacts ==
    ASSUME NEW w, w \in 0 .. WordSize - 1
    PROVE  w % 16 \in 0 .. 15 /\ (w \div 16) % 16 \in 0 .. 15
<1>1. w \in Nat
  BY LibraryAssumption
<1> QED
  BY <1>1

(* The loop of printf.                                                        *)
LEMMA CharKeepsPrint ==
    ASSUME FormatInv, PrintfChar
    PROVE  FormatInv' /\ NumberInv'
<1> DEFINE f == call.format
           r == Reading(f)
<1>1. f \in Formats /\ call.args \in Arguments /\ Len(f) \in Nat /\ UNCHANGED call
  BY PrintCallFacts DEF FormatInv, PrintfChar, PrintStep
<1>2. phase = "format" /\ buf \in 1 .. Len(f) /\ buf' = buf + 1 /\ esp' = esp
  BY <1>1 DEF PrintfChar, FormatInv
<1>3. r[buf - 1] = <<"text", esp>>
  BY <1>2 DEF FormatInv
<1>4. r[buf] = Follow(f[buf], r[buf - 1]) /\ Char = f[buf] /\ Char \in Glyphs
  <2>1. f \in Seq(Characters) /\ f[buf] \in Characters
    BY <1>1, <1>2, FormatFacts, ElementOfSeq
  <2> QED
    BY <1>1, <1>2, <2>1, FormatFacts DEF Char, Glyphs
<1> HIDE DEF r
<1>5. r[buf] = <<IF Char = "%" THEN "%" ELSE "text", esp>>
  BY <1>3, <1>4 DEF Follow
<1>6. CASE Char = "%"
  <2>1. phase' = "convert" /\ alternate' = 0 /\ out' = out
    BY <1>6 DEF PrintfChar
  <2>2. StandsFor(<<>>, Char, r[buf - 1], call.args)
    BY <1>3, <1>6 DEF StandsFor
  <2>3. <<>> \in Seq(Glyphs)
    BY EmptySeq
  <2>4. /\ phase' \in {"format", "convert"} /\ alternate' \in {0, 1}
        /\ r[buf] = <<IF phase' = "format" THEN "text" ELSE IF alternate' = 1 THEN "#" ELSE "%", esp'>>
    BY <1>2, <1>5, <1>6, <2>1
  <2>5. buf <= Len(call.format)
    BY <1>1, <1>2
  <2> QED
    BY <1>1, <1>2, <2>1, <2>2, <2>3, <2>4, <2>5, NextCharacter DEF r
<1>7. CASE Char # "%"
  <2>1. phase' = "format" /\ alternate' = alternate /\ Shown(<<Char>>)
    BY <1>2, <1>7 DEF PrintfChar
  <2>2. StandsFor(<<Char>>, Char, r[buf - 1], call.args)
    BY <1>3, <1>7 DEF StandsFor
  <2>3. <<Char>> \in Seq(Glyphs)
    BY <1>4
  <2>4. alternate \in {0, 1}
    BY DEF FormatInv
  <2> DEFINE p == <<Char>>
  <2>5. Shown(p) /\ p \in Seq(Glyphs) /\ StandsFor(p, Char, r[buf - 1], call.args)
    BY <2>1, <2>2, <2>3
  <2>6. /\ phase' \in {"format", "convert"} /\ alternate' \in {0, 1}
        /\ r[buf] = <<IF phase' = "format" THEN "text" ELSE IF alternate' = 1 THEN "#" ELSE "%", esp'>>
    BY <1>2, <1>5, <1>7, <2>1, <2>4
  <2> HIDE DEF p
  <2>7. buf <= Len(call.format)
    BY <1>1, <1>2
  <2> QED
    BY <1>1, <1>2, <2>5, <2>6, <2>7, NextCharacter DEF r
<1> QED
  BY <1>6, <1>7

(* format_char_switch.                                                        *)
LEMMA ConvertKeepsPrint ==
    ASSUME FormatInv, PrintfConvert
    PROVE  FormatInv' /\ NumberInv'
<1> DEFINE r == Reading(call.format)
           v == call.args[r[buf - 1][2]]
<1>1. /\ phase = "convert" /\ Char \notin {"d", "u", "x"}
      /\ buf' = buf + 1 /\ UNCHANGED call
  BY DEF PrintfConvert, PrintStep
<1>2. /\ buf \in 1 .. Len(call.format)
      /\ r[buf] = IF Char = "#" THEN <<"#", esp>>
                  ELSE <<"text", IF Char \in TakesArgument THEN esp + 1 ELSE esp>>
      /\ Char \in TakesArgument => Argument \in 0 .. WordSize - 1
  BY <1>1, ConversionFacts
<1>3. /\ r[buf - 1] = <<IF alternate = 1 THEN "#" ELSE "%", esp>>
      /\ alternate \in {0, 1}
  BY <1>1 DEF FormatInv
<1> HIDE DEF r
<1>4. r[buf - 1][1] # "text" /\ v = Argument
  BY <1>3 DEF Argument
<1>5. buf <= Len(call.format)
  <2>1. Len(call.format) \in Nat
    BY PrintCallFacts DEF FormatInv
  <2> QED
    BY <1>2, <2>1
<1>6. <<>> \in Seq(Glyphs)
  BY EmptySeq
<1> HIDE DEF v
<1>7. CASE Char = "#"
  <2>1. alternate' = 1 /\ phase' = "convert" /\ esp' = esp /\ out' = out
    BY <1>1, <1>7 DEF PrintfConvert
  <2>2. StandsFor(<<>>, Char, r[buf - 1], call.args)
    BY <1>4, <1>7 DEF StandsFor
  <2>3. r[buf] = <<"#", esp>>
    BY <1>2, <1>7
  <2> QED
    BY <1>1, <1>5, <1>6, <2>1, <2>2, <2>3, NextCharacter DEF r
<1>8. CASE Char # "#"
  <2>1. /\ phase' = "format" /\ alternate' = alternate
        /\ \/ Char = "%" /\ Shown(<<"%">>) /\ esp' = esp
           \/ Char = "c" /\ Shown(<<CharOf(Argument)>>) /\ esp' = esp + 1
           \/ Char = "s" /\ Shown(StringOf(Argument)) /\ esp' = esp + 1
           \/ Char \notin {"%", "c", "s"} /\ esp' = esp /\ out' = out
    BY <1>8 DEF PrintfConvert
  <2>2. r[buf] = <<"text", esp'>>
    BY <1>1, <1>2, <1>8, <2>1 DEF TakesArgument
  <2>3. PICK p \in Seq(Glyphs) :
            /\ Shown(p) \/ (p = <<>> /\ out' = out)
            /\ StandsFor(p, Char, r[buf - 1], call.args)
    <3>1. CASE Char = "%"
      <4>1. Shown(<<"%">>)
        BY <2>1, <3>1
      <4>2. <<"%">> \in Seq(Glyphs)
        BY DEF Glyphs
      <4>3. StandsFor(<<"%">>, Char, r[buf - 1], call.args)
        BY <1>4, <3>1 DEF StandsFor
      <4> QED
        BY <4>1, <4>2, <4>3
    <3>2. CASE Char = "c"
      <4>1. Shown(<<CharOf(Argument)>>)
        BY <2>1, <3>2
      <4>2. Argument % 16 \in 0 .. 15
        BY <1>2, <3>2, WordFacts DEF TakesArgument
      <4>3. CharOf(Argument) \in Glyphs
        BY <4>2, LookupFacts DEF CharOf
      <4>4. StandsFor(<<CharOf(Argument)>>, Char, r[buf - 1], call.args)
        BY <1>4, <3>2 DEF StandsFor, v
      <4> DEFINE p == <<CharOf(Argument)>>
      <4>5. Shown(p) /\ p \in Seq(Glyphs) /\ StandsFor(p, Char, r[buf - 1], call.args)
        BY <4>1, <4>3, <4>4
      <4> HIDE DEF p
      <4> QED
        BY <4>5
    <3>3. CASE Char = "s"
      <4>1. Shown(StringOf(Argument))
        BY <2>1, <3>3
      <4>2. Argument % 16 \in 0 .. 15 /\ (Argument \div 16) % 16 \in 0 .. 15
        BY <1>2, <3>3, WordFacts DEF TakesArgument
      <4>3. StringOf(Argument) \in Seq(Glyphs)
        <5>1. lookup(Argument % 16) \in Glyphs /\ lookup((Argument \div 16) % 16) \in Glyphs
          BY <4>2, LookupFacts
        <5> QED
          BY <5>1 DEF StringOf
      <4>4. StandsFor(StringOf(Argument), Char, r[buf - 1], call.args)
        BY <1>4, <3>3 DEF StandsFor, v
      <4> DEFINE p == StringOf(Argument)
      <4>5. Shown(p) /\ p \in Seq(Glyphs) /\ StandsFor(p, Char, r[buf - 1], call.args)
        BY <4>1, <4>3, <4>4
      <4> HIDE DEF p
      <4> QED
        BY <4>5
    <3>4. CASE Char \notin {"%", "c", "s"}
      <4>1. out' = out
        BY <2>1, <3>4
      <4>2. StandsFor(<<>>, Char, r[buf - 1], call.args)
        BY <1>1, <1>4, <3>4 DEF StandsFor
      <4> QED
        BY <1>6, <4>1, <4>2
    <3> QED
      BY <3>1, <3>2, <3>3, <3>4
  <2> QED
    BY <1>1, <1>3, <1>5, <2>1, <2>2, <2>3, NextCharacter DEF r
<1> QED
  BY <1>7, <1>8

(* The call of itoa.                                                          *)
LEMMA NumberKeepsPrint ==
    ASSUME FormatInv, PrintfNumber
    PROVE  FormatInv' /\ NumberInv'
<1>1. /\ phase = "convert" /\ Char \in {"d", "u", "x"}
      /\ newval' = Value
      /\ conv_buf' = (IF Value = 0 THEN <<"0">> ELSE <<>>)
      /\ phase' = IF Value = 0 THEN "print" ELSE "itoa"
      /\ UNCHANGED <<call, buf, esp, alternate, out>>
  BY DEF PrintfNumber, PrintStep, Value
<1>2. Value \in Nat
  BY <1>1, ValueFacts
<1>3. /\ FormatInv'
      /\ Char' = Char /\ radix' = radix /\ Value' = Value
      /\ radix \in Radixes
  BY <1>1, SameCharacter
<1>4. CASE Value = 0
  <2>1. phase' = "print" /\ conv_buf' = <<"0">>
    BY <1>1, <1>4
  <2>2. Numeral(<<"0">>, radix, 0)
    BY <1>3, ZeroNumeral
  <2>3. Numeral(conv_buf', radix', Value')
    BY <1>3, <1>4, <2>1, <2>2
  <2> QED
    BY <1>1, <1>3, <2>1, <2>3 DEF NumberInv
<1>5. CASE Value # 0
  <2>1. phase' = "itoa" /\ conv_buf' = <<>> /\ newval' = Value /\ Value > 0
    BY <1>1, <1>2, <1>5
  <2>2. Converted(<<>>, radix, Value, Value)
    BY <1>2, ConvertedInit
  <2>3. newval' \in Nat /\ Value' > 0 /\ Converted(conv_buf', radix', Value', newval')
    BY <1>2, <1>3, <2>1, <2>2
  <2> QED
    BY <1>1, <1>3, <2>1, <2>3 DEF NumberInv
<1> QED
  BY <1>4, <1>5

(* A turn of the loop of itoa, or its end.                                    *)
LEMMA ItoaKeepsPrint ==
    ASSUME FormatInv, NumberInv, itoa
    PROVE  FormatInv' /\ NumberInv'
<1>1. /\ phase = "itoa" /\ UNCHANGED <<call, buf, esp, alternate, out>>
      /\ phase' \in {"itoa", "strrev", "print"}
  BY DEF itoa, PrintStep
<1>2. /\ Char \in {"d", "u", "x"}
      /\ newval \in Nat /\ Value > 0 /\ Converted(conv_buf, radix, Value, newval)
  BY <1>1 DEF NumberInv
<1>3. /\ FormatInv'
      /\ Char' = Char /\ radix' = radix /\ Value' = Value
      /\ radix \in Radixes
  BY <1>1, SameCharacter
<1>4. CASE newval > 0
  <2>1. /\ conv_buf' = Append(conv_buf, lookup(newval % radix))
        /\ newval' = newval \div radix /\ phase' = "itoa"
    BY <1>1, <1>4 DEF itoa
  <2>2. /\ newval \div radix \in Nat
        /\ Converted(Append(conv_buf, lookup(newval % radix)), radix, Value, newval \div radix)
    BY <1>2, <1>3, <1>4, ConvertedStep
  <2>3. newval' \in Nat /\ Value' > 0 /\ Converted(conv_buf', radix', Value', newval')
    BY <1>2, <1>3, <2>1, <2>2
  <2> QED
    BY <1>2, <1>3, <2>1, <2>3 DEF NumberInv
<1>5. CASE ~(newval > 0)
  <2>1. phase' = "strrev" /\ beg' = 1 /\ conv_buf' = conv_buf
    BY <1>5 DEF itoa
  <2>2. newval = 0
    BY <1>2, <1>5
  <2>3. Converted(conv_buf, radix, Value, 0) /\ conv_buf \in Seq(Glyphs)
    BY <1>2, <2>2 DEF Converted
  <2>4. HalfReversed(conv_buf, conv_buf, 1)
    <3>1. \A k \in 1 .. Len(conv_buf) : ~(k < 1 \/ k > Len(conv_buf) + 1 - 1)
      BY <2>3, LenProperties
    <3> QED
      BY <2>3, <3>1 DEF HalfReversed
  <2>5. Converted(conv_buf, radix', Value', 0) /\ HalfReversed(conv_buf', conv_buf, beg')
    BY <1>3, <2>1, <2>3, <2>4
  <2>6. beg' \in Nat /\ beg' >= 1 /\ Value' > 0
    BY <1>2, <1>3, <2>1
  <2> QED
    BY <1>2, <1>3, <2>1, <2>5, <2>6 DEF NumberInv
<1> QED
  BY <1>4, <1>5

(* A turn of the loop of strrev, or its end.                                  *)
LEMMA StrrevKeepsPrint ==
    ASSUME FormatInv, NumberInv, strrev
    PROVE  FormatInv' /\ NumberInv'
<1>1. /\ phase = "strrev" /\ UNCHANGED <<call, buf, esp, alternate, out>>
      /\ phase' \in {"itoa", "strrev", "print"}
  BY DEF strrev, PrintStep
<1>2. /\ Char \in {"d", "u", "x"}
      /\ beg \in Nat /\ beg >= 1 /\ Value > 0
  BY <1>1 DEF NumberInv
<1>3. PICK c : Converted(c, radix, Value, 0) /\ HalfReversed(conv_buf, c, beg)
  BY <1>1 DEF NumberInv
<1>4. /\ FormatInv'
      /\ Char' = Char /\ radix' = radix /\ Value' = Value
      /\ radix \in Radixes
  BY <1>1, SameCharacter
<1>5. c \in Seq(Glyphs)
  BY <1>3 DEF Converted
<1>6. CASE beg < Len(conv_buf) + 1 - beg
  <2> DEFINE end == Len(conv_buf) + 1 - beg
             h == [conv_buf EXCEPT ![beg] = conv_buf[end], ![end] = conv_buf[beg]]
  <2>1. conv_buf' = h /\ beg' = beg + 1 /\ phase' = "strrev"
    BY <1>1, <1>6 DEF strrev
  <2>2. HalfReversed(h, c, beg + 1)
    BY <1>2, <1>3, <1>5, <1>6, ReverseStep
  <2> HIDE DEF h
  <2>3. Converted(c, radix', Value', 0) /\ HalfReversed(conv_buf', c, beg')
    BY <1>3, <1>4, <2>1, <2>2
  <2>4. beg' \in Nat /\ beg' >= 1 /\ Value' > 0
    BY <1>2, <1>4, <2>1
  <2> QED
    BY <1>2, <1>4, <2>1, <2>3, <2>4 DEF NumberInv
<1>7. CASE ~(beg < Len(conv_buf) + 1 - beg)
  <2>1. phase' = "print" /\ conv_buf' = conv_buf
    BY <1>7 DEF strrev
  <2>2. \A k \in 1 .. Len(c) : conv_buf[k] = c[Len(c) + 1 - k]
    BY <1>2, <1>3, <1>5, <1>7, ReverseEnds
  <2>3. conv_buf \in Seq(Glyphs) /\ Len(conv_buf) = Len(c)
    BY <1>3 DEF HalfReversed
  <2>4. Value \in Nat
    BY <1>1, <1>2, ValueFacts
  <2>5. Numeral(conv_buf, radix, Value)
    BY <1>2, <1>3, <1>4, <2>2, <2>3, <2>4, ReversedNumeral
  <2>6. Numeral(conv_buf', radix', Value')
    BY <1>4, <2>1, <2>5
  <2> QED
    BY <1>2, <1>4, <2>1, <2>6 DEF NumberInv
<1> QED
  BY <1>6, <1>7

(* A sign in front of digits.                                                 *)
LEMMA SignedFacts ==
    ASSUME NEW s \in Seq(Glyphs)
    PROVE  LET t == <<"-">> \o s
           IN  t \in Seq(Glyphs) /\ t # <<>> /\ t[1] = "-" /\ SubSeq(t, 2, Len(t)) = s
<1> DEFINE m == <<"-">>
           t == m \o s
           x == SubSeq(t, 2, Len(t))
           L == Len(s)
<1>1. m \in Seq(Glyphs) /\ Len(m) = 1 /\ m[1] = "-" /\ L \in Nat
  BY LenProperties DEF Glyphs
<1> HIDE DEF m
<1>2. /\ t \in Seq(Glyphs) /\ Len(t) = 1 + L
      /\ \A k \in 1 .. 1 + L : t[k] = IF k <= 1 THEN m[k] ELSE s[k - 1]
  <2>1. /\ m \o s \in Seq(Glyphs)
        /\ Len(m \o s) = Len(m) + Len(s)
        /\ \A k \in 1 .. Len(m) + Len(s) :
              (m \o s)[k] = IF k <= Len(m) THEN m[k] ELSE s[k - Len(m)]
    BY <1>1, ConcatProperties
  <2> QED
    BY <1>1, <2>1
<1> HIDE DEF L, t
<1>3. t[1] = "-"
  BY <1>1, <1>2
<1>4. \A k \in 2 .. 1 + L : t[k] \in Glyphs /\ t[k] = s[k - 1]
  BY <1>1, <1>2, ElementOfSeq
<1>5. /\ x \in Seq(Glyphs) /\ Len(x) = IF 2 <= 1 + L THEN 1 + L - 2 + 1 ELSE 0
      /\ \A k \in 1 .. 1 + L - 2 + 1 : x[k] = t[2 + k - 1]
  <2>1. /\ SubSeq(t, 2, 1 + L) \in Seq(Glyphs)
        /\ Len(SubSeq(t, 2, 1 + L)) = IF 2 <= 1 + L THEN 1 + L - 2 + 1 ELSE 0
        /\ \A k \in 1 .. 1 + L - 2 + 1 : SubSeq(t, 2, 1 + L)[k] = t[2 + k - 1]
    BY <1>1, <1>4, SubSeqProperties
  <2> QED
    BY <1>2, <2>1
<1> HIDE DEF x
<1>6. Len(x) = L
  BY <1>1, <1>5
<1>7. ASSUME NEW k \in 1 .. L
      PROVE  x[k] = s[k]
  <2> DEFINE j == 2 + k - 1
  <2>1. k \in 1 .. 1 + L - 2 + 1 /\ j \in 2 .. 1 + L /\ j - 1 = k
    BY <1>1
  <2>2. x[k] = t[j]
    BY <1>5, <2>1
  <2> HIDE DEF j
  <2> QED
    BY <1>4, <2>1, <2>2
<1>8. x = s
  BY <1>5, <1>6, <1>7, SeqEqual DEF L
<1>9. t # <<>>
  <2>1. Len(<<>>) = 0 /\ 1 + L # 0
    BY <1>1
  <2> QED
    BY <1>2, <2>1
<1> QED
  BY <1>2, <1>3, <1>8, <1>9 DEF t, x, m

(* The number is printed.                                                     *)
LEMMA PrintKeepsPrint ==
    ASSUME FormatInv, NumberInv, PrintfPrint
    PROVE  FormatInv' /\ NumberInv'
<1> DEFINE r == Reading(call.format)
           v == call.args[r[buf - 1][2]]
<1>1. /\ phase = "print" /\ phase' = "format" /\ UNCHANGED <<call, alternate>>
      /\ buf' = buf + 1 /\ esp' = esp + 1
  BY DEF PrintfPrint, PrintStep
<1>2. Char \in {"d", "u", "x"} /\ Numeral(conv_buf, radix, Value)
  BY <1>1 DEF NumberInv
<1>3. /\ buf \in 1 .. Len(call.format)
      /\ r[buf] = <<"text", esp'>>
  BY <1>1, <1>2, ConversionFacts DEF TakesArgument
<1>4. /\ Value \in Nat /\ WordSize \in Nat \ {0} /\ Argument \in 0 .. WordSize - 1
      /\ radix \in Radixes /\ conv_buf \in Seq(Glyphs)
  BY <1>1, <1>2, ValueFacts DEF radix, Radixes, Numeral
<1>5. /\ r[buf - 1] = <<IF alternate = 1 THEN "#" ELSE "%", esp>>
      /\ alternate \in {0, 1}
  BY <1>1 DEF FormatInv
<1> HIDE DEF r
<1>6. /\ r[buf - 1][1] # "text"
      /\ r[buf - 1][1] = "#" <=> alternate = 1
      /\ v = Argument
  BY <1>5 DEF Argument
<1> HIDE DEF v
<1>7. PICK p \in Seq(Glyphs) :
          /\ Shown(p) \/ Running(p)
          /\ StandsFor(p, Char, r[buf - 1], call.args)
  <2>1. CASE Char = "x"
    <3> DEFINE p == Padding \o conv_buf
    <3>1. Shown(p)
      BY <2>1 DEF PrintfPrint
    <3>2. radix = 16 /\ Value = Argument
      BY <2>1 DEF radix, Value, IsNegative
    <3>3. p \in Seq(Glyphs) /\ IsNumeral(p, v, 16, IF r[buf - 1][1] = "#" THEN HEX_DIGITS ELSE 1)
      <4>1. CASE alternate = 1
        <5>1. Padding = [k \in 1 .. HEX_DIGITS - Len(conv_buf) |-> "0"]
          BY <4>1 DEF Padding
        <5>2. p \in Seq(Glyphs) /\ IsNumeral(p, Value, radix, HEX_DIGITS)
          BY <1>2, <1>4, <5>1, PaddedNumeral, LibraryAssumption
        <5> HIDE DEF p
        <5> QED
          BY <1>6, <3>2, <4>1, <5>2
      <4>2. CASE alternate # 1
        <5>1. Padding = <<>>
          BY <4>2 DEF Padding
        <5>2. p = conv_buf
          BY <1>4, <5>1, ConcatEmptySeq
        <5>3. IsNumeral(conv_buf, Value, radix, 1)
          BY <1>2, <1>4, NumeralIs
        <5> HIDE DEF p
        <5> QED
          BY <1>4, <1>6, <3>2, <4>2, <5>2, <5>3
      <4> QED
        BY <4>1, <4>2
    <3> HIDE DEF p
    <3>4. StandsFor(p, Char, r[buf - 1], call.args)
      BY <1>6, <2>1, <3>3 DEF StandsFor, v
    <3> QED
      BY <3>1, <3>3, <3>4
  <2>2. CASE Char # "x"
    <3> DEFINE p == IF IsNegative THEN <<"-">> \o conv_buf ELSE conv_buf
    <3>1. Running(p)
      BY <2>2 DEF PrintfPrint
    <3>2. radix = 10
      BY <2>2 DEF radix
    <3>3. IsNumeral(conv_buf, Value, 10, 1)
      BY <1>2, <1>4, <3>2, NumeralIs
    <3>4. p \in Seq(Glyphs) /\ StandsFor(p, Char, r[buf - 1], call.args)
      <4>1. CASE IsNegative
        <5>1. Char = "d" /\ ~(v < WordSize \div 2) /\ Value = WordSize - v
          <6>1. WordSize \div 2 \in Nat
            BY <1>4
          <6> QED
            BY <1>4, <1>6, <4>1, <6>1 DEF IsNegative, Value
        <5> DEFINE t == <<"-">> \o conv_buf
        <5>2. t \in Seq(Glyphs) /\ t # <<>> /\ t[1] = "-" /\ SubSeq(t, 2, Len(t)) = conv_buf
          BY <1>4, SignedFacts
        <5>3. p = t
          BY <4>1
        <5> HIDE DEF p, t
        <5>4. StandsFor(t, Char, r[buf - 1], call.args)
          BY <1>6, <3>3, <5>1, <5>2 DEF StandsFor, v
        <5> QED
          BY <5>2, <5>3, <5>4
      <4>2. CASE ~IsNegative
        <5>1. Value = v /\ (Char = "d" => v < WordSize \div 2) /\ p = conv_buf
          <6>1. WordSize \div 2 \in Nat
            BY <1>4
          <6> QED
            BY <1>4, <1>6, <4>2, <6>1 DEF IsNegative, Value
        <5> HIDE DEF p
        <5>2. StandsFor(conv_buf, Char, r[buf - 1], call.args)
          BY <1>2, <1>6, <2>2, <3>3, <5>1 DEF StandsFor, v
        <5> QED
          BY <1>4, <5>1, <5>2
      <4> QED
        BY <4>1, <4>2
    <3> HIDE DEF p
    <3> QED
      BY <3>1, <3>4
  <2> QED
    BY <2>1, <2>2
<1>8. buf <= Len(call.format)
  <2>1. Len(call.format) \in Nat
    BY PrintCallFacts DEF FormatInv
  <2> QED
    BY <1>3, <2>1
<1> QED
  BY <1>1, <1>3, <1>5, <1>7, <1>8, NextCharacter DEF r
-----------------------------------------------------------------------------
(* A call of printf, which has printed nothing yet.                           *)
LEMMA PrintInit == Init => PrintInv
<1> SUFFICES ASSUME Init, call.name = "printf"
             PROVE  FormatInv /\ NumberInv
  BY DEF PrintInv
<1>1. call \in PrintCalls
  BY DEF Init, MemoryCalls
<1>2. call.format \in Formats /\ call.args \in Arguments /\ Len(call.format) \in Nat
  BY <1>1, PrintCallFacts
<1>3. /\ phase = "format" /\ alternate = 0 /\ buf = 1 /\ esp = 1 /\ out = <<>>
  BY DEF Init
<1>4. Reading(call.format)[buf - 1] = <<"text", esp>>
  <2>1. buf - 1 = 0
    BY <1>3
  <2> QED
    BY <1>2, <1>3, <2>1, FormatFacts
<1>5. out \in Seq(Marked) /\ Text = <<>>
  <2>1. <<>> \in Seq(Marked) /\ Len(<<>>) = 0
    BY EmptySeq
  <2>2. Len(out) = 0
    BY <1>3, <2>1
  <2>3. 1 .. 0 = {}
    OBVIOUS
  <2> QED
    BY <1>3, <2>1, <2>2, <2>3 DEF Text
<1>6. Expands(buf - 1, call.format, call.args, Text)
  <2>1. buf - 1 = 0
    BY <1>3
  <2> QED
    BY <1>5, <2>1, ExpandsNothing
<1>7. FormatInv
  BY <1>1, <1>2, <1>3, <1>4, <1>5, <1>6 DEF FormatInv
<1> QED
  BY <1>3, <1>7 DEF NumberInv

(* Every step keeps what has been printed true to the format.                 *)
LEMMA PrintStepKeeps == PrintInv /\ [Next]_vars => PrintInv'
<1> SUFFICES ASSUME PrintInv, [Next]_vars, call'.name = "printf"
             PROVE  FormatInv' /\ NumberInv'
  BY DEF PrintInv
<1>1. CASE UNCHANGED vars
  <2>1. UNCHANGED <<call, phase, buf, esp, alternate, conv_buf, newval, beg, out>>
    BY <1>1 DEF vars, printing
  <2>2. FormatInv /\ NumberInv
    BY <2>1 DEF PrintInv
  <2>3. Text' = Text /\ Char' = Char /\ radix' = radix /\ Value' = Value
    BY <2>1 DEF Text, Char, radix, Value, Argument, IsNegative
  <2>4. FormatInv'
    BY <2>1, <2>2, <2>3 DEF FormatInv
  <2>5. NumberInv'
    BY <2>1, <2>2, <2>3 DEF NumberInv
  <2> QED
    BY <2>4, <2>5
<1>2. CASE Next
  <2>1. call' = call
    BY <1>2, CallStays
  <2>2. FormatInv /\ NumberInv
    BY <2>1 DEF PrintInv
  <2>3. CASE TopByte \/ Aligned \/ MoveWord \/ BottomByte \/ MoveByte \/ MemoryDone
    BY <2>2, <2>3 DEF FormatInv, TopByte, Aligned, MoveWord, BottomByte, MoveByte, MemoryDone
  <2>4. CASE PrintfChar
    BY <2>2, <2>4, CharKeepsPrint
  <2>5. CASE PrintfConvert
    BY <2>2, <2>5, ConvertKeepsPrint
  <2>6. CASE PrintfNumber
    BY <2>2, <2>6, NumberKeepsPrint
  <2>7. CASE itoa
    BY <2>2, <2>7, ItoaKeepsPrint
  <2>8. CASE strrev
    BY <2>2, <2>8, StrrevKeepsPrint
  <2>9. CASE PrintfPrint
    BY <2>2, <2>9, PrintKeepsPrint
  <2>10. CASE PrintfDone
    <3>1. /\ phase = "format" /\ phase' = "done" /\ buf > Len(call.format)
          /\ UNCHANGED <<call, buf, esp, alternate, out>>
      BY <2>10 DEF PrintfDone, PrintStep, printing
    <3>2. Text' = Text
      BY <3>1 DEF Text
    <3>3. buf = Len(call.format) + 1
      <4>1. Len(call.format) \in Nat /\ buf \in 1 .. Len(call.format) + 1
        BY <2>2, PrintCallFacts DEF FormatInv
      <4> QED
        BY <3>1, <4>1
    <3>4. FormatInv'
      BY <2>2, <3>1, <3>2, <3>3 DEF FormatInv
    <3>5. NumberInv'
      BY <3>1 DEF NumberInv
    <3> QED
      BY <3>4, <3>5
  <2> QED
    BY <1>2, <2>3, <2>4, <2>5, <2>6, <2>7, <2>8, <2>9, <2>10 DEF Next
<1> QED
  BY <1>1, <1>2

(* printf prints what its format and its arguments ask for, whatever the      *)
(* format, the arguments and the width of a word.                             *)
THEOREM PrintfPrintsFormats == Spec => []PrintfPrints
<1>1. PrintInv => PrintfPrints
  <2> SUFFICES ASSUME PrintInv, call.name = "printf", phase = "done"
               PROVE  Expands(Len(call.format), call.format, call.args, Text)
    BY DEF PrintfPrints
  <2>1. FormatInv
    BY DEF PrintInv
  <2>2. buf = Len(call.format) + 1 /\ Expands(buf - 1, call.format, call.args, Text)
    BY <2>1 DEF FormatInv
  <2>3. Len(call.format) \in Nat
    BY <2>1, PrintCallFacts DEF FormatInv
  <2>4. buf - 1 = Len(call.format)
    BY <2>2, <2>3
  <2> QED
    BY <2>2, <2>4
<1> QED
  BY <1>1, PrintInit, PrintStepKeeps, PTL DEF Spec
=============================================================================
