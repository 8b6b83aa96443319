------------------------------ MODULE Library ------------------------------
(* The memory and number routines of lib.c: memset, memcpy and memmove, which *)
(* go byte by byte up to an aligned address and then four bytes at a time, and*)
(* printf with itoa and strrev.  One call runs at a time, one turn of a loop  *)
(* is one step.  Registers and pointers have the names of the code.           *)
EXTENDS Integers, Sequences

CONSTANTS Size,        (* bound: bytes of memory                              *)
          WORD,        (* bytes of a double word: 4                           *)
          FILL,        (* the byte memset writes                              *)
          HEX_DIGITS,  (* 8: a number has 4 bits for each                     *)
          Characters,  (* bound: what formats are made of                     *)
          Formats,     (* bound: format strings, well formed                  *)
          Arguments    (* bound: the words behind the format on the stack     *)

Address  == 0 .. Size - 1
WordSize == 16 ^ HEX_DIGITS

(* How a character c of a format is read, and what it leaves for the next:    *)
(* whether that stands for itself ("text"), is behind a '%' or behind a '#',  *)
(* and which argument comes next.                                             *)
TakesArgument == {"d", "u", "x", "c", "s"}

Follow(c, r) ==
    IF r[1] = "text" THEN <<IF c = "%" THEN "%" ELSE "text", r[2]>>
    ELSE IF c = "#" THEN <<"#", r[2]>>
    ELSE <<"text", IF c \in TakesArgument THEN r[2] + 1 ELSE r[2]>>

(* What each number of characters of a format leaves.                         *)
Reading(f) ==
    LET r[k \in 0 .. Len(f)] == IF k = 0 THEN <<"text", 1>> ELSE Follow(f[k], r[k - 1])
    IN  r

(* A format does not end inside a conversion.                                 *)
WellFormed(f) == Reading(f)[Len(f)][1] = "text"

(* A caller of printf passes an argument for every conversion that takes one. *)
ASSUME LibraryAssumption ==
    /\ Size \in Nat /\ WORD \in Nat \ {0} /\ FILL \notin Address
    /\ HEX_DIGITS \in Nat /\ WordSize \in Nat \ {0}
    /\ \A f \in Formats : f \in Seq(Characters) /\ WellFormed(f)
    /\ \A a \in Arguments : a \in Seq(0 .. WordSize - 1)
    /\ \A f \in Formats, a \in Arguments : Reading(f)[Len(f)][2] <= Len(a) + 1

VARIABLES
    call,                (* the arguments of the call, and its name           *)
    phase,               (* the loop it is in                                 *)
    mem,                 (* memory; at first every byte is its own address    *)
    edi, esi, ecx, edx,
    buf, esp,            (* printf: places in the format and of its arguments *)
    alternate,
    conv_buf,            (* digits, least significant first until strrev      *)
    newval, beg,         (* locals of itoa and strrev                         *)
    out                  (* characters printed, and where: on the terminal    *)
                         (* that is shown or on the one that runs             *)

registers == <<edi, esi, ecx, edx>>
printing  == <<buf, esp, alternate, conv_buf, newval, beg, out>>
vars      == <<call, phase, mem, registers, printing>>

MemoryCalls ==
    {c \in [name : {"memset", "memcpy", "memmove"}, dest : Address, src : Address, n : 0 .. Size] :
        /\ c.dest + c.n <= Size
        /\ c.src + c.n <= Size
        /\ c.name = "memset" => c.src = 0}

PrintCalls == [name : {"printf"}, format : Formats, args : Arguments]

(* memmove starts at the other end if the destination is behind the source.   *)
Backwards(c) == c.name = "memmove" /\ c.src < c.dest

Init ==
    /\ call \in MemoryCalls \cup PrintCalls
    /\ mem = [a \in Address |-> a]
    /\ phase = CASE call.name = "printf" -> "format"
                 [] call.name = "memmove" -> "movsb"
                 [] OTHER -> "top"
    /\ IF call.name = "printf" THEN edi = 0 /\ esi = 0 /\ ecx = 0
       ELSE LET last == IF Backwards(call) THEN call.n - 1 ELSE 0 IN
            edi = call.dest + last /\ esi = call.src + last /\ ecx = call.n
    /\ edx = 0
    /\ buf = 1 /\ esp = 1 /\ alternate = 0
    /\ conv_buf = <<>> /\ newval = 0 /\ beg = 0
    /\ out = <<>>
-----------------------------------------------------------------------------
(* n bytes from esi, or n times the byte of memset, go to edi at once.        *)
Store(n) ==
    mem' = [a \in Address |->
               IF a \notin edi .. edi + n - 1 THEN mem[a]
               ELSE IF call.name = "memset" THEN FILL ELSE mem[esi + a - edi]]

Advance(n) == edi' = edi + n /\ esi' = esi + n

MemoryStep == UNCHANGED <<call, printing>>

(* Seeded fault: the last bytes are counted from all of them.                 *)
RemainderOne == IF ecx > 0 THEN 1 ELSE 0

(* The bytes left over when the rest is moved by words.                       *)
Remainder == ecx % WORD

(* .memset_top, .memcpy_top: bytes until edi is aligned.                      *)
TopByte ==
    /\ phase = "top" /\ ecx # 0 /\ edi % WORD # 0
    /\ Store(1) /\ Advance(1)
    /\ ecx' = ecx - 1
    /\ MemoryStep /\ UNCHANGED <<phase, edx>>

Aligned ==
    /\ phase = "top" /\ ecx # 0 /\ edi % WORD = 0
    /\ edx' = Remainder
    /\ ecx' = ecx \div WORD
    /\ phase' = "words"
    /\ MemoryStep /\ UNCHANGED <<mem, edi, esi>>

(* rep stosl, rep movsl.                                                      *)
MoveWord ==
    /\ phase = "words" /\ ecx # 0
    /\ Store(WORD) /\ Advance(WORD)
    /\ ecx' = ecx - 1
    /\ MemoryStep /\ UNCHANGED <<phase, edx>>

(* .memset_bottom, .memcpy_bottom: the bytes that are left.                   *)
BottomByte ==
    /\ phase = "words" /\ ecx = 0 /\ edx # 0
    /\ Store(1) /\ Advance(1)
    /\ edx' = edx - 1
    /\ MemoryStep /\ UNCHANGED <<phase, ecx>>

(* rep movsb, in the direction of the direction flag.                         *)
MoveByte ==
    /\ phase = "movsb" /\ ecx # 0
    /\ Store(1) /\ Advance(IF Backwards(call) THEN -1 ELSE 1)
    /\ ecx' = ecx - 1
    /\ MemoryStep /\ UNCHANGED <<phase, edx>>

MemoryDone ==
    /\ phase \in {"top", "words", "movsb"} /\ ecx = 0 /\ edx = 0
    /\ phase' = "done"
    /\ MemoryStep /\ UNCHANGED <<mem, registers>>
-----------------------------------------------------------------------------
lookup(d) == <<"0", "1", "2", "3", "4", "5", "6", "7", "8", "9",
               "A", "B", "C", "D", "E", "F">>[d + 1]

PrintStep == UNCHANGED <<call, mem, registers>>

Char == call.format[buf]

Argument == call.args[esp]

(* The character and the string that a word stands for, in %c and %s.         *)
CharOf(v)   == lookup(v % 16)
StringOf(v) == <<lookup(v % 16), lookup((v \div 16) % 16)>>

(* putc_for_keyboard and puts_for_keyboard.                                   *)
Shown(text)   == out' = out \o [k \in 1 .. Len(text) |-> <<"shown", text[k]>>]
(* putc and puts.                                                             *)
Running(text) == out' = out \o [k \in 1 .. Len(text) |-> <<"running", text[k]>>]

(* Outside a conversion a character prints itself, and '%' begins one.        *)
PrintfChar ==
    /\ phase = "format" /\ buf <= Len(call.format)
    /\ buf' = buf + 1
    /\ IF Char = "%" THEN phase' = "convert" /\ alternate' = 0 /\ UNCHANGED out
       ELSE Shown(<<Char>>) /\ UNCHANGED <<phase, alternate>>
    /\ PrintStep /\ UNCHANGED <<esp, conv_buf, newval, beg>>

(* format_char_switch, for what is not a number.                              *)
PrintfConvert ==
    /\ phase = "convert" /\ Char \notin {"d", "u", "x"}
    /\ buf' = buf + 1
    /\ IF Char = "#" THEN alternate' = 1 /\ UNCHANGED <<phase, esp, out>>
       ELSE /\ phase' = "format"
            /\ \/ Char = "%" /\ Shown(<<"%">>) /\ UNCHANGED esp
               \/ Char = "c" /\ Shown(<<CharOf(Argument)>>) /\ esp' = esp + 1
               \/ Char = "s" /\ Shown(StringOf(Argument)) /\ esp' = esp + 1
               \/ Char \notin {"%", "c", "s"} /\ UNCHANGED <<esp, out>>
            /\ UNCHANGED alternate
    /\ PrintStep /\ UNCHANGED <<conv_buf, newval, beg>>

IsNegative == Char = "d" /\ Argument >= WordSize \div 2

radix == IF Char = "x" THEN 16 ELSE 10

(* itoa is called, for %d with the opposite of a negative number.             *)
PrintfNumber ==
    /\ phase = "convert" /\ Char \in {"d", "u", "x"}
    /\ LET value == IF IsNegative THEN WordSize - Argument ELSE Argument IN
       /\ newval' = value
       /\ conv_buf' = IF value = 0 THEN <<"0">> ELSE <<>>
       /\ phase' = IF value = 0 THEN "print" ELSE "itoa"
    /\ PrintStep /\ UNCHANGED <<buf, esp, alternate, beg, out>>

itoa ==
    /\ phase = "itoa"
    /\ IF newval > 0
       THEN /\ conv_buf' = Append(conv_buf, lookup(newval % radix))
            /\ newval' = newval \div radix
            /\ UNCHANGED <<phase, beg>>
       ELSE phase' = "strrev" /\ beg' = 1 /\ UNCHANGED <<conv_buf, newval>>
    /\ PrintStep /\ UNCHANGED <<buf, esp, alternate, out>>

strrev ==
    LET end == Len(conv_buf) + 1 - beg IN
    /\ phase = "strrev"
    /\ IF beg < end
       THEN /\ conv_buf' = [conv_buf EXCEPT ![beg] = conv_buf[end], ![end] = conv_buf[beg]]
            /\ beg' = beg + 1
            /\ UNCHANGED phase
       ELSE phase' = "print" /\ UNCHANGED <<conv_buf, beg>>
    /\ PrintStep /\ UNCHANGED <<buf, esp, alternate, newval, out>>

(* Seeded fault: zeros without the # that asks for them.                      *)
PaddingAlways == [k \in 1 .. HEX_DIGITS - Len(conv_buf) |-> "0"]

(* The zeros in front of an aligned number.                                   *)
Padding == IF alternate = 1 THEN [k \in 1 .. HEX_DIGITS - Len(conv_buf) |-> "0"] ELSE <<>>

PrintfPrint ==
    /\ phase = "print"
    /\ \/ Char = "x" /\ Shown(Padding \o conv_buf)
       \/ Char # "x" /\ Running(IF IsNegative THEN <<"-">> \o conv_buf ELSE conv_buf)
    /\ esp' = esp + 1
    /\ buf' = buf + 1
    /\ phase' = "format"
    /\ PrintStep /\ UNCHANGED <<alternate, conv_buf, newval, beg>>

PrintfDone ==
    /\ phase = "format" /\ buf > Len(call.format)
    /\ phase' = "done"
    /\ PrintStep /\ UNCHANGED printing

Next ==
    \/ TopByte \/ Aligned \/ MoveWord \/ BottomByte \/ MoveByte \/ MemoryDone
    \/ PrintfChar \/ PrintfConvert \/ PrintfNumber \/ itoa \/ strrev \/ PrintfPrint \/ PrintfDone

Spec == Init /\ [][Next]_vars
-----------------------------------------------------------------------------
(* memcpy is used as its callers may: scrolling moves memory down onto itself.*)
MayOverlap(c) == c.name = "memcpy" => c.dest <= c.src \/ c.src + c.n <= c.dest

(* A call writes the bytes it was given and no other, whatever the alignment  *)
(* and the length, and bytes it still has to read are never lost, for memmove *)
(* in either direction and for memcpy when it moves memory down.              *)
MemoryIsCopied ==
    call.name # "printf" /\ MayOverlap(call) =>
        \A a \in Address :
            IF a \notin call.dest .. call.dest + call.n - 1 THEN mem[a] = a
            ELSE phase = "done" =>
                    mem[a] = IF call.name = "memset" THEN FILL ELSE call.src + a - call.dest

(* What number a string of digits denotes.                                    *)
DigitOf(char, base) == CHOOSE d \in 0 .. base - 1 : lookup(d) = char

ValueOf(s, base) ==
    LET v[n \in 0 .. Len(s)] == IF n = 0 THEN 0 ELSE base * v[n - 1] + DigitOf(s[n], base)
    IN  v[Len(s)]

(* s is what a number v looks like: no more zeros in front than asked for.    *)
IsNumeral(s, v, base, width) ==
    /\ \A k \in 1 .. Len(s) : \E d \in 0 .. base - 1 : s[k] = lookup(d)
    /\ ValueOf(s, base) = v
    /\ Len(s) >= width
    /\ Len(s) > width => s[1] # "0" \/ Len(s) = 1

(* Text s is what character c of a format stands for when it is read in r.    *)
StandsFor(s, c, r, args) ==
    LET v == args[r[2]]
    IN  IF r[1] = "text" THEN s = IF c = "%" THEN <<>> ELSE <<c>>
        ELSE CASE c = "%" -> s = <<"%">>
               [] c = "c" -> s = <<CharOf(v)>>
               [] c = "s" -> s = StringOf(v)
               [] c = "u" -> IsNumeral(s, v, 10, 1)
               [] c = "x" -> IsNumeral(s, v, 16, IF r[1] = "#" THEN HEX_DIGITS ELSE 1)
               [] c = "d" -> IF v < WordSize \div 2 THEN IsNumeral(s, v, 10, 1)
                             ELSE /\ s # <<>> /\ s[1] = "-"
                                  /\ IsNumeral(SubSeq(s, 2, Len(s)), WordSize - v, 10, 1)
               [] OTHER   -> s = <<>>

(* Text t is what the first n characters of format f stand for: it can be cut *)
(* into what each of them does.                                               *)
Expands(n, f, args, t) ==
    \E cut \in [0 .. n -> 0 .. Len(t)] :
        /\ cut[0] = 0 /\ cut[n] = Len(t)
        /\ \A k \in 1 .. n :
              /\ cut[k - 1] <= cut[k]
              /\ StandsFor(SubSeq(t, cut[k - 1] + 1, cut[k]), f[k], Reading(f)[k - 1], args)

(* What has been printed.                                                     *)
Text == [k \in 1 .. Len(out) |-> out[k][2]]

(* printf prints its format with every conversion replaced by its argument,   *)
(* numbers with the digits that denote them, the most negative one included.  *)
PrintfPrints ==
    call.name = "printf" /\ phase = "done" =>
        Expands(Len(call.format), call.format, call.args, Text)
=============================================================================
