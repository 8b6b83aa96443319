------------------------------ MODULE Programs ------------------------------
(* Two user programs above the file reading of the kernel: cat, which copies  *)
(* a file to the screen, and grep's do_one_file, which searches one file after*)
(* another through a buffer that it refills behind the line it has not seen   *)
(* the end of.  "any" is a program that reads as it likes.                    *)
EXTENDS FileRead, SequencesExt

CONSTANTS BUFSIZE,      (* 1024                                               *)
          NL, NUL,      (* the characters '\n' and '\0'                       *)
          Texts,        (* bound: contents of the first file                  *)
          LaterTexts,   (* bound: contents of the file grep takes next        *)
          Patterns,     (* bound: what grep searches for                      *)
          Garbage       (* what an uninitialised byte of the stack may hold   *)

ASSUME ProgramsAssumption ==
    /\ BUFSIZE \in 2 .. WordSize - 1
    /\ NL # NUL
    /\ \A t \in Texts \cup LaterTexts : t \in Seq(ToSet(t)) /\ Len(t) \in Lengths
    /\ \A s \in Patterns : s # <<>> /\ \A k \in 1 .. Len(s) : s[k] \notin {NUL, NL}

VARIABLES
    program,      (* the one that runs: "cat", "grep", "any"                  *)
    text,         (* the contents of the file                                 *)
    search,       (* grep: the argument                                       *)
    at,           (* about to read, to use what was read, to look at a line;  *)
                  (* between two files; over; gave up                         *)
    data, last, line_start,    (* grep: locals of do_one_file                 *)
    later,        (* grep: the first file is done                             *)
    out           (* what went to the screen: characters (cat), lines (grep)  *)

grepVars == <<data, last, line_start>>
progVars == <<program, text, search, at, grepVars, later, out>>
allVars  == <<vars, progVars>>

ProgInit ==
    /\ Init
    /\ program \in {"cat", "grep", "any"}
    /\ text \in Texts
    /\ length = Len(text)
    /\ program = "any" => \A k \in 1 .. Len(text) : text[k] = NL
    /\ IF program = "grep" THEN search \in Patterns ELSE search = <<>>
    /\ at = "read"
    /\ \E g \in Garbage : data = [k \in 0 .. BUFSIZE |-> g]
    /\ last = 0
    /\ line_start = 0
    /\ later = FALSE
    /\ out = <<>>
-----------------------------------------------------------------------------
(* The character that the kernel has stored in place k of the caller's buffer;*)
(* the image is padded with zeros behind the end of a file.                   *)
CharStored(k) ==
    LET byte == buf[k][1] * BlockSize + buf[k][2]
    IN  IF byte < length THEN text[byte + 1] ELSE NUL

(* A program calls read; it goes on once the kernel has returned.             *)
Reads(n) ==
    /\ at = "read"
    /\ read_file(n)
    /\ at' = "got"
    /\ UNCHANGED <<program, text, search, grepVars, later, out>>

Returned == at = "got" /\ pc = "program"

AnyReads ==
    /\ program = "any"
    /\ \E n \in Requests : read_file(n) \/ read_file_execute(n)
    /\ UNCHANGED progVars

KernelReads == (CopyByte \/ Returns) /\ UNCHANGED progVars
-----------------------------------------------------------------------------
(* Seeded fault: the whole buffer is written.                                 *)
CatWrittenFull == [k \in 1 .. BUFSIZE |-> IF k <= Len(buf) THEN CharStored(k) ELSE NUL]

(* What cat writes of its buffer.                                             *)
CatWritten == [k \in 1 .. result |-> CharStored(k)]

cat_reads == program = "cat" /\ Reads(BUFSIZE)

cat_writes ==
    /\ program = "cat"
    /\ Returned
    /\ \/ result = 0 /\ at' = "done" /\ UNCHANGED out
       \/ result = -1 /\ at' = "failed" /\ UNCHANGED out
       \/ /\ result > 0
          /\ out' = out \o CatWritten
          /\ at' = "read"
    /\ UNCHANGED <<vars, program, text, search, grepVars, later>>
-----------------------------------------------------------------------------
grep_reads == program = "grep" /\ Reads(BUFSIZE - last)

(* What was read is behind the part of a line that was kept.                  *)
grep_fills ==
    /\ program = "grep"
    /\ Returned
    /\ IF result = -1 THEN at' = "failed" /\ UNCHANGED grepVars
       ELSE /\ data' = [k \in 0 .. BUFSIZE |->
                           IF k \in last .. last + result - 1 THEN CharStored(k - last + 1)
                           ELSE data[k]]
            /\ last' = last + result
            /\ line_start' = 0
            /\ at' = "line"
    /\ UNCHANGED <<vars, program, text, search, later, out>>

(* The string that starts at place p of the buffer d.                         *)
StringAt(d, p) ==
    LET end == CHOOSE e \in p .. BUFSIZE : d[e] = NUL /\ \A k \in p .. e - 1 : d[k] # NUL
    IN  [k \in 1 .. end - p |-> d[p + k - 1]]

(* ece391_strcpy within the buffer, to its beginning.                         *)
CopiedDown(d, p) ==
    LET s == Append(StringAt(d, p), NUL)
    IN  [k \in 0 .. BUFSIZE |-> IF k < Len(s) THEN s[k + 1] ELSE d[k]]

line_end ==
    CHOOSE e \in line_start .. last :
        /\ e = last \/ data[e] = NL
        /\ \A k \in line_start .. e - 1 : data[k] # NL

Terminated == [data EXCEPT ![line_end] = NUL]

(* Seeded fault: an unfinished line at the end of the buffer is not kept.     *)
IsUnfinishedNever == FALSE

(* The end of the line is still in the file.  For line_end = last the code    *)
(* tests a byte that this read has not written.                               *)
IsUnfinished == data[line_end] # NL /\ result # 0 /\ line_start # 0

(* Keep the beginning of the line and read on.                                *)
grep_keeps ==
    /\ program = "grep"
    /\ at = "line"
    /\ IsUnfinished
    /\ data' = CopiedDown(Terminated, line_start)
    /\ last' = last - line_start
    /\ at' = "read"
    /\ UNCHANGED <<vars, program, text, search, line_start, later, out>>

(* Search a line, print it at the first match, and go to the next one, to the *)
(* next read or to the end of the file.                                       *)
grep_searches ==
    /\ program = "grep"
    /\ at = "line"
    /\ ~IsUnfinished
    /\ data' = Terminated
    /\ out' = IF \E check \in line_start .. line_end - 1 :
                     IsPrefix(search, StringAt(Terminated, check))
              THEN Append(out, StringAt(Terminated, line_start))
              ELSE out
    /\ IF line_end + 1 >= last
       THEN /\ last' = 0
            /\ at' = IF result = 0 THEN "next" ELSE "read"
            /\ UNCHANGED line_start
       ELSE /\ line_start' = line_end + 1
            /\ UNCHANGED <<last, at>>
    /\ UNCHANGED <<vars, program, text, search, later>>

(* main calls do_one_file for the next file: its buffer is the same stack     *)
(* memory, whose end the calls in between may have written over.              *)
grep_opens ==
    /\ program = "grep"
    /\ at = "next"
    /\ ~later
    /\ later' = TRUE
    /\ text' \in LaterTexts
    /\ length' = Len(text')
    /\ fd_offset' = 0
    /\ delivered' = <<>>
    /\ \E g \in Garbage : data' = [data EXCEPT ![BUFSIZE] = g]
    /\ out' = <<>>
    /\ at' = "read"
    /\ UNCHANGED <<inode, pc, loopVars, result, program, search, last, line_start>>

grep_ends ==
    /\ program = "grep"
    /\ at = "next"
    /\ later
    /\ at' = "done"
    /\ UNCHANGED <<vars, program, text, search, grepVars, later, out>>

ProgNext ==
    \/ AnyReads \/ KernelReads
    \/ cat_reads \/ cat_writes
    \/ grep_reads \/ grep_fills \/ grep_keeps \/ grep_searches \/ grep_opens \/ grep_ends

ProgSpec == ProgInit /\ [][ProgNext]_allVars
-----------------------------------------------------------------------------
(* cat shows the file, whatever its length: always a beginning of it, all of  *)
(* it when the program ends, and it never gives up.                           *)
CatCopiesFile ==
    program = "cat" => /\ IsPrefix(out, text)
                       /\ at = "done" => out = text
                       /\ at # "failed"

(* The line of a text that starts at place s, and where lines start.          *)
IsLineEnd(t, s, e) ==
    /\ e > Len(t) \/ t[e] = NL
    /\ \A k \in s .. e - 1 : t[k] # NL

LineEnd(t, s) == CHOOSE e \in s .. Len(t) + 1 : IsLineEnd(t, s, e)

LineAt(t, s) == SubSeq(t, s, LineEnd(t, s) - 1)

LineStarts(t) == {s \in 1 .. Len(t) + 1 : s = 1 \/ t[s - 1] = NL}

(* The lines that contain the pattern.                                        *)
Found(line, s) == \E k \in 1 .. Len(line) : IsPrefix(s, SubSeq(line, k, Len(line)))

Matches(t) == {s \in LineStarts(t) : Found(LineAt(t, s), search)}

(* Those of them that start before place p are printed, whole and in order.   *)
PrintedBefore(t, p) ==
    LET starts == {s \in Matches(t) : s < p}
    IN  \E from \in [1 .. Len(out) -> starts] :
            /\ \A s \in starts : \E n \in 1 .. Len(out) : from[n] = s
            /\ \A m, n \in 1 .. Len(out) : m < n => from[m] < from[n]
            /\ \A n \in 1 .. Len(out) : out[n] = LineAt(t, from[n])

(* A text has no '\0' in it; grep promises something if its lines fit into the*)
(* buffer.                                                                    *)
IsSearchable(t) ==
    /\ \A k \in 1 .. Len(t) : t[k] # NUL
    /\ \A s \in LineStarts(t) : Len(LineAt(t, s)) <= BUFSIZE

(* In such a text grep prints exactly the lines that contain the pattern,     *)
(* whole and in order, wherever the reads cut them: always those of a         *)
(* beginning of the text, all of them in the end, and it never gives up.      *)
GrepPrintsMatches ==
    program = "grep" /\ IsSearchable(text) =>
        /\ \E p \in 1 .. Len(text) + 1 : PrintedBefore(text, p)
        /\ at \in {"next", "done"} => PrintedBefore(text, Len(text) + 1)
        /\ at # "failed"
=============================================================================
