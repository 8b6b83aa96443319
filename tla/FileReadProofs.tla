--------------------------- MODULE FileReadProofs ---------------------------
(* Theorems about FileRead, for any block size, files and requests, and about *)
(* the programs of Programs that read through it.                             *)
EXTENDS Programs, SequenceTheorems, WellFoundedInduction, TLAPS

(* The walk of read_data: block and place together are the byte it copies     *)
(* next, and read_file reads where its descriptor is.                         *)
Walk ==
    pc # "program" =>
        /\ data_blk_idx_inode * BlockSize + Place = offset + i
        /\ Place \in 0 .. BlockSize - 1
        /\ i <= nbytes
        /\ offset + i <= length
        /\ Len(buf) = i
        /\ pc = "read_file" => offset = fd_offset

StoredBytes == \A k \in 1 .. Len(buf) : IsFileByte(buf[k], offset + k - 1)

FileInv == TypeOK /\ Walk /\ StoredBytes /\ ReadsAreSequential
-----------------------------------------------------------------------------
(* No file is longer than its blocks.                                         *)
LEMMA LengthType == ASSUME TypeOK PROVE length \in 0 .. BlockSize * MaxBlocks
BY FileAssumption DEF TypeOK

(* The block and the place of a byte.                                         *)
LEMMA DivMod ==
    ASSUME NEW p \in Nat
    PROVE  /\ p \div BlockSize \in Nat
           /\ p % BlockSize \in 0 .. BlockSize - 1
           /\ (p \div BlockSize) * BlockSize + (p % BlockSize) = p
BY FileAssumption

(* A place inside the file lies in a block that the inode has.                *)
LEMMA BlockExists ==
    ASSUME NEW k \in Nat, NEW p \in Nat, k * BlockSize + p < BlockSize * MaxBlocks
    PROVE  k < MaxBlocks
<1>1. SUFFICES ASSUME k >= MaxBlocks PROVE FALSE
  BY FileAssumption
<1>2. PICK d \in Nat : k = MaxBlocks + d
  BY <1>1, FileAssumption
<1>3. k * BlockSize = MaxBlocks * BlockSize + d * BlockSize
  BY <1>2, FileAssumption
<1>4. d * BlockSize \in Nat /\ MaxBlocks * BlockSize = BlockSize * MaxBlocks
  BY FileAssumption
<1> QED
  BY <1>3, <1>4, FileAssumption

(* The call of read_data keeps the invariant.                                 *)
LEMMA CallInv ==
    ASSUME FileInv, NEW caller \in {"read_file", "read_file_execute"}, NEW from \in Nat,
           from <= length, NEW n \in Int, Call(caller, from, n),
           caller = "read_file" => from = fd_offset
    PROVE  FileInv'
<1>1. length \in 0 .. BlockSize * MaxBlocks
  BY LengthType DEF FileInv
<1>2. n % WordSize \in 0 .. WordSize - 1
  BY FileAssumption
<1>3. /\ from \div BlockSize \in Nat
      /\ from % BlockSize \in 0 .. BlockSize - 1
      /\ (from \div BlockSize) * BlockSize + (from % BlockSize) = from
  BY DivMod
<1>4. TypeOK'
  BY <1>2, <1>3 DEF FileInv, Call, TypeOK, fileVars
<1>5. Place' = from % BlockSize
  BY <1>3, FileAssumption DEF Call, Place
<1>6. Walk'
  BY <1>1, <1>3, <1>5, FileAssumption DEF Call, Walk, fileVars
<1>7. StoredBytes'
  BY DEF Call, StoredBytes
<1>8. ReadsAreSequential'
  BY DEF FileInv, Call, ReadsAreSequential, fileVars, IsFileByte
<1> QED
  BY <1>4, <1>6, <1>7, <1>8 DEF FileInv

(* A return that stores nothing more keeps the invariant.                     *)
LEMMA ReturnInv ==
    ASSUME FileInv, NEW value \in {0, -1}, Return(value)
    PROVE  FileInv'
<1>1. BlockSize * MaxBlocks \in Nat
  BY FileAssumption
<1>2. TypeOK'
  BY <1>1 DEF FileInv, Return, TypeOK, fileVars, loopVars
<1> QED
  BY <1>2 DEF FileInv, Return, Walk, Place, StoredBytes, ReadsAreSequential, IsFileByte,
              fileVars, loopVars

(* One round of the loop of read_data keeps the invariant.                    *)
LEMMA CopyByteInv == ASSUME FileInv, CopyByte PROVE FileInv'
<1>1. /\ TypeOK
      /\ pc # "program"
      /\ offset + i < length
      /\ Place \in 0 .. BlockSize - 1
      /\ data_blk_idx_inode * BlockSize + Place = offset + i
      /\ Len(buf) = i
      /\ length \in 0 .. BlockSize * MaxBlocks
      /\ i \in Nat /\ offset \in Nat /\ data_blk_idx_inode \in Nat
      /\ offset_in_blk \in Int /\ offset_in_new_blk \in Int
      /\ buf \in Seq(Byte)
      /\ BlockSize \in Nat /\ BlockSize > 0
  BY LengthType, FileAssumption DEF FileInv, CopyByte, GoesOn, Walk, TypeOK
<1> DEFINE b == <<data_blk_idx_inode, Place>>
<1>2. b \in Byte /\ IsFileByte(b, offset + i)
  <2>1. data_blk_idx_inode < MaxBlocks
    <3>1. BlockSize * MaxBlocks \in Nat
      BY FileAssumption
    <3>2. data_blk_idx_inode * BlockSize \in Nat
      BY <1>1
    <3>3. data_blk_idx_inode * BlockSize + Place < BlockSize * MaxBlocks
      BY <1>1, <3>1, <3>2
    <3> QED
      BY <1>1, <3>3, BlockExists
  <2> QED
    BY <1>1, <2>1, FileAssumption DEF Byte, IsFileByte
<1>3. /\ buf' = Append(buf, b)
      /\ i' = i + 1
      /\ offset' = offset
      /\ UNCHANGED <<fileVars, fd_offset, pc, nbytes, offset_in_blk, result, delivered>>
  BY DEF CopyByte
<1>4. /\ buf' \in Seq(Byte)
      /\ Len(buf') = i + 1
      /\ \A k \in 1 .. i + 1 : buf'[k] = IF k = i + 1 THEN b ELSE buf[k]
  <2> HIDE DEF b
  <2> QED
    BY <1>1, <1>2, <1>3
<1>5. /\ data_blk_idx_inode' \in Nat
      /\ offset_in_new_blk' \in Int
      /\ data_blk_idx_inode' * BlockSize + Place' = offset + i + 1
      /\ Place' \in 0 .. BlockSize - 1
  <2>1. CASE LastOfBlock
    <3>1. Place = BlockSize - 1 /\ Place' = 0 /\ data_blk_idx_inode' = data_blk_idx_inode + 1
          /\ offset_in_new_blk' = offset_in_new_blk - BlockSize
      BY <1>1, <1>3, <2>1 DEF CopyByte, LastOfBlock, Place
    <3>2. (data_blk_idx_inode + 1) * BlockSize = data_blk_idx_inode * BlockSize + BlockSize
      BY <1>1
    <3>3. data_blk_idx_inode * BlockSize \in Nat
      BY <1>1
    <3> QED
      BY <1>1, <3>1, <3>2, <3>3
  <2>2. CASE ~LastOfBlock
    <3>1. /\ Place # BlockSize - 1
          /\ Place' = Place + 1
          /\ data_blk_idx_inode' = data_blk_idx_inode
          /\ offset_in_new_blk' = offset_in_new_blk
      BY <1>1, <1>3, <2>2 DEF CopyByte, LastOfBlock, Place
    <3>2. data_blk_idx_inode * BlockSize \in Nat
      BY <1>1
    <3> QED
      BY <1>1, <3>1, <3>2
  <2> QED
    BY <2>1, <2>2
<1>6. TypeOK'
  BY <1>1, <1>3, <1>4, <1>5 DEF TypeOK, fileVars
<1>7. Walk'
  <2>1. offset + i' = offset + i + 1 /\ offset + i' <= length
    BY <1>1, <1>3
  <2>2. data_blk_idx_inode' * BlockSize + Place' = offset + i'
    BY <1>5, <2>1
  <2>3. pc = "read_file" => offset = fd_offset
    BY DEF FileInv, Walk
  <2>4. pc' = pc /\ offset' = offset /\ fd_offset' = fd_offset /\ length' = length /\ Len(buf') = i'
    BY <1>3, <1>4 DEF fileVars
  <2>5. i' <= nbytes'
    <3>1. i < nbytes /\ nbytes \in Int /\ nbytes' = nbytes
      BY <1>1, <1>3, FileAssumption DEF CopyByte, GoesOn, TypeOK
    <3> QED
      BY <1>1, <1>3, <3>1
  <2> QED
    BY <1>5, <2>1, <2>2, <2>3, <2>4, <2>5 DEF Walk
<1>8. StoredBytes'
  <2> SUFFICES ASSUME NEW k \in 1 .. i + 1
               PROVE  IsFileByte(buf'[k], offset + k - 1)
    BY <1>3, <1>4 DEF StoredBytes, IsFileByte
  <2>1. CASE k = i + 1
    <3>1. offset + k - 1 = offset + i
      BY <1>1, <2>1
    <3> HIDE DEF b
    <3> QED
      BY <1>2, <1>4, <2>1, <3>1
  <2>2. CASE k # i + 1
    <3>1. k \in 1 .. i /\ buf'[k] = buf[k]
      BY <1>1, <1>4, <2>2
    <3> QED
      BY <1>1, <3>1 DEF FileInv, StoredBytes
  <2> QED
    BY <2>1, <2>2
<1>9. ReadsAreSequential'
  BY <1>3 DEF FileInv, ReadsAreSequential, IsFileByte, fileVars
<1> QED
  BY <1>6, <1>7, <1>8, <1>9 DEF FileInv

(* The end of a read, with the offset it leaves, keeps the invariant.         *)
LEMMA ReturnsInv == ASSUME FileInv, Returns PROVE FileInv'
<1>1. /\ TypeOK
      /\ pc # "program"
      /\ offset + i <= length
      /\ Len(buf) = i
      /\ pc = "read_file" => offset = fd_offset
      /\ length \in 0 .. BlockSize * MaxBlocks
      /\ i \in Nat /\ offset \in Nat /\ fd_offset \in Nat
      /\ buf \in Seq(Byte) /\ delivered \in Seq(Byte)
      /\ BlockSize * MaxBlocks \in Nat
  BY LengthType, FileAssumption DEF FileInv, Returns, Walk, TypeOK
<1>2. pc' = "program" /\ UNCHANGED <<inode, length>> /\ UNCHANGED loopVars
  BY DEF Returns, fileVars
<1>3. Walk' /\ StoredBytes'
  BY <1>2 DEF FileInv, Walk, StoredBytes, IsFileByte, loopVars
<1>4. CASE pc = "read_file"
  <2>1. fd_offset' = fd_offset + i /\ result' = i /\ delivered' = delivered \o buf
    BY <1>4 DEF Returns, OffsetAfter
  <2>2. /\ delivered' \in Seq(Byte)
        /\ Len(delivered') = Len(delivered) + Len(buf)
        /\ \A k \in 1 .. Len(delivered) + Len(buf) :
              delivered'[k] = IF k <= Len(delivered) THEN delivered[k] ELSE buf[k - Len(delivered)]
    BY <1>1, <2>1, ConcatProperties
  <2>3. TypeOK'
    BY <1>1, <1>2, <2>1, <2>2 DEF TypeOK, loopVars
  <2>4. ReadsAreSequential'
    <3>1. Len(delivered) = fd_offset
      BY DEF FileInv, ReadsAreSequential
    <3>2. fd_offset' <= length' /\ Len(delivered') = fd_offset'
      BY <1>1, <1>2, <1>4, <2>1, <2>2, <3>1
    <3>3. ASSUME NEW k \in 1 .. fd_offset + i
          PROVE  IsFileByte(delivered'[k], k - 1)
      <4>1. CASE k <= fd_offset
        <5>1. k \in 1 .. Len(delivered) /\ delivered'[k] = delivered[k]
          BY <1>1, <2>2, <3>1, <4>1
        <5> QED
          BY <5>1 DEF FileInv, ReadsAreSequential
      <4>2. CASE k > fd_offset
        <5> DEFINE j == k - fd_offset
        <5>1. j \in 1 .. Len(buf) /\ delivered'[k] = buf[j]
          BY <1>1, <2>2, <3>1, <4>2
        <5>2. offset + j - 1 = k - 1
          BY <1>1, <1>4
        <5>3. IsFileByte(buf[j], offset + j - 1)
          BY <5>1 DEF FileInv, StoredBytes
        <5> QED
          BY <5>1, <5>2, <5>3
      <4> QED
        BY <1>1, <4>1, <4>2
    <3> QED
      BY <2>1, <3>2, <3>3 DEF ReadsAreSequential, IsFileByte
  <2> QED
    BY <1>3, <2>3, <2>4 DEF FileInv
<1>5. CASE pc # "read_file"
  <2>1. result' = 0 /\ UNCHANGED <<fd_offset, delivered>>
    BY <1>5 DEF Returns
  <2>2. TypeOK'
    BY <1>1, <1>2, <2>1 DEF TypeOK, loopVars
  <2>3. ReadsAreSequential'
    BY <1>2, <2>1 DEF FileInv, ReadsAreSequential, IsFileByte
  <2> QED
    BY <1>3, <2>2, <2>3 DEF FileInv
<1> QED
  BY <1>4, <1>5
-----------------------------------------------------------------------------
(* The invariant holds when the file has just been opened.                    *)
LEMMA InitInv == Init => FileInv
<1> SUFFICES ASSUME Init PROVE FileInv
  OBVIOUS
<1> USE FileAssumption
<1>1. length \in 0 .. BlockSize * MaxBlocks /\ BlockSize * MaxBlocks \in Nat
  BY DEF Init
<1>2. TypeOK
  BY <1>1 DEF Init, TypeOK
<1> QED
  BY <1>1, <1>2 DEF Init, FileInv, Walk, StoredBytes, ReadsAreSequential

(* Every step of the reading of a file keeps the invariant.                   *)
LEMMA NextInv == FileInv /\ [Next]_vars => FileInv'
<1> SUFFICES ASSUME FileInv, [Next]_vars
             PROVE  FileInv'
  OBVIOUS
<1>1. length \in Nat /\ fd_offset \in Nat /\ fd_offset <= length
  BY LengthType, FileAssumption DEF FileInv, TypeOK, ReadsAreSequential
<1>2. ASSUME NEW n \in Requests, read_file(n)
      PROVE  FileInv'
  <2>1. CASE Return(0) \/ Return(-1)
    BY <2>1, ReturnInv
  <2>2. CASE Call("read_file", fd_offset, n)
    BY <1>1, <2>2, CallInv, FileAssumption
  <2> QED
    BY <1>2, <2>1, <2>2 DEF read_file
<1>3. ASSUME NEW n \in Requests, read_file_execute(n)
      PROVE  FileInv'
  <2>1. CASE Return(-1)
    BY <2>1, ReturnInv
  <2>2. CASE Call("read_file_execute", 0, n)
    BY <1>1, <2>2, CallInv, FileAssumption
  <2> QED
    BY <1>3, <2>1, <2>2 DEF read_file_execute
<1>4. CASE UNCHANGED vars
  BY <1>4 DEF vars, fileVars, loopVars, FileInv, TypeOK, Walk, Place, StoredBytes,
              ReadsAreSequential, IsFileByte
<1> QED
  BY <1>2, <1>3, <1>4, CopyByteInv, ReturnsInv DEF Next

(* The loop of read_data stays in the blocks of the file.                     *)
LEMMA InvBuffer == FileInv => BufferIsFile
<1> SUFFICES ASSUME FileInv, pc # "program", GoesOn
             PROVE  data_blk_idx_inode < MaxBlocks
  BY DEF FileInv, Walk, StoredBytes, BufferIsFile
<1>1. /\ data_blk_idx_inode \in Nat /\ Place \in Nat /\ offset + i < length
      /\ length \in 0 .. BlockSize * MaxBlocks /\ BlockSize * MaxBlocks \in Nat
      /\ data_blk_idx_inode * BlockSize + Place = offset + i
      /\ offset \in Nat /\ i \in Nat
  BY LengthType, FileAssumption DEF FileInv, TypeOK, Walk, GoesOn
<1>2. data_blk_idx_inode * BlockSize + Place < BlockSize * MaxBlocks
  BY <1>1
<1> QED
  BY <1>1, <1>2, BlockExists

(* A descriptor's offset is in the file until it is at its end.               *)
LEMMA InvNeverFails == FileInv => ReadNeverFails
<1> SUFFICES ASSUME FileInv, fd_offset # length, length <= fd_offset \div BlockSize
             PROVE  FALSE
  BY DEF ReadNeverFails, AtEnd, Refused
<1>1. length \in Nat /\ fd_offset \in Nat /\ fd_offset < length
  BY LengthType, FileAssumption DEF FileInv, TypeOK, ReadsAreSequential
<1>2. /\ fd_offset \div BlockSize \in Nat
      /\ (fd_offset \div BlockSize) * BlockSize + (fd_offset % BlockSize) = fd_offset
      /\ fd_offset % BlockSize \in Nat
  BY <1>1, DivMod, FileAssumption
<1> DEFINE q == fd_offset \div BlockSize
           r == fd_offset % BlockSize
<1>3. q \in Nat /\ r \in Nat /\ q * BlockSize + r = fd_offset /\ length <= q
  BY <1>2
<1> HIDE DEF q, r
<1>4. q * BlockSize \in Nat /\ q * BlockSize >= q
  BY <1>3, FileAssumption
<1> QED
  BY <1>1, <1>3, <1>4

(* The inductive invariant of the walk holds always.                          *)
THEOREM FileInvariant == Spec => []FileInv
BY InitInv, NextInv, PTL DEF Spec

(* Every variable keeps its type, for requests of any sign and size.          *)
THEOREM TypeCorrect == Spec => []TypeOK
<1>1. FileInv => TypeOK
  BY DEF FileInv
<1> QED
  BY <1>1, FileInvariant, PTL

(* read_data stays inside the blocks of the file and stores its bytes.        *)
THEOREM StoresTheFile == Spec => []BufferIsFile
BY InvBuffer, FileInvariant, PTL

(* The reads of a descriptor deliver the file once and in order.              *)
THEOREM DeliversInOrder == Spec => []ReadsAreSequential
<1>1. FileInv => ReadsAreSequential
  BY DEF FileInv
<1> QED
  BY <1>1, FileInvariant, PTL

(* read_file is never refused, whatever the block size and the file.          *)
THEOREM NeverRefused == Spec => []ReadNeverFails
BY InvNeverFails, FileInvariant, PTL
-----------------------------------------------------------------------------
(* The file of a program is its text, cat and grep wait for the kernel, and   *)
(* the line that grep looks at starts in what it has read.                    *)
Waiting ==
    /\ FileInv
    /\ text \in Seq(ToSet(text)) /\ Len(text) = length
    /\ program # "any" /\ pc # "program" => at = "got" /\ pc = "read_file"
    /\ last \in Nat /\ line_start \in Nat
    /\ at = "line" => line_start <= last

(* What cat has shown, against where the descriptor is.                       *)
Shown ==
    /\ out \in Seq(ToSet(text))
    /\ Len(out) <= length
    /\ \A k \in 1 .. Len(out) : out[k] = text[k]

CatPlace ==
    /\ at \in {"read", "got", "done"}
    /\ at = "read" => Len(out) = fd_offset
    /\ at = "got" /\ pc # "program" =>
          Len(out) = fd_offset /\ fd_offset < length /\ nbytes = BUFSIZE
    /\ at = "got" /\ pc = "program" =>
          \/ result = 0 /\ fd_offset = length /\ Len(out) = length
          \/ /\ result > 0
             /\ Len(buf) = result /\ offset = Len(out) /\ offset + result = fd_offset
    /\ at = "done" => Len(out) = length

CatInv == Waiting /\ (program = "cat" => Shown /\ CatPlace)
-----------------------------------------------------------------------------
(* The invariant holds when the program starts.                               *)
LEMMA ProgInitInv == ProgInit => CatInv
<1> SUFFICES ASSUME ProgInit PROVE CatInv
  OBVIOUS
<1>1. FileInv /\ fd_offset = 0 /\ pc = "program" /\ out = <<>> /\ at = "read" /\ last = 0 /\ line_start = 0
  BY InitInv DEF ProgInit, Init
<1>2. text \in Seq(ToSet(text)) /\ Len(text) = length
  BY ProgramsAssumption DEF ProgInit
<1>3. length \in Nat
  BY <1>1, LengthType, FileAssumption DEF FileInv
<1>4. out \in Seq(ToSet(text)) /\ Len(out) = 0
  BY <1>1, EmptySeq
<1> QED
  BY <1>1, <1>2, <1>3, <1>4 DEF CatInv, Waiting, Shown, CatPlace

(* A step of the kernel keeps a program waiting for it.                       *)
LEMMA KernelWaiting ==
    ASSUME Waiting, KernelReads
    PROVE  Waiting'
<1>1. FileInv'
  BY CopyByteInv, ReturnsInv DEF Waiting, KernelReads
<1>2. UNCHANGED <<text, length, program, at, last, line_start>> /\ pc' \in {pc, "program"}
  BY DEF KernelReads, CopyByte, Returns, progVars, grepVars, fileVars
<1> QED
  BY <1>1, <1>2 DEF Waiting

(* So do a call of read by cat or grep ...                                    *)
LEMMA ReadsWaiting ==
    ASSUME Waiting, NEW n \in Int, Reads(n)
    PROVE  Waiting'
<1>1. FileInv'
  <2>1. length \in Nat /\ fd_offset \in Nat /\ fd_offset <= length
    BY LengthType, FileAssumption DEF Waiting, FileInv, TypeOK, ReadsAreSequential
  <2>2. CASE Return(0) \/ Return(-1)
    BY <2>2, ReturnInv DEF Waiting
  <2>3. CASE Call("read_file", fd_offset, n)
    BY <2>1, <2>3, CallInv DEF Waiting
  <2> QED
    BY <2>2, <2>3 DEF Reads, read_file
<1>2. UNCHANGED <<text, program, last, line_start>> /\ at' = "got"
  BY DEF Reads, grepVars
<1>3. length' = length /\ pc' \in {"program", "read_file"}
  BY DEF Reads, read_file, Call, Return, fileVars
<1> QED
  BY <1>1, <1>2, <1>3 DEF Waiting

(* ... and a step of a program that leaves the kernel alone.                  *)
LEMMA OwnWaiting ==
    ASSUME Waiting, UNCHANGED <<vars, text, program>>, at # "got" \/ pc = "program",
           last' \in Nat, line_start' \in Nat, at' = "line" => line_start' <= last'
    PROVE  Waiting'
<1>1. FileInv'
  BY NextInv DEF Waiting
<1>2. UNCHANGED <<length, pc>>
  BY DEF vars, fileVars
<1> QED
  BY <1>1, <1>2 DEF Waiting

(* The next file of grep is read from its beginning.                          *)
LEMMA OpensWaiting ==
    ASSUME Waiting, grep_opens
    PROVE  Waiting'
<1>1. /\ pc = "program" /\ pc' = pc /\ program' = program
      /\ text' \in LaterTexts /\ length' = Len(text')
      /\ fd_offset' = 0 /\ delivered' = <<>> /\ at' = "read"
      /\ UNCHANGED <<inode, loopVars, result, last, line_start>>
  BY DEF grep_opens, Waiting
<1>2. text' \in Seq(ToSet(text')) /\ length' \in Lengths
  BY <1>1, ProgramsAssumption
<1>3. length' \in Nat
  <2>1. BlockSize * MaxBlocks \in Nat
    BY FileAssumption
  <2> QED
    BY <1>2, <2>1, FileAssumption
<1>4. TypeOK'
  BY <1>1, <1>2 DEF Waiting, FileInv, TypeOK, loopVars
<1>5. Walk' /\ ReadsAreSequential'
  BY <1>1, <1>3 DEF Walk, ReadsAreSequential
<1>6. StoredBytes'
  BY <1>1 DEF Waiting, FileInv, StoredBytes, IsFileByte, loopVars
<1> QED
  BY <1>1, <1>2, <1>4, <1>5, <1>6 DEF Waiting, FileInv

(* There is a least number in every set of numbers that is not empty.         *)
LEMMA LeastNatural ==
    ASSUME NEW S, S \subseteq Nat, S # {}
    PROVE  \E m \in S : \A k \in S : m <= k
<1>1. PICK m \in S : \A k \in S : ~(<<k, m>> \in OpToRel(<, Nat))
  <2>1. PICK m \in S : \A k \in Nat : <<k, m>> \in OpToRel(<, Nat) => k \notin S
    BY NatLessThanWellFounded, WFMin
  <2> QED
    BY <2>1
<1>2. \A k \in S : ~(k < m)
  BY <1>1 DEF OpToRel
<1> QED
  BY <1>2

(* The end of the line is found: the first one behind where the line starts.  *)
LEMMA LineEndFacts ==
    ASSUME Waiting, at = "line"
    PROVE  /\ line_end \in line_start .. last
           /\ line_end = last \/ data[line_end] = NL
           /\ \A k \in line_start .. line_end - 1 : data[k] # NL
<1> DEFINE E == {e \in line_start .. last : e = last \/ data[e] = NL}
<1>1. last \in Nat /\ line_start \in Nat /\ line_start <= last
  BY DEF Waiting
<1>2. E \subseteq Nat /\ last \in E
  BY <1>1
<1>3. PICK e \in E : \A k \in E : e <= k
  <2> HIDE DEF E
  <2> QED
    BY <1>2, LeastNatural
<1>4. \A k \in line_start .. e - 1 : data[k] # NL
  BY <1>1, <1>3
<1> QED
  BY <1>3, <1>4 DEF line_end

(* Every step keeps a program's file its text, and the program waiting.       *)
LEMMA StepWaiting ==
    ASSUME Waiting, ProgNext
    PROVE  Waiting'
<1>1. CASE AnyReads
  <2>1. FileInv'
    BY <1>1, NextInv DEF Waiting, AnyReads, Next
  <2>2. UNCHANGED <<text, program, length, at, last, line_start>> /\ program = "any"
    BY <1>1 DEF AnyReads, progVars, grepVars, read_file, read_file_execute, Return, Call, fileVars
  <2> QED
    BY <2>1, <2>2 DEF Waiting
<1>2. CASE KernelReads
  BY <1>2, KernelWaiting
<1>3. CASE cat_reads
  BY <1>3, ReadsWaiting, ProgramsAssumption, FileAssumption DEF cat_reads
<1>4. CASE cat_writes
  <2>1. UNCHANGED <<last, line_start>> /\ at' # "line"
    BY <1>4 DEF cat_writes, grepVars
  <2> QED
    BY <1>4, <2>1, OwnWaiting DEF cat_writes, Returned, Waiting
<1>5. CASE grep_reads
  <2>1. BUFSIZE - last \in Int
    BY ProgramsAssumption, FileAssumption DEF Waiting
  <2> QED
    BY <1>5, <2>1, ReadsWaiting DEF grep_reads
<1>6. CASE grep_fills
  <2>1. result \in Int /\ result >= -1
    BY FileAssumption DEF Waiting, FileInv, TypeOK
  <2>2. last' \in Nat /\ line_start' \in Nat /\ (at' = "line" => line_start' <= last')
    BY <1>6, <2>1 DEF grep_fills, grepVars, Waiting
  <2> QED
    BY <1>6, <2>2, OwnWaiting DEF grep_fills, Returned
<1>7. CASE grep_keeps
  <2>1. last' \in Nat /\ line_start' \in Nat /\ at' # "line"
    BY <1>7 DEF grep_keeps, Waiting
  <2> QED
    BY <1>7, <2>1, OwnWaiting DEF grep_keeps
<1>8. CASE grep_searches
  <2>1. line_end \in line_start .. last /\ last \in Nat /\ line_start \in Nat
    BY <1>8, LineEndFacts DEF grep_searches, Waiting
  <2>2. last' \in Nat /\ line_start' \in Nat /\ (at' = "line" => line_start' <= last')
    <3> DEFINE e == line_end
    <3>1. \/ last' = 0 /\ at' # "line" /\ line_start' = line_start
          \/ ~(e + 1 >= last) /\ line_start' = e + 1 /\ last' = last
      BY <1>8 DEF grep_searches
    <3> HIDE DEF e
    <3> QED
      BY <2>1, <3>1 DEF e
  <2> QED
    BY <1>8, <2>2, OwnWaiting DEF grep_searches
<1>9. CASE grep_opens
  BY <1>9, OpensWaiting
<1>10. CASE grep_ends
  <2>1. UNCHANGED <<last, line_start>> /\ at' # "line"
    BY <1>10 DEF grep_ends, grepVars
  <2> QED
    BY <1>10, <2>1, OwnWaiting DEF grep_ends, Waiting
<1> QED
  BY <1>1, <1>2, <1>3, <1>4, <1>5, <1>6, <1>7, <1>8, <1>9, <1>10 DEF ProgNext
-----------------------------------------------------------------------------
(* A call of read by cat: at the end, or a walk from where it is.             *)
LEMMA CatReads ==
    ASSUME CatInv, cat_reads
    PROVE  Shown' /\ CatPlace'
<1>1. /\ Waiting /\ Shown /\ CatPlace
      /\ at = "read" /\ at' = "got" /\ pc = "program"
      /\ Len(out) = fd_offset
      /\ read_file(BUFSIZE)
      /\ UNCHANGED <<text, out>>
  BY DEF CatInv, CatPlace, cat_reads, Reads, read_file
<1>2. /\ length \in Nat /\ fd_offset \in Nat /\ fd_offset <= length
      /\ ReadNeverFails
  BY <1>1, LengthType, InvNeverFails, FileAssumption
     DEF Waiting, FileInv, TypeOK, ReadsAreSequential
<1>3. UNCHANGED <<length, fd_offset>>
  BY <1>1 DEF read_file, Return, Call, fileVars
<1>4. Shown'
  BY <1>1, <1>3 DEF Shown
<1>5. CASE AtEnd
  <2>1. result' = 0 /\ pc' = "program"
    BY <1>1, <1>5 DEF read_file, Return
  <2> QED
    BY <1>1, <1>3, <1>4, <1>5, <2>1 DEF CatPlace, AtEnd
<1>6. CASE ~AtEnd
  <2>1. Call("read_file", fd_offset, BUFSIZE)
    BY <1>1, <1>2, <1>6 DEF read_file, ReadNeverFails
  <2>2. BUFSIZE % WordSize = BUFSIZE
    BY ProgramsAssumption, FileAssumption
  <2>3. pc' = "read_file" /\ nbytes' = BUFSIZE /\ fd_offset < length
    BY <1>2, <1>6, <2>1, <2>2 DEF Call, AtEnd
  <2> QED
    BY <1>1, <1>3, <1>4, <2>3 DEF CatPlace
<1> QED
  BY <1>5, <1>6

(* The kernel stores at least one byte before it returns to cat.              *)
LEMMA CatWaits ==
    ASSUME CatInv, program = "cat", KernelReads
    PROVE  Shown' /\ CatPlace'
<1>1. /\ Waiting /\ Shown /\ CatPlace
      /\ pc = "read_file" /\ at = "got"
      /\ Len(out) = fd_offset /\ fd_offset < length /\ nbytes = BUFSIZE
  <2>1. pc # "program"
    BY DEF KernelReads, CopyByte, Returns
  <2> QED
    BY <2>1 DEF CatInv, CatPlace, Waiting
<1>2. UNCHANGED <<text, out, at, length>>
  BY DEF KernelReads, CopyByte, Returns, progVars, fileVars
<1>3. Shown'
  BY <1>1, <1>2 DEF Shown
<1>4. CASE CopyByte
  <2>1. UNCHANGED <<pc, fd_offset, nbytes>>
    BY <1>4 DEF CopyByte
  <2> QED
    BY <1>1, <1>2, <1>3, <2>1 DEF CatPlace
<1>5. CASE Returns
  <2>1. /\ pc' = "program" /\ result' = i /\ fd_offset' = fd_offset + i
        /\ UNCHANGED <<buf, offset>>
        /\ ~GoesOn
    BY <1>1, <1>5 DEF Returns, OffsetAfter, loopVars
  <2>2. /\ Len(buf) = i /\ offset = fd_offset
        /\ i \in Nat /\ fd_offset \in Nat /\ length \in Nat
    BY <1>1, LengthType, FileAssumption DEF Waiting, FileInv, Walk, TypeOK
  <2>3. i > 0
    BY <1>1, <2>1, <2>2, ProgramsAssumption, FileAssumption DEF GoesOn
  <2> QED
    BY <1>1, <1>2, <1>3, <2>1, <2>2, <2>3 DEF CatPlace
<1> QED
  BY <1>4, <1>5 DEF KernelReads

(* A function on an initial segment is a sequence.                            *)
LEMMA IsSequence ==
    ASSUME NEW S, NEW n \in Nat, NEW f \in [1 .. n -> S]
    PROVE  f \in Seq(S) /\ Len(f) = n
OBVIOUS

(* What cat writes are the characters of the file behind those it has shown.  *)
LEMMA CatWrites ==
    ASSUME CatInv, cat_writes
    PROVE  Shown' /\ CatPlace'
<1>1. /\ Waiting /\ Shown /\ CatPlace
      /\ at = "got" /\ pc = "program"
      /\ UNCHANGED <<vars, text>>
  BY DEF CatInv, cat_writes, Returned
<1>2. UNCHANGED <<length, pc, fd_offset>>
  BY <1>1 DEF vars, fileVars
<1>3. /\ length \in Nat /\ fd_offset \in Nat /\ fd_offset <= length
      /\ result \in Int
  BY <1>1, LengthType, FileAssumption DEF Waiting, FileInv, TypeOK, ReadsAreSequential
<1>4. CASE result = 0
  <2>1. at' = "done" /\ out' = out /\ Len(out) = length
    BY <1>1, <1>4 DEF cat_writes, CatPlace
  <2> QED
    BY <1>1, <1>2, <2>1 DEF Shown, CatPlace
<1>5. CASE result # 0
  <2>1. /\ result > 0 /\ Len(buf) = result
        /\ offset = Len(out) /\ offset + result = fd_offset
        /\ offset \in Nat
    BY <1>1, <1>5 DEF CatPlace, Waiting, FileInv, TypeOK
  <2>2. out' = out \o CatWritten /\ at' = "read"
    BY <1>3, <2>1 DEF cat_writes
  <2>3. ASSUME NEW k \in 1 .. result
        PROVE  /\ offset + k \in 1 .. Len(text)
               /\ CharStored(k) = text[offset + k]
    <3>1. IsFileByte(buf[k], offset + k - 1)
      BY <1>1, <2>1 DEF Waiting, FileInv, StoredBytes
    <3>2. offset + k - 1 < length /\ offset + k \in 1 .. length
      BY <1>3, <2>1
    <3>3. buf[k][1] * BlockSize + buf[k][2] = offset + k - 1
      BY <3>1 DEF IsFileByte
    <3>4. CharStored(k) = text[offset + k - 1 + 1]
      BY <3>2, <3>3 DEF CharStored
    <3>5. offset + k - 1 + 1 = offset + k
      BY <2>1, <1>3
    <3> QED
      BY <1>1, <3>2, <3>4, <3>5 DEF Waiting
  <2>4. CatWritten \in Seq(ToSet(text)) /\ Len(CatWritten) = result
    <3>1. \A k \in 1 .. Len(text) : text[k] \in ToSet(text)
      BY <1>1, ElementOfSeq DEF Waiting
    <3>2. CatWritten \in [1 .. result -> ToSet(text)]
      BY <2>3, <3>1 DEF CatWritten
    <3>3. result \in Nat
      BY <1>3, <2>1
    <3> QED
      BY <3>2, <3>3, IsSequence
  <2>5. /\ out' \in Seq(ToSet(text))
        /\ Len(out') = Len(out) + result
        /\ \A k \in 1 .. Len(out) + result :
              out'[k] = IF k <= Len(out) THEN out[k] ELSE CatWritten[k - Len(out)]
    <3> DEFINE w == CatWritten
    <3>1. out \in Seq(ToSet(text)) /\ w \in Seq(ToSet(text)) /\ Len(w) = result /\ out' = out \o w
      BY <1>1, <2>2, <2>4 DEF Shown
    <3> HIDE DEF w
    <3>2. /\ out \o w \in Seq(ToSet(text))
          /\ Len(out \o w) = Len(out) + Len(w)
          /\ \A k \in 1 .. Len(out) + Len(w) :
                (out \o w)[k] = IF k <= Len(out) THEN out[k] ELSE w[k - Len(out)]
      BY <3>1, ConcatProperties
    <3>3. ToSet(text)' = ToSet(text)
      BY <1>1 DEF ToSet
    <3> QED
      BY <3>1, <3>2, <3>3 DEF w
  <2>6. ASSUME NEW k \in 1 .. Len(out')
        PROVE  out'[k] = text[k]
    <3>1. CASE k <= Len(out)
      <4>1. k \in 1 .. Len(out) /\ out'[k] = out[k]
        BY <1>3, <2>1, <2>5, <3>1
      <4> QED
        BY <1>1, <4>1 DEF Shown
    <3>2. CASE ~(k <= Len(out))
      <4>1. k - Len(out) \in 1 .. result /\ out'[k] = CatWritten[k - Len(out)]
        BY <1>3, <2>1, <2>5, <3>2
      <4>2. CatWritten[k - Len(out)] = CharStored(k - Len(out))
        BY <4>1 DEF CatWritten
      <4>3. offset + (k - Len(out)) = k
        BY <2>1, <4>1
      <4> QED
        BY <2>3, <4>1, <4>2, <4>3
    <3> QED
      BY <3>1, <3>2
  <2>7. Len(out') = fd_offset'
    BY <1>2, <2>1, <2>5
  <2> QED
    BY <1>1, <1>2, <1>3, <2>2, <2>5, <2>6, <2>7 DEF Shown, CatPlace
<1> QED
  BY <1>4, <1>5
-----------------------------------------------------------------------------
(* Every step of the kernel and of the programs keeps the invariant of cat.   *)
LEMMA ProgNextInv == CatInv /\ [ProgNext]_allVars => CatInv'
<1> SUFFICES ASSUME CatInv, [ProgNext]_allVars
             PROVE  CatInv'
  OBVIOUS
<1>1. CASE UNCHANGED allVars
  <2>1. FileInv'
    BY <1>1, NextInv DEF allVars, CatInv, Waiting
  <2>2. /\ UNCHANGED <<length, fd_offset, pc, nbytes, offset, buf, result>>
        /\ UNCHANGED <<program, text, at, out, last, line_start>>
    BY <1>1 DEF allVars, vars, fileVars, loopVars, progVars, grepVars
  <2> QED
    BY <2>1, <2>2 DEF CatInv, Waiting, Shown, CatPlace
<1>2. CASE ProgNext
  <2>1. Waiting' /\ program' = program
    BY <1>2, StepWaiting
       DEF CatInv, ProgNext, AnyReads, KernelReads, cat_reads, cat_writes, Reads, grep_reads,
           grep_fills, grep_keeps, grep_searches, grep_opens, grep_ends, progVars
  <2>2. ASSUME program = "cat"
        PROVE  Shown' /\ CatPlace'
    <3>1. KernelReads \/ cat_reads \/ cat_writes
      BY <1>2, <2>2 DEF ProgNext, AnyReads, grep_reads, grep_fills, grep_keeps, grep_searches,
                        grep_opens, grep_ends
    <3> QED
      BY <2>2, <3>1, CatReads, CatWaits, CatWrites
  <2> QED
    BY <2>1, <2>2 DEF CatInv
<1> QED
  BY <1>1, <1>2

(* Whatever programs run on it, read_data stays in the blocks of the file and *)
(* stores its bytes, read delivers them once and in order, and is never       *)
(* refused.                                                                   *)
THEOREM ProgramsReadFiles ==
    ProgSpec => [](TypeOK /\ BufferIsFile /\ ReadsAreSequential /\ ReadNeverFails)
<1>1. CatInv => TypeOK /\ BufferIsFile /\ ReadsAreSequential /\ ReadNeverFails
  BY InvBuffer, InvNeverFails DEF CatInv, Waiting, FileInv
<1> QED
  BY <1>1, ProgInitInv, ProgNextInv, PTL DEF ProgSpec
-----------------------------------------------------------------------------
(* Bytes delivered in order are, by their place in the file, 0, 1, 2, ...     *)
LEMMA PlacesInOrder ==
    ASSUME NEW d, NEW n \in Nat, Len(d) = n, \A k \in 1 .. n : IsFileByte(d[k], k - 1)
    PROVE  [k \in 1 .. Len(d) |-> d[k][1] * BlockSize + d[k][2]] = [k \in 1 .. n |-> k - 1]
<1>1. \A k \in 1 .. n : d[k][1] * BlockSize + d[k][2] = k - 1
  BY DEF IsFileByte
<1> QED
  BY <1>1

(* What was taken of the file, as long as its reads are in order.             *)
LEMMA TakenInOrder ==
    ASSUME FileInv
    PROVE  /\ Taken = [k \in 1 .. fd_offset |-> k - 1]
           /\ Taken \in Seq(Int) /\ Len(Taken) = fd_offset
           /\ fd_offset \in Nat /\ length \in Nat /\ fd_offset <= length
<1>1. fd_offset \in Nat /\ length \in Nat /\ fd_offset <= length
  BY LengthType, FileAssumption DEF FileInv, TypeOK, ReadsAreSequential
<1>2. Taken = [k \in 1 .. fd_offset |-> k - 1]
  BY <1>1, PlacesInOrder DEF FileInv, ReadsAreSequential, Taken
<1>3. Taken \in [1 .. fd_offset -> Int]
  BY <1>1, <1>2
<1> QED
  BY <1>1, <1>2, <1>3, IsSequence

(* Places in order, and the next ones behind them.                            *)
LEMMA PlacesConcat ==
    ASSUME NEW n \in Nat, NEW m \in Nat
    PROVE  [k \in 1 .. n + m |-> k - 1]
              = [k \in 1 .. n |-> k - 1] \o [k \in 1 .. m |-> n + k - 1]
<1> DEFINE f == [k \in 1 .. n |-> k - 1]
           g == [k \in 1 .. m |-> n + k - 1]
           h == [k \in 1 .. n + m |-> k - 1]
<1>1. f \in Seq(Int) /\ Len(f) = n /\ g \in Seq(Int) /\ Len(g) = m
  <2>1. f \in [1 .. n -> Int] /\ g \in [1 .. m -> Int]
    OBVIOUS
  <2> HIDE DEF f, g
  <2> QED
    BY <2>1, IsSequence
<1>2. h \in Seq(Int) /\ Len(h) = n + m
  <2>1. h \in [1 .. n + m -> Int] /\ n + m \in Nat
    OBVIOUS
  <2> HIDE DEF h
  <2> QED
    BY <2>1, IsSequence
<1>3. /\ \A k \in 1 .. n : f[k] = k - 1
      /\ \A k \in 1 .. m : g[k] = n + k - 1
      /\ \A k \in 1 .. n + m : h[k] = k - 1
  OBVIOUS
<1> HIDE DEF f, g, h
<1>4. /\ f \o g \in Seq(Int) /\ Len(f \o g) = n + m
      /\ \A k \in 1 .. n + m : (f \o g)[k] = IF k <= n THEN f[k] ELSE g[k - n]
  BY <1>1, ConcatProperties
<1>5. ASSUME NEW k \in 1 .. n + m
      PROVE  h[k] = (f \o g)[k]
  <2>1. CASE k <= n
    BY <1>3, <1>4, <2>1
  <2>2. CASE ~(k <= n)
    <3>1. k - n \in 1 .. m /\ n + (k - n) - 1 = k - 1
      BY <2>2
    <3> QED
      BY <1>3, <1>4, <2>2, <3>1
  <2> QED
    BY <2>1, <2>2
<1>6. h = f \o g
  BY <1>2, <1>4, <1>5, SeqEqual
<1> QED
  BY <1>6 DEF f, g, h

(* A descriptor that has just been opened.                                    *)
LEMMA DescriptorInit == Init => Descriptor!Init
<1> SUFFICES ASSUME Init PROVE Descriptor!Init
  OBVIOUS
<1>1. Taken = <<>>
  <2>1. Len(delivered) = 0
    BY DEF Init
  <2> QED
    BY <2>1 DEF Taken
<1> QED
  BY <1>1 DEF Init, Descriptor!Init, Descriptor!NONE

(* The end of a read takes all that was asked for, unless less is left.       *)
LEMMA ReturnsTakes ==
    ASSUME FileInv, FileInv', Returns
    PROVE  Descriptor!Take \/ Descriptor!Load
<1>1. /\ pc # "program" /\ pc' = "program" /\ ~GoesOn
      /\ i <= nbytes /\ offset + i <= length
      /\ i \in Nat /\ nbytes \in Nat /\ offset \in Nat
      /\ UNCHANGED <<length, nbytes>>
  BY FileAssumption DEF Returns, FileInv, Walk, TypeOK, fileVars, loopVars
<1>2. Len(Taken) = fd_offset /\ fd_offset \in Nat /\ length \in Nat /\ fd_offset <= length
      /\ Taken = [k \in 1 .. fd_offset |-> k - 1]
  BY TakenInOrder
<1>3. CASE pc = "read_file"
  <2>1. fd_offset' = fd_offset + i /\ result' = i /\ offset = fd_offset
    BY <1>3 DEF Returns, OffsetAfter, FileInv, Walk
  <2>2. i = IF nbytes <= length - fd_offset THEN nbytes ELSE length - fd_offset
    BY <1>1, <1>2, <2>1 DEF GoesOn
  <2>3. Taken' = [k \in 1 .. fd_offset + i |-> k - 1]
    <3>1. Len(delivered)' = fd_offset' /\ \A k \in 1 .. fd_offset' : IsFileByte(delivered'[k], k - 1)
      BY DEF FileInv, ReadsAreSequential, IsFileByte
    <3>2. fd_offset' \in Nat
      BY <1>1, <1>2, <2>1
    <3>3. Taken' = [k \in 1 .. fd_offset' |-> k - 1]
      BY <3>1, <3>2, PlacesInOrder DEF Taken
    <3> QED
      BY <2>1, <3>3
  <2>4. Taken' = Taken \o [k \in 1 .. i |-> fd_offset + k - 1]
    BY <1>1, <1>2, <2>3, PlacesConcat
  <2>5. Descriptor!Left = length - fd_offset
    BY <1>2 DEF Descriptor!Left
  <2>6. nbytes # -1
    BY <1>1
  <2> HIDE DEF Taken
  <2>7. Descriptor!Take
    BY <1>1, <1>2, <1>3, <2>1, <2>2, <2>4, <2>5, <2>6 DEF Descriptor!Take, Descriptor!NONE
  <2> QED
    BY <2>7
<1>4. CASE pc # "read_file"
  <2>1. result' = 0 /\ Taken' = Taken
    BY <1>4 DEF Returns, Taken
  <2> QED
    BY <1>1, <1>4, <2>1 DEF Descriptor!Load, Descriptor!NONE
<1> QED
  BY <1>3, <1>4

(* A step that does not touch the kernel's part leaves the descriptor alone.  *)
LEMMA DescriptorStays ==
    ASSUME UNCHANGED <<length, delivered, pc, nbytes, result>>
    PROVE  UNCHANGED Descriptor!vars
BY DEF Descriptor!vars, Taken

(* The call of read asks; at the end of the file it returns at once.          *)
LEMMA ReadAsks ==
    ASSUME FileInv, NEW n \in Int, read_file(n)
    PROVE  (\E m \in 0 .. WordSize - 1 : Descriptor!Ask(m)) \/ Descriptor!EndOfFile
<1>1. pc = "program" /\ fd_offset \in Nat /\ length \in Nat /\ fd_offset <= length
      /\ Descriptor!Left = length - fd_offset
  BY TakenInOrder DEF read_file, Descriptor!Left
<1>2. CASE AtEnd
  <2>1. Return(0) /\ fd_offset = length
    BY <1>2 DEF read_file, AtEnd
  <2> QED
    BY <1>1, <2>1 DEF Return, fileVars, loopVars, Descriptor!EndOfFile, Descriptor!NONE, Taken
<1>3. CASE ~AtEnd
  <2>1. ~Refused(fd_offset)
    BY <1>1, <1>3, InvNeverFails DEF ReadNeverFails
  <2>2. Call("read_file", fd_offset, n) /\ fd_offset # length
    BY <1>3, <2>1 DEF read_file, AtEnd
  <2>3. n % WordSize \in 0 .. WordSize - 1
    BY FileAssumption
  <2>4. Descriptor!Left > 0
    BY <1>1, <2>2
  <2>5. Descriptor!Ask(n % WordSize)
    BY <1>1, <2>2, <2>4 DEF Call, fileVars, Descriptor!Ask, Descriptor!NONE, Taken
  <2> QED
    BY <2>3, <2>5
<1> QED
  BY <1>2, <1>3

(* Loading a program does not move a descriptor.                              *)
LEMMA LoadLeaves ==
    ASSUME FileInv, NEW n \in Int, read_file_execute(n)
    PROVE  Descriptor!Load \/ UNCHANGED Descriptor!vars
<1>1. CASE Refused(0)
  <2>1. Return(-1) /\ length = 0 /\ pc = "program"
    <3>1. 0 \div BlockSize = 0
      BY FileAssumption
    <3>2. length \in Nat
      BY TakenInOrder
    <3> QED
      BY <1>1, <3>1, <3>2 DEF read_file_execute, Refused
  <2> QED
    BY <2>1 DEF Return, fileVars, loopVars, Descriptor!Load, Descriptor!NONE, Taken
<1>2. CASE ~Refused(0)
  <2>1. Call("read_file_execute", 0, n) /\ pc = "program"
    BY <1>2 DEF read_file_execute
  <2> QED
    BY <2>1 DEF Call, fileVars, Descriptor!vars, Taken
<1> QED
  BY <1>1, <1>2

(* Every step of the kernel and of the programs is a step of the descriptor.  *)
LEMMA DescriptorStep ==
    ASSUME CatInv, CatInv', [ProgNext]_allVars
    PROVE  [Descriptor!Next]_(Descriptor!vars)
<1>1. FileInv /\ FileInv'
  BY DEF CatInv, Waiting
<1>2. CASE AnyReads
  <2>1. PICK n \in Requests : read_file(n) \/ read_file_execute(n)
    BY <1>2 DEF AnyReads
  <2>2. n \in Int
    BY FileAssumption
  <2> QED
    BY <1>1, <2>1, <2>2, ReadAsks, LoadLeaves DEF Descriptor!Next
<1>3. CASE KernelReads
  <2>1. CASE CopyByte
    <3>1. UNCHANGED <<length, delivered, pc, nbytes, result>>
      BY <2>1 DEF CopyByte, fileVars
    <3> QED
      BY <3>1, DescriptorStays
  <2>2. CASE Returns
    BY <1>1, <2>2, ReturnsTakes DEF Descriptor!Next
  <2> QED
    BY <1>3, <2>1, <2>2 DEF KernelReads
<1>4. CASE cat_reads \/ grep_reads
  <2>1. BUFSIZE \in Int /\ last \in Int
    BY ProgramsAssumption, FileAssumption DEF CatInv, Waiting
  <2>2. PICK n \in Int : read_file(n)
    <3>1. read_file(BUFSIZE) \/ read_file(BUFSIZE - last)
      BY <1>4 DEF cat_reads, grep_reads, Reads
    <3> QED
      BY <2>1, <3>1
  <2> QED
    BY <1>1, <2>2, ReadAsks DEF Descriptor!Next
<1>5. CASE grep_opens
  <2>1. /\ length' \in Lengths /\ delivered' = <<>> /\ UNCHANGED <<pc, nbytes, result>>
        /\ program = "grep" /\ at = "next"
    BY <1>1, <1>5 DEF grep_opens, FileInv, TypeOK, loopVars
  <2>2. pc = "program"
    BY <2>1 DEF CatInv, Waiting
  <2>3. Taken' = <<>>
    <3>1. Len(delivered') = 0
      BY <2>1
    <3> QED
      BY <3>1 DEF Taken
  <2>4. Descriptor!Open
    BY <2>1, <2>2, <2>3 DEF Descriptor!Open, Descriptor!NONE
  <2> QED
    BY <2>4 DEF Descriptor!Next
<1>6. CASE cat_writes \/ grep_fills \/ grep_keeps \/ grep_searches \/ grep_ends \/ UNCHANGED allVars
  <2>1. UNCHANGED <<length, delivered, pc, nbytes, result>>
    BY <1>6 DEF cat_writes, grep_fills, grep_keeps, grep_searches, grep_ends, allVars, vars,
                fileVars, loopVars
  <2> QED
    BY <2>1, DescriptorStays
<1> QED
  BY <1>2, <1>3, <1>4, <1>5, <1>6 DEF ProgNext

(* Under every program, for any size of blocks, file and request, the reads   *)
(* of a descriptor are those of SequentialFile: nothing is skipped, repeated  *)
(* or cut short but by the end of the file.                                   *)
THEOREM ReadsAreSteps == ProgSpec => ImplementsDescriptor
<1>1. ProgInit => Descriptor!Init
  BY DescriptorInit DEF ProgInit
<1>2. CatInv /\ CatInv' /\ [ProgNext]_allVars => [Descriptor!Next]_(Descriptor!vars)
  BY DescriptorStep
<1> QED
  BY <1>1, <1>2, ProgInitInv, ProgNextInv, PTL
     DEF ProgSpec, ImplementsDescriptor, Descriptor!Spec
-----------------------------------------------------------------------------
(* cat shows the file: whatever its length, the block and the buffer, what is *)
(* on the screen is always a beginning of it, all of it in the end, and cat   *)
(* never gives up.                                                            *)
THEOREM CatShowsTheFile == ProgSpec => []CatCopiesFile
<1>1. CatInv => CatCopiesFile
  <2> SUFFICES ASSUME CatInv, program = "cat"
               PROVE  IsPrefix(out, text) /\ (at = "done" => out = text) /\ at # "failed"
    BY DEF CatCopiesFile
  <2>1. /\ out \in Seq(ToSet(text)) /\ text \in Seq(ToSet(text))
        /\ Len(out) <= Len(text)
        /\ \A k \in 1 .. Len(out) : out[k] = text[k]
    BY DEF CatInv, Waiting, Shown
  <2>2. at # "failed" /\ (at = "done" => Len(out) = Len(text))
    BY DEF CatInv, Waiting, CatPlace
  <2>3. IsPrefix(out, text)
    BY <2>1, SMT DEF IsPrefix
  <2>4. at = "done" => out = text
    BY <2>1, <2>2, SeqEqual
  <2> QED
    BY <2>2, <2>3, <2>4
<1> QED
  BY <1>1, ProgInitInv, ProgNextInv, PTL DEF ProgSpec
-----------------------------------------------------------------------------
(* grep: the place of the file that is in front of data[0], and the place of  *)
(* the line it looks at or reads on.                                          *)
Base == fd_offset - last - (IF at = "got" /\ pc = "program" THEN result ELSE 0)

LinePlace == Base + 1 + (IF at = "line" THEN line_start ELSE 0)

(* What grep has kept before it reads: the beginning of one line.             *)
Kept ==
    /\ last < BUFSIZE
    /\ \A k \in 0 .. last - 1 : data[k] = text[Base + k + 1] /\ data[k] # NL

(* What a read has to bring, and what it has brought.                         *)
Brings ==
    /\ pc # "program" => fd_offset < length /\ nbytes = BUFSIZE - last /\ i <= nbytes
    /\ pc = "program" =>
          /\ result \in 0 .. BUFSIZE - last
          /\ result = BUFSIZE - last \/ fd_offset = length
          /\ result > 0 => Len(buf) = result /\ offset + result = fd_offset
          /\ result = 0 => fd_offset = length

(* The buffer behind the lines that have been searched.                       *)
Filled ==
    /\ last <= BUFSIZE
    /\ line_start = 0 \/ line_start < last
    /\ last = BUFSIZE \/ fd_offset = length
    /\ \A k \in line_start .. last - 1 : data[k] = text[Base + k + 1]
    /\ result = 0 => /\ fd_offset = length /\ line_start = 0
                     /\ \A k \in 0 .. last - 1 : data[k] # NL

GrepHolds ==
    /\ at \in {"read", "got", "line", "next", "done"}
    /\ Base \in Nat
    /\ data[BUFSIZE] # NL
    /\ at \in {"read", "got"} => Kept
    /\ at = "got" => Brings
    /\ at = "line" => Filled
    /\ at \in {"next", "done"} => fd_offset = length

(* All matching lines before that place are printed.  A line as long as the   *)
(* buffer leaves its '\n' for the next read, which takes it for an empty line.*)
GrepFound ==
    /\ LinePlace \in LineStarts(text) \/ LinePlace = length + 1 \/ text[LinePlace] = NL
    /\ out \in Seq({LineAt(text, s) : s \in LineStarts(text)})
    /\ PrintedBefore(text, LinePlace)

GrepInv ==
    /\ Waiting
    /\ program = "grep" =>
          /\ data = [k \in 0 .. BUFSIZE |-> data[k]]
          /\ at \in {"next", "done"} => last = 0
          /\ IsSearchable(text) => GrepHolds /\ GrepFound

(* The end of a line of a text is found, and there is no other.               *)
LEMMA TextLines ==
    ASSUME NEW t, Len(t) \in Nat, NEW s \in 1 .. Len(t) + 1
    PROVE  /\ LineEnd(t, s) \in s .. Len(t) + 1
           /\ IsLineEnd(t, s, LineEnd(t, s))
           /\ \A e \in s .. Len(t) + 1 : IsLineEnd(t, s, e) => e = LineEnd(t, s)
<1> DEFINE L == Len(t)
           E == {e \in s .. L + 1 : e > L \/ t[e] = NL}
<1>1. E \subseteq Nat /\ L + 1 \in E
  OBVIOUS
<1>2. PICK m \in E : \A k \in E : m <= k
  <2> HIDE DEF E
  <2> QED
    BY <1>1, LeastNatural
<1>3. m \in s .. L + 1 /\ IsLineEnd(t, s, m)
  <2>1. \A k \in s .. m - 1 : t[k] # NL
    BY <1>2
  <2> QED
    BY <2>1 DEF IsLineEnd
<1> DEFINE g == LineEnd(t, s)
<1>4. g \in s .. L + 1 /\ IsLineEnd(t, s, g)
  BY <1>3 DEF LineEnd
<1> HIDE DEF g, L
<1>5. ASSUME NEW e \in s .. L + 1, IsLineEnd(t, s, e)
      PROVE  e = g
  <2>1. L \in Nat /\ e \in Nat /\ g \in Nat
    BY <1>4 DEF L
  <2>2. ~(e < g)
    <3>1. SUFFICES ASSUME e < g PROVE FALSE
      OBVIOUS
    <3>2. e \in s .. g - 1 /\ ~(e > L)
      BY <1>4, <2>1, <3>1
    <3> QED
      BY <1>4, <1>5, <3>2 DEF IsLineEnd, L
  <2>3. ~(g < e)
    <3>1. SUFFICES ASSUME g < e PROVE FALSE
      OBVIOUS
    <3>2. g \in s .. e - 1 /\ ~(g > L)
      BY <1>4, <1>5, <2>1, <3>1
    <3> QED
      BY <1>4, <1>5, <3>2 DEF IsLineEnd, L
  <2> QED
    BY <2>1, <2>2, <2>3
<1> QED
  BY <1>4, <1>5 DEF g, L

(* The characters of a line.                                                  *)
LEMMA LineFacts ==
    ASSUME NEW S, NEW t \in Seq(S), NEW s \in 1 .. Len(t) + 1
    PROVE  /\ LineAt(t, s) \in Seq(S)
           /\ Len(LineAt(t, s)) = LineEnd(t, s) - s
           /\ \A k \in 1 .. LineEnd(t, s) - s : LineAt(t, s)[k] = t[s + k - 1]
<1> DEFINE e == LineEnd(t, s)
           L == Len(t)
           x == LineAt(t, s)
<1>1. L \in Nat /\ e \in s .. L + 1
  BY TextLines, LenProperties
<1>2. x = SubSeq(t, s, e - 1)
  BY DEF LineAt
<1> HIDE DEF e, x
<1>3. \A k \in s .. e - 1 : t[k] \in S
  <2>1. \A k \in s .. e - 1 : k \in 1 .. L
    BY <1>1
  <2> QED
    BY <2>1, ElementOfSeq
<1> HIDE DEF L
<1>4. s \in Nat /\ e \in Nat /\ s <= e
  BY <1>1 DEF L
<1>5. /\ x \in Seq(S) /\ Len(x) = IF s <= e - 1 THEN e - 1 - s + 1 ELSE 0
      /\ \A k \in 1 .. e - 1 - s + 1 : x[k] = t[s + k - 1]
  BY <1>2, <1>3, <1>4, SubSeqProperties
<1>6. Len(x) = e - s /\ e - 1 - s + 1 = e - s
  BY <1>4, <1>5
<1> QED
  BY <1>5, <1>6 DEF e, x

(* Of the lines that start at M, o are those that start before p.             *)
Selected(o, M, t, p) ==
    \E from \in [1 .. Len(o) -> {s \in M : s < p}] :
        /\ \A s \in {r \in M : r < p} : \E n \in 1 .. Len(o) : from[n] = s
        /\ \A m, n \in 1 .. Len(o) : m < n => from[m] < from[n]
        /\ \A n \in 1 .. Len(o) : o[n] = LineAt(t, from[n])

(* In front of the first line nothing is selected.                            *)
LEMMA SelectsNothing ==
    ASSUME NEW M, NEW t, NEW p, \A s \in M : ~(s < p)
    PROVE  Selected(<<>>, M, t, p)
<1> DEFINE from == [n \in 1 .. 0 |-> 0]
<1>1. Len(<<>>) = 0 /\ {s \in M : s < p} = {} /\ 1 .. 0 = {}
  OBVIOUS
<1>2. from \in [1 .. 0 -> {s \in M : s < p}]
  BY <1>1
<1> HIDE DEF from
<1> QED
  BY <1>1, <1>2 DEF Selected

(* Where no line starts the selection may go on.                              *)
LEMMA SelectsSame ==
    ASSUME NEW o, NEW M, NEW t, NEW p, NEW q, Selected(o, M, t, p),
           \A s \in M : s < p <=> s < q
    PROVE  Selected(o, M, t, q)
<1>1. {s \in M : s < p} = {s \in M : s < q}
  OBVIOUS
<1> QED
  BY <1>1 DEF Selected

(* One line more is selected.                                                 *)
LEMMA SelectsMore ==
    ASSUME NEW S, NEW o \in Seq(S), NEW M, M \subseteq Int, NEW t, NEW p \in M, NEW q,
           Selected(o, M, t, p), LineAt(t, p) \in S,
           \A s \in M : s < q <=> s < p \/ s = p
    PROVE  Selected(Append(o, LineAt(t, p)), M, t, q)
<1> DEFINE L == Len(o)
           w == Append(o, LineAt(t, p))
           A == {s \in M : s < p}
           B == {s \in M : s < q}
<1>1. L \in Nat
  BY LenProperties
<1>2. PICK from \in [1 .. L -> A] :
          /\ \A s \in A : \E n \in 1 .. L : from[n] = s
          /\ \A m, n \in 1 .. L : m < n => from[m] < from[n]
          /\ \A n \in 1 .. L : o[n] = LineAt(t, from[n])
  BY DEF Selected
<1>3. /\ Len(w) = L + 1
      /\ \A k \in 1 .. L : w[k] = o[k]
      /\ w[L + 1] = LineAt(t, p)
  BY AppendProperties
<1>4. B = A \cup {p} /\ A \subseteq B
  OBVIOUS
<1> DEFINE h == [n \in 1 .. L + 1 |-> IF n = L + 1 THEN p ELSE from[n]]
<1>5. \A n \in 1 .. L : from[n] \in A /\ from[n] \in Int /\ from[n] < p
  BY <1>2
<1> HIDE DEF L, w, A, B
<1>6. h \in [1 .. L + 1 -> B] /\ h[L + 1] = p /\ \A n \in 1 .. L : h[n] = from[n]
  BY <1>1, <1>2, <1>4
<1> HIDE DEF h
<1>7. ASSUME NEW s \in B
      PROVE  \E n \in 1 .. L + 1 : h[n] = s
  <2>1. L + 1 \in 1 .. L + 1 /\ \A n \in 1 .. L : n \in 1 .. L + 1
    BY <1>1
  <2>2. CASE s = p
    BY <1>6, <2>1, <2>2
  <2>3. CASE s \in A
    BY <1>2, <1>6, <2>1, <2>3
  <2> QED
    BY <1>4, <2>2, <2>3
<1>8. ASSUME NEW m \in 1 .. L + 1, NEW n \in 1 .. L + 1, m < n
      PROVE  h[m] < h[n]
  <2>1. m \in 1 .. L
    BY <1>1, <1>8
  <2>2. CASE n = L + 1
    BY <1>5, <1>6, <2>1, <2>2
  <2>3. CASE n # L + 1
    <3>1. n \in 1 .. L
      BY <1>1, <2>3
    <3> QED
      BY <1>2, <1>6, <1>8, <2>1, <3>1
  <2> QED
    BY <2>2, <2>3
<1>9. ASSUME NEW n \in 1 .. L + 1
      PROVE  w[n] = LineAt(t, h[n])
  <2>1. CASE n = L + 1
    BY <1>3, <1>6, <2>1
  <2>2. CASE n # L + 1
    <3>1. n \in 1 .. L
      BY <1>1, <2>2
    <3> QED
      BY <1>2, <1>3, <1>6, <3>1
  <2> QED
    BY <2>1, <2>2
<1>10. Selected(w, M, t, q)
  <2>1. h \in [1 .. Len(w) -> B]
    BY <1>3, <1>6
  <2>2. \A s \in B : \E n \in 1 .. Len(w) : h[n] = s
    BY <1>3, <1>7
  <2>3. \A m, n \in 1 .. Len(w) : m < n => h[m] < h[n]
    BY <1>3, <1>8
  <2>4. \A n \in 1 .. Len(w) : w[n] = LineAt(t, h[n])
    BY <1>3, <1>9
  <2> QED
    BY <2>1, <2>2, <2>3, <2>4, Zenon DEF Selected, B
<1> QED
  BY <1>10 DEF w
-----------------------------------------------------------------------------
(* The numbers of a program.                                                  *)
LEMMA Numbers ==
    ASSUME Waiting
    PROVE  /\ fd_offset \in Nat /\ length \in Nat /\ fd_offset <= length
           /\ last \in Nat /\ line_start \in Nat
           /\ result \in Int /\ result >= -1
           /\ BUFSIZE \in Nat /\ BUFSIZE >= 2
           /\ text \in Seq(ToSet(text)) /\ Len(text) = length
<1>1. length \in Nat /\ FileInv
  BY LengthType, FileAssumption DEF Waiting, FileInv
<1>2. result \in Int /\ result >= -1
  BY <1>1, FileAssumption DEF FileInv, TypeOK
<1> QED
  BY <1>1, <1>2, ProgramsAssumption, FileAssumption DEF Waiting, FileInv, TypeOK, ReadsAreSequential

(* x is the string from place p of d up to place e.                           *)
IsString(x, d, p, e) == x = [k \in 1 .. e - p |-> d[p + k - 1]]

(* A string ends at its first '\0'.                                           *)
LEMMA StringFacts ==
    ASSUME NEW d, NEW p \in Nat, NEW e \in Nat, p <= e, e <= BUFSIZE, BUFSIZE \in Nat,
           d[e] = NUL, \A k \in p .. e - 1 : d[k] # NUL
    PROVE  IsString(StringAt(d, p), d, p, e)
<1> DEFINE g == CHOOSE m \in p .. BUFSIZE : d[m] = NUL /\ \A k \in p .. m - 1 : d[k] # NUL
<1>1. e \in p .. BUFSIZE
  OBVIOUS
<1>2. g \in p .. BUFSIZE /\ d[g] = NUL /\ \A k \in p .. g - 1 : d[k] # NUL
  BY <1>1
<1>3. StringAt(d, p) = [k \in 1 .. g - p |-> d[p + k - 1]]
  BY DEF StringAt
<1> HIDE DEF g
<1>4. g = e
  <2>1. g \in Nat
    BY <1>2
  <2>2. g < e => g \in p .. e - 1
    BY <1>2, <2>1
  <2>3. e < g => e \in p .. g - 1
    BY <1>2, <2>1
  <2> QED
    BY <1>2, <2>1, <2>2, <2>3
<1> QED
  BY <1>3, <1>4 DEF IsString

(* The end of the line that grep looks at, as a place of the file.            *)
LinePlaceEnd == LinePlace + (line_end - line_start)

(* The line in the buffer, and where it is in the file.                       *)
LEMMA PlaceFacts ==
    ASSUME Waiting, at = "line", IsSearchable(text), GrepHolds
    PROVE  /\ line_end \in line_start .. last /\ last <= BUFSIZE
           /\ Base \in Nat /\ Base + last = fd_offset
           /\ LinePlace = Base + 1 + line_start /\ LinePlace \in 1 .. length + 1
           /\ LinePlaceEnd = Base + 1 + line_end /\ LinePlaceEnd \in LinePlace .. fd_offset + 1
           /\ line_end = last => LinePlaceEnd = fd_offset + 1
           /\ line_end # last => LinePlaceEnd <= fd_offset /\ text[LinePlaceEnd] = NL
           /\ \A k \in line_start .. last - 1 : data[k] = text[Base + k + 1] /\ data[k] # NUL
           /\ \A k \in LinePlace .. LinePlaceEnd - 1 : text[k] # NL
<1> DEFINE e == line_end
           P == LinePlace
           Q == LinePlaceEnd
           B == Base
<1>1. /\ fd_offset \in Nat /\ length \in Nat /\ fd_offset <= length
      /\ last \in Nat /\ line_start \in Nat
      /\ BUFSIZE \in Nat /\ Len(text) = length
  BY Numbers
<1>2. /\ e \in line_start .. last
      /\ e = last \/ data[e] = NL
      /\ \A k \in line_start .. e - 1 : data[k] # NL
  BY LineEndFacts
<1>3. /\ B \in Nat /\ last <= BUFSIZE
      /\ \A k \in line_start .. last - 1 : data[k] = text[B + k + 1]
  BY DEF GrepHolds, Filled
<1>4. B = fd_offset - last /\ P = B + 1 + line_start /\ Q = P + (e - line_start)
  BY <1>1 DEF Base, LinePlace, LinePlaceEnd
<1> HIDE DEF e, P, Q, B
<1>5. /\ B + last = fd_offset /\ P \in 1 .. length + 1
      /\ Q = B + 1 + e /\ Q \in P .. fd_offset + 1
      /\ e = last => Q = fd_offset + 1
      /\ e # last => Q <= fd_offset
  BY <1>1, <1>2, <1>3, <1>4
<1>6. ASSUME e # last
      PROVE  text[Q] = NL
  <2>1. e \in line_start .. last - 1 /\ B + e + 1 = Q
    BY <1>1, <1>2, <1>3, <1>5, <1>6
  <2> QED
    BY <1>2, <1>3, <1>6, <2>1
<1>7. ASSUME NEW k \in line_start .. last - 1
      PROVE  data[k] = text[B + k + 1] /\ data[k] # NUL
  <2>1. B + k + 1 \in 1 .. Len(text)
    BY <1>1, <1>3, <1>5
  <2> QED
    BY <1>3, <2>1 DEF IsSearchable
<1>8. ASSUME NEW k \in P .. Q - 1
      PROVE  text[k] # NL
  <2> DEFINE j == k - B - 1
  <2>1. j \in line_start .. e - 1 /\ j \in line_start .. last - 1 /\ B + j + 1 = k
    BY <1>1, <1>2, <1>3, <1>4, <1>5
  <2> HIDE DEF j
  <2> QED
    BY <1>2, <1>3, <2>1
<1> QED
  BY <1>2, <1>3, <1>4, <1>5, <1>6, <1>7, <1>8 DEF e, P, Q, B

(* A line that is not kept ends in the file where it ends in the buffer, or   *)
(* is empty.                                                                  *)
LEMMA WholeLine ==
    ASSUME Waiting, at = "line", IsSearchable(text), GrepHolds,
           LinePlace \in LineStarts(text) \/ LinePlace = length + 1 \/ text[LinePlace] = NL,
           ~IsUnfinished
    PROVE  /\ LinePlace \in LineStarts(text) => LinePlaceEnd = LineEnd(text, LinePlace)
           /\ LinePlace \notin LineStarts(text) => LinePlaceEnd = LinePlace
           /\ LinePlaceEnd = length + 1 \/ text[LinePlaceEnd] = NL
<1> DEFINE e == line_end
           P == LinePlace
           Q == LinePlaceEnd
           g == LineEnd(text, P)
<1>1. /\ fd_offset \in Nat /\ length \in Nat /\ fd_offset <= length
      /\ last \in Nat /\ line_start \in Nat
      /\ BUFSIZE \in Nat /\ Len(text) = length
      /\ text \in Seq(ToSet(text))
  BY Numbers
<1>2. /\ e \in line_start .. last /\ last <= BUFSIZE
      /\ Base \in Nat /\ Base + last = fd_offset
      /\ P = Base + 1 + line_start /\ P \in 1 .. length + 1
      /\ Q = Base + 1 + e /\ Q \in P .. fd_offset + 1
      /\ e = last => Q = fd_offset + 1
      /\ e # last => Q <= fd_offset /\ text[Q] = NL
      /\ \A k \in P .. Q - 1 : text[k] # NL
  BY PlaceFacts
<1>3. P \in 1 .. Len(text) + 1
  BY <1>1, <1>2
<1>4. /\ g \in P .. length + 1
      /\ IsLineEnd(text, P, g)
      /\ \A m \in P .. length + 1 : IsLineEnd(text, P, m) => m = g
  BY <1>1, <1>3, TextLines
<1>5. /\ Len(LineAt(text, P)) = g - P
  BY <1>1, <1>3, LineFacts
<1>6. /\ last = BUFSIZE \/ fd_offset = length
      /\ result = 0 => fd_offset = length
      /\ data[BUFSIZE] # NL
      /\ ~(data[e] # NL /\ result # 0 /\ line_start # 0)
  BY DEF GrepHolds, Filled, IsUnfinished
<1> HIDE DEF e, P, Q, g
<1>7. ASSUME P \in LineStarts(text)
      PROVE  Q > length \/ text[Q] = NL
  <2>1. CASE e # last
    BY <1>2, <2>1
  <2>2. CASE fd_offset = length /\ e = last
    BY <1>1, <1>2, <2>2
  <2>3. CASE e = last /\ fd_offset # length
    <3>1. last = BUFSIZE /\ line_start = 0
      BY <1>6, <2>3
    <3>2. g - P <= BUFSIZE
      BY <1>5, <1>7 DEF IsSearchable
    <3>3. Q = P + BUFSIZE
      BY <1>1, <1>2, <2>3, <3>1
    <3>4. ~(g < Q)
      <4>1. SUFFICES ASSUME g < Q PROVE FALSE
        OBVIOUS
      <4>2. g \in P .. Q - 1 /\ ~(g > length)
        BY <1>1, <1>2, <1>4, <4>1
      <4> QED
        BY <1>1, <1>2, <1>4, <4>2 DEF IsLineEnd
    <3>5. g = Q
      BY <1>1, <1>2, <1>4, <3>2, <3>3, <3>4
    <3> QED
      BY <1>1, <1>4, <3>5 DEF IsLineEnd
  <2> QED
    BY <2>1, <2>2, <2>3
<1>8. ASSUME P \in LineStarts(text)
      PROVE  Q = g
  <2>1. Q \in P .. length + 1
    BY <1>1, <1>2
  <2>2. IsLineEnd(text, P, Q)
    BY <1>1, <1>2, <1>7, <1>8 DEF IsLineEnd
  <2> QED
    BY <1>4, <2>1, <2>2
<1>9. ASSUME P \notin LineStarts(text)
      PROVE  Q = P
  <2>1. P = length + 1 \/ text[P] = NL
    BY <1>9 DEF P
  <2>2. SUFFICES ASSUME Q # P PROVE FALSE
    OBVIOUS
  <2>3. P \in P .. Q - 1 /\ P # length + 1
    BY <1>1, <1>2, <2>2
  <2> QED
    BY <1>2, <2>1, <2>3
<1>10. Q = length + 1 \/ text[Q] = NL
  <2>1. CASE P \in LineStarts(text)
    BY <1>1, <1>2, <1>7, <2>1
  <2>2. CASE P \notin LineStarts(text)
    BY <1>9, <2>2 DEF P
  <2> QED
    BY <2>1, <2>2
<1> QED
  BY <1>8, <1>9, <1>10 DEF P, Q, g

(* The search of a line of the buffer is that of the line of the file.        *)
LEMMA SearchFacts ==
    ASSUME Waiting, at = "line", IsSearchable(text), GrepHolds,
           data = [k \in 0 .. BUFSIZE |-> data[k]],
           LinePlace \in LineStarts(text) \/ LinePlace = length + 1 \/ text[LinePlace] = NL,
           ~IsUnfinished
    PROVE  /\ (\E check \in line_start .. line_end - 1 : IsPrefix(search, StringAt(Terminated, check)))
              <=> LinePlace \in Matches(text)
           /\ LinePlace \in LineStarts(text) =>
                 StringAt(Terminated, line_start) = LineAt(text, LinePlace)
<1> DEFINE e == line_end
           P == LinePlace
           Q == LinePlaceEnd
           d == Terminated
           line == LineAt(text, P)
<1>1. /\ length \in Nat /\ last \in Nat /\ line_start \in Nat
      /\ BUFSIZE \in Nat /\ Len(text) = length
      /\ text \in Seq(ToSet(text))
  BY Numbers
<1>2. /\ e \in line_start .. last /\ last <= BUFSIZE
      /\ Base \in Nat
      /\ P = Base + 1 + line_start /\ P \in 1 .. length + 1
      /\ Q = Base + 1 + e
      /\ \A k \in line_start .. last - 1 : data[k] = text[Base + k + 1] /\ data[k] # NUL
  BY PlaceFacts
<1>3. /\ P \in LineStarts(text) => Q = LineEnd(text, P)
      /\ P \notin LineStarts(text) => Q = P
  BY WholeLine
<1>4. d[e] = NUL /\ \A k \in line_start .. e - 1 : d[k] = data[k] /\ d[k] # NUL
  <2>1. e \in 0 .. BUFSIZE
    BY <1>1, <1>2
  <2>2. \A k \in line_start .. e - 1 : k \in 0 .. BUFSIZE /\ k # e /\ k \in line_start .. last - 1
    BY <1>1, <1>2
  <2>3. d = [data EXCEPT ![e] = NUL]
    BY DEF Terminated
  <2> HIDE DEF d, e
  <2>4. d[e] = NUL
    BY <2>1, <2>3
  <2>5. \A k \in line_start .. e - 1 : d[k] = data[k]
    BY <2>2, <2>3
  <2> QED
    BY <1>2, <2>2, <2>4, <2>5
<1> HIDE DEF e, P, Q, d
<1>8. /\ e \in Nat /\ last \in Nat /\ line_start \in Nat /\ Base \in Nat
      /\ line_start <= e /\ e <= last /\ e <= BUFSIZE
      /\ P = Base + 1 + line_start
  BY <1>1, <1>2
<1>5. ASSUME NEW c \in line_start .. e
      PROVE  StringAt(d, c) = [k \in 1 .. e - c |-> text[Base + c + k]]
  <2>1. c \in Nat /\ line_start <= c /\ c <= e
    BY <1>8
  <2>2. StringAt(d, c) = [k \in 1 .. e - c |-> d[c + k - 1]]
    <3>1. \A k \in c .. e - 1 : k \in line_start .. e - 1
      BY <1>8, <2>1
    <3>2. \A k \in c .. e - 1 : d[k] # NUL
      BY <1>4, <3>1
    <3>3. c \in Nat /\ e \in Nat /\ c <= e /\ e <= BUFSIZE /\ BUFSIZE \in Nat /\ d[e] = NUL
      BY <1>1, <1>4, <1>8, <2>1
    <3>4. IsString(StringAt(d, c), d, c, e)
      BY <3>2, <3>3, StringFacts
    <3> QED
      BY <3>4 DEF IsString
  <2>3. ASSUME NEW k \in 1 .. e - c
        PROVE  d[c + k - 1] = text[Base + c + k]
    <3> DEFINE j == c + k - 1
    <3>1. k \in Int /\ 1 <= k /\ k <= e - c /\ j = c + k - 1
      BY <1>8, <2>1
    <3> HIDE DEF j
    <3>3. j \in Int /\ c <= j /\ j <= e - 1
      BY <1>8, <2>1, <3>1
    <3>4. j \in line_start .. e - 1 /\ j \in line_start .. last - 1
      BY <1>8, <2>1, <3>3
    <3>5. Base + j + 1 = Base + c + k
      BY <1>8, <2>1, <3>1
    <3>2. d[j] = text[Base + j + 1]
      BY <1>2, <1>4, <3>4
    <3> QED
      BY <3>1, <3>2, <3>5
  <2> QED
    BY <2>2, <2>3
<1>6. CASE P \notin LineStarts(text)
  <2>1. line_start .. e - 1 = {}
    BY <1>1, <1>2, <1>3, <1>6
  <2> QED
    BY <1>6, <2>1 DEF Matches, P, e
<1>7. CASE P \in LineStarts(text)
  <2>1. /\ line \in Seq(ToSet(text)) /\ Len(line) = e - line_start
        /\ \A k \in 1 .. e - line_start : line[k] = text[P + k - 1]
    <3>1. P \in 1 .. Len(text) + 1
      BY <1>1, <1>2
    <3>2. LineEnd(text, P) - P = e - line_start
      <4>1. LineEnd(text, P) = Base + 1 + e
        BY <1>2, <1>3, <1>7
      <4> QED
        BY <1>8, <4>1
    <3>3. /\ LineAt(text, P) \in Seq(ToSet(text)) /\ Len(LineAt(text, P)) = LineEnd(text, P) - P
          /\ \A k \in 1 .. LineEnd(text, P) - P : LineAt(text, P)[k] = text[P + k - 1]
      BY <1>1, <3>1, LineFacts
    <3> QED
      BY <3>2, <3>3
  <2> HIDE DEF line
  <2>2. ASSUME NEW k \in 1 .. e - line_start
        PROVE  StringAt(d, line_start + k - 1) = SubSeq(line, k, Len(line))
    <3> DEFINE c == line_start + k - 1
               x == SubSeq(line, k, e - line_start)
               y == StringAt(d, c)
               n == e - c
    <3>1. c \in line_start .. e /\ n \in Nat /\ n = e - line_start - k + 1 /\ k <= e - line_start
          /\ e - line_start \in Nat
      BY <1>8
    <3>2. y = [j \in 1 .. n |-> text[Base + c + j]]
      BY <1>5, <3>1
    <3>3. \A j \in k .. e - line_start : line[j] \in ToSet(text)
      BY <2>1, ElementOfSeq
    <3>4. /\ x \in Seq(ToSet(text)) /\ Len(x) = n
          /\ \A j \in 1 .. n : x[j] = line[k + j - 1]
      BY <2>1, <3>1, <3>3, SubSeqProperties
    <3> HIDE DEF x, y, n, c
    <3>5. ASSUME NEW j \in 1 .. n
          PROVE  x[j] = text[Base + c + j]
      <4> DEFINE m == k + j - 1
      <4>1. m \in 1 .. e - line_start /\ P + m - 1 = Base + c + j
        <5>1. c = line_start + k - 1 /\ k \in Nat /\ k >= 1 /\ j \in Nat /\ j >= 1 /\ j <= n
          BY <3>1 DEF c
        <5>2. m = k + j - 1 /\ m \in Nat
          BY <5>1
        <5> HIDE DEF m
        <5>3. m >= 1 /\ m <= e - line_start
          <6>1. n = e - line_start - k + 1 /\ n \in Nat
            BY <3>1
          <6>5. e \in Int /\ line_start \in Int /\ k \in Int
            BY <1>8, <5>1
          <6>2. k + n - 1 = e - line_start
            BY <6>1, <6>5
          <6>3. m >= 1
            BY <5>1, <5>2
          <6>4. m <= k + n - 1
            BY <5>1, <5>2, <6>1
          <6> QED
            BY <6>2, <6>3, <6>4
        <5>4. P + m - 1 = Base + c + j
          <6>1. P = Base + 1 + line_start /\ Base \in Int /\ line_start \in Int
            BY <1>8
          <6>2. c = line_start + k - 1 /\ m = k + j - 1 /\ k \in Int /\ j \in Int
            BY <5>1, <5>2
          <6> QED
            BY <6>1, <6>2
        <5> QED
          BY <1>8, <5>2, <5>3, <5>4
      <4> HIDE DEF m
      <4>2. line[m] = text[P + m - 1]
        BY <2>1, <4>1
      <4> QED
        BY <3>4, <4>1, <4>2 DEF m
    <3>6. x = [j \in 1 .. n |-> x[j]]
      BY <3>4
    <3>7. x = y
      BY <3>2, <3>5, <3>6
    <3> QED
      BY <2>1, <3>7 DEF x, y, c
  <2>3. StringAt(d, line_start) = line
    <3>1. line_start \in line_start .. e
      BY <1>1, <1>2
    <3>2. StringAt(d, line_start) = [k \in 1 .. e - line_start |-> text[Base + line_start + k]]
      BY <1>5, <3>1
    <3>3. \A k \in 1 .. e - line_start : line[k] = text[Base + line_start + k]
      <4>1. \A k \in 1 .. e - line_start : P + k - 1 = Base + line_start + k
        BY <1>1, <1>2
      <4> QED
        BY <2>1, <4>1
    <3>4. line = [k \in 1 .. e - line_start |-> line[k]]
      BY <2>1
    <3> QED
      BY <3>2, <3>3, <3>4
  <2>4. (\E check \in line_start .. e - 1 : IsPrefix(search, StringAt(d, check)))
           <=> \E k \in 1 .. Len(line) : IsPrefix(search, SubSeq(line, k, Len(line)))
    <3>1. ASSUME NEW check \in line_start .. e - 1, IsPrefix(search, StringAt(d, check))
          PROVE  \E k \in 1 .. Len(line) : IsPrefix(search, SubSeq(line, k, Len(line)))
      <4> DEFINE k == check - line_start + 1
      <4>1. k \in 1 .. e - line_start /\ line_start + k - 1 = check
        <5>1. check \in Int /\ line_start <= check /\ check <= e - 1
          BY <1>8
        <5> QED
          BY <1>8, <5>1
      <4> HIDE DEF k
      <4> QED
        BY <2>1, <2>2, <3>1, <4>1
    <3>2. ASSUME NEW k \in 1 .. Len(line), IsPrefix(search, SubSeq(line, k, Len(line)))
          PROVE  \E check \in line_start .. e - 1 : IsPrefix(search, StringAt(d, check))
      <4> DEFINE check == line_start + k - 1
      <4>1. check \in line_start .. e - 1 /\ k \in 1 .. e - line_start
        <5>1. k \in 1 .. e - line_start
          BY <2>1
        <5>2. k \in Int /\ 1 <= k /\ k <= e - line_start
          BY <1>8, <5>1
        <5> QED
          BY <1>8, <5>1, <5>2
      <4>2. StringAt(d, check) = SubSeq(line, k, Len(line))
        BY <2>2, <4>1
      <4> HIDE DEF check
      <4> QED
        BY <3>2, <4>1, <4>2
    <3> QED
      BY <3>1, <3>2
  <2>5. P \in Matches(text) <=> \E k \in 1 .. Len(line) : IsPrefix(search, SubSeq(line, k, Len(line)))
    BY <1>7 DEF Matches, Found, line
  <2> QED
    BY <2>3, <2>4, <2>5 DEF e, P, d, line
<1> QED
  BY <1>6, <1>7
-----------------------------------------------------------------------------
(* A step that neither prints nor goes to another line.                       *)
LEMMA FoundStays ==
    ASSUME GrepFound, UNCHANGED <<text, search, length, out>>, LinePlace' = LinePlace
    PROVE  GrepFound'
<1>1. LineStarts(text)' = LineStarts(text) /\ Matches(text)' = Matches(text)
  BY DEF LineStarts, Matches, Found, LineAt, LineEnd, IsLineEnd
<1>2. PrintedBefore(text, LinePlace)'
  <2>1. Selected(out, Matches(text), text, LinePlace)
    BY DEF GrepFound, PrintedBefore, Selected
  <2>2. Selected(out', Matches(text)', text', LinePlace')
    BY <1>1, <2>1
  <2>3. PrintedBefore(text, LinePlace)' <=> Selected(out', Matches(text)', text', LinePlace')
    BY DEF PrintedBefore, Selected
  <2> QED
    BY <2>2, <2>3
<1>3. {LineAt(text, s) : s \in LineStarts(text)}' = {LineAt(text, s) : s \in LineStarts(text)}
  BY <1>1 DEF LineAt, LineEnd, IsLineEnd
<1> QED
  BY <1>1, <1>2, <1>3 DEF GrepFound

(* A call of read by grep: at the end of the file, or a walk from where it is.*)
LEMMA GrepReads ==
    ASSUME Waiting, GrepHolds, grep_reads
    PROVE  GrepHolds' /\ LinePlace' = LinePlace
<1>1. /\ at = "read" /\ at' = "got" /\ pc = "program"
      /\ read_file(BUFSIZE - last)
      /\ UNCHANGED <<text, data, last, line_start>>
  BY DEF grep_reads, Reads, read_file, grepVars
<1>2. /\ length \in Nat /\ fd_offset \in Nat /\ fd_offset <= length /\ last \in Nat
      /\ BUFSIZE \in Nat /\ ReadNeverFails
  BY Numbers, InvNeverFails DEF Waiting
<1>3. UNCHANGED <<length, fd_offset>>
  BY <1>1 DEF read_file, Return, Call, fileVars
<1>4. Kept /\ Base \in Nat /\ data[BUFSIZE] # NL /\ Base = fd_offset - last
  BY <1>1, <1>2 DEF GrepHolds, Base
<1>5. last < BUFSIZE
  BY <1>4 DEF Kept
<1>6. Base' = Base /\ Brings'
  <2>1. CASE AtEnd
    <3>1. result' = 0 /\ pc' = "program"
      BY <1>1, <2>1 DEF read_file, Return
    <3>2. Base' = fd_offset - last - 0
      BY <1>1, <1>3, <3>1 DEF Base
    <3> QED
      BY <1>1, <1>2, <1>3, <1>4, <1>5, <2>1, <3>1, <3>2 DEF Brings, AtEnd
  <2>2. CASE ~AtEnd
    <3>1. Call("read_file", fd_offset, BUFSIZE - last)
      BY <1>1, <1>2, <2>2 DEF read_file, ReadNeverFails
    <3>2. (BUFSIZE - last) % WordSize = BUFSIZE - last
      BY <1>2, <1>5, ProgramsAssumption, FileAssumption
    <3>3. pc' = "read_file" /\ nbytes' = BUFSIZE - last /\ i' = 0 /\ fd_offset < length
      BY <1>2, <2>2, <3>1, <3>2 DEF Call, AtEnd
    <3>4. Base' = fd_offset - last - 0
      BY <1>1, <1>3, <3>3 DEF Base
    <3> QED
      BY <1>1, <1>2, <1>3, <1>4, <1>5, <3>3, <3>4 DEF Brings
  <2> QED
    BY <2>1, <2>2
<1>7. Kept'
  BY <1>1, <1>4, <1>6 DEF Kept
<1>8. GrepHolds'
  BY <1>1, <1>4, <1>6, <1>7 DEF GrepHolds
<1>9. LinePlace' = LinePlace
  BY <1>1, <1>6 DEF LinePlace
<1> QED
  BY <1>8, <1>9

(* The kernel stores what is asked for, or what the file still has.           *)
LEMMA GrepWaits ==
    ASSUME Waiting, GrepHolds, program = "grep", KernelReads
    PROVE  GrepHolds' /\ LinePlace' = LinePlace
<1>1. pc # "program" /\ at = "got" /\ pc = "read_file"
  <2>1. pc # "program"
    BY DEF KernelReads, CopyByte, Returns
  <2> QED
    BY <2>1 DEF Waiting
<1>2. UNCHANGED <<text, at, length, data, last, line_start, nbytes, offset>>
  BY DEF KernelReads, CopyByte, Returns, progVars, grepVars, fileVars, loopVars
<1>3. /\ Kept /\ Base \in Nat /\ data[BUFSIZE] # NL
      /\ fd_offset < length /\ nbytes = BUFSIZE - last /\ i <= nbytes
  BY <1>1 DEF GrepHolds, Brings
<1>4. /\ length \in Nat /\ fd_offset \in Nat /\ last \in Nat
      /\ BUFSIZE \in Nat
  BY Numbers
<1>5. i \in Nat /\ offset = fd_offset /\ Len(buf) = i
  BY <1>1 DEF Waiting, FileInv, Walk, TypeOK
<1>6. Base' = Base /\ Brings'
  <2>1. Base = fd_offset - last
    BY <1>1, <1>4 DEF Base
  <2>2. CASE CopyByte
    <3>1. UNCHANGED <<pc, fd_offset>> /\ i' = i + 1 /\ i < nbytes
      BY <2>2 DEF CopyByte, GoesOn
    <3>2. Base' = fd_offset - last - 0
      BY <1>1, <1>2, <3>1 DEF Base
    <3> QED
      BY <1>1, <1>2, <1>3, <1>4, <1>5, <2>1, <3>1, <3>2 DEF Brings
  <2>3. CASE Returns
    <3>1. /\ pc' = "program" /\ result' = i /\ fd_offset' = fd_offset + i
          /\ buf' = buf /\ ~(i < nbytes /\ offset + i < length)
      BY <1>1, <2>3 DEF Returns, OffsetAfter, loopVars, GoesOn
    <3>2. Base' = fd_offset + i - last - i
      <4>1. at' = "got" /\ last' = last
        BY <1>1, <1>2
      <4>2. Base' = fd_offset' - last' - result'
        BY <3>1, <4>1 DEF Base
      <4> QED
        BY <1>4, <1>5, <3>1, <4>1, <4>2
    <3>3. Base' = Base
      BY <1>4, <1>5, <2>1, <3>2
    <3>4. fd_offset' <= length
      BY <1>1, <1>5, <3>1 DEF Waiting, FileInv, Walk
    <3>5. i = BUFSIZE - last \/ fd_offset + i = length
      BY <1>3, <1>4, <1>5, <3>1, <3>4
    <3>6. i > 0
      <4>1. nbytes > 0
        BY <1>3, <1>4 DEF Kept
      <4> QED
        BY <1>3, <1>4, <1>5, <3>1, <4>1
    <3> QED
      BY <1>2, <1>3, <1>4, <1>5, <3>1, <3>3, <3>5, <3>6 DEF Brings
  <2> QED
    BY <2>2, <2>3 DEF KernelReads
<1>7. Kept'
  BY <1>2, <1>3, <1>6 DEF Kept
<1>8. GrepHolds'
  BY <1>1, <1>2, <1>3, <1>6, <1>7 DEF GrepHolds
<1>9. LinePlace' = LinePlace
  BY <1>1, <1>2, <1>6 DEF LinePlace
<1> QED
  BY <1>8, <1>9

(* A character that the kernel has stored is that of the file.                *)
LEMMA StoredFacts ==
    ASSUME Waiting, result > 0, Len(buf) = result, offset + result = fd_offset,
           NEW k \in 1 .. result
    PROVE  offset + k \in 1 .. Len(text) /\ CharStored(k) = text[offset + k]
<1>1. /\ length \in Nat /\ fd_offset \in Nat /\ fd_offset <= length
      /\ result \in Int /\ offset \in Nat
  BY Numbers DEF Waiting, FileInv, TypeOK
<1>2. IsFileByte(buf[k], offset + k - 1)
  BY DEF Waiting, FileInv, StoredBytes
<1>3. offset + k - 1 < length /\ offset + k \in 1 .. length
  BY <1>1
<1>4. buf[k][1] * BlockSize + buf[k][2] = offset + k - 1
  BY <1>2 DEF IsFileByte
<1>5. CharStored(k) = text[offset + k - 1 + 1]
  BY <1>3, <1>4 DEF CharStored
<1>6. offset + k - 1 + 1 = offset + k
  BY <1>1
<1> QED
  BY <1>3, <1>5, <1>6 DEF Waiting

(* What was read continues the line that was kept.                            *)
LEMMA GrepFills ==
    ASSUME Waiting, GrepHolds, grep_fills, data = [k \in 0 .. BUFSIZE |-> data[k]]
    PROVE  GrepHolds' /\ LinePlace' = LinePlace
<1>1. /\ at = "got" /\ pc = "program"
      /\ UNCHANGED <<text, pc, length, fd_offset, result>>
  BY DEF grep_fills, Returned, vars, fileVars
<1>2. /\ length \in Nat /\ fd_offset \in Nat /\ fd_offset <= length
      /\ last \in Nat /\ BUFSIZE \in Nat /\ BUFSIZE >= 2
  BY Numbers
<1>3. /\ last < BUFSIZE
      /\ \A k \in 0 .. last - 1 : data[k] = text[Base + k + 1] /\ data[k] # NL
      /\ Base \in Nat /\ data[BUFSIZE] # NL
      /\ result \in 0 .. BUFSIZE - last
      /\ result = BUFSIZE - last \/ fd_offset = length
      /\ result > 0 => Len(buf) = result /\ offset + result = fd_offset
      /\ result = 0 => fd_offset = length
  BY <1>1 DEF GrepHolds, Kept, Brings
<1> DEFINE h == [k \in 0 .. BUFSIZE |->
                    IF k \in last .. last + result - 1 THEN CharStored(k - last + 1) ELSE data[k]]
<1>4. data' = h /\ last' = last + result /\ line_start' = 0 /\ at' = "line"
  <2>1. result # -1
    BY <1>2, <1>3
  <2> QED
    BY <2>1 DEF grep_fills
<1>5. Base' = Base /\ Base = fd_offset - last - result
  <2>1. Base = fd_offset - last - result /\ Base' = fd_offset - (last + result) - 0
    BY <1>1, <1>4 DEF Base
  <2> QED
    BY <1>2, <1>3, <2>1
<1>6. /\ \A k \in 0 .. BUFSIZE : h[k] = IF k \in last .. last + result - 1
                                        THEN CharStored(k - last + 1) ELSE data[k]
  OBVIOUS
<1> HIDE DEF h
<1>7. h[BUFSIZE] # NL
  <2>1. BUFSIZE \in 0 .. BUFSIZE /\ BUFSIZE \notin last .. last + result - 1
    BY <1>2, <1>3
  <2> QED
    BY <1>3, <1>6, <2>1
<1>8. ASSUME NEW k \in 0 .. last + result - 1
      PROVE  h[k] = text[Base + k + 1] /\ (result = 0 => h[k] # NL)
  <2>1. k \in 0 .. BUFSIZE
    BY <1>2, <1>3
  <2>2. CASE k < last
    <3>1. k \in 0 .. last - 1 /\ k \notin last .. last + result - 1
      BY <1>2, <1>3, <2>2
    <3>2. h[k] = data[k]
      BY <1>6, <2>1, <3>1
    <3> QED
      BY <1>3, <3>1, <3>2
  <2>3. CASE ~(k < last)
    <3> DEFINE j == k - last + 1
    <3>1. k \in last .. last + result - 1 /\ j \in 1 .. result /\ result > 0
      BY <1>2, <1>3, <2>3
    <3>2. offset \in Nat /\ offset + j = Base + k + 1
      <4>1. offset \in Nat
        BY DEF Waiting, FileInv, TypeOK
      <4>2. offset + result = fd_offset /\ result \in Nat
        BY <1>2, <1>3, <3>1
      <4>3. Base = fd_offset - last - result /\ Base \in Nat /\ k \in Nat
        BY <1>2, <1>3, <1>5
      <4>4. offset = fd_offset - result /\ j = k - last + 1
        BY <1>2, <4>1, <4>2
      <4> HIDE DEF j
      <4>5. fd_offset \in Nat /\ last \in Nat /\ result \in Nat
        BY <1>2, <4>2
      <4>6. offset + j = fd_offset - result + (k - last + 1)
        BY <4>4
      <4>7. fd_offset - result + (k - last + 1) = fd_offset - last - result + k + 1
        BY <4>3, <4>5
      <4> QED
        BY <4>1, <4>3, <4>6, <4>7
    <3>3. h[k] = CharStored(j)
      BY <1>6, <2>1, <3>1
    <3> HIDE DEF j
    <3>4. CharStored(j) = text[offset + j]
      BY <1>3, <3>1, StoredFacts
    <3> QED
      BY <3>1, <3>2, <3>3, <3>4
  <2> QED
    BY <2>2, <2>3
<1>9. Filled'
  <2>1. last' <= BUFSIZE /\ line_start' = 0
    BY <1>2, <1>3, <1>4
  <2>2. last' = BUFSIZE \/ fd_offset' = length'
    BY <1>1, <1>2, <1>3, <1>4
  <2>3. line_start' .. last' - 1 = 0 .. last + result - 1 /\ 0 .. last' - 1 = 0 .. last + result - 1
    <3>1. result \in Nat /\ last' = last + result /\ line_start' = 0
      BY <1>2, <1>3, <1>4
    <3> QED
      BY <1>2, <3>1
  <2>4. \A k \in line_start' .. last' - 1 : data'[k] = text'[Base' + k + 1]
    BY <1>1, <1>4, <1>5, <1>8, <2>3
  <2>5. result' = 0 => fd_offset' = length' /\ \A k \in 0 .. last' - 1 : data'[k] # NL
    BY <1>1, <1>3, <1>4, <1>8, <2>3
  <2> QED
    BY <2>1, <2>2, <2>4, <2>5 DEF Filled
<1>10. GrepHolds'
  BY <1>3, <1>4, <1>5, <1>7, <1>9 DEF GrepHolds
<1>11. LinePlace' = LinePlace
  <2>1. LinePlace' = Base + 1 + 0 /\ LinePlace = Base + 1 + 0
    BY <1>1, <1>4, <1>5 DEF LinePlace
  <2> QED
    BY <2>1
<1> QED
  BY <1>10, <1>11

(* The buffer with the end of the line marked.                                *)
LEMMA TerminatedFacts ==
    ASSUME Waiting, at = "line", GrepHolds, last <= BUFSIZE, data = [k \in 0 .. BUFSIZE |-> data[k]]
    PROVE  /\ Terminated = [k \in 0 .. BUFSIZE |-> Terminated[k]]
           /\ Terminated[line_end] = NUL
           /\ \A k \in 0 .. BUFSIZE : k # line_end => Terminated[k] = data[k]
           /\ Terminated[BUFSIZE] # NL
<1> DEFINE e == line_end
           d == Terminated
<1>1. /\ last \in Nat /\ line_start \in Nat /\ BUFSIZE \in Nat
      /\ data[BUFSIZE] # NL
  BY Numbers DEF GrepHolds
<1>2. e \in 0 .. BUFSIZE
  BY <1>1, LineEndFacts
<1>3. d = [data EXCEPT ![e] = NUL]
  BY DEF Terminated
<1> HIDE DEF e, d
<1>4. d = [k \in 0 .. BUFSIZE |-> IF k = e THEN NUL ELSE data[k]]
  BY <1>2, <1>3
<1>5. BUFSIZE \in 0 .. BUFSIZE
  BY <1>1
<1>6. d = [k \in 0 .. BUFSIZE |-> d[k]]
  BY <1>4
<1>7. d[e] = NUL /\ \A k \in 0 .. BUFSIZE : k # e => d[k] = data[k]
  BY <1>2, <1>4
<1>8. d[BUFSIZE] # NL
  BY <1>1, <1>5, <1>7, ProgramsAssumption
<1> QED
  BY <1>6, <1>7, <1>8 DEF e, d

(* The beginning of a line goes to the beginning of the buffer.               *)
LEMMA GrepKeeps ==
    ASSUME Waiting, IsSearchable(text), GrepHolds, grep_keeps, data = [k \in 0 .. BUFSIZE |-> data[k]]
    PROVE  GrepHolds' /\ LinePlace' = LinePlace
<1> DEFINE d == Terminated
           n == last - line_start
           w == StringAt(d, line_start)
           s == Append(w, NUL)
           S == {d[k] : k \in 0 .. BUFSIZE} \cup {NUL}
<1>1. /\ at = "line" /\ IsUnfinished
      /\ data' = CopiedDown(d, line_start)
      /\ last' = n /\ at' = "read"
      /\ UNCHANGED <<text, pc, length, fd_offset, result, line_start>>
  BY DEF grep_keeps, vars, fileVars
<1>2. /\ length \in Nat /\ fd_offset \in Nat /\ fd_offset <= length
      /\ last \in Nat /\ line_start \in Nat /\ BUFSIZE \in Nat
  BY Numbers
<1>3. /\ line_start # 0 /\ last <= BUFSIZE /\ line_start < last
      /\ Base \in Nat /\ Base = fd_offset - last
  BY <1>1, <1>2 DEF GrepHolds, Filled, IsUnfinished, Base
<1>4. line_end = last /\ \A k \in line_start .. last - 1 : data[k] # NL
  <2>1. data[line_end] # NL
    BY <1>1 DEF IsUnfinished
  <2> QED
    BY <1>1, <2>1, LineEndFacts
<1>5. \A k \in line_start .. last - 1 : data[k] = text[Base + k + 1] /\ data[k] # NUL
  BY <1>1, PlaceFacts
<1>6. /\ d[last] = NUL
      /\ \A k \in 0 .. BUFSIZE : k # last => d[k] = data[k]
      /\ d[BUFSIZE] # NL
  BY <1>1, <1>3, <1>4, TerminatedFacts
<1> HIDE DEF d
<1>7. n \in Nat /\ n > 0 /\ n < BUFSIZE
  BY <1>2, <1>3
<1>8. \A k \in line_start .. last - 1 : k \in 0 .. BUFSIZE /\ d[k] = data[k] /\ d[k] # NUL
  <2>1. \A k \in line_start .. last - 1 : k \in 0 .. BUFSIZE /\ k # last
    BY <1>2, <1>3
  <2> QED
    BY <1>5, <1>6, <2>1
<1>9. w = [k \in 1 .. n |-> d[line_start + k - 1]]
  <2>1. line_start <= last
    BY <1>2, <1>3
  <2>2. IsString(StringAt(d, line_start), d, line_start, last)
    BY <1>2, <1>3, <1>6, <1>8, <2>1, StringFacts
  <2> QED
    BY <2>2 DEF IsString
<1> HIDE DEF w
<1>10. ASSUME NEW k \in 1 .. n
       PROVE  line_start + k - 1 \in line_start .. last - 1
  BY <1>2, <1>3
<1>11. w \in Seq(S) /\ Len(w) = n
  <2>1. \A k \in 1 .. n : d[line_start + k - 1] \in S
    BY <1>8, <1>10
  <2> HIDE DEF S, n
  <2>2. w \in [1 .. n -> S]
    BY <1>9, <2>1
  <2> QED
    BY <1>7, <2>2, IsSequence
<1>12. /\ Len(s) = n + 1
       /\ \A k \in 1 .. n : s[k] = w[k]
  <2> HIDE DEF S, n
  <2>1. NUL \in S
    BY DEF S
  <2> QED
    BY <1>11, <2>1, AppendProperties
<1>13. data' = [k \in 0 .. BUFSIZE |-> IF k < Len(s) THEN s[k + 1] ELSE d[k]]
  BY <1>1 DEF CopiedDown, w
<1> HIDE DEF s, S
<1>14. data'[BUFSIZE] # NL
  <2>1. BUFSIZE \in 0 .. BUFSIZE /\ ~(BUFSIZE < Len(s))
    BY <1>2, <1>7, <1>12
  <2> QED
    BY <1>6, <1>13, <2>1
<1>15. ASSUME NEW k \in 0 .. n - 1
       PROVE  data'[k] = text[Base + line_start + k + 1] /\ data'[k] # NL
  <2> DEFINE j == line_start + k
  <2>1. /\ k \in 0 .. BUFSIZE /\ k < Len(s) /\ k + 1 \in 1 .. n
        /\ line_start + (k + 1) - 1 = j /\ j \in line_start .. last - 1
        /\ Base + j + 1 = Base + line_start + k + 1
    <3>1. /\ line_start + (k + 1) - 1 = j /\ j \in line_start .. last - 1
          /\ Base + j + 1 = Base + line_start + k + 1
      <4>1. k \in Nat /\ k < last - line_start
        BY <1>2, <1>3
      <4>2. j \in Nat /\ line_start <= j /\ j < last
        BY <1>2, <4>1
      <4>3. line_start + (k + 1) - 1 = j
        BY <1>2, <4>1
      <4>4. Base + j + 1 = Base + line_start + k + 1
        BY <1>2, <1>3, <4>1
      <4> HIDE DEF j
      <4> QED
        BY <1>2, <4>2, <4>3, <4>4
    <3> HIDE DEF j, n
    <3>2. k \in 0 .. BUFSIZE /\ k < n + 1 /\ k + 1 \in 1 .. n
      BY <1>2, <1>7
    <3> QED
      BY <1>12, <3>1, <3>2
  <2> HIDE DEF j, n
  <2>2. data'[k] = s[k + 1]
    BY <1>13, <2>1
  <2>3. s[k + 1] = d[j]
    BY <1>9, <1>12, <2>1
  <2>4. d[j] = text[Base + j + 1] /\ d[j] # NL
    BY <1>4, <1>5, <1>8, <2>1
  <2> QED
    BY <2>1, <2>2, <2>3, <2>4
<1>16. Base' = Base + line_start
  <2>1. Base' = fd_offset - n - 0
    BY <1>1 DEF Base
  <2> QED
    BY <1>2, <1>3, <2>1
<1>17. Kept'
  <2>1. last' - 1 = n - 1 /\ last' < BUFSIZE
    BY <1>1, <1>7
  <2>2. \A k \in 0 .. last' - 1 : data'[k] = text'[Base' + k + 1] /\ data'[k] # NL
    BY <1>1, <1>15, <1>16, <2>1
  <2> QED
    BY <2>1, <2>2 DEF Kept
<1>18. GrepHolds'
  <2>1. Base' \in Nat
    BY <1>2, <1>3, <1>16
  <2> QED
    BY <1>1, <1>14, <1>17, <2>1 DEF GrepHolds
<1>19. LinePlace' = LinePlace
  <2>1. LinePlace' = Base' + 1 + 0 /\ LinePlace = Base + 1 + line_start
    BY <1>1 DEF LinePlace
  <2> QED
    BY <1>2, <1>3, <1>16, <2>1
<1> QED
  BY <1>18, <1>19

(* Where the next line starts behind a line that has been searched.           *)
LEMMA NextLine ==
    ASSUME Waiting, IsSearchable(text), GrepHolds, grep_searches,
           data = [k \in 0 .. BUFSIZE |-> data[k]],
           LinePlace \in LineStarts(text) \/ LinePlace = length + 1 \/ text[LinePlace] = NL
    PROVE  /\ GrepHolds'
           /\ \/ LinePlace' = LinePlaceEnd + 1 /\ line_end # last
              \/ LinePlace' = LinePlaceEnd /\ line_end = last
<1> DEFINE e == line_end
           Q == LinePlaceEnd
           d == Terminated
<1>1. /\ at = "line" /\ ~IsUnfinished /\ data' = d
      /\ UNCHANGED <<text, pc, length, fd_offset, result>>
  BY DEF grep_searches, vars, fileVars
<1>2. /\ length \in Nat /\ fd_offset \in Nat /\ fd_offset <= length
      /\ last \in Nat /\ line_start \in Nat /\ BUFSIZE \in Nat /\ BUFSIZE >= 2
  BY Numbers
<1>3. /\ e \in line_start .. last /\ last <= BUFSIZE
      /\ Base \in Nat /\ Base + last = fd_offset
      /\ Q = Base + 1 + e
  BY <1>1, PlaceFacts
<1>4. /\ last = BUFSIZE \/ fd_offset = length
      /\ \A k \in line_start .. last - 1 : data[k] = text[Base + k + 1]
      /\ result = 0 => /\ fd_offset = length /\ line_start = 0
                       /\ \A k \in 0 .. last - 1 : data[k] # NL
  BY <1>1 DEF GrepHolds, Filled
<1>5. e = last \/ data[e] = NL
  BY <1>1, LineEndFacts
<1>6. /\ \A k \in 0 .. BUFSIZE : k # e => d[k] = data[k]
      /\ d[BUFSIZE] # NL
  BY <1>1, <1>3, TerminatedFacts
<1>7. \/ /\ e + 1 >= last /\ last' = 0 /\ at' = IF result = 0 THEN "next" ELSE "read"
      \/ /\ ~(e + 1 >= last) /\ line_start' = e + 1 /\ last' = last /\ at' = "line"
  BY <1>1 DEF grep_searches
<1> HIDE DEF e, Q, d
<1>8. CASE e + 1 >= last
  <2>1. last' = 0 /\ at' \in {"next", "read"} /\ (at' = "next" => result = 0)
    BY <1>7, <1>8
  <2>2. Base' = fd_offset
    <3>1. Base' = fd_offset - 0 - 0
      BY <1>1, <2>1 DEF Base
    <3> QED
      BY <1>2, <3>1
  <2>3. LinePlace' = fd_offset + 1
    <3>1. LinePlace' = fd_offset + 1 + 0
      BY <2>1, <2>2 DEF LinePlace
    <3> QED
      BY <1>2, <3>1
  <2>4. Kept'
    <3>1. 0 .. last' - 1 = {} /\ last' < BUFSIZE
      BY <1>2, <2>1
    <3> QED
      BY <3>1 DEF Kept
  <2>5. GrepHolds'
    BY <1>1, <1>2, <1>4, <1>6, <2>1, <2>2, <2>4 DEF GrepHolds
  <2>6. \/ LinePlace' = Q + 1 /\ e # last
        \/ LinePlace' = Q /\ e = last
    <3>1. e \in Int /\ e <= last /\ last \in Int /\ Q = Base + 1 + e
          /\ Base \in Int /\ Base + last = fd_offset /\ (e = last \/ e + 1 = last)
      BY <1>2, <1>3, <1>8
    <3>2. CASE e = last
      BY <2>3, <3>1, <3>2
    <3>3. CASE e + 1 = last
      BY <2>3, <3>1, <3>3
    <3> QED
      BY <3>1, <3>2, <3>3
  <2> QED
    BY <2>5, <2>6 DEF e, Q
<1>9. CASE ~(e + 1 >= last)
  <2>1. line_start' = e + 1 /\ last' = last /\ at' = "line" /\ e + 1 < last /\ e # last
    BY <1>2, <1>3, <1>7, <1>9
  <2>2. Base' = Base
    <3>1. Base' = fd_offset - last - 0 /\ Base = fd_offset - last - 0
      BY <1>1, <2>1 DEF Base
    <3> QED
      BY <3>1
  <2>3. LinePlace' = Q + 1
    <3>1. LinePlace' = Base + 1 + (e + 1)
      BY <2>1, <2>2 DEF LinePlace
    <3> QED
      BY <1>2, <1>3, <3>1
  <2>4. result # 0
    <3>1. e \in 0 .. last - 1 /\ data[e] = NL
      BY <1>2, <1>3, <1>5, <2>1
    <3> QED
      BY <1>4, <3>1
  <2>5. Filled'
    <3>1. ASSUME NEW k \in e + 1 .. last - 1
          PROVE  d[k] = text[Base + k + 1]
      <4>1. k \in 0 .. BUFSIZE /\ k # e /\ k \in line_start .. last - 1
        BY <1>2, <1>3
      <4> QED
        BY <1>4, <1>6, <4>1
    <3> QED
      BY <1>1, <1>3, <1>4, <2>1, <2>2, <2>4, <3>1 DEF Filled
  <2>6. GrepHolds'
    BY <1>1, <1>3, <1>6, <2>1, <2>2, <2>5 DEF GrepHolds
  <2> QED
    BY <2>1, <2>3, <2>6 DEF e, Q
<1> QED
  BY <1>8, <1>9

(* A searched line is printed if it matches, and no line is passed over.      *)
LEMMA GrepSearches ==
    ASSUME Waiting, IsSearchable(text), GrepHolds, GrepFound, grep_searches,
           data = [k \in 0 .. BUFSIZE |-> data[k]]
    PROVE  GrepHolds' /\ GrepFound'
<1> DEFINE P == LinePlace
           Q == LinePlaceEnd
           R == LinePlace'
           M == Matches(text)
           S == {LineAt(text, s) : s \in LineStarts(text)}
           found == \E check \in line_start .. line_end - 1 : IsPrefix(search, StringAt(Terminated, check))
<1>1. /\ at = "line" /\ ~IsUnfinished
      /\ UNCHANGED <<text, search, length>>
      /\ out' = IF found THEN Append(out, StringAt(Terminated, line_start)) ELSE out
  BY DEF grep_searches, vars, fileVars
<1>2. /\ length \in Nat /\ fd_offset \in Nat /\ fd_offset <= length
      /\ last \in Nat /\ line_start \in Nat
      /\ text \in Seq(ToSet(text)) /\ Len(text) = length
  BY Numbers
<1>3. /\ P \in LineStarts(text) \/ P = length + 1 \/ text[P] = NL
      /\ out \in Seq(S) /\ PrintedBefore(text, P)
  BY DEF GrepFound
<1>4. /\ GrepHolds'
      /\ \/ R = Q + 1 /\ line_end # last
         \/ R = Q /\ line_end = last
  BY <1>3, NextLine
<1>5. /\ line_end \in line_start .. last
      /\ P \in 1 .. length + 1 /\ Q \in P .. fd_offset + 1
      /\ Q = P + (line_end - line_start)
      /\ line_end # last => Q <= fd_offset /\ text[Q] = NL
      /\ \A k \in P .. Q - 1 : text[k] # NL
  BY <1>1, PlaceFacts DEF LinePlaceEnd
<1>6. Q = length + 1 \/ text[Q] = NL
  BY <1>1, <1>3, WholeLine
<1>7. /\ found <=> P \in M
      /\ P \in LineStarts(text) => StringAt(Terminated, line_start) = LineAt(text, P)
  BY <1>1, <1>3, SearchFacts
<1>8. found => line_end > line_start
  <2>1. SUFFICES ASSUME NEW check \in line_start .. line_end - 1 PROVE line_end > line_start
    OBVIOUS
  <2> QED
    BY <1>2, <1>5
<1>9. M \subseteq LineStarts(text) /\ M \subseteq Int
  BY <1>2 DEF Matches, LineStarts
<1> HIDE DEF P, Q, R, M, S, found
<1>10. R \in LineStarts(text) \/ R = length + 1 \/ text[R] = NL
  <2>1. CASE R = Q + 1 /\ line_end # last
    <3>1. R \in 1 .. Len(text) + 1 /\ R - 1 = Q
      <4>1. P \in Int /\ 1 <= P /\ P <= Q /\ Q \in Int /\ Q <= fd_offset
        BY <1>2, <1>5, <2>1
      <4> QED
        BY <1>2, <2>1, <4>1
    <3> QED
      BY <1>5, <2>1, <3>1 DEF LineStarts
  <2>2. CASE R = Q
    BY <1>6, <2>2
  <2> QED
    BY <1>4, <2>1, <2>2
<1>11. P <= R /\ P \in Int /\ Q \in Int /\ R \in Int /\ R <= Q + 1
  BY <1>2, <1>4, <1>5
<1>12. ASSUME NEW s \in LineStarts(text), P < s
       PROVE  ~(s < R)
  <2>1. SUFFICES ASSUME s < R PROVE FALSE
    OBVIOUS
  <2>2. s \in Int /\ (s = 1 \/ text[s - 1] = NL)
    BY <1>2 DEF LineStarts
  <2>3. s - 1 \in P .. Q - 1 /\ s # 1
    BY <1>5, <1>11, <1>12, <2>1, <2>2
  <2> QED
    BY <1>5, <2>2, <2>3
<1>13. Selected(out, M, text, P)
  BY <1>3 DEF PrintedBefore, Selected, M, P
<1>14. out' \in Seq(S) /\ Selected(out', M, text, R)
  <2>1. CASE found
    <3>1. P \in M /\ P \in LineStarts(text) /\ P < R
      <4>1. P \in M /\ line_end > line_start
        BY <1>7, <1>8, <2>1
      <4>2. P < Q
        BY <1>2, <1>5, <4>1
      <4> QED
        BY <1>4, <1>9, <1>11, <4>1, <4>2
    <3>2. out' = Append(out, LineAt(text, P))
      BY <1>1, <1>7, <2>1, <3>1
    <3>3. LineAt(text, P) \in S
      BY <3>1 DEF S
    <3>4. \A s \in M : s < R <=> s < P \/ s = P
      BY <1>9, <1>11, <1>12, <3>1
    <3>5. Selected(Append(out, LineAt(text, P)), M, text, R)
      BY <1>3, <1>9, <1>13, <3>1, <3>3, <3>4, SelectsMore
    <3>6. Append(out, LineAt(text, P)) \in Seq(S)
      BY <1>3, <3>3, AppendProperties
    <3> QED
      BY <3>2, <3>5, <3>6
  <2>2. CASE ~found
    <3>1. out' = out /\ P \notin M
      BY <1>1, <1>7, <2>2
    <3>2. \A s \in M : s < P <=> s < R
      BY <1>9, <1>11, <1>12, <3>1
    <3> QED
      BY <1>3, <1>13, <3>1, <3>2, SelectsSame
  <2> QED
    BY <2>1, <2>2
<1>15. /\ LineStarts(text)' = LineStarts(text)
       /\ Matches(text)' = M
       /\ {LineAt(text, s) : s \in LineStarts(text)}' = S
  BY <1>1 DEF LineStarts, Matches, Found, LineAt, LineEnd, IsLineEnd, M, S
<1>16. PrintedBefore(text, LinePlace)'
  <2>1. Selected(out', Matches(text)', text', LinePlace')
    BY <1>1, <1>14, <1>15 DEF R
  <2>2. PrintedBefore(text, LinePlace)' <=> Selected(out', Matches(text)', text', LinePlace')
    BY DEF PrintedBefore, Selected
  <2> QED
    BY <2>1, <2>2
<1>17. GrepFound'
  BY <1>1, <1>10, <1>14, <1>15, <1>16 DEF GrepFound, R
<1> QED
  BY <1>4, <1>17

(* A file of which nothing has been read is searched from its beginning.      *)
GrepBeginning ==
    /\ BUFSIZE \in Nat /\ BUFSIZE >= 2
    /\ length \in Nat /\ Len(text) = length
    /\ at = "read" /\ last = 0 /\ fd_offset = 0 /\ out = <<>>
    /\ data[BUFSIZE] # NL

LEMMA GrepBegins == GrepBeginning => GrepHolds /\ GrepFound
<1> SUFFICES ASSUME GrepBeginning
             PROVE  GrepHolds /\ GrepFound
  OBVIOUS
<1> USE DEF GrepBeginning
<1>1. Base = 0 /\ LinePlace = 1
  <2>1. Base = 0 - 0 - 0
    BY DEF Base
  <2>2. LinePlace = Base + 1 + 0
    BY DEF LinePlace
  <2> QED
    BY <2>1, <2>2
<1>2. Kept
  <2>1. 0 .. last - 1 = {}
    OBVIOUS
  <2> QED
    BY <2>1 DEF Kept
<1>3. GrepHolds
  BY <1>1, <1>2 DEF GrepHolds
<1>4. 1 \in LineStarts(text)
  BY DEF LineStarts
<1>5. \A s \in Matches(text) : ~(s < 1)
  BY DEF Matches, LineStarts
<1>6. Selected(out, Matches(text), text, 1)
  BY <1>5, SelectsNothing
<1>7. PrintedBefore(text, LinePlace)
  <2>1. Selected(out, Matches(text), text, LinePlace)
    BY <1>1, <1>6
  <2>2. PrintedBefore(text, LinePlace)
        <=> Selected(out, Matches(text), text, LinePlace)
    BY Zenon DEF PrintedBefore, Selected
  <2> QED
    BY <2>1, <2>2
<1>8. out \in Seq({LineAt(text, s) : s \in LineStarts(text)})
  BY EmptySeq
<1> QED
  BY <1>1, <1>3, <1>4, <1>7, <1>8 DEF GrepFound

(* The invariant of grep holds before the first file ...                      *)
LEMMA GrepInit == NL \notin Garbage /\ ProgInit => GrepInv
<1> SUFFICES ASSUME NL \notin Garbage, ProgInit
             PROVE  GrepInv
  OBVIOUS
<1>1. Waiting
  BY ProgInitInv DEF CatInv
<1>2. PICK g \in Garbage : data = [k \in 0 .. BUFSIZE |-> g]
  BY DEF ProgInit
<1>3. BUFSIZE \in Nat /\ BUFSIZE >= 2 /\ length \in Nat /\ Len(text) = length
  BY <1>1, Numbers
<1>4. data = [k \in 0 .. BUFSIZE |-> data[k]] /\ data[BUFSIZE] = g
  BY <1>2, <1>3
<1>5. GrepBeginning
  BY <1>3, <1>4 DEF GrepBeginning, ProgInit, Init
<1> QED
  BY <1>1, <1>4, <1>5, GrepBegins DEF GrepInv, GrepBeginning

(* ... and before the next.                                                   *)
LEMMA GrepOpens ==
    ASSUME NL \notin Garbage, Waiting, grep_opens, last = 0,
           data = [k \in 0 .. BUFSIZE |-> data[k]]
    PROVE  data' = [k \in 0 .. BUFSIZE |-> data'[k]] /\ last' = 0 /\ at' = "read"
           /\ GrepHolds' /\ GrepFound'
<1>1. /\ text' \in LaterTexts /\ length' = Len(text') /\ fd_offset' = 0
      /\ out' = <<>> /\ at' = "read" /\ last' = 0
  BY DEF grep_opens
<1>2. PICK g \in Garbage : data' = [data EXCEPT ![BUFSIZE] = g]
  BY DEF grep_opens
<1>3. BUFSIZE \in Nat /\ BUFSIZE >= 2 /\ BUFSIZE \in 0 .. BUFSIZE
  BY Numbers
<1>4. data' = [k \in 0 .. BUFSIZE |-> data'[k]] /\ data'[BUFSIZE] = g
  BY <1>2, <1>3
<1>5. length' \in Nat
  <2>1. text' \in Seq(ToSet(text'))
    BY <1>1, ProgramsAssumption
  <2> QED
    BY <1>1, <2>1, LenProperties
<1>6. GrepBeginning'
  BY <1>1, <1>3, <1>4, <1>5 DEF GrepBeginning
<1>7. GrepHolds' /\ GrepFound'
  BY <1>6, GrepBegins, PTL
<1> QED
  BY <1>1, <1>4, <1>7

(* Every step keeps the invariant of grep.                                    *)
LEMMA GrepNext ==
    ASSUME NL \notin Garbage, GrepInv, [ProgNext]_allVars
    PROVE  GrepInv'
<1>1. CASE UNCHANGED allVars
  <2>1. /\ UNCHANGED <<length, fd_offset, pc, nbytes, offset, buf, result, i>>
        /\ UNCHANGED <<program, text, search, at, data, last, line_start, out>>
    BY <1>1 DEF allVars, vars, fileVars, loopVars, progVars, grepVars
  <2>2. Waiting'
    <3>1. FileInv'
      BY <1>1, NextInv DEF allVars, GrepInv, Waiting
    <3> QED
      BY <2>1, <3>1 DEF GrepInv, Waiting
  <2>3. Base' = Base /\ LinePlace' = LinePlace
    BY <2>1 DEF Base, LinePlace
  <2>4. IsSearchable(text)' = IsSearchable(text)
    BY <2>1 DEF IsSearchable, LineStarts, LineAt, LineEnd, IsLineEnd
  <2>5. GrepHolds => GrepHolds'
    BY <2>1, <2>3 DEF GrepHolds, Kept, Brings, Filled
  <2>6. GrepFound => GrepFound'
    BY <2>1, <2>3, FoundStays
  <2> QED
    BY <2>1, <2>2, <2>4, <2>5, <2>6 DEF GrepInv
<1>2. CASE ProgNext
  <2>1. Waiting' /\ program' = program
    BY <1>2, StepWaiting
       DEF GrepInv, ProgNext, AnyReads, KernelReads, cat_reads, cat_writes, Reads, grep_reads,
           grep_fills, grep_keeps, grep_searches, grep_opens, grep_ends, progVars
  <2> SUFFICES ASSUME program = "grep"
               PROVE  /\ data' = [k \in 0 .. BUFSIZE |-> data'[k]]
                      /\ at' \in {"next", "done"} => last' = 0
                      /\ IsSearchable(text)' => GrepHolds' /\ GrepFound'
    BY <2>1 DEF GrepInv
  <2>2. /\ Waiting
        /\ data = [k \in 0 .. BUFSIZE |-> data[k]]
        /\ at \in {"next", "done"} => last = 0
        /\ IsSearchable(text) => GrepHolds /\ GrepFound
    BY DEF GrepInv
  <2>3. ASSUME text' = text
        PROVE  IsSearchable(text)' = IsSearchable(text)
    BY <2>3 DEF IsSearchable, LineStarts, LineAt, LineEnd, IsLineEnd
  <2>4. CASE KernelReads
    <3>1. UNCHANGED <<text, search, out, data, last, at, length>>
      BY <2>4 DEF KernelReads, progVars, grepVars, CopyByte, Returns, fileVars
    <3> QED
      BY <2>2, <2>3, <2>4, <3>1, GrepWaits, FoundStays
  <2>5. CASE grep_reads
    <3>1. UNCHANGED <<text, search, out, data, last, length>> /\ at' = "got"
      BY <2>5 DEF grep_reads, Reads, grepVars, read_file, Call, Return, fileVars
    <3> QED
      BY <2>2, <2>3, <2>5, <3>1, GrepReads, FoundStays
  <2>6. CASE grep_fills
    <3>1. UNCHANGED <<text, search, out, length>> /\ at' \in {"failed", "line"}
      BY <2>6 DEF grep_fills, vars, fileVars
    <3>2. data' = [k \in 0 .. BUFSIZE |-> data'[k]]
      BY <2>2, <2>6 DEF grep_fills, grepVars
    <3> QED
      BY <2>2, <2>3, <2>6, <3>1, <3>2, GrepFills, FoundStays
  <2>7. CASE grep_keeps
    <3>1. UNCHANGED <<text, search, out, length>> /\ at' = "read"
      BY <2>7 DEF grep_keeps, vars, fileVars
    <3>2. data' = [k \in 0 .. BUFSIZE |-> data'[k]]
      BY <2>7 DEF grep_keeps, CopiedDown
    <3> QED
      BY <2>2, <2>3, <2>7, <3>1, <3>2, GrepKeeps, FoundStays
  <2>8. CASE grep_searches
    <3>1. text' = text /\ (at' \in {"next", "done"} => last' = 0)
      <4>1. at' \in {"next", "done"} => line_end + 1 >= last
        BY <2>8 DEF grep_searches
      <4> QED
        BY <2>8, <4>1 DEF grep_searches
    <3>2. data' = [k \in 0 .. BUFSIZE |-> data'[k]]
      <4>1. data' = [data EXCEPT ![line_end] = NUL]
        BY <2>8 DEF grep_searches, Terminated
      <4> QED
        BY <2>2, <4>1
    <3> QED
      BY <2>2, <2>3, <2>8, <3>1, <3>2, GrepSearches
  <2>9. CASE grep_opens
    <3>1. last = 0
      BY <2>2, <2>9 DEF grep_opens
    <3> QED
      BY <2>2, <2>9, <3>1, GrepOpens
  <2>10. CASE grep_ends
    <3>1. /\ at = "next" /\ at' = "done"
          /\ UNCHANGED <<text, search, out, length, data, last, line_start, fd_offset, pc, result>>
      BY <2>10 DEF grep_ends, grepVars, vars, fileVars
    <3>2. Base' = Base /\ LinePlace' = LinePlace
      BY <3>1 DEF Base, LinePlace
    <3>3. GrepHolds => GrepHolds'
      BY <3>1, <3>2 DEF GrepHolds
    <3> QED
      BY <2>2, <2>3, <3>1, <3>2, <3>3, FoundStays
  <2> QED
    BY <1>2, <2>4, <2>5, <2>6, <2>7, <2>8, <2>9, <2>10
       DEF ProgNext, AnyReads, cat_reads, cat_writes
<1> QED
  BY <1>1, <1>2

(* What the invariant says of what is printed.                                *)
LEMMA GrepInvPrints == GrepInv => GrepPrintsMatches
<1> SUFFICES ASSUME GrepInv, program = "grep", IsSearchable(text)
             PROVE  /\ \E p \in 1 .. Len(text) + 1 : PrintedBefore(text, p)
                    /\ at \in {"next", "done"} => PrintedBefore(text, Len(text) + 1)
                    /\ at # "failed"
  BY DEF GrepPrintsMatches
<1>1. Waiting /\ GrepHolds /\ PrintedBefore(text, LinePlace)
  BY DEF GrepInv, GrepFound
<1>2. /\ length \in Nat /\ fd_offset \in Nat /\ fd_offset <= length
      /\ last \in Nat /\ line_start \in Nat /\ Len(text) = length
  BY <1>1, Numbers
<1>3. LinePlace \in 1 .. Len(text) + 1
  <2>1. CASE at = "line"
    BY <1>1, <1>2, <2>1, PlaceFacts
  <2>2. CASE at # "line"
    <3>1. Base \in Nat /\ Base <= length
      <4>1. CASE at = "got" /\ pc = "program"
        <5>1. result \in Nat
          BY <1>1, <1>2, <4>1, Numbers DEF GrepHolds, Brings, Kept
        <5>2. Base = fd_offset - last - result
          BY <4>1 DEF Base
        <5> QED
          BY <1>1, <1>2, <5>1, <5>2 DEF GrepHolds
      <4>2. CASE ~(at = "got" /\ pc = "program")
        <5>1. Base = fd_offset - last - 0
          BY <4>2 DEF Base
        <5> QED
          BY <1>1, <1>2, <5>1 DEF GrepHolds
      <4> QED
        BY <4>1, <4>2
    <3>2. LinePlace = Base + 1 + 0
      BY <2>2 DEF LinePlace
    <3> QED
      BY <1>2, <3>1, <3>2
  <2> QED
    BY <2>1, <2>2
<1>4. ASSUME at \in {"next", "done"}
      PROVE  LinePlace = Len(text) + 1
  <2>1. last = 0 /\ fd_offset = length
    BY <1>1, <1>4 DEF GrepInv, GrepHolds
  <2>2. Base = fd_offset - 0 - 0
    BY <1>4, <2>1 DEF Base
  <2>3. LinePlace = Base + 1 + 0
    BY <1>4 DEF LinePlace
  <2> QED
    BY <1>2, <2>1, <2>2, <2>3
<1>5. at # "failed"
  BY <1>1 DEF GrepHolds
<1> QED
  BY <1>1, <1>3, <1>4, <1>5

(* grep prints the lines that contain the pattern, all of them, whole and in  *)
(* order, in any text whose lines fit into its buffer, for any buffer, block  *)
(* size and pattern: provided that the byte behind the buffer, which it looks *)
(* at before anything has written it, does not happen to be a newline.        *)
THEOREM GrepFindsLines ==
    ASSUME NL \notin Garbage
    PROVE  ProgSpec => []GrepPrintsMatches
<1>1. ProgInit => GrepInv
  BY GrepInit
<1>2. GrepInv /\ [ProgNext]_allVars => GrepInv'
  BY GrepNext
<1> QED
  BY <1>1, <1>2, GrepInvPrints, PTL DEF ProgSpec
=============================================================================
