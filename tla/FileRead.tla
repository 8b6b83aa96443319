------------------------------ MODULE FileRead ------------------------------
(* Reading one regular file (filesys.c): read_data, which walks the data      *)
(* blocks of an inode byte by byte, under read_file, which keeps the offset   *)
(* of a descriptor, and read_file_execute, which always starts at byte 0.     *)
(* The program chooses how much it asks for, again and again.                 *)
EXTENDS Integers, Sequences

CONSTANTS BlockSize,     (* 4096                                              *)
          MaxBlocks,     (* DBLOCKS_IN_INODE = 1023                           *)
          WordSize,      (* 2^32: read_data takes nbytes as unsigned          *)
          Lengths,       (* bound: file lengths                               *)
          Requests       (* bound: values of nbytes                           *)

ASSUME FileAssumption ==
    /\ BlockSize \in Nat \ {0}
    /\ MaxBlocks \in Nat
    /\ WordSize \in Nat \ {0}
    /\ Lengths \subseteq 0 .. BlockSize * MaxBlocks
    /\ Requests \subseteq Int

VARIABLES
    inode,                (* of the file                                      *)
    length,               (* file_inode->length                               *)
    fd_offset,            (* fd_table[fd].offset                              *)
    pc,                   (* the caller of read_data, or "program"            *)
    nbytes,
    offset,               (* the argument of read_data                        *)
    i,
    data_blk_idx_inode,
    offset_in_blk,
    offset_in_new_blk,
    buf,                  (* what the call has stored so far                  *)
    result,               (* what the last call returned                      *)
    delivered             (* history: what all read_file calls have delivered *)

fileVars == <<inode, length>>
loopVars == <<nbytes, offset, i, data_blk_idx_inode, offset_in_blk, offset_in_new_blk, buf>>
vars     == <<fileVars, fd_offset, pc, loopVars, result, delivered>>

(* A byte is named by its place: <<k, p>> is byte p of data block k.          *)
Byte == (0 .. MaxBlocks) \X Int

(* Byte b is byte p of the file.                                              *)
IsFileByte(b, p) == b[2] \in 0 .. BlockSize - 1 /\ b[1] * BlockSize + b[2] = p

(* Every variable keeps its type.                                             *)
TypeOK ==
    /\ inode \in {0, 1}
    /\ length \in Lengths
    /\ fd_offset \in Nat
    /\ pc \in {"program", "read_file", "read_file_execute"}
    /\ nbytes \in 0 .. WordSize - 1
    /\ offset \in Nat
    /\ i \in Nat
    /\ data_blk_idx_inode \in Nat
    /\ offset_in_blk \in 0 .. BlockSize - 1
    /\ offset_in_new_blk \in Int
    /\ buf \in Seq(Byte)
    /\ result \in -1 .. BlockSize * MaxBlocks
    /\ delivered \in Seq(Byte)

Init ==
    /\ inode \in {0, 1}
    /\ length \in Lengths
    /\ fd_offset = 0
    /\ pc = "program"
    /\ nbytes = 0
    /\ offset = 0
    /\ i = 0
    /\ data_blk_idx_inode = 0
    /\ offset_in_blk = 0
    /\ offset_in_new_blk = 0
    /\ buf = <<>>
    /\ result = 0
    /\ delivered = <<>>
-----------------------------------------------------------------------------
(* Where in the current block the next byte is.                               *)
Place == offset_in_blk + i + offset_in_new_blk

(* read_data refuses: it compares the length with the number of a block.      *)
Refused(from) == length <= from \div BlockSize /\ inode # 0

(* The call of read_data by caller, up to its loop.                           *)
Call(caller, from, n) ==
    /\ pc' = caller
    /\ nbytes' = n % WordSize
    /\ offset' = from
    /\ i' = 0
    /\ data_blk_idx_inode' = from \div BlockSize
    /\ offset_in_blk' = from % BlockSize
    /\ offset_in_new_blk' = 0
    /\ buf' = <<>>
    /\ UNCHANGED <<fileVars, fd_offset, result, delivered>>

Return(value) ==
    /\ result' = value
    /\ UNCHANGED <<fileVars, fd_offset, pc, loopVars, delivered>>

(* Seeded fault: the end of the file is looked for after the read.            *)
AtEndUnchecked == FALSE

AtEnd == fd_offset = length

read_file(n) ==
    /\ pc = "program"
    /\ IF AtEnd THEN Return(0)
       ELSE IF Refused(fd_offset) THEN Return(-1)
       ELSE Call("read_file", fd_offset, n)

read_file_execute(n) ==
    /\ pc = "program"
    /\ IF Refused(0) THEN Return(-1) ELSE Call("read_file_execute", 0, n)

(* Seeded fault: a read ends with the block it started in.                    *)
GoesOnInBlock == i < nbytes /\ offset + i < length /\ offset_in_blk + i < BlockSize

(* The loop goes on: something is asked for, and the file has it.             *)
GoesOn == i < nbytes /\ offset + i < length

(* Seeded fault: the block is left one byte late.                             *)
LastOfBlockLate == Place = BlockSize

LastOfBlock == Place = BlockSize - 1

(* One round of the loop of read_data.                                        *)
CopyByte ==
    /\ pc # "program"
    /\ GoesOn
    /\ buf' = Append(buf, <<data_blk_idx_inode, Place>>)
    /\ IF LastOfBlock
       THEN /\ data_blk_idx_inode' = data_blk_idx_inode + 1
            /\ offset_in_new_blk' = offset_in_new_blk - BlockSize
       ELSE UNCHANGED <<data_blk_idx_inode, offset_in_new_blk>>
    /\ i' = i + 1
    /\ UNCHANGED <<fileVars, fd_offset, pc, nbytes, offset, offset_in_blk, result, delivered>>

(* The offset of the descriptor after read_file.                              *)
OffsetAfter == fd_offset + i

(* The loop is over, and so are read_data and its caller.                     *)
Returns ==
    /\ pc # "program"
    /\ ~GoesOn
    /\ pc' = "program"
    /\ IF pc = "read_file"
       THEN /\ fd_offset' = OffsetAfter
            /\ result' = i
            /\ delivered' = delivered \o buf
       ELSE result' = 0 /\ UNCHANGED <<fd_offset, delivered>>
    /\ UNCHANGED <<fileVars, loopVars>>

Next ==
    \/ \E n \in Requests : read_file(n) \/ read_file_execute(n)
    \/ CopyByte
    \/ Returns

Spec == Init /\ [][Next]_vars
-----------------------------------------------------------------------------
(* Across block ends the loop stays inside one block of the file, and what it *)
(* has stored are the bytes of the file from offset on.                       *)
BufferIsFile ==
    /\ pc # "program" =>
          /\ Place \in 0 .. BlockSize - 1
          /\ GoesOn => data_blk_idx_inode < MaxBlocks
          /\ Len(buf) = i
    /\ \A k \in 1 .. Len(buf) : IsFileByte(buf[k], offset + k - 1)

(* The reads of a descriptor, whatever their sizes, deliver every byte of the *)
(* file once and in order, and the offset never passes the end.               *)
ReadsAreSequential ==
    /\ fd_offset <= length
    /\ Len(delivered) = fd_offset
    /\ \A k \in 1 .. Len(delivered) : IsFileByte(delivered[k], k - 1)

(* The bytes that were delivered, by their place in the file.                 *)
Taken == [k \in 1 .. Len(delivered) |-> delivered[k][1] * BlockSize + delivered[k][2]]

Descriptor == INSTANCE SequentialFile WITH
                  taken <- Taken,
                  asked <- IF pc = "read_file" THEN nbytes ELSE -1

(* A read of a descriptor, with its walk over the blocks, is a single step to *)
(* its program: it delivers all that was asked for unless the file ends, with *)
(* no short read at the end of a block, and is never refused; loading a       *)
(* program in between does not disturb it.                                    *)
ImplementsDescriptor == Descriptor!Spec

(* read_file is never refused: its offset is in the file whenever it asks,    *)
(* although read_data tests something else.                                   *)
ReadNeverFails == pc = "program" /\ ~AtEnd => ~Refused(fd_offset)
=============================================================================
