------------------------------- MODULE ReadData -------------------------------
(***************************************************************************)
(* read_data (file_system.c): copying a range of a file out of its data    *)
(* blocks, one block per round of the loop.                                *)
(*                                                                         *)
(* A byte is its place in the image, <<block, offset in the block>>, so a  *)
(* byte copied from the wrong place shows.                                 *)
(***************************************************************************)
EXTENDS Integers, Sequences

CONSTANTS
    BLOCK_SIZE,
    WORD,               \* 2^32
    NumDataBlocks

ASSUME SizeAssumption == BLOCK_SIZE \in Nat \ {0} /\ WORD \in Nat \ {0}

VARIABLES
    inode,              \* the file, a length and the numbers of its blocks; arguments
    offset,             \* and locals of read_data
    length,
    wanted,             \* the length asked for
    remaining,
    cur_block_num,
    cur_block_offset,
    bytes_read,
    buf                 \* bytes copied by this call

reading == <<inode, offset, wanted, length, remaining, cur_block_num, cur_block_offset,
             bytes_read, buf>>

NoInode == [length |-> 0, block_idx |-> <<>>]

\* A uint32_t difference kept in an int32_t.
Signed(x) == LET w == x % WORD IN IF 2 * w >= WORD THEN w - WORD ELSE w

\* read_data is entered, for n bytes of f from position o.
ReadFrom(f, o, n) ==
    /\ inode' = f
    /\ offset' = o
    /\ wanted' = n
    /\ length' = n
    /\ remaining' = Signed(f.length - o)
    /\ cur_block_num' = o \div BLOCK_SIZE
    /\ cur_block_offset' = o % BLOCK_SIZE
    /\ bytes_read' = 0
    /\ buf' = <<>>

\* No call: its locals are gone.
NoReading == ReadFrom(NoInode, 0, 0)

\* Seeded fault: the end of the file does not stop the copy.
BytesToEndOfBlock(room) == IF length <= room THEN length ELSE room

\* What one round copies: up to the end of the block, of the request and of the file.
BytesToCopy(room) ==
    IF length >= room THEN (IF remaining >= room THEN room ELSE remaining)
    ELSE (IF remaining >= length THEN length ELSE remaining)

\* The comparison is unsigned, so a negative number is out of range too.
InvalidBlock == inode.block_idx[cur_block_num + 1] \notin 0 .. NumDataBlocks - 1

InLoop == bytes_read >= 0 /\ length > 0 /\ remaining > 0

\* One round of the loop.
CopyBlock ==
    /\ InLoop /\ ~InvalidBlock
    /\ LET n == BytesToCopy(BLOCK_SIZE - cur_block_offset)
           block == inode.block_idx[cur_block_num + 1]
       IN  /\ buf' = buf \o [k \in 1 .. n |-> <<block, cur_block_offset + k - 1>>]
           /\ remaining' = remaining - n
           /\ length' = length - n
           /\ bytes_read' = bytes_read + n
    /\ cur_block_offset' = 0
    /\ cur_block_num' = cur_block_num + 1
    /\ UNCHANGED <<inode, offset, wanted>>

\* The block number is not one of the image's: return -1, bytes copied or not.
FailBlock ==
    /\ InLoop /\ InvalidBlock
    /\ bytes_read' = -1
    /\ UNCHANGED <<inode, offset, wanted, length, remaining, cur_block_num, cur_block_offset, buf>>

read_data == CopyBlock \/ FailBlock

-------------------------------------------------------------------------------
(* The reference: what a file is *)

Valid(f) == \A k \in 1 .. Len(f.block_idx) : f.block_idx[k] \in 0 .. NumDataBlocks - 1

\* Byte p of the file, by the layout of the image.
ByteAt(f, p) == <<f.block_idx[p \div BLOCK_SIZE + 1], p % BLOCK_SIZE>>

\* The bytes of the file from o on, n of them or up to the end.
FileRange(f, o, n) ==
    LET left == IF o >= f.length THEN 0 ELSE f.length - o
    IN  [k \in 1 .. (IF n <= left THEN n ELSE left) |-> ByteAt(f, o + k - 1)]
===============================================================================
