------------------------------- MODULE ExecProofs -------------------------------
(***************************************************************************)
(* Proofs about module Exec, for every size, every file system image, every *)
(* command that fits MAX_COMMAND_LENGTH and every request from a position  *)
(* below 2^31: a read returns the range of the file that was asked for,    *)
(* the directory is listed entry by entry, a program gets its own          *)
(* arguments and is the file its command names.                            *)
(*                                                                         *)
(* The operators on strings come first, then one inductive invariant per   *)
(* part of the state, each with its lemma, and ExecInv puts them together. *)
(***************************************************************************)
EXTENDS Exec, NatFacts, SequenceTheorems

\* A string that ends where its array does.
IsString(c) ==
    /\ c \in Seq(Nat) /\ Len(c) \in 1 .. MAX_COMMAND_LENGTH
    /\ \A k \in 1 .. Len(c) : c[k] = NUL <=> k = Len(c)

\* A file that ends in one of its blocks.
GoodFile(f) ==
    /\ f \in [length : Nat, block_idx : Seq(Int)]
    /\ 2 * f.length < WORD
    /\ f.length <= BLOCK_SIZE * Len(f.block_idx)

\* An entry whose name is not empty and has nothing after its first NUL.
GoodEntry(d) ==
    /\ d \in [file_name : [1 .. MAX_FILE_NAME_LENGTH -> Nat], inode_idx : Nat]
    /\ d.inode_idx < Len(inodes)
    /\ d.file_name[1] # NUL
    /\ \A i, j \in 1 .. MAX_FILE_NAME_LENGTH :
          i < j /\ d.file_name[i] = NUL => d.file_name[j] = NUL

\* The array of a PCB with a word at its beginning.
Filled(s) == [k \in 1 .. MAX_COMMAND_LENGTH |-> IF k <= Len(s) THEN s[k] ELSE NUL]

\* The n bytes of a file from o on.
Bytes(f, o, n) == [k \in 1 .. n |-> ByteAt(f, o + k - 1)]

ImageInv == \E image \in Images : dentries = image.dentries /\ inodes = image.inodes

\* What read_data knows when it has copied n bytes: buf is the first n of the range, the
\* counters say what is left of it, and the loop stands at the next byte.
Copied(n) ==
    /\ n <= wanted
    /\ buf = Bytes(inode, offset, n)
    /\ \/ /\ bytes_read = -1
          /\ n < wanted /\ offset + n < inode.length
          /\ inode.block_idx[(offset + n) \div BLOCK_SIZE + 1] \notin 0 .. NumDataBlocks - 1
       \/ /\ bytes_read = n
          /\ length = wanted - n /\ remaining = inode.length - offset - n
          /\ n > 0 => remaining >= 0
          /\ InLoop => /\ cur_block_num = (offset + n) \div BLOCK_SIZE
                       /\ cur_block_offset = (offset + n) % BLOCK_SIZE

RangeInv ==
    /\ GoodFile(inode)
    /\ offset \in Nat /\ 2 * offset < WORD /\ wanted \in Nat
    /\ \E n \in Nat : Copied(n)

CommandInv ==
    /\ IsString(given)
    /\ cmd_name = IF pc = "idle" THEN Zeros ELSE Filled(FirstWord(given))
    /\ cmd_args = IF pc = "idle" THEN Zeros ELSE Filled(Rest(given))

\* Where read_dentry_by_name is: no entry before index has the name.
LookupInv ==
    pc = "search" =>
        /\ fname = cmd_name
        /\ index \in 1 .. Len(dentries) + 1
        /\ \A k \in Named(given) : k >= index
        /\ \/ result = 0
           \/ result = -1 /\ Named(given) = {}
           \/ result = index /\ result \in Named(given)

HasProgram == Named(given) # {} /\ IsProgram(FileOf(given))

\* How far the execution of the command has come, and what is in memory by then: nothing,
\* looking up the file, reading its header, looking it up again, loading it, lost in that,
\* and running.
Idle ==
    /\ pc = "idle" /\ caller = "user" /\ memory = <<>>
    /\ refused => Named(given) = {} \/ ~IsProgram(FileOf(given)) \/ given[1] = SPACE

Looking == pc = "search" /\ caller = "check" /\ memory = <<>> /\ ~refused

Checking ==
    /\ pc = "read" /\ caller = "check" /\ memory = <<>> /\ ~refused
    /\ Named(given) # {} /\ inode = FileOf(given)
    /\ offset = 0 /\ wanted = FILE_HEADER_SIZE

Opening == pc = "search" /\ caller = "load" /\ memory = <<>> /\ ~refused /\ HasProgram

Loading ==
    /\ pc = "read" /\ caller = "load" /\ ~refused
    /\ HasProgram /\ inode = FileOf(given)
    /\ offset <= inode.length /\ wanted = LOADER_BUFFER_SIZE
    /\ memory = Bytes(inode, 0, offset)

Lost == pc = "lost" /\ caller = "load" /\ ~refused /\ ~Valid(FileOf(given))

Running ==
    /\ pc \in {"user", "read"} /\ caller = "user" /\ ~refused
    /\ HasProgram
    /\ memory = FileRange(FileOf(given), 0, FileOf(given).length)

PhaseInv == Idle \/ Looking \/ Checking \/ Opening \/ Loading \/ Lost \/ Running

AnswerInv ==
    /\ pc # "user" => answer = NoAnswer
    /\ position \in 0 .. Len(dentries)
    /\ ArgumentsDelivered
    /\ ListsTheDirectory

ExecInv ==
    ImageInv /\ RangeInv /\ CommandInv /\ LookupInv /\ PhaseInv /\ AnswerInv

-------------------------------------------------------------------------------
(* read_data: the range of a file *)

\* The difference of two sizes below half a word is not changed by the conversion.
LEMMA SignedSmall ==
    ASSUME NEW a \in Nat, NEW b \in Nat, 2 * a < WORD, 2 * b < WORD
    PROVE  Signed(a - b) = a - b
<1> DEFINE w == (a - b) % WORD
<1>1. WORD \in Nat /\ WORD > 0
  BY SizeAssumption
<1>2. CASE a >= b
  <2>1. w = a - b /\ 2 * w < WORD
    BY <1>1, <1>2
  <2>2. QED BY <1>1, <2>1 DEF Signed
<1>3. CASE a < b
  <2>1. w = a - b + WORD
    BY <1>1, <1>3
  <2>2. 2 * w >= WORD
    BY <1>1, <2>1
  <2>3. QED BY <1>1, <2>1, <2>2 DEF Signed
<1>4. QED BY <1>2, <1>3

\* The block and the offset of a byte, when they are c and o.
LEMMA PlaceOfByte ==
    ASSUME NEW c \in Nat, NEW o \in 0 .. BLOCK_SIZE - 1
    PROVE  /\ (c * BLOCK_SIZE + o) \div BLOCK_SIZE = c
           /\ (c * BLOCK_SIZE + o) % BLOCK_SIZE = o
  BY SizeAssumption

\* The number of a byte, from its block and its offset.
LEMMA NumberOfByte ==
    ASSUME NEW p \in Nat
    PROVE  /\ p \div BLOCK_SIZE \in Nat /\ p % BLOCK_SIZE \in 0 .. BLOCK_SIZE - 1
           /\ p = (p \div BLOCK_SIZE) * BLOCK_SIZE + (p % BLOCK_SIZE)
<1>1. BLOCK_SIZE \in Nat /\ BLOCK_SIZE > 0
  BY SizeAssumption
<1>2. p % BLOCK_SIZE \in 0 .. BLOCK_SIZE - 1
  BY <1>1
<1>3. p \div BLOCK_SIZE \in Nat
  BY <1>1
<1>4. p = (p \div BLOCK_SIZE) * BLOCK_SIZE + (p % BLOCK_SIZE)
  <2> DEFINE c == p \div BLOCK_SIZE
             r == p % BLOCK_SIZE
  <2>1. p = BLOCK_SIZE * c + r
    BY <1>1
  <2>2. QED BY <1>1, <1>2, <1>3, <2>1
<1>5. QED BY <1>2, <1>3, <1>4

\* The block of a byte that is in the file is one of its blocks.
LEMMA BlockOfByte ==
    ASSUME NEW f, GoodFile(f), NEW p \in Nat, p < f.length
    PROVE  p \div BLOCK_SIZE + 1 \in 1 .. Len(f.block_idx)
<1>1. f.length \in Nat /\ Len(f.block_idx) \in Nat
  BY DEF GoodFile
<1> DEFINE c == p \div BLOCK_SIZE
           l == Len(f.block_idx)
<1>2. c \in Nat /\ c * BLOCK_SIZE <= p
  BY NumberOfByte, SizeAssumption
<1>3. p < l * BLOCK_SIZE
  BY <1>1, SizeAssumption DEF GoodFile
<1>4. c * BLOCK_SIZE < l * BLOCK_SIZE
  BY <1>1, <1>2, <1>3, SizeAssumption
<1>5. c < l
  BY <1>1, <1>2, <1>4, SizeAssumption
<1>6. QED BY <1>1, <1>2, <1>5

\* Ranges that follow each other make one.
LEMMA JoinBytes ==
    ASSUME NEW f, NEW o \in Nat, NEW m \in Nat, NEW n \in Nat,
           NEW q \in Nat, q = o + m, NEW l \in Nat, l = m + n
    PROVE  Bytes(f, o, m) \o Bytes(f, q, n) = Bytes(f, o, l)
<1> DEFINE S == {ByteAt(f, p) : p \in Nat}
           a == Bytes(f, o, m)
           b == Bytes(f, q, n)
           c == Bytes(f, o, l)
<1>1. /\ a \in [1 .. m -> S] /\ b \in [1 .. n -> S] /\ c \in [1 .. l -> S]
  BY DEF Bytes
<1> HIDE DEF S, a, b, c
<1>2. a \in Seq(S) /\ b \in Seq(S) /\ c \in Seq(S)
  BY <1>1, SeqDef
<1>3. Len(a) = m /\ Len(b) = n /\ Len(c) = l
  BY <1>1, <1>2, LenProperties
<1>4. a \o b \in Seq(S) /\ Len(a \o b) = l
  BY <1>2, <1>3, ConcatProperties
<1>5. ASSUME NEW i \in 1 .. l PROVE (a \o b)[i] = c[i]
  <2>1. (a \o b)[i] = IF i <= m THEN a[i] ELSE b[i - m]
    BY <1>2, <1>3, ConcatProperties
  <2>2. CASE i <= m
    BY <2>1, <2>2 DEF Bytes, a, c
  <2>3. CASE i > m
    <3>1. i - m \in 1 .. n /\ q + (i - m) - 1 = o + i - 1
      BY <2>3
    <3>2. b[i - m] = ByteAt(f, q + (i - m) - 1)
      BY <3>1 DEF Bytes, b
    <3>3. c[i] = ByteAt(f, o + i - 1)
      BY DEF Bytes, c
    <3>4. QED BY <2>1, <2>3, <3>1, <3>2, <3>3
  <2>4. i <= m \/ i > m
    OBVIOUS
  <2>5. QED BY <2>2, <2>3, <2>4
<1>6. a \o b = c
  BY <1>2, <1>3, <1>4, <1>5, SeqEqual
<1>7. QED BY <1>6 DEF a, b, c

LEMMA BytesLength ==
    ASSUME NEW f, NEW o \in Nat, NEW n \in Nat
    PROVE  Len(Bytes(f, o, n)) = n
<1> DEFINE S == {ByteAt(f, p) : p \in Nat}
<1>1. Bytes(f, o, n) \in [1 .. n -> S]
  BY DEF Bytes
<1>2. Bytes(f, o, n) \in Seq(S)
  BY <1>1, SeqDef
<1>3. QED BY <1>1, <1>2, LenProperties

\* Entering read_data.
LEMMA ReadFromRange ==
    ASSUME NEW f, GoodFile(f), NEW o \in Nat, NEW n \in Nat, 2 * o < WORD, ReadFrom(f, o, n)
    PROVE  RangeInv'
<1>1. f.length \in Nat /\ 2 * f.length < WORD
  BY DEF GoodFile
<1>2. remaining' = f.length - o
  BY <1>1, SignedSmall DEF ReadFrom
<1>3. buf' = Bytes(f, o, 0)
  BY DEF ReadFrom, Bytes
<1>4. Copied(0)'
  BY <1>1, <1>2, <1>3 DEF ReadFrom, Copied
<1>5. QED BY <1>4 DEF RangeInv, ReadFrom

LEMMA NoReadingRange == NoReading => RangeInv'
<1>1. GoodFile(NoInode) /\ 0 < WORD
  BY SizeAssumption DEF GoodFile, NoInode
<1>2. QED BY <1>1, ReadFromRange DEF NoReading

\* One round copies no more than what is left of the block, the request and the file, and
\* all of one of the three.
LEMMA BytesToCopyBounds ==
    ASSUME NEW room \in Nat, length \in Int, remaining \in Int,
           room > 0, length > 0, remaining > 0
    PROVE  LET n == BytesToCopy(room)
           IN  /\ n \in Nat /\ n > 0 /\ n <= room /\ n <= length /\ n <= remaining
               /\ n = room \/ n = length \/ n = remaining
  BY DEF BytesToCopy

LEMMA CopyBlockRange == ASSUME RangeInv, CopyBlock PROVE RangeInv'
<1>1. PICK n \in Nat : Copied(n)
  BY DEF RangeInv
<1>2. /\ GoodFile(inode) /\ inode.length \in Nat
      /\ offset \in Nat /\ 2 * offset < WORD /\ wanted \in Nat
      /\ n \in Nat /\ offset + n \in Nat
  BY <1>1 DEF RangeInv, GoodFile
<1>3. /\ n <= wanted /\ buf = Bytes(inode, offset, n)
      /\ bytes_read = n
      /\ length = wanted - n /\ remaining = inode.length - offset - n
      /\ length > 0 /\ remaining > 0
      /\ cur_block_num = (offset + n) \div BLOCK_SIZE
      /\ cur_block_offset = (offset + n) % BLOCK_SIZE
  <2>1. InLoop /\ bytes_read # -1
    BY DEF CopyBlock, InLoop
  <2>2. QED BY <1>1, <2>1 DEF Copied, InLoop
<1>4. /\ cur_block_num \in Nat /\ cur_block_offset \in 0 .. BLOCK_SIZE - 1
      /\ offset + n = cur_block_num * BLOCK_SIZE + cur_block_offset
  BY <1>2, <1>3, NumberOfByte
<1> DEFINE room == BLOCK_SIZE - cur_block_offset
           block == inode.block_idx[cur_block_num + 1]
<1>5. room \in Nat /\ room > 0
  BY <1>4, SizeAssumption
<1>6. PICK k : k = BytesToCopy(room)
  OBVIOUS
<1>7. /\ k \in Nat /\ k > 0 /\ k <= room /\ k <= length /\ k <= remaining
      /\ k = room \/ k = length \/ k = remaining
  BY <1>2, <1>3, <1>5, <1>6, BytesToCopyBounds
<1>8. /\ buf' = buf \o [i \in 1 .. k |-> <<block, cur_block_offset + i - 1>>]
      /\ remaining' = remaining - k /\ length' = length - k /\ bytes_read' = bytes_read + k
      /\ cur_block_offset' = 0 /\ cur_block_num' = cur_block_num + 1
      /\ inode' = inode /\ offset' = offset /\ wanted' = wanted
  BY <1>6 DEF CopyBlock
<1>9. [i \in 1 .. k |-> <<block, cur_block_offset + i - 1>>] = Bytes(inode, offset + n, k)
  <2>1. ASSUME NEW i \in 1 .. k
        PROVE  ByteAt(inode, offset + n + i - 1) = <<block, cur_block_offset + i - 1>>
    <3> DEFINE o == cur_block_offset + i - 1
    <3>1. o \in 0 .. BLOCK_SIZE - 1
      BY <1>4, <1>7, SizeAssumption
    <3>2. offset + n + i - 1 = cur_block_num * BLOCK_SIZE + o
      BY <1>2, <1>4, SizeAssumption
    <3> HIDE DEF o
    <3>3. /\ (offset + n + i - 1) \div BLOCK_SIZE = cur_block_num
          /\ (offset + n + i - 1) % BLOCK_SIZE = o
      BY <1>4, <3>1, <3>2, PlaceOfByte
    <3>4. QED BY <3>3 DEF ByteAt, o
  <2>2. QED BY <2>1 DEF Bytes
<1>10. buf' = Bytes(inode', offset', n + k)
  <2>1. Bytes(inode, offset, n) \o Bytes(inode, offset + n, k) = Bytes(inode, offset, n + k)
    <3>1. offset + n \in Nat /\ n + k \in Nat
      BY <1>2, <1>7
    <3>2. QED BY <1>2, <1>7, <3>1, JoinBytes DEF Bytes
  <2>2. buf' = Bytes(inode, offset, n + k)
    BY <1>3, <1>8, <1>9, <2>1
  <2>3. QED BY <1>8, <2>2
<1>11. ASSUME InLoop'
       PROVE  /\ cur_block_num' = (offset' + (n + k)) \div BLOCK_SIZE
              /\ cur_block_offset' = (offset' + (n + k)) % BLOCK_SIZE
  <2>1. k = room
    BY <1>2, <1>3, <1>7, <1>8, <1>11 DEF InLoop
  <2>2. /\ offset' + (n + k) = cur_block_num' * BLOCK_SIZE + 0
        /\ cur_block_num' \in Nat /\ 0 \in 0 .. BLOCK_SIZE - 1
    BY <1>2, <1>4, <1>8, <2>1, SizeAssumption
  <2>3. QED BY <1>8, <2>2, PlaceOfByte
<1>12. Copied(n + k)'
  <2>1. n + k <= wanted' /\ bytes_read' = n + k /\ length' = wanted' - (n + k)
    BY <1>2, <1>3, <1>7, <1>8
  <2>2. remaining' >= 0
    BY <1>2, <1>3, <1>7, <1>8
  <2>3. remaining' = inode'.length - offset' - (n + k)
    <3>1. inode.length - offset - n - k = inode.length - offset - (n + k)
      BY <1>2, <1>7
    <3>2. QED BY <1>3, <1>8, <3>1
  <2>4. QED BY <1>10, <1>11, <2>1, <2>2, <2>3 DEF Copied
<1>13. n + k \in Nat
  BY <1>7
<1>14. QED BY <1>2, <1>8, <1>12, <1>13 DEF RangeInv, GoodFile

LEMMA FailBlockRange == ASSUME RangeInv, FailBlock PROVE RangeInv'
<1>1. PICK n \in Nat : Copied(n)
  BY DEF RangeInv
<1>2. inode.length \in Nat /\ offset \in Nat /\ wanted \in Nat
  BY DEF RangeInv, GoodFile
<1>3. /\ bytes_read' = -1 /\ bytes_read # -1 /\ InLoop /\ InvalidBlock
      /\ UNCHANGED <<inode, offset, wanted, buf>>
  BY DEF FailBlock, InLoop
<1>4. Copied(n)'
  BY <1>1, <1>2, <1>3 DEF Copied, InLoop, InvalidBlock
<1>5. QED BY <1>3, <1>4 DEF RangeInv, GoodFile

\* What has been read when the loop has ended.
LEMMA RangeRead == RangeInv /\ ReadEnded => ReadsTheRange
<1> SUFFICES ASSUME RangeInv, ReadEnded PROVE ReadsTheRange
  OBVIOUS
<1>1. PICK n \in Nat : Copied(n)
  BY DEF RangeInv
<1>2. /\ GoodFile(inode) /\ inode.length \in Nat
      /\ offset \in Nat /\ wanted \in Nat
  BY DEF RangeInv, GoodFile
<1>3. ASSUME bytes_read = -1 PROVE ~Valid(inode)
  <2>1. offset + n < inode.length /\ offset + n \in Nat
    BY <1>1, <1>2, <1>3 DEF Copied
  <2>2. inode.block_idx[(offset + n) \div BLOCK_SIZE + 1] \notin 0 .. NumDataBlocks - 1
    BY <1>1, <1>3 DEF Copied
  <2>3. QED BY <1>2, <2>1, <2>2, BlockOfByte DEF Valid
<1>4. ASSUME bytes_read # -1
      PROVE  buf = FileRange(inode, offset, wanted) /\ bytes_read = Len(buf)
  <2>1. /\ n <= wanted /\ buf = Bytes(inode, offset, n)
        /\ bytes_read = n /\ length = wanted - n /\ remaining = inode.length - offset - n
        /\ n > 0 => remaining >= 0
        /\ length <= 0 \/ remaining <= 0
    BY <1>1, <1>2, <1>4 DEF Copied, ReadEnded, InLoop
  <2> DEFINE left == IF offset >= inode.length THEN 0 ELSE inode.length - offset
  <2>2. n = IF wanted <= left THEN wanted ELSE left
    BY <1>2, <2>1
  <2>3. buf = FileRange(inode, offset, wanted)
    BY <2>1, <2>2 DEF FileRange, Bytes
  <2>4. Len(Bytes(inode, offset, n)) = n
    BY <1>2, BytesLength
  <2>5. QED BY <2>1, <2>3, <2>4
<1>5. QED BY <1>3, <1>4 DEF ReadsTheRange

-------------------------------------------------------------------------------
(* Strings and commands *)

\* A set of numbers above a that has all the numbers below each of its members.
LEMMA PrefixCount ==
    ASSUME NEW a \in Nat, NEW n \in Nat, NEW P, P \subseteq a + 1 .. n,
           \A k \in P : \A j \in a + 1 .. k : j \in P
    PROVE  \E m \in Nat : /\ (a <= m /\ m <= n) \/ m = a
                          /\ P = a + 1 .. m /\ Cardinality(P) = m - a
<1> DEFINE S == {k \in Nat : a <= k /\ k + 1 \notin P}
<1>1. S # {}
  <2>1. CASE a <= n
    <3>1. n + 1 \notin P
      OBVIOUS
    <3>2. QED BY <2>1, <3>1
  <2>2. CASE n < a
    <3>1. a + 1 \notin P
      BY <2>2
    <3>2. QED BY <3>1
  <2>3. QED BY <2>1, <2>2
<1>2. PICK m \in S : \A k \in S : m <= k
  BY <1>1, LeastMember
<1>3. m \in Nat /\ a <= m /\ m + 1 \notin P
  BY <1>2
<1>4. ASSUME NEW j \in a + 1 .. m PROVE j \in P
  <2>1. j - 1 \in Nat /\ a <= j - 1 /\ j - 1 < m /\ (j - 1) + 1 = j
    BY <1>3
  <2>2. j - 1 \notin S
    BY <1>2, <1>3, <2>1
  <2>3. QED BY <2>1, <2>2
<1>5. ASSUME NEW j \in P PROVE j \in a + 1 .. m
  <2>1. j \in a + 1 .. n
    OBVIOUS
  <2>2. CASE j > m
    <3>1. m + 1 \in a + 1 .. j
      BY <1>3, <2>1, <2>2
    <3>2. QED BY <1>3, <3>1
  <2>3. QED BY <1>3, <2>1, <2>2
<1>6. P = a + 1 .. m
  BY <1>4, <1>5
<1>7. Cardinality(P) = m - a
  <2>1. Cardinality(a + 1 .. m) = IF a + 1 > m THEN 0 ELSE m - (a + 1) + 1
    BY <1>3, FS_Interval
  <2>2. QED BY <1>3, <1>6, <2>1
<1>8. m <= n \/ m = a
  <2>1. CASE m > a
    <3>1. m \in P
      BY <1>3, <1>4, <2>1
    <3>2. QED BY <3>1
  <2>2. QED BY <1>3, <2>1
<1>9. QED BY <1>3, <1>6, <1>7, <1>8

\* strlen counts what is before the first NUL.
LEMMA StrLen ==
    ASSUME NEW s, Len(s) \in Nat, NEW n \in Nat, n < Len(s), NoNul(s, n), s[n + 1] = NUL
    PROVE  strlen(s) = n
<1>1. n \in 0 .. Len(s) - 1
  OBVIOUS
<1>2. ASSUME NEW i \in 0 .. Len(s) - 1, NoNul(s, i), s[i + 1] = NUL PROVE i = n
  <2>1. ~(i < n)
    <3>1. i < n => i + 1 \in 1 .. n
      OBVIOUS
    <3>2. QED BY <1>2, <3>1 DEF NoNul
  <2>2. ~(n < i)
    <3>1. n < i => n + 1 \in 1 .. i
      OBVIOUS
    <3>2. QED BY <1>2, <3>1 DEF NoNul
  <2>3. QED BY <2>1, <2>2
<1>3. QED BY <1>1, <1>2 DEF strlen

LEMMA StringLength ==
    ASSUME NEW c, IsString(c)
    PROVE  strlen(c) = Len(c) - 1
<1>1. /\ Len(c) \in Nat /\ Len(c) - 1 \in Nat /\ Len(c) - 1 < Len(c)
      /\ NoNul(c, Len(c) - 1) /\ c[(Len(c) - 1) + 1] = NUL
  BY DEF IsString, NoNul
<1>2. QED BY <1>1, StrLen

\* The first word ends at the NUL or at the first space.
LEMMA WordOf ==
    ASSUME NEW c, IsString(c)
    PROVE  \E w \in 0 .. Len(c) - 1 :
              /\ Len(FirstWord(c)) = w
              /\ \A k \in 1 .. w : FirstWord(c)[k] = c[k] /\ c[k] \notin {NUL, SPACE}
              /\ c[w + 1] \in {NUL, SPACE}
<1> DEFINE P == {k \in 1 .. Len(c) : \A j \in 1 .. k : c[j] \notin {NUL, SPACE}}
<1>1. Len(c) \in Nat /\ Len(c) >= 1 /\ c[Len(c)] = NUL
  BY DEF IsString
<1>2. \E m \in Nat : /\ (0 <= m /\ m <= Len(c)) \/ m = 0
                     /\ P = 0 + 1 .. m /\ Cardinality(P) = m - 0
  <2>1. P \subseteq 0 + 1 .. Len(c) /\ \A k \in P : \A j \in 0 + 1 .. k : j \in P
    BY <1>1
  <2> HIDE DEF P
  <2>2. QED BY <1>1, <2>1, PrefixCount
<1>3. PICK m \in Nat : m <= Len(c) /\ P = 1 .. m /\ Cardinality(P) = m
  <2> HIDE DEF P
  <2>1. PICK m \in Nat : /\ (0 <= m /\ m <= Len(c)) \/ m = 0
                         /\ P = 0 + 1 .. m /\ Cardinality(P) = m - 0
    BY <1>2
  <2>2. m <= Len(c) /\ 0 + 1 = 1 /\ m - 0 = m
    BY <1>1, <2>1
  <2>3. QED BY <2>1, <2>2
<1>4. Len(c) \notin P
  BY <1>1
<1>5. m \in 0 .. Len(c) - 1
  BY <1>1, <1>3, <1>4
<1>6. \A k \in 1 .. m : c[k] \notin {NUL, SPACE}
  BY <1>3
<1>7. c[m + 1] \in {NUL, SPACE}
  <2>1. m + 1 \in 1 .. Len(c) /\ m + 1 \notin P
    BY <1>3, <1>5
  <2>2. PICK j \in 1 .. m + 1 : c[j] \in {NUL, SPACE}
    BY <2>1
  <2>3. j = m + 1
    BY <1>5, <1>6, <2>2
  <2>4. QED BY <2>2, <2>3
<1>8. FirstWord(c) = SubSeq(c, 1, m)
  BY <1>3 DEF FirstWord
<1>9. Len(SubSeq(c, 1, m)) = m /\ \A k \in 1 .. m : SubSeq(c, 1, m)[k] = c[k]
  <2>1. \A i \in 1 .. m : c[i] \in Nat
    BY <1>5 DEF IsString
  <2>2. /\ Len(SubSeq(c, 1, m)) = IF 1 <= m THEN m - 1 + 1 ELSE 0
        /\ \A i \in 1 .. m - 1 + 1 : SubSeq(c, 1, m)[i] = c[1 + i - 1]
    BY <2>1, SubSeqProperties
  <2>3. QED BY <1>5, <2>2
<1>10. QED BY <1>5, <1>6, <1>7, <1>8, <1>9

\* The spaces after position w, counted.
LEMMA SpacesAfter ==
    ASSUME NEW c, IsString(c), NEW w \in Nat, w < Len(c)
    PROVE  \E r \in w .. Len(c) - 1 :
              /\ \A k \in w + 1 .. r : c[k] = SPACE
              /\ c[r + 1] # SPACE
              /\ Cardinality({k \in w + 1 .. Len(c) : \A j \in w + 1 .. k : c[j] = SPACE}) = r - w
<1> DEFINE P == {k \in w + 1 .. Len(c) : \A j \in w + 1 .. k : c[j] = SPACE}
<1>1. /\ Len(c) \in Nat /\ Len(c) >= 1 /\ c[Len(c)] = NUL /\ NUL # SPACE
      /\ \A k \in 1 .. Len(c) : c[k] \in Nat
  BY CommandAssumption DEF IsString
<1>2. \E r \in Nat : /\ (w <= r /\ r <= Len(c)) \/ r = w
                     /\ P = w + 1 .. r /\ Cardinality(P) = r - w
  <2>1. P \subseteq w + 1 .. Len(c) /\ \A k \in P : \A j \in w + 1 .. k : j \in P
    BY <1>1
  <2>2. PICK Q, n : Q = P /\ n = Len(c)
    OBVIOUS
  <2>3. w \in Nat /\ n \in Nat
    BY <1>1, <2>2
  <2> HIDE DEF P
  <2>4. Q \subseteq w + 1 .. n /\ \A k \in Q : \A j \in w + 1 .. k : j \in Q
    BY <2>1, <2>2
  <2>5. \E r \in Nat : /\ (w <= r /\ r <= n) \/ r = w
                       /\ Q = w + 1 .. r /\ Cardinality(Q) = r - w
    BY <2>3, <2>4, PrefixCount
  <2>6. QED BY <2>2, <2>5
<1>3. PICK r \in Nat : w <= r /\ r <= Len(c) /\ P = w + 1 .. r /\ Cardinality(P) = r - w
  <2> HIDE DEF P
  <2>1. QED BY <1>1, <1>2
<1>4. Len(c) \notin P
  BY <1>1
<1>5. r \in w .. Len(c) - 1
  BY <1>1, <1>3, <1>4
<1>6. \A k \in w + 1 .. r : c[k] = SPACE
  BY <1>3
<1>7. c[r + 1] # SPACE
  <2>1. r + 1 \in w + 1 .. Len(c) /\ r + 1 \notin P
    BY <1>3, <1>5
  <2>2. PICK j \in w + 1 .. r + 1 : c[j] # SPACE
    BY <2>1
  <2>3. j = r + 1
    BY <1>5, <1>6, <2>2
  <2>4. QED BY <2>2, <2>3
<1>8. QED BY <1>3, <1>5, <1>6, <1>7

\* The first word ends at w, the spaces at r, and the arguments go on to the NUL.
Parts(c, w, r) ==
    /\ w \in Nat /\ r \in Nat /\ w <= r /\ r < Len(c)
    /\ Len(FirstWord(c)) = w
    /\ \A k \in 1 .. w : FirstWord(c)[k] = c[k] /\ c[k] \notin {NUL, SPACE}
    /\ c[w + 1] \in {NUL, SPACE}
    /\ \A k \in w + 1 .. r : c[k] = SPACE
    /\ c[r + 1] # SPACE
    /\ Rest(c) \in Seq(Nat) /\ Len(Rest(c)) = Len(c) - 1 - r
    /\ \A k \in 1 .. Len(c) - 1 - r : Rest(c)[k] = c[r + k]

LEMMA PartsOf ==
    ASSUME NEW c, IsString(c)
    PROVE  \E w, r \in Nat : Parts(c, w, r)
<1>0. PICK w \in 0 .. Len(c) - 1 :
        /\ Len(FirstWord(c)) = w
        /\ \A k \in 1 .. w : FirstWord(c)[k] = c[k] /\ c[k] \notin {NUL, SPACE}
        /\ c[w + 1] \in {NUL, SPACE}
  BY WordOf
<1>1. /\ Len(c) \in Nat /\ Len(c) >= 1 /\ \A k \in 1 .. Len(c) : c[k] \in Nat
      /\ w \in Nat /\ w < Len(c)
  BY DEF IsString
<1>2. PICK r \in w .. Len(c) - 1 :
          /\ \A k \in w + 1 .. r : c[k] = SPACE
          /\ c[r + 1] # SPACE
          /\ Cardinality({k \in w + 1 .. Len(c) : \A j \in w + 1 .. k : c[j] = SPACE}) = r - w
  BY <1>1, SpacesAfter
<1>3. Rest(c) = SubSeq(c, r + 1, Len(c) - 1)
  <2>1. w + (r - w) + 1 = r + 1
    BY <1>1, <1>2
  <2>2. QED BY <1>0, <1>2, <2>1 DEF Rest
<1> DEFINE args == SubSeq(c, r + 1, Len(c) - 1)
<1>4. /\ args \in Seq(Nat) /\ Len(args) = Len(c) - 1 - r
      /\ \A k \in 1 .. Len(c) - 1 - r : args[k] = c[r + k]
  <2>1. \A i \in r + 1 .. Len(c) - 1 : c[i] \in Nat
    BY <1>1, <1>2
  <2>2. /\ args \in Seq(Nat)
        /\ Len(args) = IF r + 1 <= Len(c) - 1 THEN (Len(c) - 1) - (r + 1) + 1 ELSE 0
        /\ \A i \in 1 .. (Len(c) - 1) - (r + 1) + 1 : args[i] = c[(r + 1) + i - 1]
    BY <1>1, <1>2, <2>1, SubSeqProperties
  <2> HIDE DEF args
  <2>3. Len(args) = Len(c) - 1 - r
    BY <1>1, <1>2, <2>2
  <2>4. ASSUME NEW k \in 1 .. Len(c) - 1 - r PROVE args[k] = c[r + k]
    <3>1. k \in 1 .. (Len(c) - 1) - (r + 1) + 1 /\ (r + 1) + k - 1 = r + k
      BY <1>1, <1>2
    <3>2. QED BY <2>2, <3>1
  <2>5. QED BY <2>2, <2>3, <2>4
<1> HIDE DEF args
<1>5. /\ Rest(c) \in Seq(Nat) /\ Len(Rest(c)) = Len(c) - 1 - r
      /\ \A k \in 1 .. Len(c) - 1 - r : Rest(c)[k] = c[r + k]
  BY <1>3, <1>4 DEF args
<1>6. w \in Nat /\ r \in Nat /\ w <= r /\ r < Len(c)
  BY <1>1, <1>2
<1>7. Parts(c, w, r)
  BY <1>0, <1>2, <1>6, <1>5 DEF Parts
<1>8. QED BY <1>6, <1>7

\* A command without a space in it is all name.
LEMMA NoSpaceIndex ==
    ASSUME NEW c, IsString(c), NEW w, NEW r, Parts(c, w, r), c[w + 1] = NUL
    PROVE  w = Len(c) - 1 /\ r = w /\ index_of_char(c, SPACE) = -1
<1>1. w = Len(c) - 1 /\ r = w
  <2>1. w \in Nat /\ r \in Nat /\ w <= r /\ r < Len(c) /\ Len(c) \in Nat
    BY DEF Parts, IsString
  <2>2. w + 1 \in 1 .. Len(c)
    BY <2>1
  <2>3. w + 1 = Len(c)
    BY <2>2 DEF IsString
  <2>4. QED BY <2>1, <2>3
<1>2. strlen(c) = w
  BY <1>1, StringLength
<1>3. ~(\E i \in 1 .. strlen(c) : c[i] = SPACE)
  BY <1>2 DEF Parts
<1>4. QED BY <1>1, <1>3 DEF index_of_char

LEMMA SpaceIndex ==
    ASSUME NEW c, IsString(c), NEW w, NEW r, Parts(c, w, r), c[w + 1] = SPACE
    PROVE  w + 1 < Len(c) /\ index_of_char(c, SPACE) = w
<1>1. w \in Nat /\ w + 1 < Len(c) /\ Len(c) \in Nat /\ SPACE # NUL
  <2>1. SPACE # NUL /\ c[Len(c)] = NUL
    BY CommandAssumption DEF IsString
  <2>2. QED BY <2>1 DEF Parts, IsString
<1>2. w \in 0 .. strlen(c) - 1 /\ w + 1 \in 1 .. strlen(c)
  BY <1>1, StringLength
<1>3. \A j \in 1 .. w : c[j] # SPACE
  BY DEF Parts
<1>4. ASSUME NEW n \in 0 .. strlen(c) - 1, c[n + 1] = SPACE, \A j \in 1 .. n : c[j] # SPACE
      PROVE  n = w
  <2>1. ~(n < w)
    <3>1. n < w => n + 1 \in 1 .. w
      BY <1>1
    <3>2. QED BY <1>3, <1>4, <3>1
  <2>2. ~(w < n)
    <3>1. w < n => w + 1 \in 1 .. n
      BY <1>1
    <3>2. QED BY <1>4, <3>1
  <2>3. QED BY <1>1, <1>2, <2>1, <2>2
<1>5. index_of_char(c, SPACE) =
         CHOOSE n \in 0 .. strlen(c) - 1 : c[n + 1] = SPACE /\ \A j \in 1 .. n : c[j] # SPACE
  BY <1>2 DEF index_of_char
<1>6. QED BY <1>1, <1>2, <1>3, <1>4, <1>5

LEMMA ArgsIndexIs ==
    ASSUME NEW c, IsString(c), NEW w, NEW r, Parts(c, w, r), w + 1 < Len(c)
    PROVE  ArgsIndex(c, w) = IF r = Len(c) - 1 THEN -1 ELSE r
<1> DEFINE args == {n \in w .. strlen(c) - 1 : c[n + 1] # SPACE}
<1>1. /\ w \in Nat /\ r \in Nat /\ w <= r /\ r < Len(c) /\ Len(c) \in Nat
      /\ \A k \in w + 1 .. r : c[k] = SPACE
      /\ c[r + 1] # SPACE
  BY DEF Parts, IsString
<1>2. strlen(c) - 1 = Len(c) - 2
  BY <1>1, StringLength
<1>3. ASSUME NEW n \in args PROVE r <= n
  <2>1. n \in Nat /\ w <= n /\ c[n + 1] # SPACE
    BY <1>1, <1>2
  <2>2. n < r => n + 1 \in w + 1 .. r
    BY <1>1, <2>1
  <2>3. QED BY <1>1, <2>1, <2>2
<1> DEFINE first == CHOOSE n \in args : \A m \in args : n <= m
<1>4. ArgsIndex(c, w) = IF args = {} THEN -1 ELSE first
  BY DEF ArgsIndex
<1>5. CASE r = Len(c) - 1
  <2>1. args = {}
    BY <1>1, <1>2, <1>3, <1>5
  <2>2. QED BY <1>5, <1>4, <2>1
<1>6. CASE r # Len(c) - 1
  <2>1. r \in args
    BY <1>1, <1>2, <1>6
  <2>2. \A n \in args : (\A m \in args : n <= m) => n = r
    BY <1>1, <1>2, <1>3, <2>1
  <2> HIDE DEF args
  <2>3. first = r
    BY <1>3, <2>1, <2>2
  <2> HIDE DEF first
  <2>4. QED BY <1>6, <1>4, <2>1, <2>3
<1>7. QED BY <1>5, <1>6

\* The name of the command, and its arguments up to their NUL, in a slot of zeros.
LEMMA NameCopied ==
    ASSUME NEW c, IsString(c), NEW w, NEW r, Parts(c, w, r)
    PROVE  /\ w = Len(c) - 1 => strcpy(Zeros, c) = Filled(FirstWord(c))
           /\ strncpy(Zeros, c, w) = Filled(FirstWord(c))
<1>1. /\ w \in Nat /\ Len(FirstWord(c)) = w
      /\ \A k \in 1 .. w : FirstWord(c)[k] = c[k] /\ c[k] # NUL
  BY DEF Parts
<1>2. MAX_COMMAND_LENGTH \in Nat
  BY CommandAssumption
<1>3. DOMAIN Zeros = 1 .. MAX_COMMAND_LENGTH /\ \A k \in 1 .. MAX_COMMAND_LENGTH : Zeros[k] = NUL
  BY DEF Zeros
<1>4. ASSUME w = Len(c) - 1 PROVE strcpy(Zeros, c) = Filled(FirstWord(c))
  <2>1. strlen(c) + 1 = w + 1 /\ c[w + 1] = NUL
    BY <1>1, <1>4, StringLength DEF IsString
  <2>2. ASSUME NEW k \in 1 .. MAX_COMMAND_LENGTH
        PROVE  (IF k <= strlen(c) + 1 THEN c[k] ELSE Zeros[k])
                  = IF k <= Len(FirstWord(c)) THEN FirstWord(c)[k] ELSE NUL
    BY <1>1, <1>2, <1>3, <2>1
  <2>3. QED BY <1>3, <2>2 DEF strcpy, Filled
<1>5. strncpy(Zeros, c, w) = Filled(FirstWord(c))
  <2>1. \A k \in 1 .. w : NoNul(c, k)
    BY <1>1 DEF NoNul
  <2>2. ASSUME NEW k \in 1 .. MAX_COMMAND_LENGTH
        PROVE  (IF k > w THEN Zeros[k] ELSE IF NoNul(c, k) THEN c[k] ELSE NUL)
                  = IF k <= Len(FirstWord(c)) THEN FirstWord(c)[k] ELSE NUL
    BY <1>1, <1>2, <1>3, <2>1
  <2>3. QED BY <1>3, <2>2 DEF strncpy, Filled
<1>6. QED BY <1>4, <1>5

LEMMA ArgumentsCopied ==
    ASSUME NEW c, IsString(c), NEW w, NEW r, Parts(c, w, r)
    PROVE  /\ r = Len(c) - 1 => Zeros = Filled(Rest(c))
           /\ strcpy(Zeros, From(c, r)) = Filled(Rest(c))
<1>1. /\ r \in Nat /\ r < Len(c) /\ Len(c) \in Nat
      /\ Len(Rest(c)) = Len(c) - 1 - r
      /\ \A k \in 1 .. Len(c) - 1 - r : Rest(c)[k] = c[r + k]
  BY DEF Parts, IsString
<1>2. \A k \in 1 .. Len(c) : c[k] \in Nat /\ (c[k] = NUL <=> k = Len(c))
  BY DEF IsString
<1>3. MAX_COMMAND_LENGTH \in Nat
  BY CommandAssumption
<1>4. DOMAIN Zeros = 1 .. MAX_COMMAND_LENGTH /\ \A k \in 1 .. MAX_COMMAND_LENGTH : Zeros[k] = NUL
  BY DEF Zeros
<1>5. ASSUME r = Len(c) - 1 PROVE Zeros = Filled(Rest(c))
  BY <1>1, <1>3, <1>5 DEF Zeros, Filled
<1>6. strcpy(Zeros, From(c, r)) = Filled(Rest(c))
  <2> DEFINE s == From(c, r)
             n == Len(c) - 1 - r
  <2>1. \A i \in r + 1 .. Len(c) : c[i] \in Nat
    BY <1>1, <1>2
  <2>2. /\ Len(s) = IF r + 1 <= Len(c) THEN Len(c) - (r + 1) + 1 ELSE 0
        /\ \A i \in 1 .. Len(c) - (r + 1) + 1 : s[i] = c[(r + 1) + i - 1]
    BY <1>1, <2>1, SubSeqProperties DEF From
  <2>3. n \in Nat /\ Len(s) = n + 1
    <3> HIDE DEF s
    <3>1. QED BY <1>1, <2>2
  <2>4. ASSUME NEW i \in 1 .. n + 1 PROVE s[i] = c[r + i]
    <3> HIDE DEF s
    <3>1. i \in 1 .. Len(c) - (r + 1) + 1 /\ (r + 1) + i - 1 = r + i
      BY <1>1
    <3>2. QED BY <2>2, <3>1
  <2> HIDE DEF s
  <2>5. NoNul(s, n) /\ s[n + 1] = NUL
    <3>1. ASSUME NEW i \in 1 .. n PROVE s[i] # NUL
      <4>1. r + i \in 1 .. Len(c) /\ r + i # Len(c) /\ i \in 1 .. n + 1
        BY <1>1
      <4>2. QED BY <1>2, <2>4, <4>1
    <3>2. s[n + 1] = NUL
      <4>1. n + 1 \in 1 .. n + 1 /\ r + (n + 1) = Len(c) /\ Len(c) \in 1 .. Len(c)
        BY <1>1
      <4>2. QED BY <1>2, <2>4, <4>1
    <3>3. QED BY <3>1, <3>2 DEF NoNul
  <2>6. strlen(s) = n
    <3>1. Len(s) \in Nat /\ n < Len(s)
      BY <2>3
    <3>2. QED BY <2>3, <2>5, <3>1, StrLen
  <2>7. ASSUME NEW k \in 1 .. MAX_COMMAND_LENGTH
        PROVE  (IF k <= strlen(s) + 1 THEN s[k] ELSE Zeros[k])
                  = IF k <= Len(Rest(c)) THEN Rest(c)[k] ELSE NUL
    <3>1. CASE k <= n
      <4>1. k \in 1 .. n + 1 /\ k \in 1 .. Len(c) - 1 - r
        BY <1>1, <1>3, <2>3, <3>1
      <4>2. s[k] = c[r + k] /\ Rest(c)[k] = c[r + k]
        BY <1>1, <2>4, <4>1
      <4>3. k <= strlen(s) + 1 /\ k <= Len(Rest(c))
        BY <1>1, <2>6, <4>1
      <4>4. QED BY <4>2, <4>3
    <3>2. CASE k = n + 1
      BY <1>1, <1>3, <2>3, <2>5, <2>6, <3>2
    <3>3. CASE k > n + 1
      BY <1>1, <1>3, <1>4, <2>3, <2>6, <3>3
    <3>4. QED BY <1>3, <2>3, <3>1, <3>2, <3>3
  <2>8. QED BY <1>4, <2>7 DEF strcpy, Filled, s
<1>7. QED BY <1>5, <1>6

LEMMA Parsed ==
    ASSUME NEW c, IsString(c), cmd_name = Zeros, cmd_args = Zeros, parse_command(c)
    PROVE  cmd_name' = Filled(FirstWord(c)) /\ cmd_args' = Filled(Rest(c))
<1>1. PICK w, r \in Nat : Parts(c, w, r)
  BY PartsOf
<1>2. CASE c[w + 1] = NUL
  <2>1. w = Len(c) - 1 /\ r = w /\ index_of_char(c, SPACE) = -1
    BY <1>1, <1>2, NoSpaceIndex
  <2>2. cmd_name' = strcpy(Zeros, c) /\ cmd_args' = Zeros
    BY <2>1 DEF parse_command
  <2>3. QED BY <1>1, <2>1, <2>2, NameCopied, ArgumentsCopied
<1>3. CASE c[w + 1] = SPACE
  <2>1. w + 1 < Len(c) /\ index_of_char(c, SPACE) = w
    BY <1>1, <1>3, SpaceIndex
  <2>2. ArgsIndex(c, w) = IF r = Len(c) - 1 THEN -1 ELSE r
    BY <1>1, <2>1, ArgsIndexIs
  <2>3. /\ cmd_name' = strncpy(Zeros, c, w)
        /\ cmd_args' = IF r = Len(c) - 1 THEN Zeros ELSE strcpy(Zeros, From(c, r))
    BY <2>1, <2>2 DEF parse_command
  <2>4. QED BY <1>1, <2>3, NameCopied, ArgumentsCopied
<1>4. QED BY <1>1, <1>2, <1>3 DEF Parts

-------------------------------------------------------------------------------
(* The image, the command and the lookup *)

\* What is assumed of an image, of the one there is.
LEMMA Image ==
    ASSUME ImageInv
    PROVE  /\ dentries \in Seq([file_name : [1 .. MAX_FILE_NAME_LENGTH -> Nat], inode_idx : Nat])
           /\ inodes \in Seq([length : Nat, block_idx : Seq(Int)])
           /\ Len(dentries) \in Nat /\ DOMAIN dentries = 1 .. Len(dentries)
           /\ Len(inodes) \in Nat /\ DOMAIN inodes = 1 .. Len(inodes)
           /\ \A k \in 1 .. Len(dentries) : GoodEntry(dentries[k])
           /\ \A k \in 1 .. Len(inodes) : GoodFile(inodes[k])
<1>1. PICK image \in Images : dentries = image.dentries /\ inodes = image.inodes
  BY DEF ImageInv
<1>2. /\ dentries \in Seq([file_name : [1 .. MAX_FILE_NAME_LENGTH -> Nat], inode_idx : Nat])
      /\ inodes \in Seq([length : Nat, block_idx : Seq(Int)])
  BY <1>1, ImageAssumption
<1>3. /\ Len(dentries) \in Nat /\ DOMAIN dentries = 1 .. Len(dentries)
      /\ Len(inodes) \in Nat /\ DOMAIN inodes = 1 .. Len(inodes)
  BY <1>2, LenProperties
<1>4. ASSUME NEW k \in 1 .. Len(dentries) PROVE GoodEntry(dentries[k])
  <2>1. dentries[k] \in [file_name : [1 .. MAX_FILE_NAME_LENGTH -> Nat], inode_idx : Nat]
    BY <1>2, ElementOfSeq
  <2>2. k \in 1 .. Len(image.dentries)
    BY <1>1
  <2>3. QED BY <1>1, <2>1, <2>2, ImageAssumption DEF GoodEntry
<1>5. ASSUME NEW k \in 1 .. Len(inodes) PROVE GoodFile(inodes[k])
  <2>1. inodes[k] \in [length : Nat, block_idx : Seq(Int)]
    BY <1>2, ElementOfSeq
  <2>2. k \in 1 .. Len(image.inodes)
    BY <1>1
  <2>3. QED BY <1>1, <2>1, <2>2, ImageAssumption DEF GoodFile
<1>6. QED BY <1>2, <1>3, <1>4, <1>5

\* Every step but those that begin or end the use of the slot.
Others ==
    \/ Search \/ OpenedFile \/ ReadRound \/ Executable \/ LoadMore \/ LoadLost \/ Loaded
    \/ ReadReturns \/ BadCall \/ GetArgs \/ ReadDir \/ ReadFile

LEMMA NextCases ==
    Next => Execute \/ ExecuteNoName \/ NoFile \/ NotExecutable \/ Halt \/ Others
  BY DEF Next, KernelStep, Program, Others

LEMMA OthersFrame ==
    Others => /\ pc # "idle" /\ pc' # "idle"
              /\ cmd_name' = cmd_name /\ cmd_args' = cmd_args /\ given' = given
              /\ dentries' = dentries /\ inodes' = inodes /\ refused' = refused
<1>1. Search \/ OpenedFile \/ ReadRound \/ Executable =>
         /\ pc # "idle" /\ pc' # "idle"
         /\ cmd_name' = cmd_name /\ cmd_args' = cmd_args /\ given' = given
         /\ dentries' = dentries /\ inodes' = inodes /\ refused' = refused
  BY DEF Search, OpenedFile, ReadRound, Executable, ReadEnded, pcb, history
<1>2. LoadMore \/ LoadLost \/ Loaded \/ ReadReturns =>
         /\ pc # "idle" /\ pc' # "idle"
         /\ cmd_name' = cmd_name /\ cmd_args' = cmd_args /\ given' = given
         /\ dentries' = dentries /\ inodes' = inodes /\ refused' = refused
  BY DEF LoadMore, LoadLost, LoadError, Loaded, ReadReturns, ReadEnded, pcb, history
<1>3. BadCall \/ GetArgs \/ ReadDir \/ ReadFile =>
         /\ pc # "idle" /\ pc' # "idle"
         /\ cmd_name' = cmd_name /\ cmd_args' = cmd_args /\ given' = given
         /\ dentries' = dentries /\ inodes' = inodes /\ refused' = refused
  BY DEF BadCall, GetArgs, ReadDir, ReadFile, SystemCall, pcb
<1>4. QED BY <1>1, <1>2, <1>3 DEF Others

LEMMA ImageStep == ImageInv /\ [Next]_vars => ImageInv'
<1> SUFFICES ASSUME ImageInv, [Next]_vars PROVE ImageInv'
  OBVIOUS
<1>1. dentries' = dentries /\ inodes' = inodes
  <2>1. Execute \/ ExecuteNoName \/ NoFile \/ NotExecutable \/ Halt
           => dentries' = dentries /\ inodes' = inodes
    BY DEF Execute, ExecuteNoName, NoFile, NotExecutable, Refuse, Halt
  <2>2. QED BY <2>1, NextCases, OthersFrame DEF vars
<1>2. QED BY <1>1 DEF ImageInv

\* The PCB holds the command it was made for.
LEMMA CommandStep == CommandInv /\ [Next]_vars => CommandInv'
<1> SUFFICES ASSUME CommandInv, [Next]_vars PROVE CommandInv'
  OBVIOUS
<1>1. CASE Execute
  <2>1. PICK command \in Commands : parse_command(command) /\ given' = command
    BY <1>1 DEF Execute
  <2>2. IsString(command)
    BY StringAssumption DEF IsString
  <2>3. cmd_name = Zeros /\ cmd_args = Zeros /\ pc' = "search"
    BY <1>1 DEF Execute, CommandInv
  <2>4. cmd_name' = Filled(FirstWord(command)) /\ cmd_args' = Filled(Rest(command))
    BY <2>1, <2>2, <2>3, Parsed
  <2>5. QED BY <2>1, <2>2, <2>3, <2>4 DEF CommandInv
<1>2. CASE ExecuteNoName \/ NoFile \/ NotExecutable
  <2>1. cmd_name' = Zeros /\ cmd_args' = Zeros /\ pc' = "idle"
    BY <1>2 DEF ExecuteNoName, NoFile, NotExecutable, Refuse, destroy_pcb_ptr
  <2>2. given' \in Commands \/ given' = given
    BY <1>2 DEF ExecuteNoName, NoFile, NotExecutable
  <2>3. IsString(given')
    BY <2>2, StringAssumption DEF IsString, CommandInv
  <2>4. QED BY <2>1, <2>3 DEF CommandInv
<1>3. CASE Halt
  <2>1. cmd_name' = Zeros /\ cmd_args' = Zeros /\ pc' = "idle" /\ given' = <<NUL>>
    BY <1>3 DEF Halt, destroy_pcb_ptr
  <2>2. IsString(<<NUL>>)
    BY CommandAssumption DEF IsString, NUL
  <2>3. QED BY <2>1, <2>2 DEF CommandInv
<1>4. CASE Others
  BY <1>4, OthersFrame DEF CommandInv
<1>5. CASE UNCHANGED vars
  BY <1>5 DEF CommandInv, vars, pcb, history
<1>6. QED BY <1>1, <1>2, <1>3, <1>4, <1>5, NextCases

\* A first word in the array of a PCB is a string, the word.
LEMMA NameIs ==
    ASSUME NEW c, IsString(c)
    PROVE  LET name == FirstWord(c)
           IN  /\ Len(name) \in Nat
               /\ strlen(Filled(name)) = Len(name)
               /\ \A k \in 1 .. Len(name) : Filled(name)[k] = name[k] /\ name[k] # NUL
<1>1. PICK w, r \in Nat : Parts(c, w, r)
  BY PartsOf
<1> DEFINE name == FirstWord(c)
           s == Filled(name)
           M == MAX_COMMAND_LENGTH
<1>2. /\ w \in Nat /\ w < Len(c) /\ Len(c) \in Nat /\ Len(c) <= M /\ M \in Nat
      /\ Len(name) = w
      /\ \A k \in 1 .. w : name[k] = c[k] /\ name[k] # NUL
  <2>1. Len(c) \in Nat /\ Len(c) <= M /\ M \in Nat
    BY CommandAssumption DEF IsString
  <2>2. /\ w \in Nat /\ w < Len(c) /\ Len(name) = w
        /\ \A k \in 1 .. w : name[k] = c[k] /\ name[k] # NUL
    BY <1>1, <2>1 DEF Parts
  <2>3. QED BY <2>1, <2>2
<1>3. \A k \in 1 .. w : name[k] \in Nat
  <2>1. \A k \in 1 .. w : c[k] \in Nat
    BY <1>2 DEF IsString
  <2>2. QED BY <1>2, <2>1
<1> HIDE DEF name
<1>4. s \in [1 .. M -> Nat]
  BY <1>2, <1>3 DEF Filled, NUL
<1>5. Len(s) = M
  <2>1. s \in Seq(Nat)
    BY <1>2, <1>4, SeqDef
  <2> HIDE DEF s
  <2>2. QED BY <1>2, <1>4, <2>1, LenProperties
<1>6. \A k \in 1 .. w : s[k] = name[k]
  BY <1>2 DEF Filled
<1>7. s[w + 1] = NUL
  BY <1>2 DEF Filled
<1> HIDE DEF s
<1>8. NoNul(s, w)
  BY <1>2, <1>6 DEF NoNul
<1>9. strlen(s) = w
  BY <1>2, <1>5, <1>7, <1>8, StrLen
<1>10. QED BY <1>2, <1>6, <1>9 DEF s, name

\* read_dentry_by_name compares a name as a whole.
LEMMA MatchIsName ==
    ASSUME ImageInv, IsString(given), fname = Filled(FirstWord(given)),
           index \in 1 .. Len(dentries)
    PROVE  strlen(fname) <= MAX_FILE_NAME_LENGTH /\ Matches <=> index \in Named(given)
<1> DEFINE name == FirstWord(given)
           w == Len(name)
           f == dentries[index].file_name
           M == MAX_FILE_NAME_LENGTH
<1>1. /\ w \in Nat /\ strlen(fname) = w
      /\ \A k \in 1 .. w : fname[k] = name[k] /\ fname[k] # NUL
  BY NameIs
<1>2. /\ M \in Nat /\ M > 0
      /\ f \in [1 .. M -> Nat]
      /\ \A i, j \in 1 .. M : i < j /\ f[i] = NUL => f[j] = NUL
  <2>1. M \in Nat /\ M > 0
    BY NameAssumption
  <2>2. PICK e : e = dentries[index]
    OBVIOUS
  <2>3. GoodEntry(e)
    BY <2>2, Image
  <2>4. QED BY <2>1, <2>2, <2>3 DEF GoodEntry
<1>3. index \in Named(given) <=> w <= M /\ f = Padded(name)
  BY Image DEF Named
<1>4. Matches <=> StrnEqual(fname, f, w) /\ (w < M => f[w + 1] = NUL)
  BY <1>1 DEF Matches
<1>5. StrnEqual(fname, f, w) <=> \A k \in 1 .. w : f[k] = name[k]
  <2>1. ASSUME NEW k \in 1 .. w PROVE NoNul(fname, k - 1)
    <3>1. \A j \in 1 .. k - 1 : j \in 1 .. w
      BY <1>1
    <3>2. QED BY <1>1, <3>1 DEF NoNul
  <2> HIDE DEF name, w, f
  <2>2. QED BY <1>1, <2>1 DEF StrnEqual
<1> HIDE DEF name, f
<1>6. ASSUME w <= M PROVE f = Padded(name) <=> /\ \A k \in 1 .. w : f[k] = name[k]
                                               /\ w < M => f[w + 1] = NUL
  <2>1. ASSUME f = Padded(name)
        PROVE  (\A k \in 1 .. w : f[k] = name[k]) /\ (w < M => f[w + 1] = NUL)
    <3>1. \A k \in 1 .. M : f[k] = IF k <= w THEN name[k] ELSE NUL
      BY <2>1 DEF Padded
    <3>2. \A k \in 1 .. w : k \in 1 .. M /\ k <= w
      BY <1>1, <1>2, <1>6
    <3>3. w < M => w + 1 \in 1 .. M /\ ~(w + 1 <= w)
      BY <1>1, <1>2
    <3> HIDE DEF w
    <3>4. QED BY <3>1, <3>2, <3>3
  <2>2. ASSUME \A k \in 1 .. w : f[k] = name[k], w < M => f[w + 1] = NUL
        PROVE  f = Padded(name)
    <3>1. ASSUME NEW k \in 1 .. M PROVE f[k] = IF k <= w THEN name[k] ELSE NUL
      <4>1. CASE k <= w
        BY <1>1, <2>2, <4>1
      <4>2. CASE k = w + 1
        BY <1>1, <1>2, <2>2, <4>2
      <4>3. CASE k > w + 1
        <5>1. w + 1 \in 1 .. M /\ w + 1 < k /\ w < M
          BY <1>1, <1>2, <4>3
        <5>2. QED BY <1>1, <1>2, <2>2, <4>3, <5>1
      <4>4. QED BY <1>1, <4>1, <4>2, <4>3
    <3>2. QED BY <1>2, <3>1 DEF Padded
  <2>3. QED BY <2>1, <2>2
<1>7. QED BY <1>1, <1>3, <1>4, <1>5, <1>6

\* A round of the lookup.
LEMMA LookupRound == ASSUME ImageInv, CommandInv, LookupInv, Search PROVE LookupInv'
<1>1. /\ pc = "search" /\ pc' = "search" /\ read_dentry_by_name
      /\ fname' = fname /\ cmd_name' = cmd_name
      /\ dentries' = dentries /\ given' = given
  BY DEF Search, pcb, history, read_dentry_by_name, TooLong, Found, NextDentry, NotFound
<1>2. Named(given)' = Named(given)
  BY <1>1 DEF Named
<1>3. /\ fname = cmd_name /\ index \in 1 .. Len(dentries) + 1
      /\ \A k \in Named(given) : k >= index
  BY <1>1 DEF LookupInv
<1>4. /\ IsString(given) /\ fname = Filled(FirstWord(given))
      /\ Len(dentries) \in Nat /\ Named(given) \subseteq 1 .. Len(dentries)
  BY <1>1, <1>3, Image DEF CommandInv, Named
<1>5. index \in 1 .. Len(dentries) =>
         (strlen(fname) <= MAX_FILE_NAME_LENGTH /\ Matches <=> index \in Named(given))
  BY <1>4, MatchIsName
<1>6. CASE TooLong
  <2>1. /\ strlen(fname) = Len(FirstWord(given)) /\ Len(FirstWord(given)) \in Nat
        /\ strlen(fname) > MAX_FILE_NAME_LENGTH
    BY <1>4, <1>6, NameIs DEF TooLong
  <2>2. Named(given) = {}
    BY <2>1, NameAssumption DEF Named
  <2>3. result' = -1 /\ index' = index
    BY <1>6 DEF TooLong
  <2>4. QED BY <1>1, <1>2, <1>3, <2>2, <2>3 DEF LookupInv
<1>7. CASE Found
  <2>1. /\ index \in 1 .. Len(dentries) /\ strlen(fname) <= MAX_FILE_NAME_LENGTH /\ Matches
        /\ result' = index /\ index' = index
    BY <1>3, <1>4, <1>7 DEF Found, Searching
  <2>2. index \in Named(given)
    BY <1>5, <2>1
  <2>3. QED BY <1>1, <1>2, <1>3, <2>1, <2>2 DEF LookupInv
<1>8. CASE NextDentry
  <2>1. /\ index \in 1 .. Len(dentries) /\ ~Matches
        /\ result' = result /\ result = 0 /\ index' = index + 1
    BY <1>3, <1>4, <1>8 DEF NextDentry, Searching
  <2>2. index \notin Named(given)
    BY <1>5, <2>1
  <2>3. \A k \in Named(given) : k >= index + 1
    BY <1>3, <1>4, <2>2
  <2>4. index + 1 \in 1 .. Len(dentries) + 1
    BY <1>4, <2>1
  <2>5. QED BY <1>1, <1>2, <1>3, <2>1, <2>3, <2>4 DEF LookupInv
<1>9. CASE NotFound
  <2>1. index > Len(dentries) /\ result' = -1 /\ index' = index
    BY <1>9 DEF NotFound
  <2>2. Named(given) = {}
    BY <1>3, <1>4, <2>1
  <2>3. QED BY <1>1, <1>2, <1>3, <2>1, <2>2 DEF LookupInv
<1>10. QED BY <1>1, <1>6, <1>7, <1>8, <1>9 DEF read_dentry_by_name

LEMMA LookupStep == ImageInv /\ CommandInv /\ LookupInv /\ [Next]_vars => LookupInv'
<1> SUFFICES ASSUME ImageInv, CommandInv, LookupInv, [Next]_vars PROVE LookupInv'
  OBVIOUS
<1>1. CASE Search
  BY <1>1, LookupRound
<1>2. CASE Execute \/ Executable
  <2>1. /\ fname' = cmd_name' /\ index' = 1 /\ result' = 0
    BY <1>2 DEF Execute, Executable, LookUp, pcb
  <2>2. dentries' = dentries
    BY <1>2 DEF Execute, Executable
  <2>3. Len(dentries) \in Nat /\ DOMAIN dentries = 1 .. Len(dentries)
    BY Image
  <2>4. \A k \in Named(given)' : k >= 1
    BY <2>2, <2>3 DEF Named
  <2>5. 1 \in 1 .. Len(dentries) + 1
    BY <2>3
  <2>6. QED BY <2>1, <2>2, <2>4, <2>5 DEF LookupInv
<1>3. CASE UNCHANGED vars
  <2>1. /\ pc' = pc /\ fname' = fname /\ cmd_name' = cmd_name /\ index' = index
        /\ result' = result /\ dentries' = dentries /\ given' = given
    BY <1>3 DEF vars, pcb, lookup, history
  <2>2. QED BY <2>1 DEF LookupInv, Named
<1>4. CASE Next /\ ~Search /\ ~Execute /\ ~Executable
  <2>1. CASE ExecuteNoName \/ NoFile \/ NotExecutable \/ Halt
    <3>1. pc' = "idle"
      BY <2>1 DEF ExecuteNoName, NoFile, NotExecutable, Refuse, Halt
    <3>2. QED BY <3>1 DEF LookupInv
  <2>2. CASE OpenedFile \/ ReadRound \/ LoadMore \/ LoadLost \/ Loaded \/ ReadReturns
    <3>1. pc' # "search"
      BY <2>2 DEF OpenedFile, ReadRound, LoadMore, LoadLost, Loaded, ReadReturns, ReadEnded
    <3>2. QED BY <3>1 DEF LookupInv
  <2>3. CASE BadCall \/ GetArgs \/ ReadDir \/ ReadFile
    <3>1. pc' # "search"
      BY <2>3 DEF BadCall, GetArgs, ReadDir, ReadFile, SystemCall
    <3>2. QED BY <3>1 DEF LookupInv
  <2>4. QED BY <1>4, <2>1, <2>2, <2>3, NextCases DEF Others
<1>5. QED BY <1>1, <1>2, <1>3, <1>4

-------------------------------------------------------------------------------
(* Reading and loading *)

\* The entry that was found is the first of its name, and a good one.
LEMMA FoundFile ==
    ASSUME ImageInv, LookupInv, pc = "search", result > 0
    PROVE  /\ Named(given) # {}
           /\ inodes[dentries[result].inode_idx + 1] = FileOf(given)
           /\ GoodFile(FileOf(given))
<1>1. result \in Named(given) /\ \A k \in Named(given) : result <= k
  BY DEF LookupInv
<1>2. Named(given) \subseteq 1 .. Len(dentries) /\ Len(dentries) \in Nat
  BY Image DEF Named
<1>3. (CHOOSE k \in Named(given) : \A j \in Named(given) : k <= j) = result
  BY <1>1, <1>2
<1>4. FileOf(given) = inodes[dentries[result].inode_idx + 1]
  BY <1>3 DEF FileOf
<1>5. GoodEntry(dentries[result])
  BY <1>1, <1>2, Image
<1>6. dentries[result].inode_idx + 1 \in 1 .. Len(inodes)
  BY <1>5, Image DEF GoodEntry
<1>7. GoodFile(inodes[dentries[result].inode_idx + 1])
  BY <1>6, Image
<1>8. QED BY <1>1, <1>4, <1>7

\* What was read stays within the file.
LEMMA ReadWithin ==
    ASSUME RangeInv, bytes_read > 0
    PROVE  /\ offset \in Nat /\ bytes_read \in Nat /\ offset + bytes_read \in Nat
           /\ inode.length \in Nat /\ offset + bytes_read <= inode.length
           /\ 2 * (offset + bytes_read) < WORD
           /\ buf = Bytes(inode, offset, bytes_read)
<1>1. PICK n \in Nat : Copied(n)
  BY DEF RangeInv
<1>2. inode.length \in Nat /\ 2 * inode.length < WORD /\ offset \in Nat
  BY DEF RangeInv, GoodFile
<1>3. /\ bytes_read = n /\ buf = Bytes(inode, offset, n)
      /\ remaining = inode.length - offset - n /\ remaining >= 0
  BY <1>1 DEF Copied
<1>4. WORD \in Nat
  BY SizeAssumption
<1>5. offset + n <= inode.length /\ offset + n \in Nat
  BY <1>1, <1>2, <1>3
<1>6. 2 * (offset + n) < WORD
  BY <1>2, <1>4, <1>5
<1>7. QED BY <1>1, <1>2, <1>3, <1>5, <1>6

LEMMA RangeStep == ImageInv /\ LookupInv /\ RangeInv /\ [Next]_vars => RangeInv'
<1> SUFFICES ASSUME ImageInv, LookupInv, RangeInv, [Next]_vars PROVE RangeInv'
  OBVIOUS
<1>1. CASE OpenedFile
  <2> DEFINE header == IF caller = "check" THEN FILE_HEADER_SIZE ELSE LOADER_BUFFER_SIZE
  <2>1. PICK f, n : f = inodes[dentries[result].inode_idx + 1] /\ n = header
    OBVIOUS
  <2>2. ReadFrom(f, 0, n)
    BY <1>1, <2>1 DEF OpenedFile, ReadFrom
  <2>3. GoodFile(f)
    BY <1>1, <2>1, FoundFile DEF OpenedFile
  <2>4. n \in Nat /\ 0 \in Nat /\ 2 * 0 < WORD
    BY <2>1, HeaderAssumption, SizeAssumption
  <2>5. QED BY <2>2, <2>3, <2>4, ReadFromRange
<1>2. CASE LoadMore
  <2>1. bytes_read > 0
    BY <1>2 DEF LoadMore
  <2>2. PICK f, o : f = inode /\ o = offset + bytes_read
    OBVIOUS
  <2>3. ReadFrom(f, o, LOADER_BUFFER_SIZE)
    BY <1>2, <2>2 DEF LoadMore, ReadFrom
  <2>4. GoodFile(f) /\ o \in Nat /\ 2 * o < WORD /\ LOADER_BUFFER_SIZE \in Nat
    BY <2>1, <2>2, ReadWithin, HeaderAssumption DEF RangeInv
  <2>5. QED BY <2>3, <2>4, ReadFromRange
<1>3. CASE ReadFile
  <2>1. PICK k \in DOMAIN inodes, r \in Requests : ReadFrom(inodes[k], r[1], r[2])
    BY <1>3 DEF ReadFile
  <2>2. PICK f : f = inodes[k]
    OBVIOUS
  <2>3. ReadFrom(f, r[1], r[2])
    BY <2>1, <2>2 DEF ReadFrom
  <2>4. GoodFile(f) /\ r[1] \in Nat /\ r[2] \in Nat /\ 2 * r[1] < WORD
    BY <2>1, <2>2, Image, RequestAssumption
  <2>5. QED BY <2>3, <2>4, ReadFromRange
<1>4. CASE ReadRound
  BY <1>4, CopyBlockRange, FailBlockRange DEF ReadRound, read_data
<1>5. CASE ExecuteNoName \/ NoFile \/ NotExecutable \/ Executable \/ Loaded \/ ReadReturns
  BY <1>5, NoReadingRange
     DEF ExecuteNoName, NoFile, NotExecutable, Refuse, Executable, Loaded, ReadReturns
<1>6. CASE \/ Execute \/ Search \/ LoadLost \/ BadCall \/ GetArgs \/ ReadDir \/ Halt
           \/ UNCHANGED vars
  <2>1. UNCHANGED reading
    BY <1>6 DEF Execute, Search, LoadLost, BadCall, GetArgs, ReadDir, Halt, vars
  <2>2. QED BY <2>1 DEF reading, RangeInv, GoodFile, Copied, InLoop
<1>7. QED BY <1>1, <1>2, <1>3, <1>4, <1>5, <1>6, NextCases DEF Others

\* The header that has been read is a program's if and only if the file is one.
LEMMA HeaderOfProgram ==
    ASSUME RangeInv, ReadEnded, offset = 0, wanted = FILE_HEADER_SIZE
    PROVE  HeaderIsElf <=> IsProgram(inode)
<1>1. PICK n \in Nat : Copied(n)
  BY DEF RangeInv
<1> DEFINE H == FILE_HEADER_SIZE
           first == inode.block_idx[1]
<1>2. /\ H \in Nat /\ H > 0 /\ H <= BLOCK_SIZE /\ BLOCK_SIZE \in Nat
      /\ ElfBlocks \subseteq 0 .. NumDataBlocks - 1
      /\ inode.length \in Nat
  BY HeaderAssumption, SizeAssumption DEF RangeInv, GoodFile
<1>3. \A i \in 0 .. H - 1 : i \div BLOCK_SIZE = 0 /\ i % BLOCK_SIZE = i
  BY <1>2
<1>4. \A i \in 0 .. H - 1 : ByteAt(inode, i) = <<first, i>>
  BY <1>3 DEF ByteAt
<1>5. /\ n <= H /\ buf = Bytes(inode, 0, n)
  BY <1>1 DEF Copied
<1>6. ASSUME bytes_read = n
      PROVE  remaining = inode.length - n /\ length = H - n /\ (n > 0 => remaining >= 0)
  BY <1>1, <1>2, <1>6 DEF Copied
<1>7. ASSUME HeaderIsElf PROVE IsProgram(inode)
  <2>1. PICK b \in ElfBlocks : buf = [k \in 1 .. H |-> <<b, k - 1>>]
    BY <1>7 DEF HeaderIsElf
  <2>2. bytes_read = n /\ n = H
    BY <1>1, <1>2, <1>7 DEF HeaderIsElf, Copied
  <2>3. inode.length >= H
    BY <1>2, <1>6, <2>2
  <2>4. first = b
    <3>1. buf[1] = ByteAt(inode, 0 + 1 - 1) /\ buf[1] = <<b, 1 - 1>>
      BY <1>2, <1>5, <2>1, <2>2 DEF Bytes
    <3>2. buf[1] = <<first, 0>> /\ buf[1] = <<b, 0>>
      BY <1>2, <1>4, <3>1
    <3>3. QED BY <3>2
  <2>5. QED BY <2>1, <2>3, <2>4 DEF IsProgram
<1>8. ASSUME IsProgram(inode) PROVE HeaderIsElf
  <2>1. inode.length >= H /\ first \in ElfBlocks
    BY <1>8 DEF IsProgram
  <2>2. bytes_read # -1
    <3>1. ASSUME bytes_read = -1 PROVE FALSE
      <4>1. /\ n < H
            /\ inode.block_idx[(0 + n) \div BLOCK_SIZE + 1] \notin 0 .. NumDataBlocks - 1
        BY <1>1, <1>2, <3>1 DEF Copied
      <4>2. n \in 0 .. H - 1 /\ 0 + n = n
        BY <1>1, <1>2, <4>1
      <4>3. (0 + n) \div BLOCK_SIZE + 1 = 1
        BY <1>3, <4>2
      <4>4. QED BY <1>2, <2>1, <4>1, <4>3
    <3>2. QED BY <3>1
  <2>3. bytes_read = n
    BY <1>1, <2>2 DEF Copied
  <2>4. n = H
    <3>1. length <= 0 \/ remaining <= 0
      BY <1>1, <1>2, <1>6, <2>3 DEF ReadEnded, InLoop
    <3>2. QED BY <1>1, <1>2, <1>5, <1>6, <2>1, <2>3, <3>1
  <2>5. buf = [k \in 1 .. H |-> <<first, k - 1>>]
    <3>1. ASSUME NEW k \in 1 .. H PROVE ByteAt(inode, 0 + k - 1) = <<first, k - 1>>
      <4>1. k - 1 \in 0 .. H - 1 /\ 0 + k - 1 = k - 1
        BY <1>2
      <4>2. QED BY <1>4, <4>1
    <3>2. QED BY <1>5, <2>4, <3>1 DEF Bytes
  <2>6. QED BY <2>1, <2>3, <2>4, <2>5 DEF HeaderIsElf
<1>9. QED BY <1>7, <1>8

\* What a command means does not change while the command and the image do not.
LEMMA MeaningFrame ==
    ASSUME dentries' = dentries, inodes' = inodes, given' = given
    PROVE  /\ Named(given)' = Named(given) /\ FileOf(given)' = FileOf(given)
           /\ HasProgram <=> HasProgram'
<1>1. Named(given)' = Named(given)
  BY DEF Named
<1>2. FileOf(given)' = FileOf(given)
  BY <1>1 DEF FileOf
<1>3. QED BY <1>1, <1>2 DEF HasProgram, IsProgram

\* From a command to its file's header.
LEMMA PhaseCheck ==
    ASSUME ImageInv, RangeInv, LookupInv, PhaseInv,
           Execute \/ ExecuteNoName \/ NoFile \/ NotExecutable
    PROVE  PhaseInv'
<1>1. CASE Execute
  <2>1. Idle
    BY <1>1 DEF Execute, PhaseInv, Looking, Checking, Opening, Loading, Lost, Running
  <2>2. Looking'
    BY <1>1, <2>1 DEF Execute, Idle, Looking
  <2>3. QED BY <2>2 DEF PhaseInv
<1>2. CASE ExecuteNoName
  <2>1. Idle
    BY <1>2 DEF ExecuteNoName, PhaseInv, Looking, Checking, Opening, Loading, Lost, Running
  <2>2. given'[1] = SPACE
    BY <1>2 DEF ExecuteNoName, ParseFails
  <2>3. Idle'
    BY <1>2, <2>1, <2>2 DEF ExecuteNoName, Refuse, Idle
  <2>4. QED BY <2>3 DEF PhaseInv
<1>3. CASE NoFile
  <2>1. Looking
    BY <1>3 DEF NoFile, PhaseInv, Idle, Checking, Opening, Loading, Lost, Running
  <2>2. Named(given) = {}
    BY <1>3 DEF NoFile, LookupInv
  <2>3. dentries' = dentries /\ inodes' = inodes /\ given' = given
    BY <1>3 DEF NoFile, Refuse
  <2>4. Named(given)' = {}
    BY <2>2, <2>3, MeaningFrame
  <2>5. Idle'
    BY <1>3, <2>1, <2>4 DEF NoFile, Refuse, Idle, Looking
  <2>6. QED BY <2>5 DEF PhaseInv
<1>4. CASE NotExecutable
  <2>1. Checking
    BY <1>4 DEF NotExecutable, ReadEnded, PhaseInv, Idle, Looking, Opening, Loading, Lost, Running
  <2>2. ~IsProgram(inode)
    BY <1>4, <2>1, HeaderOfProgram DEF NotExecutable, Checking
  <2>3. dentries' = dentries /\ inodes' = inodes /\ given' = given
    BY <1>4 DEF NotExecutable, Refuse
  <2>4. ~IsProgram(FileOf(given))
    BY <2>1, <2>2 DEF Checking, IsProgram
  <2>5. ~IsProgram(FileOf(given))'
    BY <2>3, <2>4, MeaningFrame DEF IsProgram
  <2>6. Idle'
    BY <1>4, <2>1, <2>5 DEF NotExecutable, Refuse, Idle, Checking
  <2>7. QED BY <2>6 DEF PhaseInv
<1>5. QED BY <1>1, <1>2, <1>3, <1>4

\* The two lookups, and the reads of the header and of the program.
LEMMA PhaseOpen ==
    ASSUME ImageInv, RangeInv, LookupInv, PhaseInv, Search \/ OpenedFile \/ ReadRound \/ Executable
    PROVE  PhaseInv'
<1>1. dentries' = dentries /\ inodes' = inodes /\ given' = given /\ refused' = refused
  BY OthersFrame DEF Others
<1>2. /\ Named(given)' = Named(given) /\ FileOf(given)' = FileOf(given)
      /\ HasProgram <=> HasProgram'
  BY <1>1, MeaningFrame
<1>3. CASE Search
  <2>1. pc = "search" /\ pc' = pc /\ caller' = caller /\ memory' = memory
    BY <1>3 DEF Search
  <2>2. Looking \/ Opening
    BY <2>1 DEF PhaseInv, Idle, Checking, Loading, Lost, Running
  <2>3. Looking' \/ Opening'
    BY <1>1, <1>2, <2>1, <2>2 DEF Looking, Opening
  <2>4. QED BY <2>3 DEF PhaseInv
<1>4. CASE OpenedFile
  <2>1. pc = "search" /\ result > 0 /\ pc' = "read" /\ caller' = caller /\ memory' = memory
    BY <1>4 DEF OpenedFile
  <2>2. /\ Named(given) # {} /\ inodes[dentries[result].inode_idx + 1] = FileOf(given)
        /\ FileOf(given).length \in Nat
    BY <2>1, FoundFile DEF GoodFile
  <2>3. /\ inode' = FileOf(given) /\ offset' = 0
        /\ wanted' = IF caller = "check" THEN FILE_HEADER_SIZE ELSE LOADER_BUFFER_SIZE
    BY <1>4, <2>2 DEF OpenedFile, ReadFrom
  <2>4. CASE Looking
    <3>1. Checking'
      BY <1>1, <1>2, <2>1, <2>2, <2>3, <2>4 DEF Looking, Checking
    <3>2. QED BY <3>1 DEF PhaseInv
  <2>5. CASE Opening
    <3>1. Bytes(inode, 0, offset)' = <<>>
      BY <2>3 DEF Bytes
    <3>2. caller = "load" /\ memory = <<>> /\ ~refused /\ HasProgram
      BY <2>5 DEF Opening
    <3>3. Loading'
      BY <1>1, <1>2, <2>1, <2>2, <2>3, <3>1, <3>2 DEF Loading
    <3>4. QED BY <3>3 DEF PhaseInv
  <2>6. QED
    BY <2>1, <2>4, <2>5 DEF PhaseInv, Idle, Checking, Loading, Lost, Running
<1>5. CASE ReadRound
  <2>1. /\ pc = "read" /\ pc' = pc /\ caller' = caller /\ memory' = memory
        /\ inode' = inode /\ offset' = offset /\ wanted' = wanted
    BY <1>5 DEF ReadRound, read_data, CopyBlock, FailBlock
  <2>2. Checking \/ Loading \/ Running
    BY <2>1 DEF PhaseInv, Idle, Looking, Opening, Lost
  <2>3. Checking => Checking'
    BY <1>1, <1>2, <2>1 DEF Checking
  <2>4. Loading => Loading'
    BY <1>1, <1>2, <2>1 DEF Loading, Bytes
  <2>5. Running => Running'
    BY <1>1, <1>2, <2>1 DEF Running, FileRange
  <2>6. QED BY <2>2, <2>3, <2>4, <2>5 DEF PhaseInv
<1>6. CASE Executable
  <2>1. /\ pc = "read" /\ caller = "check" /\ ReadEnded /\ HeaderIsElf
        /\ pc' = "search" /\ caller' = "load" /\ memory' = memory
    BY <1>6 DEF Executable, ReadEnded
  <2>2. Checking
    BY <2>1 DEF PhaseInv, Idle, Looking, Opening, Loading, Lost, Running
  <2>3. IsProgram(inode)
    BY <2>1, <2>2, HeaderOfProgram DEF Checking
  <2>4. HasProgram
    BY <2>2, <2>3 DEF Checking, HasProgram, IsProgram
  <2>5. Opening'
    BY <1>1, <1>2, <2>1, <2>2, <2>4 DEF Checking, Opening
  <2>6. QED BY <2>5 DEF PhaseInv
<1>7. QED BY <1>3, <1>4, <1>5, <1>6

\* The loader's loop.
LEMMA PhaseLoad ==
    ASSUME ImageInv, RangeInv, LookupInv, PhaseInv, LoadMore \/ LoadLost \/ Loaded
    PROVE  PhaseInv'
<1>1. dentries' = dentries /\ inodes' = inodes /\ given' = given /\ refused' = refused
  BY OthersFrame DEF Others
<1>2. /\ Named(given)' = Named(given) /\ FileOf(given)' = FileOf(given)
      /\ HasProgram <=> HasProgram'
  BY <1>1, MeaningFrame
<1>3. CASE LoadMore
  <2>1. /\ pc = "read" /\ caller = "load" /\ bytes_read > 0
        /\ pc' = pc /\ caller' = caller /\ memory' = memory \o buf
        /\ inode' = inode /\ offset' = offset + bytes_read /\ wanted' = LOADER_BUFFER_SIZE
    BY <1>3 DEF LoadMore, ReadEnded, ReadFrom
  <2>2. Loading
    BY <2>1 DEF PhaseInv, Idle, Looking, Checking, Opening, Lost, Running
  <2>3. /\ offset \in Nat /\ bytes_read \in Nat /\ offset + bytes_read \in Nat
        /\ offset + bytes_read <= inode.length
        /\ buf = Bytes(inode, offset, bytes_read)
    BY <2>1, ReadWithin
  <2>4. memory' = Bytes(inode, 0, offset + bytes_read)
    <3>1. Bytes(inode, 0, offset) \o Bytes(inode, offset, bytes_read)
             = Bytes(inode, 0, offset + bytes_read)
      <4>1. 0 \in Nat /\ offset = 0 + offset
        BY <2>3
      <4>2. QED BY <2>3, <4>1, JoinBytes DEF Bytes
    <3>2. memory = Bytes(inode, 0, offset)
      BY <2>2 DEF Loading
    <3>3. QED BY <2>1, <2>3, <3>1, <3>2
  <2>5. memory' = Bytes(inode, 0, offset)'
    BY <2>1, <2>4 DEF Bytes
  <2>6. Loading'
    BY <1>1, <1>2, <2>1, <2>2, <2>3, <2>5 DEF Loading
  <2>7. QED BY <2>6 DEF PhaseInv
<1>4. CASE LoadLost
  <2>1. caller = "load" /\ LoadError /\ pc' = "lost" /\ caller' = caller
    BY <1>4 DEF LoadLost
  <2>2. CASE pc = "search"
    <3>1. result = -1
      BY <2>1, <2>2 DEF LoadError
    <3>2. Named(given) = {}
      BY <2>2, <3>1 DEF LookupInv
    <3>3. Opening
      BY <2>1, <2>2 DEF PhaseInv, Idle, Looking, Checking, Loading, Lost, Running
    <3>4. QED BY <3>2, <3>3 DEF Opening, HasProgram
  <2>3. CASE pc # "search"
    <3>1. ReadEnded /\ bytes_read = -1 /\ pc = "read"
      BY <2>1, <2>3 DEF LoadError, ReadEnded
    <3>2. Loading
      BY <2>1, <3>1 DEF PhaseInv, Idle, Looking, Checking, Opening, Lost, Running
    <3>3. ~Valid(inode)
      BY <3>1, RangeRead DEF ReadsTheRange
    <3>4. ~Valid(FileOf(given))
      BY <3>2, <3>3 DEF Loading, Valid
    <3>5. ~Valid(FileOf(given))'
      BY <1>2, <3>4 DEF Valid
    <3>6. Lost'
      BY <1>1, <2>1, <3>2, <3>5 DEF Loading, Lost
    <3>7. QED BY <3>6 DEF PhaseInv
  <2>4. QED BY <2>2, <2>3
<1>5. CASE Loaded
  <2>1. /\ pc = "read" /\ caller = "load" /\ ReadEnded /\ bytes_read = 0
        /\ pc' = "user" /\ caller' = "user" /\ memory' = memory
    BY <1>5 DEF Loaded, ReadEnded
  <2>2. Loading
    BY <2>1 DEF PhaseInv, Idle, Looking, Checking, Opening, Lost, Running
  <2>3. PICK n \in Nat : Copied(n)
    BY DEF RangeInv
  <2>4. offset \in Nat /\ inode.length \in Nat /\ offset <= inode.length
    BY <2>2 DEF RangeInv, GoodFile, Loading
  <2>5. n = 0 /\ length = LOADER_BUFFER_SIZE /\ remaining = inode.length - offset
    BY <2>1, <2>2, <2>3, <2>4, HeaderAssumption DEF Copied, Loading
  <2>6. remaining <= 0
    BY <2>1, <2>4, <2>5, HeaderAssumption DEF ReadEnded, InLoop
  <2>7. offset = inode.length
    BY <2>4, <2>5, <2>6
  <2>8. memory = FileRange(inode, 0, inode.length)
    <3>1. memory = Bytes(inode, 0, inode.length)
      BY <2>2, <2>7 DEF Loading
    <3>2. FileRange(inode, 0, inode.length) = Bytes(inode, 0, inode.length)
      BY <2>4 DEF FileRange, Bytes
    <3>3. QED BY <3>1, <3>2
  <2>9. memory = FileRange(FileOf(given), 0, FileOf(given).length)
    BY <2>2, <2>8 DEF Loading, FileRange
  <2>10. memory' = FileRange(FileOf(given), 0, FileOf(given).length)'
    BY <1>2, <2>1, <2>9 DEF FileRange
  <2>11. Running'
    BY <1>1, <1>2, <2>1, <2>2, <2>10 DEF Loading, Running
  <2>12. QED BY <2>11 DEF PhaseInv
<1>6. QED BY <1>3, <1>4, <1>5

\* The program's calls, and its end.
LEMMA PhaseRun ==
    ASSUME PhaseInv, ReadReturns \/ BadCall \/ GetArgs \/ ReadDir \/ ReadFile \/ Halt
    PROVE  PhaseInv'
<1>1. Running
  <2>1. (caller = "user" /\ pc = "read") \/ pc = "user"
    BY DEF ReadReturns, BadCall, GetArgs, ReadDir, ReadFile, Halt, SystemCall, ReadEnded
  <2>2. QED BY <2>1 DEF PhaseInv, Idle, Looking, Checking, Opening, Loading, Lost
<1>2. CASE Halt
  <2>1. Idle'
    BY <1>1, <1>2 DEF Halt, Running, Idle
  <2>2. QED BY <2>1 DEF PhaseInv
<1>3. CASE ReadReturns \/ BadCall \/ GetArgs \/ ReadDir \/ ReadFile
  <2>1. dentries' = dentries /\ inodes' = inodes /\ given' = given /\ refused' = refused
    BY <1>3, OthersFrame DEF Others
  <2>2. FileOf(given)' = FileOf(given) /\ (HasProgram <=> HasProgram')
    BY <2>1, MeaningFrame
  <2>3. pc' \in {"user", "read"} /\ caller' = caller /\ memory' = memory
    BY <1>1, <1>3 DEF ReadReturns, BadCall, GetArgs, ReadDir, ReadFile, Running
  <2>4. Running'
    BY <1>1, <2>1, <2>2, <2>3 DEF Running, FileRange
  <2>5. QED BY <2>4 DEF PhaseInv
<1>4. QED BY <1>2, <1>3

LEMMA PhaseStep == ImageInv /\ RangeInv /\ LookupInv /\ PhaseInv /\ [Next]_vars => PhaseInv'
<1> SUFFICES ASSUME ImageInv, RangeInv, LookupInv, PhaseInv, [Next]_vars PROVE PhaseInv'
  OBVIOUS
<1>1. CASE UNCHANGED vars
  <2>1. /\ dentries' = dentries /\ inodes' = inodes /\ given' = given /\ refused' = refused
        /\ pc' = pc /\ caller' = caller /\ memory' = memory
        /\ inode' = inode /\ offset' = offset /\ wanted' = wanted
    BY <1>1 DEF vars, history, reading
  <2>2. /\ Named(given)' = Named(given) /\ FileOf(given)' = FileOf(given)
        /\ HasProgram <=> HasProgram'
    BY <2>1, MeaningFrame
  <2>3. (Idle => Idle') /\ (Looking => Looking') /\ (Checking => Checking')
    BY <2>1, <2>2 DEF Idle, Looking, Checking, IsProgram
  <2>4. (Opening => Opening') /\ (Loading => Loading')
    BY <2>1, <2>2 DEF Opening, Loading, Bytes
  <2>5. (Lost => Lost') /\ (Running => Running')
    BY <2>1, <2>2 DEF Lost, Running, FileRange, Valid
  <2>6. QED BY <2>3, <2>4, <2>5 DEF PhaseInv
<1>2. QED
  BY <1>1, NextCases, PhaseCheck, PhaseOpen, PhaseLoad, PhaseRun DEF Others

-------------------------------------------------------------------------------
(* The answers to the program *)

\* sys_getargs writes the arguments up to their NUL, or nbytes of them and one more.
LEMMA WrittenArguments ==
    ASSUME CommandInv, pc # "idle", NEW nbytes \in Nat \cup {-1}
    PROVE  LET args == Append(Rest(given), NUL)
           IN  Written(nbytes) = SubSeq(args, 1, IF nbytes < 0 THEN 1
                                                 ELSE min(nbytes + 1, Len(args)))
<1> DEFINE M == MAX_COMMAND_LENGTH
           rest == Rest(given)
           L == Len(rest)
           args == Append(rest, NUL)
           n == IF nbytes < 0 THEN 0 ELSE nbytes
           P == {j \in 1 .. nbytes : j <= M /\ NoNul(cmd_args, j)}
<1>1. IsString(given) /\ cmd_args = Filled(rest)
  BY DEF CommandInv
<1>2. PICK w, r \in Nat : Parts(given, w, r)
  BY <1>1, PartsOf
<1>3. /\ rest \in Seq(Nat) /\ L \in Nat /\ L < M /\ M \in Nat
      /\ \A k \in 1 .. L : rest[k] \in Nat /\ rest[k] # NUL
  <2>1. /\ rest \in Seq(Nat) /\ L = Len(given) - 1 - r
        /\ r \in Nat /\ r < Len(given)
        /\ \A k \in 1 .. L : rest[k] = given[r + k]
    BY <1>2 DEF Parts
  <2>2. Len(given) \in Nat /\ Len(given) <= M /\ M \in Nat
    BY <1>1, CommandAssumption DEF IsString
  <2> HIDE DEF rest
  <2>3. L \in Nat /\ L < M
    BY <2>1, <2>2
  <2>4. ASSUME NEW k \in 1 .. L PROVE rest[k] \in Nat /\ rest[k] # NUL
    <3>1. r + k \in 1 .. Len(given) /\ r + k # Len(given)
      BY <2>1, <2>2
    <3>2. given[r + k] \in Nat /\ given[r + k] # NUL
      BY <1>1, <3>1 DEF IsString
    <3>3. QED BY <2>1, <3>2
  <2>5. QED BY <2>1, <2>2, <2>3, <2>4
<1> HIDE DEF rest
<1>4. \A k \in 1 .. M : cmd_args[k] = IF k <= L THEN rest[k] ELSE NUL
  BY <1>1 DEF Filled
<1>5. n \in Nat /\ (nbytes >= 0 => n = nbytes)
  OBVIOUS
<1>6. \A j \in 1 .. n : j \in P <=> j <= L
  <2>1. ASSUME NEW j \in 1 .. n PROVE j \in P <=> j <= L
    <3>1. j \in 1 .. nbytes
      BY <1>5
    <3>2. ASSUME j <= L PROVE j <= M /\ NoNul(cmd_args, j)
      <4>1. \A i \in 1 .. j : i \in 1 .. L /\ i \in 1 .. M
        BY <1>3, <3>2
      <4>2. QED BY <1>3, <1>4, <3>2, <4>1 DEF NoNul
    <3>3. ASSUME j > L, NoNul(cmd_args, j) PROVE FALSE
      <4>1. L + 1 \in 1 .. j /\ L + 1 \in 1 .. M /\ ~(L + 1 <= L)
        BY <1>3, <3>3
      <4>2. cmd_args[L + 1] = NUL
        BY <1>4, <4>1
      <4>3. QED BY <3>3, <4>1, <4>2 DEF NoNul
    <3>4. QED BY <1>3, <3>1, <3>2, <3>3
  <2>2. QED BY <2>1
<1>7. P = 1 .. (IF n <= L THEN n ELSE L)
  <2>1. P \subseteq 1 .. n
    BY <1>5
  <2> HIDE DEF P, n
  <2>2. CASE n <= L
    <3>1. \A j \in 1 .. n : j \in P
      BY <1>3, <1>5, <1>6, <2>2
    <3>2. P = 1 .. n
      BY <2>1, <3>1
    <3>3. QED BY <2>2, <3>2
  <2>3. CASE ~(n <= L)
    <3>1. \A j \in 1 .. n : j \in P <=> j \in 1 .. L
      BY <1>3, <1>5, <1>6
    <3>2. 1 .. L \subseteq 1 .. n
      BY <1>3, <1>5, <2>3
    <3>3. P = 1 .. L
      BY <2>1, <3>1, <3>2
    <3>4. QED BY <2>3, <3>3
  <2>4. QED BY <2>2, <2>3
<1> DEFINE m == IF n <= L THEN n ELSE L
<1>8. m \in Nat /\ m <= L /\ bufferlength(nbytes) = m
  <2>1. m \in Nat /\ m <= L
    BY <1>3, <1>5
  <2>2. bufferlength(nbytes) = Cardinality(P)
    BY DEF bufferlength
  <2> HIDE DEF P, m
  <2>3. Cardinality(1 .. m) = IF 1 > m THEN 0 ELSE m - 1 + 1
    BY <2>1, FS_Interval
  <2>4. P = 1 .. m
    BY <1>7 DEF m
  <2>5. QED BY <2>1, <2>2, <2>3, <2>4
<1>9. /\ args \in Seq(Nat) /\ Len(args) = L + 1
      /\ \A k \in 1 .. L + 1 : args[k] = IF k <= L THEN rest[k] ELSE NUL
  BY <1>3, AppendProperties DEF NUL
<1> HIDE DEF args
<1>10. (IF nbytes < 0 THEN 1 ELSE min(nbytes + 1, Len(args))) = m + 1
  BY <1>3, <1>5, <1>9 DEF min
<1> HIDE DEF m
<1>11. \A k \in 1 .. m + 1 : cmd_args[k] = args[k] /\ args[k] \in Nat
  <2> SUFFICES ASSUME NEW k \in 1 .. m + 1
               PROVE  cmd_args[k] = args[k] /\ args[k] \in Nat
    OBVIOUS
  <2>1. k \in 1 .. L + 1
    BY <1>3, <1>8
  <2>2. args[k] = IF k <= L THEN rest[k] ELSE NUL
    BY <1>9, <2>1
  <2>3. QED BY <1>3, <1>4, <1>8, <2>1, <2>2 DEF NUL
<1>12. /\ SubSeq(cmd_args, 1, m + 1) \in Seq(Nat) /\ Len(SubSeq(cmd_args, 1, m + 1)) = m + 1
       /\ \A k \in 1 .. m + 1 : SubSeq(cmd_args, 1, m + 1)[k] = cmd_args[k]
  <2> DEFINE q == SubSeq(cmd_args, 1, m + 1)
  <2>1. m + 1 \in Int /\ \A i \in 1 .. m + 1 : cmd_args[i] \in Nat
    BY <1>8, <1>11
  <2>2. /\ q \in Seq(Nat) /\ Len(q) = IF 1 <= m + 1 THEN (m + 1) - 1 + 1 ELSE 0
        /\ \A i \in 1 .. (m + 1) - 1 + 1 : q[i] = cmd_args[1 + i - 1]
    BY <2>1, SubSeqProperties
  <2> HIDE DEF q
  <2>3. QED BY <1>8, <2>2 DEF q
<1>13. /\ SubSeq(args, 1, m + 1) \in Seq(Nat) /\ Len(SubSeq(args, 1, m + 1)) = m + 1
       /\ \A k \in 1 .. m + 1 : SubSeq(args, 1, m + 1)[k] = args[k]
  <2> DEFINE q == SubSeq(args, 1, m + 1)
  <2>1. m + 1 \in Int /\ \A i \in 1 .. m + 1 : args[i] \in Nat
    BY <1>8, <1>11
  <2>2. /\ q \in Seq(Nat) /\ Len(q) = IF 1 <= m + 1 THEN (m + 1) - 1 + 1 ELSE 0
        /\ \A i \in 1 .. (m + 1) - 1 + 1 : q[i] = args[1 + i - 1]
    BY <2>1, SubSeqProperties
  <2> HIDE DEF q
  <2>3. QED BY <1>8, <2>2 DEF q
<1>14. SubSeq(cmd_args, 1, m + 1) = SubSeq(args, 1, m + 1)
  <2> DEFINE q == SubSeq(cmd_args, 1, m + 1)
             t == SubSeq(args, 1, m + 1)
  <2>1. \A k \in 1 .. m + 1 : q[k] = t[k]
    BY <1>11, <1>12, <1>13
  <2>2. q \in Seq(Nat) /\ t \in Seq(Nat) /\ Len(q) = m + 1 /\ Len(t) = m + 1
    BY <1>12, <1>13
  <2> HIDE DEF q, t
  <2>3. q = t
    BY <2>1, <2>2, SeqEqual
  <2>4. QED BY <2>3 DEF q, t
<1>15. Written(nbytes) = SubSeq(args, 1, m + 1)
  BY <1>8, <1>14 DEF Written
<1>16. QED BY <1>10, <1>15 DEF args, rest

\* read_dir counts the characters of a name up to its first NUL.
LEMMA NameCounted ==
    ASSUME NEW d, GoodEntry(d)
    PROVE  /\ FileNameLength(d) \in 1 .. MAX_FILE_NAME_LENGTH
           /\ \A k \in 1 .. FileNameLength(d) : d.file_name[k] # NUL
           /\ \A k \in 1 .. MAX_FILE_NAME_LENGTH :
                 k > FileNameLength(d) => d.file_name[k] = NUL
<1> DEFINE M == MAX_FILE_NAME_LENGTH
           P == {k \in 1 .. M : NoNul(d.file_name, k)}
<1>1. /\ M \in Nat /\ M > 0 /\ d.file_name[1] # NUL
      /\ \A i, j \in 1 .. M : i < j /\ d.file_name[i] = NUL => d.file_name[j] = NUL
  BY NameAssumption DEF GoodEntry
<1>2. P \subseteq 0 + 1 .. M /\ \A k \in P : \A j \in 0 + 1 .. k : j \in P
  BY <1>1 DEF NoNul
<1>3. PICK m \in Nat : /\ m <= M /\ P = 1 .. m /\ Cardinality(P) = m
  <2> HIDE DEF P
  <2>1. PICK m \in Nat : /\ (0 <= m /\ m <= M) \/ m = 0
                         /\ P = 0 + 1 .. m /\ Cardinality(P) = m - 0
    BY <1>1, <1>2, PrefixCount
  <2>2. m <= M /\ 0 + 1 = 1 /\ m - 0 = m
    BY <1>1, <2>1
  <2>3. QED BY <2>1, <2>2
<1>4. FileNameLength(d) = m
  BY <1>3 DEF FileNameLength
<1>5. \A k \in 1 .. m : d.file_name[k] # NUL
  <2>1. \A k \in 1 .. m : NoNul(d.file_name, k)
    BY <1>3
  <2>2. QED BY <1>3, <2>1 DEF NoNul
<1>6. m >= 1
  <2>1. 1 \in P
    BY <1>1 DEF NoNul
  <2>2. QED BY <1>3, <2>1
<1>7. ASSUME NEW k \in 1 .. M, k > m PROVE d.file_name[k] = NUL
  <2>1. m + 1 \in 1 .. M /\ m + 1 \notin P
    BY <1>1, <1>3, <1>7
  <2>2. PICK j \in 1 .. m + 1 : d.file_name[j] = NUL
    BY <2>1 DEF NoNul
  <2>3. j = m + 1
    BY <1>3, <1>5, <2>2
  <2>4. d.file_name[m + 1] = NUL
    BY <2>2, <2>3
  <2>5. m + 1 = k \/ m + 1 < k
    BY <1>3, <1>7
  <2>6. QED BY <1>1, <2>1, <2>4, <2>5
<1>8. QED BY <1>3, <1>4, <1>5, <1>6, <1>7

\* A name that read_dir has cut to n characters.
LEMMA NameListed ==
    ASSUME NEW d, GoodEntry(d), NEW n \in Nat
    PROVE  LET name == SubSeq(d.file_name, 1, min(FileNameLength(d), n))
           IN  /\ Len(name) = min(FileNameLength(d), n) /\ Len(name) \in Nat
               /\ n = 0 <=> name = <<>>
               /\ NoNul(name, Len(name))
               /\ \/ d.file_name = Padded(name)
                  \/ Len(name) = n /\ SubSeq(d.file_name, 1, Len(name)) = name
<1> DEFINE M == MAX_FILE_NAME_LENGTH
           f == d.file_name
           L == FileNameLength(d)
           m == min(L, n)
           name == SubSeq(f, 1, m)
<1>1. /\ L \in 1 .. M /\ M \in Nat
      /\ \A k \in 1 .. L : f[k] # NUL
      /\ \A k \in 1 .. M : k > L => f[k] = NUL
      /\ f \in [1 .. M -> Nat]
  BY NameCounted, NameAssumption DEF GoodEntry
<1> HIDE DEF L, f
<1>2. m \in Nat /\ m <= L /\ (m = L \/ m = n) /\ (m = 0 <=> n = 0)
  BY <1>1 DEF min
<1> HIDE DEF m
<1>3. /\ Len(name) = m
      /\ \A k \in 1 .. m : name[k] = f[k]
  <2>1. m \in Int /\ \A i \in 1 .. m : f[i] \in Nat
    BY <1>1, <1>2
  <2>2. /\ Len(name) = IF 1 <= m THEN m - 1 + 1 ELSE 0
        /\ \A i \in 1 .. m - 1 + 1 : name[i] = f[1 + i - 1]
    BY <2>1, SubSeqProperties
  <2> HIDE DEF name
  <2>3. QED BY <1>2, <2>2
<1>4. m = 0 => name = <<>>
  <2>1. ASSUME m = 0 PROVE SubSeq(f, 1, m) = <<>>
    <3>1. m < 1 /\ m \in Int
      BY <2>1
    <3>2. QED BY <3>1, SubSeqEmpty
  <2>2. QED BY <2>1
<1>5. name = <<>> => m = 0
  <2> HIDE DEF name
  <2>1. Len(<<>>) = 0
    OBVIOUS
  <2>2. QED BY <1>3, <2>1
<1>6. SubSeq(f, 1, Len(name)) = name
  BY <1>3
<1> HIDE DEF name
<1>7. NoNul(name, Len(name))
  BY <1>1, <1>2, <1>3 DEF NoNul
<1>8. ASSUME m = L PROVE f = Padded(name)
  <2>1. ASSUME NEW k \in 1 .. M PROVE f[k] = IF k <= Len(name) THEN name[k] ELSE NUL
    BY <1>1, <1>2, <1>3, <1>8
  <2>2. QED BY <1>1, <2>1 DEF Padded
<1>9. QED BY <1>2, <1>3, <1>4, <1>5, <1>6, <1>7, <1>8 DEF name, m, L, f

\* Reading the directory.
LEMMA AnswerReadDir == ASSUME ImageInv, AnswerInv, ReadDir PROVE AnswerInv'
<1>1. PICK nbytes \in Lengths \ {-1} :
          /\ answer' = [call |-> "sys_read", nbytes |-> nbytes, bytes |-> read_dir(nbytes)]
          /\ read_dir_wrapper(nbytes)
  BY DEF ReadDir
<1>2. nbytes \in Nat /\ pc' = "user" /\ dentries' = dentries
  BY RequestAssumption DEF ReadDir, SystemCall
<1>3. /\ position \in 0 .. Len(dentries) /\ listed = position /\ Len(dentries) \in Nat
  BY Image DEF AnswerInv, ListsTheDirectory
<1>4. answer'.call = "sys_read" /\ answer'.nbytes = nbytes /\ answer'.bytes = read_dir(nbytes)
  BY <1>1
<1>5. ArgumentsDelivered'
  BY <1>4 DEF ArgumentsDelivered
<1>6. CASE position >= Len(dentries)
  <2>1. read_dir(nbytes) = <<>> /\ Len(<<>>) = 0
    BY <1>6 DEF read_dir
  <2>2. position' = position /\ listed' = listed
    BY <1>1, <2>1 DEF read_dir_wrapper, Move
  <2>3. position' = Len(dentries')
    BY <1>2, <1>3, <1>6, <2>2
  <2>4. ListsTheDirectory'
    BY <1>3, <1>4, <2>1, <2>2, <2>3 DEF ListsTheDirectory
  <2>5. QED BY <1>2, <1>3, <1>5, <2>2, <2>4 DEF AnswerInv
<1>7. CASE position < Len(dentries)
  <2> DEFINE d == dentries[position + 1]
             name == SubSeq(d.file_name, 1, min(FileNameLength(d), nbytes))
  <2>1. position + 1 \in 1 .. Len(dentries)
    BY <1>3, <1>7
  <2>2. PICK e : e = d
    OBVIOUS
  <2>3. GoodEntry(e)
    BY <2>1, <2>2, Image
  <2>4. PICK s : s = SubSeq(e.file_name, 1, min(FileNameLength(e), nbytes))
    OBVIOUS
  <2>5. /\ Len(s) \in Nat /\ (nbytes = 0 <=> s = <<>>)
        /\ NoNul(s, Len(s))
        /\ e.file_name = Padded(s)
           \/ (Len(s) = nbytes /\ SubSeq(e.file_name, 1, Len(s)) = s)
        /\ Len(s) = min(FileNameLength(e), nbytes)
    BY <1>2, <2>3, <2>4, NameListed
  <2>6. read_dir(nbytes) = s
    <3>1. read_dir(nbytes) = name
      <4>1. ~(position >= Len(dentries))
        BY <1>3, <1>7
      <4>2. QED BY <4>1, Zenon DEF read_dir
    <3>2. s = name
      BY <2>2, <2>4, Zenon DEF FileNameLength
    <3>3. QED BY <3>1, <3>2
  <2>7. position' = (IF Len(s) > 0 THEN position + 1 ELSE position)
    BY <1>1, <2>6 DEF read_dir_wrapper, Move
  <2>8. listed' = IF Len(s) > 0 THEN listed + 1 ELSE listed
    BY <1>1, <2>6 DEF read_dir_wrapper
  <2>9. position' \in 0 .. Len(dentries') /\ listed' = position'
    BY <1>2, <1>3, <1>7, <2>7, <2>8
  <2>10. CASE s = <<>>
    <3>1. nbytes = 0
      BY <2>5, <2>10
    <3>2. ListsTheDirectory'
      BY <1>4, <2>6, <2>9, <2>10, <3>1 DEF ListsTheDirectory
    <3>3. QED BY <1>2, <1>5, <2>9, <3>2 DEF AnswerInv
  <2>11. CASE s # <<>>
    <3>1. Len(s) > 0
      <4>1. FileNameLength(e) >= 1 /\ FileNameLength(e) \in Nat /\ nbytes > 0
        BY <1>2, <2>3, <2>5, <2>11, NameCounted, NameAssumption
      <4>2. QED BY <1>2, <2>5, <4>1 DEF min
    <3>2. dentries'[position'] = e
      BY <1>2, <2>2, <2>7, <3>1
    <3>3. ListsTheDirectory'
      BY <1>4, <2>5, <2>6, <2>9, <2>11, <3>2 DEF ListsTheDirectory
    <3>4. QED BY <1>2, <1>5, <2>9, <3>3 DEF AnswerInv
  <2>12. QED BY <2>10, <2>11
<1>8. QED BY <1>3, <1>6, <1>7

LEMMA RestIsString == ASSUME CommandInv, pc # "idle" PROVE Rest(given) \in Seq(Nat)
<1>1. IsString(given)
  BY DEF CommandInv
<1>2. PICK w, r \in Nat : Parts(given, w, r)
  BY <1>1, PartsOf
<1>3. QED BY <1>2 DEF Parts

\* The program asks for its arguments.
LEMMA AnswerGetArgs == ASSUME CommandInv, AnswerInv, GetArgs PROVE AnswerInv'
<1>1. PICK nbytes \in Lengths :
          answer' = [call |-> "sys_getargs", nbytes |-> nbytes, bytes |-> Written(nbytes)]
  BY DEF GetArgs
<1>2. /\ pc = "user" /\ pc' = "user" /\ given' = given /\ dentries' = dentries
      /\ position' = position /\ listed' = listed
  BY DEF GetArgs, SystemCall, listing
<1>3. nbytes \in Nat \cup {-1}
  BY RequestAssumption
<1>4. /\ answer'.call = "sys_getargs" /\ answer'.nbytes = nbytes
      /\ answer'.bytes = Written(nbytes)
  BY <1>1
<1>5. Written(nbytes) = SubSeq(Append(Rest(given), NUL), 1,
                               IF nbytes < 0 THEN 1
                               ELSE min(nbytes + 1, Len(Append(Rest(given), NUL))))
  BY <1>2, <1>3, WrittenArguments
<1>6. ArgumentsDelivered'
  <2> DEFINE args == Append(Rest(given), NUL)
  <2>1. args \in Seq(Nat) /\ Len(args) \in Nat \ {0}
    <3>1. Rest(given) \in Seq(Nat)
      BY <1>2, RestIsString
    <3>2. QED BY <3>1 DEF NUL
  <2>2. PICK bytes : bytes = Written(nbytes)
    OBVIOUS
  <2>3. bytes = SubSeq(args, 1, IF nbytes < 0 THEN 1 ELSE min(nbytes + 1, Len(args)))
    BY <1>5, <2>2
  <2> HIDE DEF args
  <2>4. CASE Len(args) <= nbytes
    <3>1. bytes = SubSeq(args, 1, Len(args))
      BY <1>3, <2>1, <2>3, <2>4 DEF min
    <3>2. /\ bytes \in Seq(Nat) /\ Len(bytes) = Len(args)
          /\ \A k \in 1 .. Len(args) : bytes[k] = args[k]
      BY <2>1, <3>1
    <3>3. bytes = args
      BY <2>1, <3>2, SeqEqual
    <3>4. QED BY <1>2, <1>4, <2>2, <2>4, <3>3 DEF ArgumentsDelivered, args, Rest, FirstWord
  <2>5. CASE nbytes < Len(args)
    <3>1. \A k \in 1 .. nbytes : k <= Len(bytes) /\ bytes[k] = args[k]
      BY <1>3, <2>1, <2>3, <2>5 DEF min
    <3>2. ~(Len(args) <= nbytes)
      BY <1>3, <2>1, <2>5
    <3>3. /\ ~(Len(args) <= answer'.nbytes)
          /\ \A k \in 1 .. answer'.nbytes : k <= Len(answer'.bytes) /\ answer'.bytes[k] = args[k]
      BY <1>4, <2>2, <3>1, <3>2
    <3>4. QED BY <1>2, <3>3, Zenon DEF ArgumentsDelivered, args, Rest, FirstWord
  <2>6. QED BY <1>3, <2>1, <2>4, <2>5
<1>7. ListsTheDirectory'
  BY <1>2, <1>4 DEF AnswerInv, ListsTheDirectory
<1>8. QED BY <1>2, <1>6, <1>7 DEF AnswerInv

LEMMA NoAnswerYet ==
    ASSUME answer' = NoAnswer, position' \in 0 .. Len(dentries'), listed' = position'
    PROVE  AnswerInv'
<1>1. answer'.call = "none"
  BY DEF NoAnswer
<1>2. ArgumentsDelivered' /\ ListsTheDirectory'
  BY <1>1 DEF ArgumentsDelivered, ListsTheDirectory
<1>3. QED BY <1>2 DEF AnswerInv

LEMMA AnswerStep == ImageInv /\ CommandInv /\ AnswerInv /\ [Next]_vars => AnswerInv'
<1> SUFFICES ASSUME ImageInv, CommandInv, AnswerInv, [Next]_vars PROVE AnswerInv'
  OBVIOUS
<1>1. Len(dentries) \in Nat /\ position \in 0 .. Len(dentries) /\ listed = position
  BY Image DEF AnswerInv, ListsTheDirectory
<1>2. CASE Execute \/ ExecuteNoName \/ NoFile \/ NotExecutable
  <2>1. answer' = NoAnswer
    BY <1>2 DEF Execute, ExecuteNoName, NoFile, NotExecutable, ReadEnded, Refuse, AnswerInv
  <2>2. dentries' = dentries /\ position' = position /\ listed' = listed
    BY <1>2 DEF Execute, ExecuteNoName, NoFile, NotExecutable, Refuse, listing
  <2>3. QED BY <1>1, <2>1, <2>2, NoAnswerYet
<1>3. CASE \/ Search \/ OpenedFile \/ ReadRound \/ Executable \/ LoadMore \/ LoadLost
           \/ Loaded \/ ReadReturns
  <2>1. pc # "user" /\ answer' = answer
    BY <1>3 DEF Search, OpenedFile, ReadRound, Executable, LoadMore, LoadLost, LoadError, Loaded,
               ReadReturns, ReadEnded, history
  <2>2. dentries' = dentries /\ position' = position /\ listed' = listed
    BY <1>3 DEF Search, OpenedFile, ReadRound, Executable, LoadMore, LoadLost, Loaded,
               ReadReturns, listing
  <2>3. QED BY <1>1, <2>1, <2>2, NoAnswerYet DEF AnswerInv
<1>4. CASE Halt
  <2>1. answer' = NoAnswer /\ dentries' = dentries /\ position' = 0 /\ listed' = 0
    BY <1>4 DEF Halt
  <2>2. QED BY <1>1, <2>1, NoAnswerYet
<1>5. CASE ReadFile
  <2>1. answer' = NoAnswer /\ dentries' = dentries /\ position' = position /\ listed' = listed
    BY <1>5 DEF ReadFile, listing
  <2>2. QED BY <1>1, <2>1, NoAnswerYet
<1>6. CASE BadCall
  <2>1. answer' = NoAnswer /\ dentries' = dentries /\ position' = position /\ listed' = listed
    BY <1>6 DEF BadCall, listing
  <2>2. QED BY <1>1, <2>1, NoAnswerYet
<1>7. CASE GetArgs
  BY <1>7, AnswerGetArgs
<1>8. CASE ReadDir
  BY <1>8, AnswerReadDir
<1>9. CASE UNCHANGED vars
  <2>1. /\ pc' = pc /\ answer' = answer /\ given' = given /\ dentries' = dentries
        /\ position' = position /\ listed' = listed
    BY <1>9 DEF vars, history, listing
  <2>2. QED BY <2>1 DEF AnswerInv, ArgumentsDelivered, ListsTheDirectory
<1>10. QED
  BY <1>2, <1>3, <1>4, <1>5, <1>6, <1>7, <1>8, <1>9, NextCases DEF Others

-------------------------------------------------------------------------------
(* The theorems *)

LEMMA ExecInit == Init => ExecInv
<1> SUFFICES ASSUME Init PROVE ExecInv
  OBVIOUS
<1>1. ImageInv
  BY DEF Init, ImageInv
<1>2. RangeInv
  <2>1. GoodFile(NoInode) /\ 0 < WORD
    BY SizeAssumption DEF GoodFile, NoInode
  <2>2. Bytes(NoInode, 0, 0) = <<>>
    BY DEF Bytes
  <2>3. Copied(0)
    BY <2>2 DEF Init, Copied, InLoop, NoInode, Bytes
  <2>4. QED BY <2>1, <2>3 DEF Init, RangeInv
<1>3. CommandInv
  <2>1. IsString(<<NUL>>)
    BY CommandAssumption DEF IsString, NUL
  <2>2. QED BY <2>1 DEF Init, CommandInv
<1>4. LookupInv
  BY DEF Init, LookupInv
<1>5. PhaseInv
  BY DEF Init, PhaseInv, Idle
<1>6. AnswerInv
  <2>1. position = 0 /\ listed = 0 /\ answer.call = "none" /\ answer = NoAnswer
    BY DEF Init, NoAnswer
  <2>2. ArgumentsDelivered /\ ListsTheDirectory
    BY <2>1 DEF ArgumentsDelivered, ListsTheDirectory
  <2>3. 0 \in 0 .. Len(dentries)
    BY <1>1, Image
  <2>4. QED BY <2>1, <2>2, <2>3 DEF AnswerInv
<1>7. QED BY <1>1, <1>2, <1>3, <1>4, <1>5, <1>6 DEF ExecInv

LEMMA ExecStep == ExecInv /\ [Next]_vars => ExecInv'
  BY ImageStep, RangeStep, CommandStep, LookupStep, PhaseStep, AnswerStep DEF ExecInv

\* The inductive invariant: the PCB holds the words of the command, a lookup has passed no
\* entry of the name, buf is the beginning of the range that is read, and memory is the
\* part of the file that has been loaded.
THEOREM ExecInvHolds == Spec => []ExecInv
  BY ExecInit, ExecStep, PTL DEF Spec

\* Whoever reads from a position below 2^31 gets the range asked for, across block borders
\* and up to the end of the file, and only a file with an invalid block fails a read
\* (read_data).
THEOREM ReadsTheRangeHolds == Spec => []ReadsTheRange
<1>1. ExecInv => ReadsTheRange
  <2>1. ~ReadEnded => ReadsTheRange
    BY DEF ReadsTheRange
  <2>2. QED BY <2>1, RangeRead DEF ExecInv
<1>2. QED BY <1>1, ExecInvHolds, PTL

\* Reading the directory returns every entry once, in order (read_dir_wrapper).
THEOREM ListsTheDirectoryHolds == Spec => []ListsTheDirectory
<1>1. ExecInv => ListsTheDirectory
  BY DEF ExecInv, AnswerInv
<1>2. QED BY <1>1, ExecInvHolds, PTL

\* A program gets the arguments of its own command, whole if they fit its buffer and
\* otherwise their beginning (parse_command, sys_getargs), for commands that fit the PCB.
\* It does not say that nothing is written behind the buffer: sys_getargs may write one byte.
THEOREM ArgumentsDeliveredHolds == Spec => []ArgumentsDelivered
<1>1. ExecInv => ArgumentsDelivered
  BY DEF ExecInv, AnswerInv
<1>2. QED BY <1>1, ExecInvHolds, PTL

\* What runs is the first file of the command's name, whole (check_executable,
\* load_executable); what is refused has no name, no such file or no program.
THEOREM ExecutesWhatIsNamedHolds == Spec => []ExecutesWhatIsNamed
<1>1. ASSUME ExecInv PROVE ExecutesWhatIsNamed
  <2>1. PhaseInv
    BY <1>1 DEF ExecInv
  <2>2. refused => Named(given) = {} \/ ~IsProgram(FileOf(given)) \/ given[1] = SPACE
    BY <2>1 DEF PhaseInv, Idle, Looking, Checking, Opening, Loading, Lost, Running
  <2>3. ASSUME pc = "user"
        PROVE  /\ Named(given) # {} /\ IsProgram(FileOf(given))
               /\ memory = FileRange(FileOf(given), 0, FileOf(given).length)
    <3>1. Running
      BY <2>1, <2>3 DEF PhaseInv, Idle, Looking, Checking, Opening, Loading, Lost
    <3>2. QED BY <3>1 DEF Running, HasProgram
  <2>4. ASSUME pc = "lost" PROVE ~Valid(FileOf(given))
    <3>1. Lost
      BY <2>1, <2>4 DEF PhaseInv, Idle, Looking, Checking, Opening, Loading, Running
    <3>2. QED BY <3>1 DEF Lost
  <2>5. QED BY <2>2, <2>3, <2>4 DEF ExecutesWhatIsNamed
<1>2. QED BY <1>1, ExecInvHolds, PTL
===============================================================================
