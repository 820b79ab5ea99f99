---------------------------- MODULE FileDescProofs ----------------------------
(***************************************************************************)
(* Proofs about FileDesc, for an array of any length and any directory.    *)
(*                                                                         *)
(* Whatever the program does, a free descriptor is empty (ClosedClean):    *)
(* open_file writes before the first free descriptor, and that place is in *)
(* use because the free one is the first.  A program that closes only its  *)
(* last descriptor (~Holes) keeps the open ones in one row (Contiguous);   *)
(* then the place before the first free descriptor is the last one open:   *)
(* for open the one just taken, for a program that is started the only one *)
(* that may lose its file.  Until a read fails the position of an open     *)
(* file is what its reads have delivered, no more than it has.             *)
(***************************************************************************)
EXTENDS FileDesc, NatFacts

Ops == {"null", "stdin", "stdout", "rtc", "dir", "reg"}

Descriptor == [file_ops : Ops, inode_ptr : Inodes \union {NullInode},
               file_position : Int, flags : {0, 1}]

HistoryShape ==
    /\ opened \in [Fds -> Dentries \union {NoName}]
    /\ delivered \in [Fds -> Int]
    /\ failed \in [Fds -> BOOLEAN]
    /\ replaced \in [Fds -> BOOLEAN]

\* The shape of the array, without the bounds on positions.
Shape == file_array \in [Fds -> Descriptor] /\ HistoryShape

\* The open descriptors of files are the first ones.
Contiguous == \A fd, g \in FileFds : fd <= g /\ IsOpen(g) => IsOpen(fd)

FdInv == Shape /\ ClosedClean

RowInv == FdInv /\ Contiguous /\ ReadsItsFile

\* find_free_fd_index returns the first free descriptor.
LEMMA FirstFreeFd ==
    ASSUME NEW fa, Free(fa) # {}
    PROVE  /\ FindFreeFd(fa) \in Free(fa)
           /\ \A g \in Free(fa) : FindFreeFd(fa) <= g
<1>1. Free(fa) \in SUBSET Nat
  BY ArrayAssumption DEF Free, FileFds
<1>2. \E fd \in Free(fa) : \A g \in Free(fa) : fd <= g
  BY <1>1, LeastMember
<1>3. QED BY <1>2 DEF FindFreeFd

\* open_file changes one inode pointer, of a descriptor that is not free.
LEMMA OpenFileEntry ==
    ASSUME NEW fa, NEW name \in Dentries,
           fa \in [Fds -> Descriptor]
    PROVE  \E fd \in Fds \ Free(fa) :
               OpenFile(fa, name) = [fa EXCEPT ![fd].inode_ptr = InodeIdx[name]]
<1>1. CASE Free(fa) = {}
  <2>1. FindFreeFd(fa) = -1 /\ MAX_FILE_INDEX \in Fds
    BY <1>1, ArrayAssumption DEF FindFreeFd, MAX_FILE_INDEX, Fds
  <2>2. OpenFile(fa, name) = [fa EXCEPT ![MAX_FILE_INDEX].inode_ptr = InodeIdx[name]]
    BY <2>1 DEF OpenFile
  <2>3. QED BY <1>1, <2>1, <2>2
<1>2. CASE Free(fa) # {}
  <2>1. FindFreeFd(fa) \in Free(fa) /\ \A g \in Free(fa) : FindFreeFd(fa) <= g
    BY <1>2, FirstFreeFd
  <2> DEFINE fd == FindFreeFd(fa)
  <2>2. fd \in FileFds /\ fd # -1
    BY <2>1, ArrayAssumption DEF Free, FileFds
  <2>3. fd - 1 \in Fds /\ ~(fd <= fd - 1)
    BY <2>2, ArrayAssumption DEF FileFds, Fds
  <2>4. fd - 1 \notin Free(fa)
    BY <2>1, <2>3
  <2>5. OpenFile(fa, name) = [fa EXCEPT ![fd - 1].inode_ptr = InodeIdx[name]]
    BY <2>2 DEF OpenFile
  <2>6. QED BY <2>3, <2>4, <2>5
<1>3. QED BY <1>1, <1>2

LEMMA InodeKnown == ASSUME NEW name \in Dentries PROVE InodeIdx[name] \in Inodes
BY LengthAssumption DEF Inodes

LEMMA InitShape ==
    /\ InitPcb \in [Fds -> Descriptor]
    /\ \A fd \in FileFds : InitPcb[fd] = empty_file_desc
<1>1. \A fd \in FileFds : fd \in Fds /\ fd # 0 /\ fd # 1
  BY ArrayAssumption DEF FileFds, Fds
<1>2. \A fd \in Fds :
        InitPcb[fd] \in {empty_file_desc, [empty_file_desc EXCEPT !.file_ops = "stdin", !.flags = 1],
                        [empty_file_desc EXCEPT !.file_ops = "stdout", !.flags = 1]}
  BY DEF InitPcb
<1>3. {empty_file_desc, [empty_file_desc EXCEPT !.file_ops = "stdin", !.flags = 1],
       [empty_file_desc EXCEPT !.file_ops = "stdout", !.flags = 1]}
        \subseteq Descriptor
  <2>1. empty_file_desc \in Descriptor
    BY DEF empty_file_desc, Ops, Descriptor
  <2>2. \A o \in Ops : [empty_file_desc EXCEPT !.file_ops = o, !.flags = 1] \in Descriptor
    BY <2>1 DEF Descriptor
  <2>3. QED BY <2>1, <2>2 DEF Ops
<1>4. InitPcb \in [Fds -> Descriptor]
  <2>1. InitPcb = [fd \in Fds |-> InitPcb[fd]]
    BY DEF InitPcb
  <2>2. QED BY <1>2, <1>3, <2>1
<1>5. \A fd \in FileFds : InitPcb[fd] = empty_file_desc
  BY <1>1 DEF InitPcb
<1>6. QED BY <1>4, <1>5

LEMMA FdInit == Init => FdInv
<1> SUFFICES ASSUME Init PROVE FdInv
  OBVIOUS
<1>1. Shape
  BY InitShape DEF Init, Shape, HistoryShape
<1>2. ClosedClean
  BY InitShape DEF Init, ClosedClean
<1>3. QED BY <1>1, <1>2 DEF FdInv

\* A call that fails changes no descriptor.
LEMMA FailsStep == ASSUME FdInv, NEW r, Fails(r) PROVE FdInv'
BY DEF FdInv, Shape, HistoryShape, history, ClosedClean, IsOpen, Fails

\* One descriptor that is open before and after gets a record of the same type.
LEMMA OpenEntry ==
    ASSUME FdInv, NEW fd \in Fds, NEW rec,
           rec \in Descriptor,
           fd \in FileFds => rec.flags # 0 \/ rec = empty_file_desc,
           file_array' = [file_array EXCEPT ![fd] = rec],
           HistoryShape'
    PROVE  FdInv'
<1>1. Shape'
  BY DEF FdInv, Shape
<1>2. ASSUME NEW g \in FileFds, ~IsOpen(g)'
      PROVE  file_array'[g] = empty_file_desc
  <2>1. g \in Fds
    BY ArrayAssumption DEF FileFds, Fds
  <2>2. CASE g = fd
    BY <1>2, <2>1, <2>2 DEF FdInv, Shape, IsOpen
  <2>3. CASE g # fd
    BY <1>2, <2>1, <2>3 DEF FdInv, Shape, ClosedClean, IsOpen
  <2>4. QED BY <2>2, <2>3
<1>3. QED BY <1>1, <1>2 DEF FdInv, ClosedClean

\* Opening and closing keep the shape of the history.
LEMMA BeginKeeps ==
    ASSUME HistoryShape, NEW fd, NEW name \in Dentries \union {NoName}, Begin(fd, name)
    PROVE  HistoryShape'
<1> DEFINE zero == 0
           no == FALSE
<1>1. zero \in Int /\ no \in BOOLEAN
  OBVIOUS
<1>2. /\ opened' = [opened EXCEPT ![fd] = name]
      /\ delivered' = [delivered EXCEPT ![fd] = zero]
      /\ failed' = [failed EXCEPT ![fd] = no]
      /\ replaced' = [replaced EXCEPT ![fd] = no]
  BY DEF Begin
<1> HIDE DEF zero, no
<1>3. QED BY <1>1, <1>2 DEF HistoryShape

LEMMA AdvanceHistory ==
    ASSUME HistoryShape, NEW fd \in Fds, NEW r, NEW step \in Int, Advance(fd, r, step)
    PROVE  HistoryShape'
<1> DEFINE no == failed[fd] \/ r = -1
           count == IF no THEN 0 ELSE delivered[fd] + step
<1>1. no \in BOOLEAN /\ count \in Int
  BY DEF HistoryShape
<1>2. /\ opened' = opened /\ replaced' = replaced
      /\ failed' = [failed EXCEPT ![fd] = no]
      /\ delivered' = [delivered EXCEPT ![fd] = count]
  BY DEF Advance, HistoryShape
<1> HIDE DEF no, count
<1>3. QED BY <1>1, <1>2 DEF HistoryShape

LEMMA CloseStep == ASSUME FdInv, NEW fd, Close(fd) PROVE FdInv'
<1>1. CASE Fails(-1)
  BY <1>1, FailsStep
<1>2. CASE fd \in FileFds /\ IsOpen(fd)
           /\ file_array' = DestroyFd(file_array, fd)
           /\ Begin(fd, NoName)
  <2>1. empty_file_desc \in Descriptor
    BY DEF empty_file_desc, Ops, Descriptor
  <2>2. fd \in Fds /\ file_array' = [file_array EXCEPT ![fd] = empty_file_desc]
    BY <1>2 DEF DestroyFd, IsOpen
  <2>3. HistoryShape'
    BY <1>2, BeginKeeps DEF FdInv, Shape
  <2>4. QED BY <2>1, <2>2, <2>3, OpenEntry
<1>3. QED BY <1>1, <1>2 DEF Close

LEMMA AdvanceStep ==
    ASSUME FdInv, NEW fd, IsOpen(fd), NEW r \in Int, NEW step \in Int, Advance(fd, r, step)
    PROVE  FdInv'
<1> DEFINE rec == [file_array[fd] EXCEPT !.file_position = (@ + step) % WORD]
<1>1. fd \in Fds /\ file_array' = [file_array EXCEPT ![fd] = rec]
  BY DEF Advance, IsOpen, FdInv, Shape
<1>2. (file_array[fd].file_position + step) % WORD \in Int
  BY <1>1, LengthAssumption DEF FdInv, Shape, Descriptor
<1>3. rec \in Descriptor /\ rec.flags # 0
  BY <1>1, <1>2 DEF FdInv, Shape, IsOpen, Descriptor
<1>4. HistoryShape'
  BY <1>1, AdvanceHistory DEF FdInv, Shape
<1>5. QED BY <1>1, <1>3, <1>4, OpenEntry

LEMMA ReadStep == ASSUME FdInv, NEW fd, NEW n \in 0 .. MaxBytes, Read(fd, n) PROVE FdInv'
<1>1. CASE Fails(-1) \/ Fails(0) \/ \E r \in 0 .. n : Fails(r)
  BY <1>1, FailsStep
<1>2. CASE IsOpen(fd) /\ ReadFile(fd, n)
  <2>1. PICK r \in ReadResults(file_array[fd].inode_ptr, file_array[fd].file_position, n) :
            Advance(fd, r, r)
    BY <1>2 DEF ReadFile
  <2>2. r \in Int
    BY <2>1, BytesAssumption, <1>2, LengthAssumption
       DEF ReadResults, Signed, FdInv, Shape, IsOpen, Inodes, NullInode, Descriptor
  <2>3. QED BY <1>2, <2>1, <2>2, AdvanceStep
<1>3. CASE IsOpen(fd) /\ ReadDir(fd, n)
  <2>1. CASE \E r \in 1 .. n : Advance(fd, r, 1)
    BY <1>3, <2>1, AdvanceStep, BytesAssumption
  <2>2. CASE Fails(0)
    BY <2>2, FailsStep
  <2>3. QED BY <1>3, <2>1, <2>2 DEF ReadDir
<1>4. QED BY <1>1, <1>2, <1>3 DEF Read

LEMMA WriteStep == ASSUME FdInv, NEW fd, NEW n, Write(fd, n) PROVE FdInv'
BY FailsStep DEF Write

\* sys_open up to the open function: the claimed array, and its free descriptors.
LEMMA ClaimEntry ==
    ASSUME FdInv, Free(file_array) # {}, NEW name \in Dentries
    PROVE  LET fd == FindFreeFd(file_array)
               claimed == Claim(file_array, fd, name)
           IN  /\ fd \in FileFds /\ fd \in Fds /\ fd # -1
               /\ claimed \in [Fds -> Descriptor]
               /\ \A g \in Fds \ {fd} : claimed[g] = file_array[g]
               /\ claimed[fd] = [file_ops |-> FileType[name], file_position |-> 0, flags |-> 1,
                                 inode_ptr |-> file_array[fd].inode_ptr]
               /\ claimed[fd].flags = 1
               /\ Free(claimed) = Free(file_array) \ {fd}
<1> DEFINE fd == FindFreeFd(file_array)
           claimed == Claim(file_array, fd, name)
           rec == [file_ops |-> FileType[name], file_position |-> 0, flags |-> 1,
                   inode_ptr |-> file_array[fd].inode_ptr]
<1>1. fd \in FileFds /\ fd \in Fds /\ fd # -1
  BY FirstFreeFd, ArrayAssumption DEF Free, FileFds, Fds
<1> HIDE DEF fd
<1>2. file_array[fd] \in Descriptor /\ FileType[name] \in Ops
  BY <1>1, TypeAssumption DEF FdInv, Shape, Ops
<1>3. rec \in Descriptor /\ rec.flags = 1
  BY <1>2 DEF Descriptor
<1>4. claimed = [file_array EXCEPT ![fd] = rec]
  BY DEF Claim
<1> HIDE DEF claimed, rec
<1>5. claimed \in [Fds -> Descriptor] /\ claimed[fd] = rec
      /\ \A g \in Fds \ {fd} : claimed[g] = file_array[g]
  BY <1>1, <1>3, <1>4 DEF FdInv, Shape
<1>6. Free(claimed) = Free(file_array) \ {fd}
  <2>1. \A g \in FileFds : g \in Fds
    BY ArrayAssumption DEF FileFds, Fds
  <2>2. QED BY <1>3, <1>5, <2>1 DEF Free
<1>7. QED BY <1>1, <1>3, <1>5, <1>6 DEF rec, claimed, fd

\* open_file keeps the shape, and what is free stays as it is.
LEMMA OpenFileKeeps ==
    ASSUME NEW fa \in [Fds -> Descriptor], NEW name \in Dentries
    PROVE  /\ OpenFile(fa, name) \in [Fds -> Descriptor]
           /\ \A g \in Fds : OpenFile(fa, name)[g].flags = fa[g].flags
           /\ \A g \in Free(fa) : OpenFile(fa, name)[g] = fa[g]
<1>1. PICK fd \in Fds \ Free(fa) :
          OpenFile(fa, name) = [fa EXCEPT ![fd].inode_ptr = InodeIdx[name]]
  BY OpenFileEntry
<1>2. InodeIdx[name] \in Inodes
  BY InodeKnown
<1> DEFINE rec == [fa[fd] EXCEPT !.inode_ptr = InodeIdx[name]]
<1>3. rec \in Descriptor /\ rec.flags = fa[fd].flags
  BY <1>1, <1>2 DEF Descriptor
<1>4. OpenFile(fa, name) = [fa EXCEPT ![fd] = rec]
  BY <1>1
<1> HIDE DEF rec
<1>5. Free(fa) \subseteq Fds
  BY ArrayAssumption DEF Free, FileFds, Fds
<1>6. QED BY <1>1, <1>3, <1>4, <1>5

\* An array in which what is free is as empty as before keeps the invariant.
LEMMA ArrayStep ==
    ASSUME FdInv, file_array' \in [Fds -> Descriptor],
           \A g \in Free(file_array') : g \in Free(file_array) /\ file_array'[g] = file_array[g],
           HistoryShape'
    PROVE  FdInv'
<1>1. Shape'
  BY DEF Shape
<1>2. ASSUME NEW g \in FileFds, ~IsOpen(g)' PROVE file_array'[g] = empty_file_desc
  <2>1. g \in Fds
    BY ArrayAssumption DEF FileFds, Fds
  <2>2. g \in Free(file_array') /\ g \in Free(file_array)
    BY <1>2, <2>1 DEF Free, IsOpen
  <2>3. QED BY <2>2 DEF FdInv, ClosedClean, IsOpen, Free
<1>3. QED BY <1>1, <1>2 DEF FdInv, ClosedClean

LEMMA OpenStep == ASSUME FdInv, NEW name, Open(name) PROVE FdInv'
<1> DEFINE fd == FindFreeFd(file_array)
           claimed == Claim(file_array, fd, name)
<1>1. CASE Fails(-1)
  BY <1>1, FailsStep
<1>2. CASE /\ fd # -1
           /\ name \in Dentries
           /\ file_array' = IF FileType[name] = "reg" THEN OpenFile(claimed, name) ELSE claimed
           /\ Begin(fd, name)
  <2>1. Free(file_array) # {}
    BY <1>2 DEF FindFreeFd
  <2>2. /\ fd \in Fds
        /\ claimed \in [Fds -> Descriptor]
        /\ \A g \in Fds \ {fd} : claimed[g] = file_array[g]
        /\ Free(claimed) = Free(file_array) \ {fd}
    BY <1>2, <2>1, ClaimEntry
  <2> HIDE DEF claimed, fd
  <2>3. /\ file_array' \in [Fds -> Descriptor]
        /\ \A g \in Fds : file_array'[g].flags = claimed[g].flags
        /\ \A g \in Free(claimed) : file_array'[g] = claimed[g]
    BY <1>2, <2>2, OpenFileKeeps
  <2>4. Free(file_array') = Free(claimed) /\ Free(claimed) \subseteq Fds
    BY <2>3, ArrayAssumption DEF Free, FileFds, Fds
  <2>5. \A g \in Free(file_array') : g \in Free(file_array) /\ file_array'[g] = file_array[g]
    BY <2>2, <2>3, <2>4
  <2>6. HistoryShape'
    BY <1>2, BeginKeeps DEF FdInv, Shape
  <2>7. QED BY <2>3, <2>5, <2>6, ArrayStep
<1>3. QED BY <1>1, <1>2 DEF Open

LEMMA StartStep == ASSUME FdInv, NEW name, StartProgram(name) PROVE FdInv'
<1>1. CASE name \in Dentries
  <2>1. file_array \in [Fds -> Descriptor] /\ file_array' = OpenFile(file_array, name)
    BY <1>1 DEF StartProgram, FdInv, Shape
  <2>2. /\ file_array' \in [Fds -> Descriptor]
        /\ \A g \in Fds : file_array'[g].flags = file_array[g].flags
        /\ \A g \in Free(file_array) : file_array'[g] = file_array[g]
    BY <1>1, <2>1, OpenFileKeeps
  <2>3. Free(file_array') = Free(file_array)
    BY <2>2, ArrayAssumption DEF Free, FileFds, Fds
  <2>4. HistoryShape'
    BY <1>1 DEF StartProgram, FdInv, Shape, HistoryShape
  <2>5. QED BY <2>2, <2>3, <2>4, ArrayStep
<1>2. CASE name \notin Dentries
  BY <1>2 DEF StartProgram, FdInv, Shape, HistoryShape, history, ClosedClean, IsOpen
<1>3. QED BY <1>1, <1>2

LEMMA ExecuteStep == ASSUME FdInv, NEW name, Execute(name) PROVE FdInv'
BY FailsStep, StartStep DEF Execute

LEMMA RecycleStep == ASSUME Recycle PROVE FdInv'
<1>1. Shape'
  BY InitShape DEF Recycle, Shape, HistoryShape
<1>2. ClosedClean'
  BY InitShape DEF Recycle, ClosedClean
<1>3. QED BY <1>1, <1>2 DEF FdInv

LEMMA FdStep == FdInv /\ [Next]_vars => FdInv'
<1> SUFFICES ASSUME FdInv, [Next]_vars PROVE FdInv'
  OBVIOUS
<1>1. CASE \E name \in Names : Open(name) \/ Execute(name)
  BY <1>1, OpenStep, ExecuteStep
<1>2. CASE \E fd \in -1 .. FILE_ARRAY_SIZE : Close(fd)
  BY <1>2, CloseStep
<1>3. CASE \E fd \in -1 .. FILE_ARRAY_SIZE, n \in 0 .. MaxBytes : Read(fd, n) \/ Write(fd, n)
  BY <1>3, ReadStep, WriteStep
<1>4. CASE Launch \/ Recycle
  BY <1>4, StartStep, RecycleStep DEF Launch
<1>5. CASE UNCHANGED vars
  BY <1>5 DEF vars, history, FdInv, Shape, HistoryShape, ClosedClean, IsOpen
<1>6. QED BY <1>1, <1>2, <1>3, <1>4, <1>5 DEF Next

\* Whatever the program opens, closes, reads and executes, in any order, and wherever a
\* shell is launched, the descriptors that open can hand out are empty.
THEOREM FreeDescriptorsClean == Spec => []ClosedClean
<1>1. FdInv => ClosedClean
  BY DEF FdInv
<1>2. QED BY FdInit, FdStep, <1>1, PTL DEF Spec
-------------------------------------------------------------------------------
(* A program that closes its last descriptor only *)

\* The row of open descriptors ends where the first free one begins.
LEMMA RowFree ==
    ASSUME Contiguous, Free(file_array) # {}, NEW g \in FileFds, FindFreeFd(file_array) <= g
    PROVE  g \in Free(file_array)
<1> DEFINE fd == FindFreeFd(file_array)
<1>1. fd \in Free(file_array)
  BY FirstFreeFd
<1>2. fd \in FileFds /\ fd \in Fds /\ ~IsOpen(fd) /\ g \in Fds
  BY <1>1, ArrayAssumption DEF Free, FileFds, Fds, IsOpen
<1>3. ~IsOpen(g)
  BY <1>2 DEF Contiguous
<1>4. QED BY <1>2, <1>3 DEF Free, IsOpen

\* So open_file finds the descriptor that sys_open has just taken.
LEMMA OpenFindsItsOwn ==
    ASSUME FdInv, Contiguous, Free(file_array) # {}, NEW name \in Dentries
    PROVE  LET fd == FindFreeFd(file_array)
               claimed == Claim(file_array, fd, name)
           IN  OpenFile(claimed, name) = [claimed EXCEPT ![fd].inode_ptr = InodeIdx[name]]
<1> DEFINE fd == FindFreeFd(file_array)
           claimed == Claim(file_array, fd, name)
           next == FindFreeFd(claimed)
<1>1. fd \in FileFds /\ Free(claimed) = Free(file_array) \ {fd}
  BY ClaimEntry
<1>2. \A g \in FileFds : fd <= g => g \in Free(file_array)
  BY RowFree
<1>3. \A g \in Free(file_array) : fd <= g
  BY FirstFreeFd
<1>4. Free(claimed) # {} => next \in Free(claimed) /\ \A g \in Free(claimed) : next <= g
  BY FirstFreeFd
<1>5. Free(claimed) = {} => next = -1
  BY DEF FindFreeFd
<1>6. Free(claimed) \subseteq FileFds
  BY DEF Free
<1> HIDE DEF fd, claimed, next
<1>7. CASE Free(claimed) = {}
  <2>1. MAX_FILE_INDEX \in FileFds /\ fd <= MAX_FILE_INDEX
    BY <1>1, ArrayAssumption DEF MAX_FILE_INDEX, FileFds
  <2>2. MAX_FILE_INDEX = fd
    BY <1>1, <1>2, <1>7, <2>1
  <2>3. next = -1
    BY <1>5, <1>7
  <2>4. OpenFile(claimed, name) = [claimed EXCEPT ![fd].inode_ptr = InodeIdx[name]]
    BY <2>2, <2>3 DEF OpenFile, next
  <2>5. QED BY <2>4 DEF fd, claimed
<1>8. CASE Free(claimed) # {}
  <2>1. next \in FileFds /\ next \in Free(file_array) /\ next # fd
    BY <1>1, <1>4, <1>6, <1>8
  <2>2. fd <= next
    BY <1>3, <2>1
  <2>3. fd \in Int /\ next \in Int /\ fd + 1 \in FileFds /\ fd + 1 # fd /\ fd <= fd + 1 /\ next # -1
    BY <1>1, <2>1, <2>2, ArrayAssumption DEF FileFds
  <2>4. fd + 1 \in Free(claimed)
    BY <1>1, <1>2, <2>3
  <2>5. next <= fd + 1
    BY <1>4, <1>8, <2>4
  <2>6. next - 1 = fd
    BY <2>1, <2>2, <2>3, <2>5
  <2>7. OpenFile(claimed, name) = [claimed EXCEPT ![fd].inode_ptr = InodeIdx[name]]
    BY <2>3, <2>6 DEF OpenFile, next
  <2>8. QED BY <2>7 DEF fd, claimed
<1>9. QED BY <1>7, <1>8

\* What a successful open does to the descriptors.
LEMMA OpenEffect ==
    ASSUME FdInv, Contiguous, NEW name, Open(name), ~Fails(-1)
    PROVE  LET fd == FindFreeFd(file_array)
           IN  /\ name \in Dentries /\ fd \in FileFds /\ fd \in Free(file_array) /\ ret' = fd
               /\ Begin(fd, name)
               /\ file_array'[fd].flags = 1
               /\ file_array'[fd].file_position = 0
               /\ file_array'[fd].file_ops = FileType[name]
               /\ FileType[name] = "reg" => file_array'[fd].inode_ptr = InodeIdx[name]
               /\ \A g \in Fds \ {fd} : file_array'[g] = file_array[g]
<1> DEFINE fd == FindFreeFd(file_array)
           claimed == Claim(file_array, fd, name)
<1>1. /\ fd # -1
      /\ name \in Dentries
      /\ file_array' = IF FileType[name] = "reg" THEN OpenFile(claimed, name) ELSE claimed
      /\ ret' = fd
      /\ Begin(fd, name)
  BY DEF Open
<1>2. Free(file_array) # {}
  BY <1>1 DEF FindFreeFd
<1>3. fd \in Free(file_array)
  BY <1>2, FirstFreeFd
<1>4. /\ fd \in FileFds /\ fd \in Fds
      /\ claimed \in [Fds -> Descriptor]
      /\ \A g \in Fds \ {fd} : claimed[g] = file_array[g]
      /\ claimed[fd] = [file_ops |-> FileType[name], file_position |-> 0, flags |-> 1,
                        inode_ptr |-> file_array[fd].inode_ptr]
  BY <1>1, <1>2, ClaimEntry
<1>5. FileType[name] = "reg"
          => file_array' = [claimed EXCEPT ![fd].inode_ptr = InodeIdx[name]]
  BY <1>1, <1>2, OpenFindsItsOwn
<1>6. FileType[name] # "reg" => file_array' = claimed
  BY <1>1
<1> HIDE DEF fd, claimed
<1>7. CASE FileType[name] = "reg"
  <2>1. file_array'[fd] = [claimed[fd] EXCEPT !.inode_ptr = InodeIdx[name]]
    BY <1>4, <1>5, <1>7
  <2>2. /\ file_array'[fd].flags = 1
        /\ file_array'[fd].file_position = 0
        /\ file_array'[fd].file_ops = FileType[name]
        /\ file_array'[fd].inode_ptr = InodeIdx[name]
    BY <1>4, <2>1
  <2>3. \A g \in Fds \ {fd} : file_array'[g] = file_array[g]
    BY <1>4, <1>5, <1>7
  <2>4. QED BY <1>1, <1>3, <1>4, <2>2, <2>3 DEF fd
<1>8. CASE FileType[name] # "reg"
  <2>1. /\ file_array'[fd].flags = 1
        /\ file_array'[fd].file_position = 0
        /\ file_array'[fd].file_ops = FileType[name]
    BY <1>4, <1>6, <1>8
  <2>2. QED BY <1>1, <1>3, <1>4, <1>6, <1>8, <2>1 DEF fd
<1>9. QED BY <1>7, <1>8

FileFdsAreFds == FileFds \subseteq Fds

LEMMA SomeFds == FileFdsAreFds
BY ArrayAssumption DEF FileFdsAreFds, FileFds, Fds

LEMMA RowFails == ASSUME RowInv, NEW r, Fails(r) PROVE Contiguous' /\ ReadsItsFile'
BY DEF RowInv, Contiguous, ReadsItsFile, IsOpen, Fails, history

LEMMA RowOpen == ASSUME RowInv, NEW name, Open(name) PROVE Contiguous' /\ ReadsItsFile'
<1>1. CASE Fails(-1)
  BY <1>1, RowFails
<1>2. CASE ~Fails(-1)
  <2> DEFINE fd == FindFreeFd(file_array)
  <2>1. /\ name \in Dentries /\ fd \in FileFds /\ fd \in Free(file_array)
        /\ opened' = [opened EXCEPT ![fd] = name]
        /\ replaced' = [replaced EXCEPT ![fd] = FALSE]
        /\ file_array'[fd].flags = 1
        /\ file_array'[fd].file_ops = FileType[name]
        /\ FileType[name] = "reg" => file_array'[fd].inode_ptr = InodeIdx[name]
        /\ \A g \in Fds \ {fd} : file_array'[g] = file_array[g]
    BY <1>2, OpenEffect DEF RowInv, Begin
  <2>2. \A g \in Free(file_array) : fd <= g
    BY <2>1, FirstFreeFd
  <2>3. \A g \in FileFds : g \notin Free(file_array) => IsOpen(g)
    BY SomeFds DEF Free, IsOpen, FileFdsAreFds
  <2>4. /\ opened \in [Fds -> Dentries \union {NoName}] /\ DOMAIN replaced = Fds
        /\ FileFds \subseteq Fds /\ FileFds \subseteq Int
    BY SomeFds, ArrayAssumption DEF RowInv, FdInv, Shape, HistoryShape, FileFdsAreFds, FileFds
  <2> HIDE DEF fd
  <2>5. ASSUME NEW f \in FileFds, NEW g \in FileFds, f <= g, IsOpen(g)'
        PROVE  IsOpen(f)'
    <3>1. CASE f = fd
      BY <2>1, <2>4, <3>1 DEF IsOpen
    <3>2. CASE f # fd /\ g = fd
      <4>1. ~(fd <= f)
        BY <2>1, <2>4, <2>5, <3>2
      <4>2. IsOpen(f)
        BY <2>2, <2>3, <4>1
      <4>3. QED BY <2>1, <2>4, <3>2, <4>2 DEF IsOpen
    <3>3. CASE f # fd /\ g # fd
      <4>1. IsOpen(g)
        BY <2>1, <2>4, <2>5, <3>3 DEF IsOpen
      <4>2. IsOpen(f)
        BY <2>5, <4>1 DEF RowInv, Contiguous
      <4>3. QED BY <2>1, <2>4, <3>3, <4>2 DEF IsOpen
    <3>4. QED BY <3>1, <3>2, <3>3
  <2>6. ASSUME NEW g \in FileFds, opened'[g] # NoName, file_array'[g].file_ops = "reg",
               ~replaced'[g]
        PROVE  file_array'[g].inode_ptr = InodeIdx[opened'[g]]
    <3>1. CASE g = fd
      BY <2>1, <2>4, <2>6, <3>1
    <3>2. CASE g # fd
      BY <2>1, <2>4, <2>6, <3>2 DEF RowInv, ReadsItsFile
    <3>3. QED BY <3>1, <3>2
  <2>7. QED BY <2>5, <2>6 DEF Contiguous, ReadsItsFile
<1>3. QED BY <1>1, <1>2

LEMMA RowClose ==
    ASSUME RowInv, ~Holes, NEW fd, Close(fd)
    PROVE  Contiguous' /\ ReadsItsFile'
<1>1. CASE Fails(-1)
  BY <1>1, RowFails
<1>2. CASE /\ fd \in FileFds /\ IsOpen(fd)
           /\ \A g \in FileFds : IsOpen(g) => g <= fd
           /\ file_array' = DestroyFd(file_array, fd)
           /\ Begin(fd, NoName)
  <2>1. /\ FileFds \subseteq Fds /\ FileFds \subseteq Int
        /\ file_array \in [Fds -> Descriptor] /\ DOMAIN opened = Fds /\ DOMAIN replaced = Fds
    BY SomeFds, ArrayAssumption DEF RowInv, FdInv, Shape, HistoryShape, FileFdsAreFds, FileFds
  <2>2. /\ file_array'[fd].flags = 0
        /\ opened'[fd] = NoName
        /\ \A g \in Fds \ {fd} : /\ file_array'[g] = file_array[g]
                                 /\ opened'[g] = opened[g] /\ replaced'[g] = replaced[g]
    BY <1>2, <2>1 DEF DestroyFd, empty_file_desc, Begin
  <2>3. ASSUME NEW f \in FileFds, NEW g \in FileFds, f <= g, IsOpen(g)'
        PROVE  IsOpen(f)'
    <3>1. g # fd /\ IsOpen(g)
      BY <2>1, <2>2, <2>3 DEF IsOpen
    <3>2. IsOpen(f) /\ g <= fd
      BY <1>2, <2>3, <3>1 DEF RowInv, Contiguous
    <3>3. f # fd
      BY <1>2, <2>1, <2>3, <3>1, <3>2
    <3>4. QED BY <2>1, <2>2, <3>2, <3>3 DEF IsOpen
  <2>4. ReadsItsFile'
    BY <2>1, <2>2 DEF ReadsItsFile, RowInv
  <2>5. QED BY <2>3, <2>4 DEF Contiguous
<1>3. QED BY <1>1, <1>2 DEF Close, LastOpen

LEMMA RowAdvance ==
    ASSUME RowInv, NEW fd, NEW r, NEW step, Advance(fd, r, step)
    PROVE  Contiguous' /\ ReadsItsFile'
<1>1. \A g \in Fds : /\ file_array'[g].flags = file_array[g].flags
                     /\ file_array'[g].file_ops = file_array[g].file_ops
                     /\ file_array'[g].inode_ptr = file_array[g].inode_ptr
  BY DEF Advance, RowInv, FdInv, Shape, Descriptor
<1>2. opened' = opened /\ replaced' = replaced
  BY DEF Advance
<1>3. FileFds \subseteq Fds
  BY SomeFds DEF FileFdsAreFds
<1>4. Contiguous'
  BY <1>1, <1>3 DEF Contiguous, RowInv, IsOpen
<1>5. ReadsItsFile'
  BY <1>1, <1>2, <1>3 DEF ReadsItsFile, RowInv
<1>6. QED BY <1>4, <1>5

LEMMA RowRead == ASSUME RowInv, NEW fd, NEW n, Read(fd, n) PROVE Contiguous' /\ ReadsItsFile'
<1>1. CASE \E r : Fails(r)
  BY <1>1, RowFails
<1>2. CASE \E r, step : Advance(fd, r, step)
  BY <1>2, RowAdvance
<1>3. QED
  <2>1. ReadFile(fd, n) => \E r, step : Advance(fd, r, step)
    BY DEF ReadFile
  <2>2. ReadDir(fd, n) => (\E r : Fails(r)) \/ \E r, step : Advance(fd, r, step)
    BY DEF ReadDir
  <2>3. QED BY <1>1, <1>2, <2>1, <2>2 DEF Read

\* A program that is started may take the inode of the last open descriptor, and of no other.
LEMMA StartEffect ==
    ASSUME FdInv, Contiguous, NEW name \in Dentries
    PROVE  \E fd \in Fds : /\ fd \in FileFds => LastOpen(fd)
                          /\ OpenFile(file_array, name)
                                 = [file_array EXCEPT ![fd].inode_ptr = InodeIdx[name]]
<1>1. /\ FileFds \subseteq Fds /\ FileFds \subseteq Int
      /\ \A g \in FileFds : g \in Free(file_array) \/ IsOpen(g)
  BY SomeFds, ArrayAssumption DEF FileFdsAreFds, FileFds, Free, IsOpen
<1>2. CASE Free(file_array) = {}
  <2>1. MAX_FILE_INDEX \in FileFds /\ \A g \in FileFds : g <= MAX_FILE_INDEX
    BY ArrayAssumption DEF MAX_FILE_INDEX, FileFds
  <2>2. LastOpen(MAX_FILE_INDEX)
    BY <1>1, <1>2, <2>1 DEF LastOpen
  <2>3. OpenFile(file_array, name) = [file_array EXCEPT ![MAX_FILE_INDEX].inode_ptr = InodeIdx[name]]
    BY <1>2 DEF OpenFile, FindFreeFd
  <2>4. QED BY <1>1, <2>1, <2>2, <2>3
<1>3. CASE Free(file_array) # {}
  <2> DEFINE next == FindFreeFd(file_array)
  <2>1. next \in FileFds /\ next # -1 /\ next - 1 \in Fds /\ ~(next <= next - 1)
    BY <1>3, FirstFreeFd, ArrayAssumption DEF Free, FileFds, Fds
  <2>2. \A g \in Free(file_array) : next <= g
    BY <1>3, FirstFreeFd
  <2>3. OpenFile(file_array, name) = [file_array EXCEPT ![next - 1].inode_ptr = InodeIdx[name]]
    BY <2>1 DEF OpenFile
  <2>4. ASSUME NEW g \in FileFds, IsOpen(g) PROVE ~(next <= g)
    BY <1>3, <2>4, RowFree DEF Free, IsOpen
  <2> HIDE DEF next
  <2>5. ASSUME next - 1 \in FileFds PROVE LastOpen(next - 1)
    <3>1. IsOpen(next - 1)
      BY <1>1, <2>1, <2>2, <2>5
    <3>2. \A g \in FileFds : IsOpen(g) => g <= next - 1
      BY <1>1, <2>1, <2>4
    <3>3. QED BY <2>5, <3>1, <3>2 DEF LastOpen
  <2>6. QED BY <2>1, <2>3, <2>5
<1>4. QED BY <1>2, <1>3

\* What a program that is started does to the descriptors of its caller.
LEMMA StartedEffect ==
    ASSUME FdInv, Contiguous, NEW name, StartProgram(name)
    PROVE  /\ opened' = opened /\ delivered' = delivered /\ failed' = failed
           /\ \A g \in Fds : replaced[g] => replaced'[g]
           /\ \A g \in Fds : /\ file_array'[g].flags = file_array[g].flags
                             /\ file_array'[g].file_ops = file_array[g].file_ops
                             /\ file_array'[g].file_position = file_array[g].file_position
           /\ \A g \in FileFds : file_array'[g] # file_array[g] =>
                 /\ LastOpen(g) /\ replaced'[g]
                 /\ \E i \in Inodes : file_array'[g] = [file_array[g] EXCEPT !.inode_ptr = i]
<1>1. CASE name \notin Dentries
  BY <1>1 DEF StartProgram, history
<1>2. CASE name \in Dentries
  <2>1. PICK fd \in Fds : /\ fd \in FileFds => LastOpen(fd)
                         /\ OpenFile(file_array, name)
                                = [file_array EXCEPT ![fd].inode_ptr = InodeIdx[name]]
    BY <1>2, StartEffect
  <2>2. /\ file_array' = [file_array EXCEPT ![fd].inode_ptr = InodeIdx[name]]
        /\ opened' = opened /\ delivered' = delivered /\ failed' = failed
        /\ replaced' = [g \in Fds |-> replaced[g] \/ LastOpen(g)]
    BY <1>2, <2>1 DEF StartProgram
  <2>3. file_array \in [Fds -> Descriptor] /\ FileFds \subseteq Fds /\ InodeIdx[name] \in Inodes
    BY <1>2, InodeKnown, SomeFds DEF FdInv, Shape, FileFdsAreFds
  <2>4. /\ \A g \in Fds \ {fd} : file_array'[g] = file_array[g]
        /\ file_array'[fd] = [file_array[fd] EXCEPT !.inode_ptr = InodeIdx[name]]
    BY <2>2, <2>3
  <2>5. /\ file_array'[fd].flags = file_array[fd].flags
        /\ file_array'[fd].file_ops = file_array[fd].file_ops
        /\ file_array'[fd].file_position = file_array[fd].file_position
    BY <2>3, <2>4 DEF Descriptor
  <2>6. fd \in FileFds => replaced'[fd]
    BY <2>1, <2>2
  <2>7. QED BY <2>1, <2>2, <2>3, <2>4, <2>5, <2>6
<1>3. QED BY <1>1, <1>2

LEMMA RowStart ==
    ASSUME RowInv, NEW name, StartProgram(name)
    PROVE  Contiguous' /\ ReadsItsFile'
<1>1. FdInv /\ Contiguous /\ FileFds \subseteq Fds
  BY SomeFds DEF RowInv, FileFdsAreFds
<1>2. /\ opened' = opened
      /\ \A g \in Fds : replaced[g] => replaced'[g]
      /\ \A g \in Fds : /\ file_array'[g].flags = file_array[g].flags
                        /\ file_array'[g].file_ops = file_array[g].file_ops
      /\ \A g \in FileFds : file_array'[g] # file_array[g] => replaced'[g]
  BY <1>1, StartedEffect
<1>3. Contiguous'
  BY <1>1, <1>2 DEF Contiguous, IsOpen
<1>4. ReadsItsFile'
  BY <1>1, <1>2 DEF ReadsItsFile, RowInv
<1>5. QED BY <1>3, <1>4

LEMMA RowRecycle == ASSUME Recycle PROVE Contiguous' /\ ReadsItsFile'
<1>1. /\ \A g \in FileFds : file_array'[g] = empty_file_desc
      /\ opened' = [fd \in Fds |-> NoName]
  BY InitShape DEF Recycle
<1>2. FileFds \subseteq Fds
  BY SomeFds DEF FileFdsAreFds
<1>3. QED BY <1>1, <1>2 DEF Contiguous, ReadsItsFile, IsOpen, empty_file_desc

LEMMA RowInit == Init => RowInv
<1> SUFFICES ASSUME Init PROVE RowInv
  OBVIOUS
<1>1. /\ \A g \in FileFds : file_array[g] = empty_file_desc
      /\ opened = [fd \in Fds |-> NoName]
  BY InitShape DEF Init
<1>2. FileFds \subseteq Fds
  BY SomeFds DEF FileFdsAreFds
<1>3. Contiguous /\ ReadsItsFile
  BY <1>1, <1>2 DEF Contiguous, ReadsItsFile, IsOpen, empty_file_desc
<1>4. QED BY <1>3, FdInit DEF RowInv

LEMMA RowStep == ASSUME ~Holes PROVE RowInv /\ [Next]_vars => RowInv'
<1> SUFFICES ASSUME RowInv, [Next]_vars PROVE Contiguous' /\ ReadsItsFile'
  BY FdStep DEF RowInv
<1>1. CASE \E name \in Names : Open(name) \/ Execute(name)
  BY <1>1, RowOpen, RowFails, RowStart DEF Execute
<1>2. CASE \E fd \in -1 .. FILE_ARRAY_SIZE : Close(fd)
  BY <1>2, RowClose
<1>3. CASE \E fd \in -1 .. FILE_ARRAY_SIZE, n \in 0 .. MaxBytes : Read(fd, n) \/ Write(fd, n)
  <2>1. \A fd, n : Write(fd, n) => \E r : Fails(r)
    BY DEF Write
  <2>2. QED BY <1>3, <2>1, RowRead, RowFails
<1>4. CASE Launch \/ Recycle
  BY <1>4, RowStart, RowRecycle DEF Launch
<1>5. CASE UNCHANGED vars
  BY <1>5 DEF vars, history, RowInv, Contiguous, ReadsItsFile, IsOpen
<1>6. QED BY <1>1, <1>2, <1>3, <1>4, <1>5 DEF Next

\* If descriptors are closed last first, each leads to the file it was opened with unless a
\* program was started, by execute or by ALT-Fn, while it was the last open one.
THEOREM ReadsItsFileHolds == ASSUME ~Holes PROVE Spec => []ReadsItsFile
<1>1. RowInv => ReadsItsFile
  BY DEF RowInv
<1>2. RowInv /\ [Next]_vars => RowInv'
  BY RowStep
<1>3. QED BY RowInit, <1>1, <1>2, PTL DEF Spec

\* If descriptors are closed last first, opening a file changes only the one it returns.
THEOREM OpenTouchesOnlyItsOwnHolds == ASSUME ~Holes PROVE Spec => OpenTouchesOnlyItsOwn
<1> DEFINE Touch == \A name \in Names : Open(name) =>
                        \A fd \in FileFds \ {ret'} : file_array'[fd] = file_array[fd]
<1>1. ASSUME RowInv, NEW name \in Names, Open(name), NEW fd \in FileFds \ {ret'}
      PROVE  file_array'[fd] = file_array[fd]
  <2>1. CASE Fails(-1)
    BY <2>1 DEF Fails
  <2>2. CASE ~Fails(-1)
    BY <1>1, <2>2, OpenEffect, SomeFds DEF RowInv, FileFdsAreFds
  <2>3. QED BY <2>1, <2>2
<1>2. RowInv => Touch
  BY <1>1
<1>3. RowInv /\ [Next]_vars => RowInv'
  BY RowStep
<1>4. RowInv => [Touch]_vars
  BY <1>2
<1>5. QED BY RowInit, <1>3, <1>4, PTL DEF Spec, OpenTouchesOnlyItsOwn
-------------------------------------------------------------------------------
(* How far the reads of a descriptor have got *)

Limit(name) == IF FileType[name] = "reg" THEN Length[InodeIdx[name]] ELSE Cardinality(Dentries)

\* Where the reads of a descriptor have got to, as long as none has failed.
Reached(fd) ==
    /\ file_array[fd].file_position = delivered[fd]
    /\ delivered[fd] \in 0 .. WORD - 1
    /\ FileType[opened[fd]] = "reg" => 2 * delivered[fd] < WORD
    /\ (FileType[opened[fd]] = "reg" /\ replaced[fd]) \/ delivered[fd] <= Limit(opened[fd])

\* An open descriptor is of the kind of its file, leads to an inode, and stands where the
\* reads have got to; a descriptor that is not open has no file.
EntryInv ==
    \A fd \in FileFds :
        /\ opened[fd] # NoName => IsOpen(fd)
        /\ IsOpen(fd) =>
              /\ opened[fd] \in Dentries
              /\ file_array[fd].file_ops = FileType[opened[fd]]
              /\ FileType[opened[fd]] = "reg" => file_array[fd].inode_ptr \in Inodes
              /\ FileType[opened[fd]] = "reg" /\ ~replaced[fd]
                    => file_array[fd].inode_ptr = InodeIdx[opened[fd]]
              /\ failed[fd] \/ Reached(fd)

SeqInv == RowInv /\ EntryInv

LEMMA LimitFits ==
    ASSUME NEW name \in Dentries
    PROVE  /\ Limit(name) \in 0 .. WORD - 1
           /\ FileType[name] = "reg" => 2 * Limit(name) < WORD
<1>1. InodeIdx[name] \in Inodes /\ Length[InodeIdx[name]] \in 0 .. WORD - 1
      /\ 2 * Length[InodeIdx[name]] < WORD
  BY InodeKnown, LengthAssumption DEF Inodes
<1>2. Cardinality(Dentries) \in Nat
  BY NamesAssumption, FS_CardinalityType
<1>3. QED BY <1>1, <1>2, LengthAssumption DEF Limit

\* A read from a position that a file may have fails, or moves on within the file.
LEMMA ReadInFile ==
    ASSUME NEW inode \in Inodes, NEW n \in 0 .. MaxBytes,
           NEW p \in Nat, 2 * p < WORD, NEW r \in ReadResults(inode, p, n), r # -1
    PROVE  /\ r \in Nat
           /\ r = 0 \/ p + r <= Length[inode]
<1> DEFINE len == Length[inode]
           wanted == IF n <= len - p THEN n ELSE len - p
<1>1. len \in 0 .. WORD - 1 /\ 2 * len < WORD /\ WORD \in Nat \ {0} /\ n \in Nat
  BY LengthAssumption, BytesAssumption DEF Inodes
<1>2. inode # NullInode
  BY InodeAssumption, LengthAssumption DEF NullInode, Inodes
<1> HIDE DEF len
<1>3. Signed(len - p) = len - p
  <2>1. CASE p <= len
    <3>1. (len - p) % WORD = len - p
      BY <1>1, <2>1
    <3>2. QED BY <1>1, <2>1, <3>1 DEF Signed
  <2>2. CASE p > len
    <3>1. (len - p) % WORD = len - p + WORD
      BY <1>1, <2>2
    <3>2. QED BY <1>1, <2>2, <3>1 DEF Signed
  <2>3. QED BY <1>1, <2>1, <2>2
<1>4. r = 0 \/ (len - p > 0 /\ r = wanted)
  BY <1>1, <1>2, <1>3 DEF ReadResults, len
<1>5. r \in Nat /\ (r = 0 \/ p + r <= len)
  BY <1>1, <1>4
<1>6. QED BY <1>5 DEF len

\* A step that leaves the descriptors of files and their histories as they are.
LEMMA SameEntries ==
    ASSUME EntryInv, UNCHANGED history,
           \A fd \in FileFds : file_array'[fd] = file_array[fd]
    PROVE  EntryInv'
BY DEF EntryInv, Reached, IsOpen, history

\* A step that leaves all descriptors of files but one as they are.
LEMMA OtherEntries ==
    ASSUME EntryInv, NEW fd \in FileFds,
           \A g \in FileFds \ {fd} : /\ file_array'[g] = file_array[g] /\ opened'[g] = opened[g]
                                     /\ delivered'[g] = delivered[g] /\ failed'[g] = failed[g]
                                     /\ replaced'[g] = replaced[g],
           NEW g \in FileFds \ {fd}
    PROVE  /\ opened'[g] # NoName => IsOpen(g)'
           /\ IsOpen(g)' =>
              /\ opened'[g] \in Dentries
              /\ file_array'[g].file_ops = FileType[opened'[g]]
              /\ FileType[opened'[g]] = "reg" => file_array'[g].inode_ptr \in Inodes
              /\ FileType[opened'[g]] = "reg" /\ ~replaced'[g]
                    => file_array'[g].inode_ptr = InodeIdx[opened'[g]]
              /\ failed'[g] \/ Reached(g)'
BY DEF EntryInv, Reached, IsOpen

LEMMA HistoryDomains ==
    ASSUME FdInv
    PROVE  /\ DOMAIN opened = Fds /\ DOMAIN delivered = Fds
           /\ DOMAIN failed = Fds /\ DOMAIN replaced = Fds
           /\ FileFds \subseteq Fds /\ file_array \in [Fds -> Descriptor]
           /\ delivered \in [Fds -> Int]
BY SomeFds DEF FileFdsAreFds, FdInv, Shape, HistoryShape

\* Opening or closing fd leaves the history of the others.
LEMMA BeginOthers ==
    ASSUME FdInv, NEW fd \in FileFds, NEW name, Begin(fd, name)
    PROVE  /\ opened'[fd] = name /\ delivered'[fd] = 0 /\ ~failed'[fd] /\ ~replaced'[fd]
           /\ \A g \in FileFds \ {fd} : /\ opened'[g] = opened[g] /\ delivered'[g] = delivered[g]
                                        /\ failed'[g] = failed[g] /\ replaced'[g] = replaced[g]
BY HistoryDomains DEF Begin

LEMMA EntryOpen == ASSUME SeqInv, NEW name, Open(name) PROVE EntryInv'
<1>1. CASE Fails(-1)
  BY <1>1, SameEntries DEF Fails, SeqInv
<1>2. CASE ~Fails(-1)
  <2>0. PICK fd \in FileFds : fd = FindFreeFd(file_array)
    BY <1>2, OpenEffect DEF SeqInv, RowInv
  <2>1. /\ name \in Dentries /\ fd \in FileFds
        /\ Begin(fd, name)
        /\ file_array'[fd].flags = 1
        /\ file_array'[fd].file_position = 0
        /\ file_array'[fd].file_ops = FileType[name]
        /\ FileType[name] = "reg" => file_array'[fd].inode_ptr = InodeIdx[name]
        /\ \A g \in Fds \ {fd} : file_array'[g] = file_array[g]
    BY <1>2, <2>0, OpenEffect DEF SeqInv, RowInv
  <2>2. FdInv /\ EntryInv /\ fd \in Fds /\ FileFds \subseteq Fds
    BY <2>1, HistoryDomains DEF SeqInv, RowInv
  <2>3. /\ opened'[fd] = name /\ delivered'[fd] = 0 /\ ~failed'[fd] /\ ~replaced'[fd]
        /\ \A g \in FileFds \ {fd} : /\ opened'[g] = opened[g] /\ delivered'[g] = delivered[g]
                                     /\ failed'[g] = failed[g] /\ replaced'[g] = replaced[g]
    BY <2>1, <2>2, BeginOthers
  <2>4. 0 <= Limit(name) /\ 0 \in 0 .. WORD - 1 /\ 2 * 0 < WORD /\ InodeIdx[name] \in Inodes
    BY <2>1, LimitFits, InodeKnown, LengthAssumption
  <2>5. IsOpen(fd)' /\ Reached(fd)'
    <3>1. IsOpen(fd)'
      BY <2>1, <2>2 DEF IsOpen
    <3>2. delivered'[fd] \in 0 .. WORD - 1 /\ 2 * delivered'[fd] < WORD
      BY <2>3, <2>4
    <3>3. delivered'[fd] <= Limit(opened'[fd])
      BY <2>3, <2>4 DEF Limit
    <3>4. QED BY <2>1, <2>3, <3>1, <3>2, <3>3 DEF Reached
  <2>6. \A g \in FileFds \ {fd} : file_array'[g] = file_array[g]
    BY <2>1, <2>2
  <2>7. ASSUME NEW g \in FileFds
        PROVE  /\ opened'[g] # NoName => IsOpen(g)'
               /\ IsOpen(g)' =>
                  /\ opened'[g] \in Dentries
                  /\ file_array'[g].file_ops = FileType[opened'[g]]
                  /\ FileType[opened'[g]] = "reg" => file_array'[g].inode_ptr \in Inodes
                  /\ FileType[opened'[g]] = "reg" /\ ~replaced'[g]
                        => file_array'[g].inode_ptr = InodeIdx[opened'[g]]
                  /\ failed'[g] \/ Reached(g)'
    <3>1. CASE g = fd
      BY <2>1, <2>3, <2>4, <2>5, <3>1 DEF IsOpen, Reached
    <3>2. CASE g # fd
      BY <2>1, <2>2, <2>3, <2>6, <3>2, OtherEntries
    <3>3. QED BY <3>1, <3>2
  <2>8. QED BY <2>7 DEF EntryInv
<1>3. QED BY <1>1, <1>2

LEMMA EntryClose == ASSUME SeqInv, NEW fd, Close(fd) PROVE EntryInv'
<1>1. CASE Fails(-1)
  BY <1>1, SameEntries DEF Fails, SeqInv
<1>2. CASE fd \in FileFds /\ file_array' = DestroyFd(file_array, fd) /\ Begin(fd, NoName)
  <2>1. FdInv /\ EntryInv /\ fd \in Fds /\ FileFds \subseteq Fds /\ file_array \in [Fds -> Descriptor]
    BY <1>2, HistoryDomains DEF SeqInv, RowInv
  <2>2. file_array'[fd].flags = 0 /\ \A g \in FileFds \ {fd} : file_array'[g] = file_array[g]
    BY <1>2, <2>1 DEF DestroyFd, empty_file_desc
  <2>3. /\ opened'[fd] = NoName
        /\ \A g \in FileFds \ {fd} : /\ opened'[g] = opened[g] /\ delivered'[g] = delivered[g]
                                     /\ failed'[g] = failed[g] /\ replaced'[g] = replaced[g]
    BY <1>2, <2>1, BeginOthers
  <2>4. ~IsOpen(fd)'
    BY <2>2 DEF IsOpen
  <2>5. ASSUME NEW g \in FileFds
        PROVE  /\ opened'[g] # NoName => IsOpen(g)'
               /\ IsOpen(g)' =>
                  /\ opened'[g] \in Dentries
                  /\ file_array'[g].file_ops = FileType[opened'[g]]
                  /\ FileType[opened'[g]] = "reg" => file_array'[g].inode_ptr \in Inodes
                  /\ FileType[opened'[g]] = "reg" /\ ~replaced'[g]
                        => file_array'[g].inode_ptr = InodeIdx[opened'[g]]
                  /\ failed'[g] \/ Reached(g)'
    <3>1. CASE g = fd
      BY <2>3, <2>4, <3>1
    <3>2. CASE g # fd
      BY <1>2, <2>1, <2>2, <2>3, <3>2, OtherEntries
    <3>3. QED BY <3>1, <3>2
  <2>6. QED BY <2>5 DEF EntryInv
<1>3. QED BY <1>1, <1>2 DEF Close

\* A read that fails, or that moves its descriptor on by what it returned.
LEMMA EntryAdvance ==
    ASSUME SeqInv, NEW fd \in FileFds, IsOpen(fd), NEW r, NEW step \in Int, Advance(fd, r, step),
           \/ r = -1
           \/ failed[fd]
           \/ /\ delivered[fd] + step \in 0 .. WORD - 1
              /\ FileType[opened[fd]] = "reg" => 2 * (delivered[fd] + step) < WORD
              /\ \/ FileType[opened[fd]] = "reg" /\ replaced[fd]
                 \/ delivered[fd] + step <= Limit(opened[fd])
    PROVE  EntryInv'
<1>1. /\ fd \in Fds /\ FileFds \subseteq Fds /\ EntryInv
      /\ DOMAIN delivered = Fds /\ DOMAIN failed = Fds
      /\ file_array \in [Fds -> Descriptor]
  BY HistoryDomains DEF SeqInv, RowInv
<1>2. /\ opened' = opened /\ replaced' = replaced
      /\ failed'[fd] = (failed[fd] \/ r = -1)
      /\ delivered'[fd] = IF failed[fd] \/ r = -1 THEN 0 ELSE delivered[fd] + step
  BY <1>1 DEF Advance
<1>3. /\ file_array'[fd].file_position = (file_array[fd].file_position + step) % WORD
      /\ file_array'[fd].flags = file_array[fd].flags
      /\ file_array'[fd].file_ops = file_array[fd].file_ops
      /\ file_array'[fd].inode_ptr = file_array[fd].inode_ptr
  BY <1>1 DEF Descriptor, Advance
<1>4. \A g \in FileFds \ {fd} : /\ file_array'[g] = file_array[g] /\ opened'[g] = opened[g]
                                /\ delivered'[g] = delivered[g] /\ failed'[g] = failed[g]
                                /\ replaced'[g] = replaced[g]
  BY <1>1, <1>2 DEF Advance
<1>5. ASSUME ~(failed[fd] \/ r = -1) PROVE Reached(fd)'
  <2>1. /\ delivered'[fd] = delivered[fd] + step
        /\ file_array[fd].file_position = delivered[fd]
    BY <1>1, <1>2, <1>5 DEF EntryInv, Reached
  <2>2. delivered[fd] + step \in 0 .. WORD - 1 /\ WORD \in Nat
    BY <1>5, LengthAssumption
  <2>3. (delivered[fd] + step) % WORD = delivered[fd] + step
    BY <2>2
  <2>4. file_array'[fd].file_position = delivered'[fd]
    BY <1>3, <2>1, <2>3
  <2>5. QED BY <1>2, <1>5, <2>1, <2>2, <2>4 DEF Reached
<1>6. IsOpen(fd)' /\ (failed'[fd] \/ Reached(fd)')
  BY <1>1, <1>2, <1>3, <1>5 DEF IsOpen
<1>7. ASSUME NEW g \in FileFds
      PROVE  /\ opened'[g] # NoName => IsOpen(g)'
             /\ IsOpen(g)' =>
                /\ opened'[g] \in Dentries
                /\ file_array'[g].file_ops = FileType[opened'[g]]
                /\ FileType[opened'[g]] = "reg" => file_array'[g].inode_ptr \in Inodes
                /\ FileType[opened'[g]] = "reg" /\ ~replaced'[g]
                      => file_array'[g].inode_ptr = InodeIdx[opened'[g]]
                /\ failed'[g] \/ Reached(g)'
  <2>1. CASE g = fd
    BY <1>1, <1>2, <1>3, <1>6, <2>1 DEF EntryInv
  <2>2. CASE g # fd
    BY <1>1, <1>4, <2>2, OtherEntries
  <2>3. QED BY <2>1, <2>2
<1>8. QED BY <1>7 DEF EntryInv

\* Only a descriptor of a file moves.
LEMMA EntryRead ==
    ASSUME SeqInv, NEW fd, NEW n \in 0 .. MaxBytes, Read(fd, n)
    PROVE  EntryInv'
<1>1. CASE \E r : Fails(r)
  BY <1>1, SameEntries DEF Fails, SeqInv
<1>2. CASE IsOpen(fd) /\ fd \notin FileFds /\ \E r, step : Advance(fd, r, step)
  <2>1. /\ FileFds \subseteq Fds /\ DOMAIN delivered = Fds /\ DOMAIN file_array = Fds
        /\ DOMAIN failed = Fds /\ EntryInv
    BY HistoryDomains DEF SeqInv, RowInv
  <2>2. /\ \A g \in FileFds : /\ file_array'[g] = file_array[g] /\ delivered'[g] = delivered[g]
                              /\ failed'[g] = failed[g]
        /\ opened' = opened /\ replaced' = replaced
    BY <1>2, <2>1 DEF Advance
  <2>3. QED BY <2>1, <2>2 DEF EntryInv, Reached, IsOpen
<1>3. CASE IsOpen(fd) /\ fd \in FileFds /\ file_array[fd].file_ops = "reg" /\ ReadFile(fd, n)
  <2> DEFINE inode == file_array[fd].inode_ptr
             p == file_array[fd].file_position
  <2>1. /\ opened[fd] \in Dentries /\ FileType[opened[fd]] = "reg" /\ inode \in Inodes
        /\ ~replaced[fd] => inode = InodeIdx[opened[fd]]
        /\ failed[fd] \/ Reached(fd)
    BY <1>3 DEF SeqInv, EntryInv
  <2>2. PICK r \in ReadResults(inode, p, n) : Advance(fd, r, r)
    BY <1>3 DEF ReadFile
  <2>3. r \in Int
    <3>1. fd \in Fds /\ file_array \in [Fds -> Descriptor] /\ Length[inode] \in Int /\ WORD \in Nat \ {0}
      BY <1>3, <2>1, HistoryDomains, LengthAssumption DEF SeqInv, RowInv, Inodes
    <3>2. p \in Int /\ n \in Int
      BY <3>1, BytesAssumption DEF Descriptor
    <3>3. Signed(Length[inode] - p) \in Int
      BY <3>1, <3>2 DEF Signed
    <3>4. QED BY <2>2, <3>2, <3>3 DEF ReadResults
  <2>4. ASSUME r # -1, ~failed[fd]
        PROVE  /\ delivered[fd] + r \in 0 .. WORD - 1
               /\ 2 * (delivered[fd] + r) < WORD
               /\ replaced[fd] \/ delivered[fd] + r <= Limit(opened[fd])
    <3>1. p = delivered[fd] /\ p \in Nat /\ 2 * p < WORD /\ (replaced[fd] \/ p <= Limit(opened[fd]))
      BY <2>1, <2>4 DEF Reached
    <3>2. r \in Nat /\ (r = 0 \/ p + r <= Length[inode])
      BY <2>1, <2>2, <2>4, <3>1, ReadInFile
    <3>3. Length[inode] \in 0 .. WORD - 1 /\ 2 * Length[inode] < WORD /\ WORD \in Nat
      BY <2>1, LengthAssumption DEF Inodes
    <3>4. ~replaced[fd] => Limit(opened[fd]) = Length[inode]
      BY <2>1 DEF Limit
    <3>5. Limit(opened[fd]) \in Nat
      BY <2>1, LimitFits, LengthAssumption
    <3> HIDE DEF p, inode
    <3>6. QED BY <3>1, <3>2, <3>3, <3>4, <3>5
  <2>5. QED BY <1>3, <2>1, <2>2, <2>3, <2>4, EntryAdvance
<1>4. CASE IsOpen(fd) /\ fd \in FileFds /\ file_array[fd].file_ops = "dir" /\ ReadDir(fd, n)
            /\ ~Fails(0)
  <2>1. /\ opened[fd] \in Dentries /\ FileType[opened[fd]] = "dir"
        /\ failed[fd] \/ Reached(fd)
        /\ Limit(opened[fd]) = Cardinality(Dentries)
    BY <1>4 DEF SeqInv, EntryInv, Limit
  <2>2. PICK r \in 1 .. n : Advance(fd, r, 1) /\ file_array[fd].file_position < Cardinality(Dentries)
    BY <1>4, <2>1 DEF ReadDir
  <2>3. Cardinality(Dentries) \in Nat /\ Cardinality(Dentries) < WORD /\ WORD \in Nat
    BY NamesAssumption, FS_CardinalityType, LengthAssumption
  <2>4. ~failed[fd] => /\ delivered[fd] + 1 \in 0 .. WORD - 1
                       /\ delivered[fd] + 1 <= Limit(opened[fd])
    BY <2>1, <2>2, <2>3 DEF Reached
  <2>5. QED BY <1>4, <2>1, <2>2, <2>4, EntryAdvance
<1>5. QED
  <2>1. ReadFile(fd, n) => \E r, step : Advance(fd, r, step)
    BY DEF ReadFile
  <2>2. ReadDir(fd, n) => Fails(0) \/ \E r, step : Advance(fd, r, step)
    BY DEF ReadDir
  <2>3. QED BY <1>1, <1>2, <1>3, <1>4, <2>1, <2>2 DEF Read

\* A program that is started leaves the history of the reads, and at most one other inode.
LEMMA EntryStart == ASSUME SeqInv, NEW name, StartProgram(name) PROVE EntryInv'
<1>1. FdInv /\ Contiguous /\ EntryInv /\ FileFds \subseteq Fds
  BY HistoryDomains DEF SeqInv, RowInv
<1>2. /\ opened' = opened /\ delivered' = delivered /\ failed' = failed
      /\ \A g \in Fds : replaced[g] => replaced'[g]
      /\ \A g \in Fds : /\ file_array'[g].flags = file_array[g].flags
                        /\ file_array'[g].file_ops = file_array[g].file_ops
                        /\ file_array'[g].file_position = file_array[g].file_position
      /\ \A g \in FileFds : file_array'[g] # file_array[g] =>
            /\ LastOpen(g) /\ replaced'[g]
            /\ \E i \in Inodes : file_array'[g] = [file_array[g] EXCEPT !.inode_ptr = i]
  BY <1>1, StartedEffect
<1>3. ASSUME NEW g \in FileFds
      PROVE  /\ opened'[g] # NoName => IsOpen(g)'
             /\ IsOpen(g)' =>
                /\ opened'[g] \in Dentries
                /\ file_array'[g].file_ops = FileType[opened'[g]]
                /\ FileType[opened'[g]] = "reg" => file_array'[g].inode_ptr \in Inodes
                /\ FileType[opened'[g]] = "reg" /\ ~replaced'[g]
                      => file_array'[g].inode_ptr = InodeIdx[opened'[g]]
                /\ failed'[g] \/ Reached(g)'
  <2>1. g \in Fds /\ IsOpen(g)' = IsOpen(g) /\ (replaced[g] => replaced'[g])
    BY <1>1, <1>2 DEF IsOpen
  <2>2. IsOpen(g) => failed[g] \/ Reached(g)'
    BY <1>1, <1>2, <2>1 DEF EntryInv, Reached
  <2>3. CASE file_array'[g] = file_array[g]
    BY <1>1, <1>2, <2>1, <2>2, <2>3 DEF EntryInv
  <2>4. CASE file_array'[g] # file_array[g]
    <3>1. PICK i \in Inodes : file_array'[g] = [file_array[g] EXCEPT !.inode_ptr = i]
      BY <1>2, <2>4
    <3>2. file_array'[g].inode_ptr = i
      BY <1>1, <2>1, <3>1, HistoryDomains DEF Descriptor
    <3>3. replaced'[g]
      BY <1>2, <2>4
    <3>4. QED BY <1>1, <1>2, <2>1, <2>2, <3>2, <3>3 DEF EntryInv
  <2>5. QED BY <2>3, <2>4
<1>4. QED BY <1>3 DEF EntryInv

\* A new process has no file open.
LEMMA EntryRecycle == ASSUME Recycle PROVE EntryInv'
<1>1. /\ \A g \in FileFds : file_array'[g] = empty_file_desc
      /\ opened' = [fd \in Fds |-> NoName]
  BY InitShape DEF Recycle
<1>2. FileFds \subseteq Fds
  BY SomeFds DEF FileFdsAreFds
<1>3. QED BY <1>1, <1>2 DEF EntryInv, IsOpen, empty_file_desc

LEMMA SeqInit == Init => SeqInv
<1> SUFFICES ASSUME Init PROVE EntryInv
  BY RowInit DEF SeqInv
<1>1. /\ \A g \in FileFds : file_array[g] = empty_file_desc
      /\ opened = [fd \in Fds |-> NoName]
  BY InitShape DEF Init
<1>2. FileFds \subseteq Fds
  BY SomeFds DEF FileFdsAreFds
<1>3. QED BY <1>1, <1>2 DEF EntryInv, IsOpen, empty_file_desc

LEMMA SeqStep == ASSUME ~Holes PROVE SeqInv /\ [Next]_vars => SeqInv'
<1> SUFFICES ASSUME SeqInv, [Next]_vars PROVE EntryInv'
  BY RowStep DEF SeqInv
<1>1. (\E r : Fails(r)) => EntryInv'
  BY SameEntries DEF Fails, SeqInv
<1>2. CASE \E name \in Names : Open(name) \/ Execute(name)
  BY <1>1, <1>2, EntryOpen, EntryStart DEF Execute
<1>3. CASE \E fd \in -1 .. FILE_ARRAY_SIZE : Close(fd)
  BY <1>3, EntryClose
<1>4. CASE \E fd \in -1 .. FILE_ARRAY_SIZE, n \in 0 .. MaxBytes : Read(fd, n) \/ Write(fd, n)
  <2>1. \A fd, n : Write(fd, n) => \E r : Fails(r)
    BY DEF Write
  <2>2. QED BY <1>1, <1>4, <2>1, EntryRead
<1>5. CASE Launch \/ Recycle
  BY <1>5, EntryStart, EntryRecycle DEF Launch
<1>6. CASE UNCHANGED vars
  BY <1>6, SameEntries DEF vars, SeqInv
<1>7. QED BY <1>2, <1>3, <1>4, <1>5, <1>6 DEF Next

\* If descriptors are closed last first, then until one of its reads fails, a descriptor
\* stands where its reads have got to, even if its file is replaced by a program that is
\* started, and within its own file if it is not.
THEOREM SequentialHolds == ASSUME ~Holes PROVE Spec => []Sequential
<1>1. SeqInv => Sequential
  <2> SUFFICES ASSUME SeqInv, NEW fd \in FileFds, opened[fd] # NoName, ~failed[fd]
               PROVE  /\ file_array[fd].file_position = delivered[fd]
                      /\ replaced[fd] \/ delivered[fd] <= Limit(opened[fd])
    BY DEF Sequential, Limit
  <2>1. Reached(fd)
    BY DEF SeqInv, EntryInv
  <2>2. QED BY <2>1 DEF Reached
<1>2. SeqInv /\ [Next]_vars => SeqInv'
  BY SeqStep
<1>3. QED BY SeqInit, <1>1, <1>2, PTL DEF Spec
-------------------------------------------------------------------------------
(* What disturbs an open file *)

\* The descriptor that open takes was not open.
LEMMA OpenKeepsOpen ==
    ASSUME RowInv, NEW name, Open(name), NEW fd \in FileFds, IsOpen(fd)
    PROVE  file_array'[fd] = file_array[fd]
<1>1. CASE Fails(-1)
  BY <1>1 DEF Fails
<1>2. CASE ~Fails(-1)
  <2>1. /\ FindFreeFd(file_array) \in Free(file_array)
        /\ \A g \in Fds \ {FindFreeFd(file_array)} : file_array'[g] = file_array[g]
    BY <1>2, OpenEffect DEF RowInv
  <2>2. fd \notin Free(file_array) /\ fd \in Fds
    BY DEF Free, IsOpen
  <2>3. QED BY <2>1, <2>2
<1>3. QED BY <1>1, <1>2

\* Close and read change the descriptor they are given.
LEMMA OwnDescriptor ==
    ASSUME FdInv, NEW g, NEW fd \in FileFds, fd # g,
           Close(g) \/ \E n \in 0 .. MaxBytes : Read(g, n) \/ Write(g, n)
    PROVE  file_array'[fd] = file_array[fd]
<1>1. fd \in Fds /\ file_array \in [Fds -> Descriptor]
  BY HistoryDomains
<1>2. (\E r : Fails(r)) => file_array'[fd] = file_array[fd]
  BY DEF Fails
<1>3. (\E r, step : Advance(g, r, step)) => file_array'[fd] = file_array[fd]
  BY <1>1 DEF Advance
<1>4. CASE Close(g)
  BY <1>1, <1>2, <1>4 DEF Close, DestroyFd
<1>5. CASE \E n \in 0 .. MaxBytes : Read(g, n)
  BY <1>2, <1>3, <1>5 DEF Read, ReadFile, ReadDir
<1>6. CASE \E n \in 0 .. MaxBytes : Write(g, n)
  BY <1>2, <1>6 DEF Write
<1>7. QED BY <1>4, <1>5, <1>6

\* If descriptors are closed last first, an open one changes only by its own reads and its
\* close, with its process, or, if it is the last, by a program that is started.
THEOREM FilesUndisturbedHolds == ASSUME ~Holes PROVE Spec => FilesUndisturbed
<1> DEFINE Own(fd) ==
               \/ Recycle \/ Close(fd) \/ \E n \in 0 .. MaxBytes : Read(fd, n)
               \/ /\ LastOpen(fd)
                  /\ Launch \/ \E name \in Names : Execute(name)
                  /\ \E i \in Inodes : file_array'[fd] = [file_array[fd] EXCEPT !.inode_ptr = i]
           Quiet == \A fd \in FileFds : IsOpen(fd) /\ file_array'[fd] # file_array[fd] => Own(fd)
<1>1. ASSUME RowInv, Next, NEW fd \in FileFds, IsOpen(fd), file_array'[fd] # file_array[fd]
      PROVE  Own(fd)
  <2>1. FdInv /\ Contiguous
    BY <1>1 DEF RowInv
  <2>2. CASE \E name \in Names : Open(name)
    BY <1>1, <2>2, OpenKeepsOpen
  <2>3. CASE Launch \/ \E name \in Names : Execute(name)
    <3>1. PICK name : StartProgram(name)
      BY <1>1, <2>3 DEF Launch, Execute, Fails
    <3>2. LastOpen(fd) /\ \E i \in Inodes : file_array'[fd] = [file_array[fd] EXCEPT !.inode_ptr = i]
      BY <1>1, <2>1, <3>1, StartedEffect
    <3>3. QED BY <2>3, <3>2
  <2>4. CASE \E g \in -1 .. FILE_ARRAY_SIZE : Close(g)
    BY <1>1, <2>1, <2>4, OwnDescriptor
  <2>5. CASE \E g \in -1 .. FILE_ARRAY_SIZE, n \in 0 .. MaxBytes : Read(g, n) \/ Write(g, n)
    <3>1. \A g, n : Write(g, n) => file_array' = file_array
      BY DEF Write, Fails
    <3>2. QED BY <1>1, <2>1, <2>5, <3>1, OwnDescriptor
  <2>6. QED BY <1>1, <2>2, <2>3, <2>4, <2>5 DEF Next
<1>2. RowInv /\ [Next]_vars => [Quiet]_vars
  BY <1>1
<1>3. RowInv /\ [Next]_vars => RowInv'
  BY RowStep
<1> HIDE DEF Quiet
<1>4. Init /\ [][Next]_vars => [][Quiet]_vars
  BY RowInit, <1>2, <1>3, PTL
<1>5. QED BY <1>4 DEF Spec, FilesUndisturbed, Quiet
===============================================================================
