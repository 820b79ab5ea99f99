------------------------------- MODULE FileDesc -------------------------------
(***************************************************************************)
(* The file descriptors of one process: sys_open, sys_close, sys_read and  *)
(* sys_write (system_call.c), the open and read functions of the file      *)
(* system driver that they call (file_system.c), the descriptor functions  *)
(* of pcb.c, and what do_execute does to the descriptors of its caller:    *)
(* the program itself, or the shell that change_terminal (keyboard.c)      *)
(* launches on whatever process the keyboard has interrupted.              *)
(*                                                                         *)
(* Each process has its own file_array and the file system is read-only,   *)
(* so the system calls of one process and the launches that fall on it     *)
(* tell the whole story.  A name stands for a directory entry; of a file   *)
(* it matters only how long it is and which of its positions lie in a      *)
(* block that the image does not have.                                     *)
(*                                                                         *)
(* A launch in the middle of sys_open or sys_close leaves what one before  *)
(* or after the call leaves, or nothing, so the calls are one step each.   *)
(*                                                                         *)
(* Holes: the program may close a descriptor below another open one.       *)
(***************************************************************************)
EXTENDS Integers, FiniteSets

CONSTANTS
    FILE_ARRAY_SIZE,  \* descriptors of a process
    Names,            \* file names a program may ask for
    Dentries,         \* the names that the directory holds
    FileType,         \* [Dentries -> {"rtc", "dir", "reg"}]
    InodeIdx,         \* [Dentries -> the inode of the entry]
    Length,           \* [inode -> the bytes of the file]
    BadPositions,     \* [inode -> positions in blocks beyond fs_stat.num_data_blocks]
    Shell,            \* what change_terminal executes
    WORD,             \* 2^32: file_position is a uint32_t
    MaxBytes,         \* bound on the nbytes of a read
    Holes             \* whether the program closes out of order

ASSUME ArrayAssumption == FILE_ARRAY_SIZE \in Nat /\ FILE_ARRAY_SIZE > 2
ASSUME NamesAssumption == Dentries \subseteq Names /\ IsFiniteSet(Dentries)
ASSUME TypeAssumption  == FileType \in [Dentries -> {"rtc", "dir", "reg"}]
ASSUME InodeAssumption == InodeIdx \in [Dentries -> Nat]
ASSUME LengthAssumption ==
    /\ WORD \in Nat \ {0}
    /\ Length \in [{InodeIdx[d] : d \in Dentries} -> 0 .. WORD - 1]
    /\ \A i \in DOMAIN Length : 2 * Length[i] < WORD
    /\ Cardinality(Dentries) < WORD
ASSUME BytesAssumption == MaxBytes \in Nat /\ 2 * MaxBytes < WORD
ASSUME BadAssumption   == BadPositions \in [DOMAIN Length -> SUBSET Nat]
ASSUME ShellAssumption == Shell \in Names
ASSUME HolesAssumption == Holes \in BOOLEAN

VARIABLES
    file_array,       \* the descriptors, in the PCB
    ret,              \* what the last system call returned
    opened,           \* history: the name each descriptor was opened with
    delivered,        \* history: bytes, or entries, read since then
    failed,           \* history: whether a read has failed since then; delivered ends there
    replaced          \* history: whether a program was started while it was the last open one

history == <<opened, delivered, failed, replaced>>

vars == <<file_array, ret, history>>

Fds       == 0 .. FILE_ARRAY_SIZE - 1
FileFds   == 2 .. FILE_ARRAY_SIZE - 1
MAX_FILE_INDEX == FILE_ARRAY_SIZE - 1
NullInode == -1
NoName    == "none"
Inodes    == DOMAIN Length

empty_file_desc == [file_ops |-> "null", inode_ptr |-> NullInode, file_position |-> 0, flags |-> 0]

\* init_pcb on a zeroed PCB: descriptors 0 and 1 are the terminal.
InitPcb ==
    [fd \in Fds |->
        IF fd = 0 THEN [empty_file_desc EXCEPT !.file_ops = "stdin", !.flags = 1]
        ELSE IF fd = 1 THEN [empty_file_desc EXCEPT !.file_ops = "stdout", !.flags = 1]
        ELSE empty_file_desc]

Init ==
    /\ file_array = InitPcb
    /\ ret = 0
    /\ opened = [fd \in Fds |-> NoName]
    /\ delivered = [fd \in Fds |-> 0]
    /\ failed = [fd \in Fds |-> FALSE]
    /\ replaced = [fd \in Fds |-> FALSE]

-------------------------------------------------------------------------------
(* Helpers of the C code; fa is a file array *)

IsOpen(fd) == fd \in Fds /\ file_array[fd].flags # 0

LastOpen(fd) == fd \in FileFds /\ IsOpen(fd) /\ \A g \in FileFds : IsOpen(g) => g <= fd

Free(fa) == {fd \in FileFds : fa[fd].flags = 0}

\* find_free_fd_index: the first free descriptor, or -1.
FindFreeFd(fa) == IF Free(fa) = {} THEN -1
                  ELSE CHOOSE fd \in Free(fa) : \A g \in Free(fa) : fd <= g

\* Seeded fault: the freed descriptor keeps its inode and its position.
DestroyFdFlag(fa, fd) == [fa EXCEPT ![fd].flags = 0]

\* Seeded fault: the descriptor before the one that is closed is freed.
DestroyFdBefore(fa, fd) == [fa EXCEPT ![fd - 1] = empty_file_desc]

\* destroy_fd
DestroyFd(fa, fd) == [fa EXCEPT ![fd] = empty_file_desc]

\* Seeded fault: open_file uses the free descriptor, not the one before it.
OpenFileNext(fa, name) ==
    [fa EXCEPT ![IF FindFreeFd(fa) = -1 THEN MAX_FILE_INDEX ELSE FindFreeFd(fa)].inode_ptr
                    = InodeIdx[name]]

\* Seeded fault: open_file counts back from the end of the array.
OpenFileLast(fa, name) == [fa EXCEPT ![MAX_FILE_INDEX].inode_ptr = InodeIdx[name]]

\* open_file of a name that exists.  Its caller has taken a descriptor already,
\* so it looks for the one before the first free one.
OpenFile(fa, name) ==
    LET fd == FindFreeFd(fa)
    IN  [fa EXCEPT ![IF fd = -1 THEN MAX_FILE_INDEX ELSE fd - 1].inode_ptr = InodeIdx[name]]

\* sys_open's own part: the descriptor is in use before the open function runs.
Claim(fa, fd, name) ==
    [fa EXCEPT ![fd] = [file_ops |-> FileType[name], inode_ptr |-> fa[fd].inode_ptr,
                        file_position |-> 0, flags |-> 1]]

\* A uint32_t difference as read_data keeps it, in an int32_t.
Signed(x) == LET w == x % WORD IN IF 2 * w >= WORD THEN w - WORD ELSE w

\* read_file and read_data of n bytes from a position: the possible results.  An invalid
\* block fails the read.  Past the end of the inode's block list the block number is
\* whatever memory holds.
ReadResults(inode, position, n) ==
    IF inode = NullInode THEN {-1}
    ELSE LET remaining == Signed(Length[inode] - position)
             wanted    == IF n <= remaining THEN n ELSE remaining
         IN  IF remaining <= 0 \/ n = 0 THEN {0}
             ELSE IF position >= Length[inode] THEN {-1, wanted}
             ELSE IF \E p \in BadPositions[inode] : position <= p /\ p < position + wanted
                  THEN {-1} ELSE {wanted}

-------------------------------------------------------------------------------
(* System calls *)

\* Returns r and leaves the descriptors alone.
Fails(r) == ret' = r /\ UNCHANGED <<file_array, history>>

\* The history of a descriptor that is opened, or closed.
Begin(fd, name) ==
    /\ opened' = [opened EXCEPT ![fd] = name]
    /\ delivered' = [delivered EXCEPT ![fd] = 0]
    /\ failed' = [failed EXCEPT ![fd] = FALSE]
    /\ replaced' = [replaced EXCEPT ![fd] = FALSE]

\* sys_open.  rtc_open and open_dir leave the descriptors alone, and none of
\* the open functions fails on a name that sys_open has just found.
Open(name) ==
    LET fd == FindFreeFd(file_array)
    IN  \/ (fd = -1 \/ name \notin Dentries) /\ Fails(-1)
        \/ /\ fd # -1
           /\ name \in Dentries
           /\ LET claimed == Claim(file_array, fd, name)
              IN  file_array' = IF FileType[name] = "reg" THEN OpenFile(claimed, name) ELSE claimed
           /\ ret' = fd
           /\ Begin(fd, name)

\* sys_close; every close function returns 0 and does nothing.
Close(fd) ==
    \/ /\ ~(fd \in FileFds /\ IsOpen(fd))
       /\ Fails(-1)
    \/ /\ fd \in FileFds /\ IsOpen(fd)
       /\ Holes \/ LastOpen(fd)
       /\ file_array' = DestroyFd(file_array, fd)
       /\ Begin(fd, NoName)
       /\ ret' = 0

\* A read that returned r and moved the position by step.
Advance(fd, r, step) ==
    /\ ret' = r
    /\ file_array' = [file_array EXCEPT ![fd].file_position = (@ + step) % WORD]
    /\ failed' = [failed EXCEPT ![fd] = @ \/ r = -1]
    /\ delivered' = [delivered EXCEPT ![fd] = IF failed[fd] \/ r = -1 THEN 0 ELSE @ + step]
    /\ UNCHANGED <<opened, replaced>>

\* Seeded fault: the position moves by the bytes asked for.
ReadFileAsked(fd, n) ==
    \E r \in ReadResults(file_array[fd].inode_ptr, file_array[fd].file_position, n) :
        /\ ret' = r
        /\ file_array' = [file_array EXCEPT ![fd].file_position = (@ + n) % WORD]
        /\ failed' = [failed EXCEPT ![fd] = @ \/ r = -1]
        /\ delivered' = [delivered EXCEPT ![fd] = IF failed[fd] \/ r = -1 THEN 0 ELSE @ + r]
        /\ UNCHANGED <<opened, replaced>>

\* read_file_wrapper: the position moves by the result, even by -1.
ReadFile(fd, n) ==
    \E r \in ReadResults(file_array[fd].inode_ptr, file_array[fd].file_position, n) :
        Advance(fd, r, r)

\* read_dir_wrapper: one entry per call, of which at most n characters.
ReadDir(fd, n) ==
    IF file_array[fd].file_position < Cardinality(Dentries) /\ n > 0
    THEN \E r \in 1 .. n : Advance(fd, r, 1)
    ELSE Fails(0)

\* sys_read.  terminal_read and rtc_read keep nothing in the descriptor.
Read(fd, n) ==
    \/ /\ fd = 1 \/ ~IsOpen(fd)
       /\ Fails(-1)
    \/ /\ fd # 1 /\ IsOpen(fd)
       /\ \/ file_array[fd].file_ops = "reg" /\ ReadFile(fd, n)
          \/ file_array[fd].file_ops = "dir" /\ ReadDir(fd, n)
          \/ file_array[fd].file_ops = "rtc" /\ Fails(0)
          \/ file_array[fd].file_ops = "stdin" /\ \E r \in 0 .. n : Fails(r)

\* sys_write: the file system is read-only, the terminal and the RTC take data.
Write(fd, n) ==
    \/ /\ fd = 0 \/ ~IsOpen(fd)
       /\ Fails(-1)
    \/ /\ fd # 0 /\ IsOpen(fd)
       /\ \/ file_array[fd].file_ops \in {"reg", "dir"} /\ Fails(-1)
          \/ file_array[fd].file_ops = "rtc" /\ \E r \in {-1, 0} : Fails(r)
          \/ file_array[fd].file_ops = "stdout"
             /\ \E r \in -1 .. n : (r = -1 <=> n = 0) /\ Fails(r)

\* do_execute of a command that it can parse, in a slot that it has found, for its caller:
\* check_executable and load_executable open the program with open_file, which writes
\* into the caller's descriptors whether or not the program can be run.
StartProgram(name) ==
    IF name \in Dentries
    THEN /\ file_array' = OpenFile(file_array, name)
         /\ replaced' = [fd \in Fds |-> replaced[fd] \/ LastOpen(fd)]
         /\ UNCHANGED <<opened, delivered, failed>>
    ELSE UNCHANGED <<file_array, history>>

\* sys_execute by the program.  Without a slot or a name it fails before it opens anything.
Execute(name) ==
    \/ Fails(-1)
    \/ StartProgram(name) /\ ret' \in IF name \in Dentries THEN {-1, 0} ELSE {-1}

\* change_terminal launches a shell from the keyboard interrupt: sys_execute takes the
\* interrupted process for its caller.
Launch == StartProgram(Shell) /\ UNCHANGED ret

\* The process halts; destroy_pcb_ptr and init_pcb set its slot up for another.
Recycle ==
    /\ file_array' = InitPcb
    /\ ret' = 0
    /\ opened' = [fd \in Fds |-> NoName]
    /\ delivered' = [fd \in Fds |-> 0]
    /\ failed' = [fd \in Fds |-> FALSE]
    /\ replaced' = [fd \in Fds |-> FALSE]

Next ==
    \/ \E name \in Names : Open(name) \/ Execute(name)
    \/ \E fd \in -1 .. FILE_ARRAY_SIZE : Close(fd)
    \/ \E fd \in -1 .. FILE_ARRAY_SIZE, n \in 0 .. MaxBytes : Read(fd, n) \/ Write(fd, n)
    \/ Launch
    \/ Recycle

Spec == Init /\ [][Next]_vars
-------------------------------------------------------------------------------
(* Properties *)

\* A descriptor that open can hand out carries nothing of an earlier file, whatever the
\* order of opens, closes, executes and launches: sys_open resets only the position
\* (system_call.c:214), so the next file would inherit a stale inode.
ClosedClean == \A fd \in FileFds : ~IsOpen(fd) => file_array[fd] = empty_file_desc

\* A descriptor loses the file it was opened with only to a program that was started while
\* it was the last open one, by its owner or by ALT-Fn: open_file finds the descriptor
\* that sys_open took by looking for the free one after it, and no other.
ReadsItsFile ==
    \A fd \in FileFds :
        opened[fd] # NoName /\ file_array[fd].file_ops = "reg" /\ ~replaced[fd]
            => file_array[fd].inode_ptr = InodeIdx[opened[fd]]

\* Until one of them fails, the reads of a descriptor deliver each byte, or entry, once and
\* in order: its position is what they returned in all, even if its file is replaced, and
\* never passes the end of its own.
Sequential ==
    \A fd \in FileFds :
        opened[fd] # NoName /\ ~failed[fd]
            => /\ file_array[fd].file_position = delivered[fd]
               /\ replaced[fd] \/ delivered[fd] <= IF FileType[opened[fd]] = "reg"
                                                 THEN Length[InodeIdx[opened[fd]]]
                                                 ELSE Cardinality(Dentries)

\* Opening a file changes no descriptor but the one it returns ("Allocates an unused
\* file descriptor", system_call.c:191).
OpenTouchesOnlyItsOwn ==
    [][\A name \in Names : Open(name) =>
            \A fd \in FileFds \ {ret'} : file_array'[fd] = file_array[fd]]_vars

\* An open descriptor changes by its own reads and its close, and with its process; a
\* program that is started changes at most the inode of the last one.  No other open,
\* close, read, write or launch disturbs it.
FilesUndisturbed ==
    [][\A fd \in FileFds : IsOpen(fd) /\ file_array'[fd] # file_array[fd] =>
          \/ Recycle \/ Close(fd) \/ \E n \in 0 .. MaxBytes : Read(fd, n)
          \/ /\ LastOpen(fd)
             /\ Launch \/ \E name \in Names : Execute(name)
             /\ \E i \in Inodes : file_array'[fd] = [file_array[fd] EXCEPT !.inode_ptr = i]]_vars

\* A shell that change_terminal launches leaves the files of the program that the keyboard
\* interrupted alone: open_file has "Side Effects : None" (file_system.c:182).
LaunchLeavesFiles ==
    [][Launch => \A fd \in FileFds : file_array'[fd] = file_array[fd]]_vars
===============================================================================
