---------------------------------- MODULE Exec ----------------------------------
(***************************************************************************)
(* From a command to a running program, and what the program reads: a PCB  *)
(* slot in which one command is executed after another (do_execute's       *)
(* parse_command, check_executable and load_executable), over the          *)
(* directory (DirLookup) and the data (ReadData) of a file system image.   *)
(* The program that runs then asks for its arguments, reads files and      *)
(* lists the directory, by system calls (syscall.S), and halts.            *)
(*                                                                         *)
(* One process is enough here: what processes do to each other is Kernel's *)
(* and what open files do to each other FileDesc's.                        *)
(***************************************************************************)
EXTENDS Arguments, DirLookup, ReadData

CONSTANTS
    FILE_HEADER_SIZE,
    LOADER_BUFFER_SIZE,
    ElfBlocks,          \* blocks that begin with the magic number and an entry in range
    Images,             \* file systems: a sequence of entries and one of inodes
    Commands,           \* strings given to execute
    Requests,           \* <<offset, nbytes>> of reads
    Numbers,            \* what a program may have in EAX when it makes a system call
    Lengths             \* nbytes of calls for arguments and names

ASSUME HeaderAssumption ==
    /\ FILE_HEADER_SIZE \in 1 .. BLOCK_SIZE
    /\ LOADER_BUFFER_SIZE \in Nat \ {0}
    /\ ElfBlocks \subseteq 0 .. NumDataBlocks - 1

\* What an image is: names filled up with NUL, entries with an inode, files that end
\* in one of their blocks, whatever the number of the block is.
ASSUME ImageAssumption ==
    \A image \in Images :
        /\ image.dentries \in Seq([file_name : [1 .. MAX_FILE_NAME_LENGTH -> Nat], inode_idx : Nat])
        /\ image.inodes \in Seq([length : Nat, block_idx : Seq(Int)])
        /\ \A k \in 1 .. Len(image.dentries) :
              LET d == image.dentries[k]
              IN  /\ d.inode_idx < Len(image.inodes)
                  /\ d.file_name[1] # NUL
                  /\ \A i, j \in 1 .. MAX_FILE_NAME_LENGTH :
                        i < j /\ d.file_name[i] = NUL => d.file_name[j] = NUL
        /\ \A k \in 1 .. Len(image.inodes) :
              /\ 2 * image.inodes[k].length < WORD
              /\ image.inodes[k].length <= BLOCK_SIZE * Len(image.inodes[k].block_idx)

\* Strings that end where their array does and fit the fields of a PCB.  parse_command
\* does not check that they fit (syscall_exec.c:197-213): longer ones are not modelled.
ASSUME StringAssumption ==
    \A c \in Commands :
        /\ c \in Seq(Nat) /\ Len(c) \in 1 .. MAX_COMMAND_LENGTH
        /\ \A k \in 1 .. Len(c) : c[k] = NUL <=> k = Len(c)

\* Reads are from positions below 2^31, as they are as long as none has failed: the -1 of a
\* failed read is added to the position like a count (file_system.c:247, module FileDesc).
ASSUME RequestAssumption ==
    /\ \A r \in Requests : r[1] \in Nat /\ r[2] \in Nat /\ 2 * r[1] < WORD
    /\ Lengths \subseteq Nat \cup {-1}

VARIABLES
    inodes,
    pc,                 \* "idle", "search" and "read" in the kernel, "user", "lost"
    caller,             \* who called open_file or read_file: "check", "load" or "user"
    memory,             \* bytes load_executable has put at TASK_BEGIN_VIRT_ADDR
    given,              \* history: the command
    refused,            \* history: it was answered with -1
    answer              \* history: what the last system call returned, NoAnswer when it
                        \* is not to be looked at

history == <<given, refused, answer>>
vars == <<pcb, dentries, lookup, listing, reading, inodes, pc, caller, memory, history>>

NoAnswer == [call |-> "none", nbytes |-> 0, bytes |-> <<>>]

Init ==
    /\ \E image \in Images : dentries = image.dentries /\ inodes = image.inodes
    /\ cmd_name = Zeros /\ cmd_args = Zeros
    /\ fname = <<NUL>> /\ index = 1 /\ result = 0
    /\ position = 0 /\ listed = 0
    /\ inode = NoInode /\ offset = 0 /\ wanted = 0 /\ length = 0 /\ remaining = 0
    /\ cur_block_num = 0 /\ cur_block_offset = 0 /\ bytes_read = 0 /\ buf = <<>>
    /\ pc = "idle" /\ caller = "user"
    /\ memory = <<>>
    /\ given = <<NUL>> /\ refused = FALSE /\ answer = NoAnswer

-------------------------------------------------------------------------------
(* execute *)

\* do_execute on a command it can split: open_file is called for check_executable.
Execute ==
    /\ pc = "idle"
    /\ \E command \in Commands :
          /\ ~ParseFails(command)
          /\ parse_command(command)
          /\ LookUp(cmd_name')
          /\ given' = command
    /\ pc' = "search" /\ caller' = "check"
    /\ refused' = FALSE /\ answer' = NoAnswer
    /\ UNCHANGED <<dentries, listing, reading, inodes, memory>>

\* Every failure of do_execute gives the slot back and returns -1.
Refuse ==
    /\ destroy_pcb_ptr
    /\ pc' = "idle" /\ caller' = "user"
    /\ refused' = TRUE
    /\ NoLookup /\ NoReading
    /\ UNCHANGED <<dentries, listing, inodes, memory, answer>>

ExecuteNoName ==
    /\ pc = "idle"
    /\ \E command \in Commands : ParseFails(command) /\ given' = command
    /\ Refuse

Search ==
    /\ pc = "search" /\ read_dentry_by_name
    /\ UNCHANGED <<pcb, dentries, listing, reading, inodes, pc, caller, memory, history>>

\* read_file on the inode open_file has returned, for the header and for the program.
OpenedFile ==
    /\ pc = "search" /\ result > 0
    /\ ReadFrom(inodes[dentries[result].inode_idx + 1], 0,
                IF caller = "check" THEN FILE_HEADER_SIZE ELSE LOADER_BUFFER_SIZE)
    /\ NoLookup
    /\ pc' = "read"
    /\ UNCHANGED <<pcb, dentries, listing, inodes, caller, memory, history>>

\* The -1 of open_file passes for an inode, and read_file finds that there is none such.
NoFile ==
    /\ pc = "search" /\ result = -1 /\ caller = "check"
    /\ Refuse /\ UNCHANGED given

ReadRound ==
    /\ pc = "read" /\ read_data
    /\ UNCHANGED <<pcb, dentries, lookup, listing, inodes, pc, caller, memory, history>>

ReadEnded == pc = "read" /\ ~InLoop

HeaderIsElf ==
    /\ bytes_read = FILE_HEADER_SIZE
    /\ \E b \in ElfBlocks : buf = [k \in 1 .. FILE_HEADER_SIZE |-> <<b, k - 1>>]

NotExecutable ==
    /\ ReadEnded /\ caller = "check" /\ ~HeaderIsElf
    /\ Refuse /\ UNCHANGED given

\* The maps are made (Paging), and load_executable opens the file again.
Executable ==
    /\ ReadEnded /\ caller = "check" /\ HeaderIsElf
    /\ NoReading
    /\ LookUp(cmd_name)
    /\ pc' = "search" /\ caller' = "load"
    /\ UNCHANGED <<pcb, dentries, listing, inodes, memory, history>>

\* load_executable: memcpy, count += bytes_read, and the next call.
LoadMore ==
    /\ ReadEnded /\ caller = "load" /\ bytes_read > 0
    /\ memory' = memory \o buf
    /\ ReadFrom(inode, offset + bytes_read, LOADER_BUFFER_SIZE)
    /\ UNCHANGED <<pcb, dentries, lookup, listing, inodes, pc, caller, history>>

\* A -1 does not end its loop: memcpy is called with it, and nothing can be said any more.
LoadError == IF pc = "search" THEN result = -1 ELSE ReadEnded /\ bytes_read = -1

LoadLost ==
    /\ caller = "load" /\ LoadError
    /\ pc' = "lost"
    /\ UNCHANGED <<pcb, dentries, lookup, listing, reading, inodes, caller, memory, history>>

\* The end of the file: the program begins.
Loaded ==
    /\ ReadEnded /\ caller = "load" /\ bytes_read = 0
    /\ NoReading
    /\ pc' = "user" /\ caller' = "user"
    /\ UNCHANGED <<pcb, dentries, lookup, listing, inodes, memory, history>>

-------------------------------------------------------------------------------
(* System calls of the program *)

sys_call_table == <<"halt", "sys_execute", "sys_read", "sys_write", "sys_open", "sys_close",
                    "sys_getargs", "sys_vidmap", "sys_set_handler", "sys_sigreturn">>

\* EAX is compared without a sign, so a negative number is too large.
Calls(eax) ==
    IF eax \in DOMAIN sys_call_table THEN sys_call_table[eax] ELSE "syscall_badsys"

\* The program makes the call.
SystemCall(call) == pc = "user" /\ \E eax \in Numbers : Calls(eax) = call

\* It is answered with -1, and nothing else happens.
BadCall ==
    /\ SystemCall("syscall_badsys")
    /\ answer' = NoAnswer
    /\ UNCHANGED <<pcb, dentries, lookup, listing, reading, inodes, pc, caller, memory, given, refused>>

GetArgs ==
    /\ SystemCall("sys_getargs")
    /\ \E nbytes \in Lengths :
          answer' = [call |-> "sys_getargs", nbytes |-> nbytes, bytes |-> Written(nbytes)]
    /\ UNCHANGED <<pcb, dentries, lookup, listing, reading, inodes, pc, caller, memory, given, refused>>

\* sys_read of an open directory, from its position.
ReadDir ==
    /\ SystemCall("sys_read")
    /\ \E nbytes \in Lengths \ {-1} :
          /\ answer' = [call |-> "sys_read", nbytes |-> nbytes, bytes |-> read_dir(nbytes)]
          /\ read_dir_wrapper(nbytes)
    /\ UNCHANGED <<pcb, dentries, lookup, reading, inodes, pc, caller, memory, given, refused>>

\* sys_read of a file, from any position.
ReadFile ==
    /\ SystemCall("sys_read")
    /\ \E k \in DOMAIN inodes, r \in Requests : ReadFrom(inodes[k], r[1], r[2])
    /\ pc' = "read"
    /\ answer' = NoAnswer
    /\ UNCHANGED <<pcb, dentries, lookup, listing, inodes, caller, memory, given, refused>>

ReadReturns ==
    /\ ReadEnded /\ caller = "user"
    /\ NoReading
    /\ pc' = "user"
    /\ UNCHANGED <<pcb, dentries, lookup, listing, inodes, caller, memory, history>>

Halt ==
    /\ SystemCall("halt")
    /\ destroy_pcb_ptr
    /\ pc' = "idle"
    /\ memory' = <<>>
    /\ position' = 0 /\ listed' = 0
    /\ given' = <<NUL>> /\ answer' = NoAnswer
    /\ UNCHANGED <<dentries, lookup, reading, inodes, caller, refused>>

Program == BadCall \/ GetArgs \/ ReadDir \/ ReadFile \/ Halt

KernelStep ==
    \/ Search \/ OpenedFile \/ NoFile \/ ReadRound \/ NotExecutable \/ Executable
    \/ LoadMore \/ LoadLost \/ Loaded \/ ReadReturns

Next == Execute \/ ExecuteNoName \/ KernelStep \/ Program

\* The kernel's loops run on; nothing obliges anyone to execute or to call.
Spec == Init /\ [][Next]_vars /\ WF_vars(KernelStep)
-------------------------------------------------------------------------------
(* Properties *)

\* What a command means, without a loop: its first word, and what follows the spaces.
FirstWord(c) ==
    SubSeq(c, 1, Cardinality({k \in 1 .. Len(c) : \A j \in 1 .. k : c[j] \notin {NUL, SPACE}}))

Rest(c) ==
    LET skipped == {k \in Len(FirstWord(c)) + 1 .. Len(c) :
                        \A j \in Len(FirstWord(c)) + 1 .. k : c[j] = SPACE}
    IN  SubSeq(c, Len(FirstWord(c)) + Cardinality(skipped) + 1, Len(c) - 1)

\* The entries that were made with the name, and the file of the first of them.
Named(c) ==
    {k \in DOMAIN dentries : Len(FirstWord(c)) <= MAX_FILE_NAME_LENGTH
                             /\ dentries[k].file_name = Padded(FirstWord(c))}

FileOf(c) == inodes[dentries[CHOOSE k \in Named(c) : \A j \in Named(c) : k <= j].inode_idx + 1]

IsProgram(f) == f.length >= FILE_HEADER_SIZE /\ f.block_idx[1] \in ElfBlocks

\* A command is refused only if it begins with a space, or names no file, or no program;
\* what runs otherwise is the whole of the first file of that name, each byte at its place,
\* and only a program with an invalid block makes the loader's loop run away
\* (check_executable and load_executable, syscall_exec.c:228-280).
ExecutesWhatIsNamed ==
    /\ refused => Named(given) = {} \/ ~IsProgram(FileOf(given)) \/ given[1] = SPACE
    /\ pc = "user" => /\ Named(given) # {} /\ IsProgram(FileOf(given))
                      /\ memory = FileRange(FileOf(given), 0, FileOf(given).length)
    /\ pc = "lost" => ~Valid(FileOf(given))

\* A program gets the arguments of the command that started it, none of an earlier command
\* of its slot, from their first character on: all of them and a NUL if they fit its buffer,
\* else as many as the buffer holds ("Number of bytes to be read", system_call.c:258).  What
\* sys_getargs writes behind a buffer that is too small is no part of this: it is one byte.
ArgumentsDelivered ==
    answer.call = "sys_getargs" =>
        LET args == Append(Rest(given), NUL)
        IN  IF Len(args) <= answer.nbytes THEN answer.bytes = args
            ELSE \A k \in 1 .. answer.nbytes : k <= Len(answer.bytes) /\ answer.bytes[k] = args[k]

\* A read that does not fail returns the range asked for ("Number of read bytes",
\* file_system.c:109), across block borders and at the end of the file, whoever reads;
\* only a file with an invalid block number makes it fail.
ReadsTheRange ==
    ReadEnded =>
        IF bytes_read = -1 THEN ~Valid(inode)
        ELSE buf = FileRange(inode, offset, wanted) /\ bytes_read = Len(buf)

\* Reading a directory returns each entry once and in order, with its name cut to what was
\* asked for and no NUL in it, and nothing only at the end or when asked for nothing
\* (read_dir_wrapper, file_system.c:367).
ListsTheDirectory ==
    /\ listed = position
    /\ answer.call = "sys_read" =>
          LET name == answer.bytes
          IN  IF name = <<>> THEN answer.nbytes = 0 \/ position = Len(dentries)
              ELSE /\ NoNul(name, Len(name))
                   /\ \/ dentries[position].file_name = Padded(name)
                      \/ /\ Len(name) = answer.nbytes
                         /\ SubSeq(dentries[position].file_name, 1, Len(name)) = name

\* Every lookup, read and load ends: with the program, the refusal or the return of the
\* read, unless a program with an invalid block has run away with the kernel.
CallsEnd == pc \in {"search", "read"} ~> pc \in {"idle", "user", "lost"}
===============================================================================
