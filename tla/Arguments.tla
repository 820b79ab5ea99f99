------------------------------- MODULE Arguments -------------------------------
(***************************************************************************)
(* The command line of a process: parse_command (syscall_exec.c) splits a  *)
(* command into the cmd_name and cmd_args of a PCB, and sys_getargs        *)
(* (system_call.c) hands the arguments to the program.  Slots are used     *)
(* again: destroy_pcb_ptr (pcb.c) clears them.                             *)
(***************************************************************************)
EXTENDS Lib

CONSTANTS
    MAX_COMMAND_LENGTH,
    SPACE

ASSUME CommandAssumption == MAX_COMMAND_LENGTH \in Nat \ {0} /\ SPACE \in Nat \ {NUL}

VARIABLES cmd_name, cmd_args      \* of the PCB

pcb == <<cmd_name, cmd_args>>

Zeros == [k \in 1 .. MAX_COMMAND_LENGTH |-> NUL]

\* destroy_pcb_ptr: *pcb = empty_pcb
destroy_pcb_ptr == cmd_name' = Zeros /\ cmd_args' = Zeros

\* Where the string begins that is at index n of a command, counted from 0.
From(command, n) == SubSeq(command, n + 1, Len(command))

\* Seeded fault: the arguments begin at the space.
ArgsIndexAtSpace(command, spaceIndex) == spaceIndex

\* The index of the first argument, from the first space on; -1 without one.
ArgsIndex(command, spaceIndex) ==
    LET args == {n \in spaceIndex .. strlen(command) - 1 : command[n + 1] # SPACE}
    IN  IF args = {} THEN -1 ELSE CHOOSE n \in args : \A m \in args : n <= m

ParseFails(command) == command[1] = SPACE

parse_command(command) ==
    LET spaceIndex == index_of_char(command, SPACE)
        argsIndex  == ArgsIndex(command, spaceIndex)
    IN  IF spaceIndex = -1
        THEN cmd_name' = strcpy(cmd_name, command) /\ UNCHANGED cmd_args
        ELSE /\ cmd_name' = strncpy(cmd_name, command, spaceIndex)
             /\ cmd_args' = IF argsIndex = -1 THEN cmd_args
                            ELSE strcpy(cmd_args, From(command, argsIndex))

\* How many characters of the arguments count for a buffer of nbytes: up to the NUL.
bufferlength(nbytes) ==
    Cardinality({n \in 1 .. nbytes : n <= MAX_COMMAND_LENGTH /\ NoNul(cmd_args, n)})

\* What sys_getargs writes to the buffer: one byte more.
Written(nbytes) == SubSeq(cmd_args, 1, bufferlength(nbytes) + 1)
===============================================================================
