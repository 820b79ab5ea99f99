----------------------------- MODULE TerminalRead -----------------------------
(***************************************************************************)
(* Reading a line: terminal_read against the keyboard interrupt            *)
(* (keyboard.c).                                                           *)
(*                                                                         *)
(* Every terminal has its own index, buffer and flags, only the program in *)
(* its foreground reads it, and the keyboard types into the terminal on    *)
(* display, so one terminal tells the whole story; `displayed' says        *)
(* whether it is the one on display.  terminal_read runs behind a trap     *)
(* gate with IF=1 and busy-waits: the handler comes in between any two of  *)
(* its statements.                                                         *)
(*                                                                         *)
(* A character is what the reader may tell of it: NUL, an Enter or another *)
(* key of the read under way, or "stale", a leftover of an earlier read.   *)
(*                                                                         *)
(* Windows: "late" lets a key be typed after the read has all it waits     *)
(* for, "fault" lets the copy fault on the caller's buffer.                *)
(***************************************************************************)
EXTENDS Integers, Sequences

CONSTANTS
    BUFFER_SIZE,     \* characters in terminal_buf
    MAX_ARG_BUF,     \* the largest read served
    Requests,        \* the nbytes that programs ask for
    Windows

ASSUME BufferAssumption  == BUFFER_SIZE \in Nat \ {0} /\ MAX_ARG_BUF \in Nat
ASSUME RequestAssumption == Requests \subseteq Nat
ASSUME WindowAssumption  == Windows \subseteq {"late", "fault"}

VARIABLES
    displayed,
    index,           \* the four shared with the handler
    read_on,
    read_return,
    terminal_buf,
    pc,              \* terminal_read's next statement, "user" outside it
    nbytes,          \* its argument, its loop counter and the caller's buffer
    i,
    buf,
    ret,             \* what the last read returned
    late             \* history: a key came after this read had all it waits for,
                     \* or before it began

shared == <<index, read_on, read_return, terminal_buf>>
locals == <<nbytes, i, buf, ret>>
vars   == <<displayed, shared, pc, locals, late>>

Chars  == {"nul", "stale", "key", "enter"}
Places == {"user", "index", "on", "wait", "copy", "off", "clear", "return"}

Init ==
    /\ displayed = TRUE
    /\ index = 0
    /\ read_on = FALSE
    /\ read_return = FALSE
    /\ terminal_buf = [j \in 0 .. BUFFER_SIZE - 1 |-> "nul"]
    /\ pc = "user"
    /\ nbytes = 0
    /\ i = 0
    /\ buf = <<>>
    /\ ret = 0
    /\ late = FALSE

-------------------------------------------------------------------------------
(* terminal_read, one action per statement that touches the shared state *)

\* A program calls read; nbytes is its own.
Call(n) ==
    /\ pc = "user"
    /\ nbytes' = n
    /\ i' = 0
    /\ buf' = <<>>
    /\ pc' = "index"
    /\ late' = read_on
    /\ UNCHANGED <<displayed, shared, ret>>

\* index = 0: what the buffer holds belongs to no read from here on.
ResetIndex ==
    /\ pc = "index"
    /\ index' = 0
    /\ terminal_buf' = [j \in DOMAIN terminal_buf |->
                            IF terminal_buf[j] = "nul" THEN "nul" ELSE "stale"]
    /\ pc' = "on"
    /\ UNCHANGED <<displayed, late, read_on, read_return, locals>>

\* read_on = 1, and the test of the size.
ReadOn ==
    /\ pc = "on"
    /\ read_on' = TRUE
    /\ pc' = IF nbytes <= MAX_ARG_BUF THEN "wait" ELSE "off"
    /\ UNCHANGED <<displayed, late, index, read_return, terminal_buf, locals>>

\* What the busy-wait waits for.
Complete == read_return \/ index >= nbytes \/ index >= BUFFER_SIZE

\* Seeded fault: the loop does not look at read_return.
WaitForBytes ==
    /\ pc = "wait"
    /\ index >= nbytes \/ index >= BUFFER_SIZE
    /\ pc' = "copy"
    /\ UNCHANGED <<displayed, late, shared, locals>>

Wait ==
    /\ pc = "wait"
    /\ Complete
    /\ pc' = "copy"
    /\ UNCHANGED <<displayed, late, shared, locals>>

\* Seeded fault: the copy does not compare with index.
CopyAll ==
    /\ pc = "copy"
    /\ IF i < nbytes
       THEN /\ buf' = Append(buf, IF i < BUFFER_SIZE THEN terminal_buf[i] ELSE "nul")
            /\ i' = i + 1
            /\ UNCHANGED <<pc, nbytes, ret>>
       ELSE pc' = "off" /\ UNCHANGED locals
    /\ UNCHANGED <<displayed, late, shared>>

\* One round of the copy loop; index is read again in each.
Copy ==
    /\ pc = "copy"
    /\ IF i < nbytes
       THEN /\ buf' = Append(buf, IF i < index THEN terminal_buf[i] ELSE "nul")
            /\ i' = i + 1
            /\ UNCHANGED <<pc, nbytes, ret>>
       ELSE pc' = "off" /\ UNCHANGED locals
    /\ UNCHANGED <<displayed, late, shared>>

\* The copy faults on the caller's buffer: the exception handler halts the
\* program and terminal_read never gets to its last statements.
CopyFaults ==
    /\ "fault" \in Windows
    /\ pc = "copy"
    /\ i < nbytes
    /\ pc' = "user"
    /\ UNCHANGED <<displayed, late, shared, locals>>

\* Seeded fault: the two flags are reset in the other order.
ResetFlagsSwapped ==
    /\ \/ pc = "off" /\ pc' = "clear" /\ read_return' = FALSE /\ UNCHANGED read_on
       \/ pc = "clear" /\ pc' = "return" /\ read_on' = FALSE /\ UNCHANGED read_return
    /\ UNCHANGED <<displayed, late, index, terminal_buf, locals>>

\* read_on = 0, and then read_return = 0.
ResetFlags ==
    /\ \/ pc = "off" /\ pc' = "clear" /\ read_on' = FALSE /\ UNCHANGED read_return
       \/ pc = "clear" /\ pc' = "return" /\ read_return' = FALSE /\ UNCHANGED read_on
    /\ UNCHANGED <<displayed, late, index, terminal_buf, locals>>

\* The value returned is index as it is now.
Return ==
    /\ pc = "return"
    /\ ret' = IF nbytes <= MAX_ARG_BUF THEN index ELSE -1
    /\ pc' = "user"
    /\ UNCHANGED <<displayed, late, shared, nbytes, i, buf>>

Reader == ResetIndex \/ ReadOn \/ Wait \/ Copy \/ ResetFlags \/ Return

-------------------------------------------------------------------------------
(* The keyboard interrupt; what it does outside a read is only to echo *)

\* A key arrives now: this terminal is on display and reading.
Types ==
    /\ displayed
    /\ read_on
    /\ "late" \in Windows \/ (pc = "wait" /\ ~Complete)
    /\ late' = (late \/ ~(pc = "wait" /\ ~Complete))

\* update_terminal_buf for a printable key
AppendChar(c) ==
    IF index < BUFFER_SIZE
    THEN /\ terminal_buf' = [terminal_buf EXCEPT ![index] = c]
         /\ index' = index + 1
    ELSE UNCHANGED <<terminal_buf, index>>

Key ==
    /\ Types
    /\ AppendChar("key")
    /\ UNCHANGED <<displayed, read_on, read_return, pc, locals>>

\* Seeded fault: Enter is not put into the buffer.
EnterOnlyReturns ==
    /\ Types
    /\ read_return' = TRUE
    /\ UNCHANGED <<displayed, read_on, index, terminal_buf, pc, locals>>

Enter ==
    /\ Types
    /\ read_return' = TRUE
    /\ AppendChar("enter")
    /\ UNCHANGED <<displayed, read_on, pc, locals>>

\* Seeded fault: a backspace erases the character and stays there.
BackspaceStays ==
    /\ Types
    /\ index # 0
    /\ terminal_buf' = [terminal_buf EXCEPT ![index - 1] = "nul"]
    /\ UNCHANGED <<displayed, read_on, read_return, index, pc, locals>>

\* update_terminal_buf for a backspace
Backspace ==
    /\ Types
    /\ index # 0
    /\ terminal_buf' = [terminal_buf EXCEPT ![index - 1] = "nul"]
    /\ index' = index - 1
    /\ UNCHANGED <<displayed, read_on, read_return, pc, locals>>

\* ALT-Fn: this terminal leaves the display or comes back to it.
ChangeTerminal ==
    /\ displayed' = ~displayed
    /\ UNCHANGED <<shared, pc, locals, late>>

Keyboard == Key \/ Enter \/ Backspace \/ ChangeTerminal

Next == (\E n \in Requests : Call(n)) \/ Reader \/ CopyFaults \/ Keyboard

Spec == Init /\ [][Next]_vars

\* The scheduler gives the terminal its turns, so the reader keeps moving.
FairSpec == Spec /\ WF_vars(Reader)
-------------------------------------------------------------------------------
(* Properties *)

\* No Enter is left over for the next read, wherever it came in this one: outside a
\* read, and when one begins, read_return is off, unless a read that faulted has left
\* the terminal marked as reading.  (read_return "indicates whether an enter has been
\* pressed during a read", keyboard.c:41.)
NoStaleEnter == pc \in {"user", "index", "on"} /\ ~read_on => ~read_return

\* A read hands over nothing that was typed for an earlier one, whatever is typed or
\* erased while it copies.
NoStaleData == \A j \in 1 .. Len(buf) : buf[j] # "stale"

\* A read that served the program returned, and no key came after it had all it
\* waited for.
Returned == pc = "user" /\ nbytes <= MAX_ARG_BUF /\ ~late /\ ret >= 0 /\ Len(buf) = nbytes

\* The value returned counts the characters copied: they are the typed ones, and the
\* rest of the caller's buffer is NUL ("# of bytes copied into char buf", keyboard.c:389).
ReturnsWhatItCopied ==
    Returned =>
        /\ ret <= nbytes
        /\ \A j \in 1 .. nbytes : buf[j] = "nul" <=> j > ret

\* A read ends for one of its three reasons: nbytes characters, a full buffer, or an
\* Enter, which is then the last one ("nbytes or line terminated with enter", keyboard.c:390).
WholeLine ==
    Returned /\ ret \in 1 .. nbytes /\ ret < BUFFER_SIZE /\ ret < nbytes
        => buf[ret] = "enter"

\* Enter ends the read it was typed into, even if all of the line is erased again.
EnterEndsRead == read_return /\ pc = "wait" ~> pc = "user"
===============================================================================
