-------------------------- MODULE TerminalReadProofs --------------------------
(***************************************************************************)
(* Proofs about TerminalRead, for buffers and requests of every size and   *)
(* keys typed at any moment.                                               *)
(***************************************************************************)
EXTENDS TerminalRead, TLAPS

\* The part of the state that the index guards: it stays in the buffer, and the
\* characters before it were typed for the read under way.
BufferInv ==
    /\ index \in 0 .. BUFFER_SIZE
    /\ terminal_buf \in [0 .. BUFFER_SIZE - 1 -> Chars]
    /\ \A j \in 0 .. index - 1 : terminal_buf[j] # "stale"

\* What has been copied so far.
CopyInv ==
    /\ nbytes \in Nat
    /\ i \in Nat
    /\ buf \in Seq(Chars)
    /\ NoStaleData

\* The flags go up in one order and down in the other.
FlagInv ==
    /\ read_on \in BOOLEAN /\ read_return \in BOOLEAN
    /\ pc \in Places
    /\ read_return => read_on \/ pc = "clear"

DataInv == BufferInv /\ CopyInv

LEMMA DataInit == Init => DataInv
BY BufferAssumption
   DEF Init, DataInv, BufferInv, CopyInv, NoStaleData, Chars

LEMMA AppendStep ==
    ASSUME BufferInv, NEW c \in {"key", "enter"}, AppendChar(c)
    PROVE  BufferInv'
<1>1. CASE index < BUFFER_SIZE
  <2>1. index \in 0 .. BUFFER_SIZE - 1 /\ index' = index + 1
    BY <1>1, BufferAssumption DEF BufferInv, AppendChar
  <2>2. terminal_buf' = [terminal_buf EXCEPT ![index] = c] /\ c \in Chars
    BY <1>1 DEF AppendChar, Chars
  <2>3. terminal_buf' \in [0 .. BUFFER_SIZE - 1 -> Chars]
    BY <2>2 DEF BufferInv
  <2>4. ASSUME NEW j \in 0 .. index' - 1 PROVE terminal_buf'[j] # "stale"
    <3>1. CASE j = index
      BY <2>1, <2>2, <3>1 DEF BufferInv
    <3>2. CASE j # index
      <4>1. j \in 0 .. index - 1 /\ j \in 0 .. BUFFER_SIZE - 1
        BY <2>1, <3>2, BufferAssumption
      <4>2. terminal_buf'[j] = terminal_buf[j]
        BY <2>2, <3>2, <4>1 DEF BufferInv
      <4>3. QED BY <4>1, <4>2 DEF BufferInv
    <3>3. QED BY <3>1, <3>2
  <2>5. index' \in 0 .. BUFFER_SIZE
    BY <2>1, BufferAssumption
  <2>6. QED BY <2>3, <2>4, <2>5 DEF BufferInv
<1>2. CASE ~(index < BUFFER_SIZE)
  BY <1>2 DEF AppendChar, BufferInv
<1>3. QED BY <1>1, <1>2

LEMMA BackspaceStep == ASSUME BufferInv, Backspace PROVE BufferInv'
<1>1. /\ index - 1 \in 0 .. BUFFER_SIZE - 1 /\ index' = index - 1
      /\ terminal_buf' = [terminal_buf EXCEPT ![index - 1] = "nul"]
  BY BufferAssumption DEF BufferInv, Backspace
<1>2. terminal_buf' \in [0 .. BUFFER_SIZE - 1 -> Chars]
  BY <1>1 DEF BufferInv, Chars
<1>3. ASSUME NEW j \in 0 .. index' - 1 PROVE terminal_buf'[j] # "stale"
  <2>1. j \in 0 .. index - 1 /\ j \in 0 .. BUFFER_SIZE - 1 /\ j # index - 1
    BY <1>1, BufferAssumption
  <2>2. QED BY <1>1, <2>1 DEF BufferInv
<1>4. index' \in 0 .. BUFFER_SIZE
  BY <1>1, BufferAssumption
<1>5. QED BY <1>2, <1>3, <1>4 DEF BufferInv

LEMMA CopyStep == ASSUME BufferInv, CopyInv, Copy PROVE CopyInv'
<1>1. CASE i < nbytes
  <2> DEFINE c == IF i < index THEN terminal_buf[i] ELSE "nul"
  <2>1. buf' = Append(buf, c) /\ i' = i + 1 /\ nbytes' = nbytes
    BY <1>1 DEF Copy
  <2>2. c \in Chars /\ c # "stale"
    <3>1. CASE i < index
      <4>1. i \in 0 .. index - 1 /\ i \in 0 .. BUFFER_SIZE - 1
        BY <3>1, BufferAssumption DEF BufferInv, CopyInv
      <4>2. QED BY <3>1, <4>1 DEF BufferInv
    <3>2. CASE ~(i < index)
      BY <3>2 DEF Chars
    <3>3. QED BY <3>1, <3>2
  <2> HIDE DEF c
  <2>3. buf' \in Seq(Chars) /\ \A j \in 1 .. Len(buf') : buf'[j] # "stale"
    BY <2>1, <2>2 DEF CopyInv, NoStaleData
  <2>4. QED BY <2>1, <2>3 DEF CopyInv, NoStaleData
<1>2. CASE ~(i < nbytes)
  BY <1>2 DEF Copy, CopyInv, NoStaleData, locals
<1>3. QED BY <1>1, <1>2

LEMMA DataStep == DataInv /\ [Next]_vars => DataInv'
<1> SUFFICES ASSUME DataInv, [Next]_vars PROVE DataInv'
  OBVIOUS
<1> USE DEF DataInv
<1>1. ASSUME NEW n \in Requests, Call(n) PROVE DataInv'
  <2>1. BufferInv'
    BY <1>1 DEF Call, shared, BufferInv
  <2>2. CopyInv'
    BY <1>1, RequestAssumption DEF Call, CopyInv, NoStaleData
  <2>3. QED BY <2>1, <2>2
<1>2. CASE ResetIndex
  <2>1. index' = 0 /\ terminal_buf' \in [0 .. BUFFER_SIZE - 1 -> Chars]
    BY <1>2 DEF ResetIndex, BufferInv, Chars
  <2>2. BufferInv'
    BY <2>1, BufferAssumption DEF BufferInv
  <2>3. CopyInv'
    BY <1>2 DEF ResetIndex, locals, CopyInv, NoStaleData
  <2>4. QED BY <2>2, <2>3
<1>3. CASE ReadOn \/ Wait \/ ResetFlags \/ CopyFaults \/ ChangeTerminal \/ UNCHANGED vars
  BY <1>3 DEF ReadOn, Wait, ResetFlags, CopyFaults, ChangeTerminal, vars, shared, locals,
              BufferInv, CopyInv, NoStaleData
<1>4. CASE Return
  BY <1>4 DEF Return, shared, BufferInv, CopyInv, NoStaleData
<1>5. CASE Copy
  <2>1. BufferInv'
    BY <1>5 DEF Copy, shared, BufferInv
  <2>2. QED BY <1>5, <2>1, CopyStep
<1>6. CASE Key \/ Enter
  <2>1. PICK c \in {"key", "enter"} : AppendChar(c)
    BY <1>6 DEF Key, Enter
  <2>2. CopyInv'
    BY <1>6 DEF Key, Enter, locals, CopyInv, NoStaleData
  <2>3. QED BY <2>1, <2>2, AppendStep
<1>7. CASE Backspace
  <2>1. CopyInv'
    BY <1>7 DEF Backspace, locals, CopyInv, NoStaleData
  <2>2. QED BY <1>7, <2>1, BackspaceStep
<1>8. QED BY <1>1, <1>2, <1>3, <1>4, <1>5, <1>6, <1>7 DEF Next, Reader, Keyboard

\* No read hands over a character of an earlier line, wherever keys and backspaces fall
\* in its copy loop, even after a read that faulted.
THEOREM NoStaleDataHolds == Spec => []NoStaleData
<1>1. DataInv => NoStaleData
  BY DEF DataInv, CopyInv
<1>2. QED BY DataInit, DataStep, <1>1, PTL DEF Spec

\* The keyboard handler never moves the index out of the buffer.
THEOREM IndexInBuffer == Spec => [](index \in 0 .. BUFFER_SIZE)
<1>1. DataInv => index \in 0 .. BUFFER_SIZE
  BY DEF DataInv, BufferInv
<1>2. QED BY DataInit, DataStep, <1>1, PTL DEF Spec

LEMMA FlagInit == Init => FlagInv
BY DEF Init, FlagInv, Places

LEMMA FlagStep == FlagInv /\ [Next]_vars => FlagInv'
<1> SUFFICES ASSUME FlagInv, [Next]_vars PROVE FlagInv'
  OBVIOUS
<1> USE DEF FlagInv, Places
<1>1. ASSUME NEW n \in Requests, Call(n) PROVE FlagInv'
  BY <1>1 DEF Call, shared
<1>2. CASE ResetIndex \/ ReadOn \/ Wait \/ ResetFlags \/ Return
  <2>1. CASE ResetIndex
    BY <2>1 DEF ResetIndex
  <2>2. CASE ReadOn
    BY <2>2 DEF ReadOn
  <2>3. CASE Wait
    BY <2>3 DEF Wait, shared
  <2>4. CASE ResetFlags
    <3>1. CASE pc = "off" /\ pc' = "clear" /\ read_on' = FALSE /\ read_return' = read_return
      BY <3>1
    <3>2. CASE pc = "clear" /\ pc' = "return" /\ read_return' = FALSE /\ read_on' = read_on
      BY <3>2
    <3>3. QED BY <2>4, <3>1, <3>2 DEF ResetFlags
  <2>5. CASE Return
    BY <2>5 DEF Return, shared
  <2>6. QED BY <1>2, <2>1, <2>2, <2>3, <2>4, <2>5
<1>3. CASE Copy
  BY <1>3 DEF Copy, shared
<1>4. CASE Key \/ Backspace
  BY <1>4 DEF Key, Backspace
<1>5. CASE Enter
  BY <1>5 DEF Enter, Types
<1>6. CASE ChangeTerminal \/ UNCHANGED vars
  BY <1>6 DEF ChangeTerminal, vars, shared
<1>7. CASE CopyFaults
  BY <1>7 DEF CopyFaults, shared
<1>8. QED BY <1>1, <1>2, <1>3, <1>4, <1>5, <1>6, <1>7 DEF Next, Reader, Keyboard

\* No Enter is left over for the next read, faults of the copy included, unless they
\* leave read_on set: it is reset first, so none can come between the two resets.
THEOREM NoStaleEnterHolds == Spec => []NoStaleEnter
<1>1. FlagInv => NoStaleEnter
  BY DEF FlagInv, NoStaleEnter
<1>2. QED BY FlagInit, FlagStep, <1>1, PTL DEF Spec
-------------------------------------------------------------------------------
(* A read in which no key comes before it begins or after it has all it waits for *)

Copying == {"copy", "off", "clear", "return"}

\* The line ends with an Enter.
EntersLast == index > 0 /\ terminal_buf[index - 1] = "enter"

\* The line that the read waits for: no longer than asked for, and over after an Enter.
TypedLine ==
    /\ index <= nbytes
    /\ \A j \in 0 .. index - 1 : terminal_buf[j] \in {"key", "enter"}
    /\ read_return /\ pc = "wait" => EntersLast
    /\ pc # "wait" => index >= nbytes \/ index >= BUFFER_SIZE \/ EntersLast

\* The part of it that has been copied.
CopiedLine ==
    /\ i <= nbytes
    /\ pc \in {"off", "clear", "return"} => i = nbytes
    /\ \A j \in 1 .. i : buf[j] = IF j - 1 < index THEN terminal_buf[j - 1] ELSE "nul"

\* What the program is left with.
Outcome == ReturnsWhatItCopied /\ WholeLine

LineInv ==
    /\ Len(buf) = i
    /\ ~late /\ nbytes <= MAX_ARG_BUF =>
          /\ pc \in {"index", "on"} => ~read_on
          /\ pc \in {"index", "on", "wait"} => i = 0
          /\ pc = "on" => index = 0
          /\ pc \in {"wait"} \union Copying => TypedLine /\ CopiedLine
          /\ Outcome

ReadInv == DataInv /\ FlagInv /\ LineInv

LEMMA ReadInit == Init => ReadInv
BY DataInit, FlagInit
   DEF Init, ReadInv, LineInv, Copying, Outcome, ReturnsWhatItCopied, WholeLine, Returned

LEMMA LineCall == ASSUME ReadInv, NEW n \in Requests, Call(n) PROVE LineInv'
BY DEF ReadInv, LineInv, Call, shared, Copying, Outcome, ReturnsWhatItCopied, WholeLine, Returned

LEMMA LineBegins == ASSUME ReadInv, ResetIndex \/ ReadOn PROVE LineInv'
<1>1. CASE ResetIndex
  BY <1>1 DEF ReadInv, LineInv, ResetIndex, locals, Copying, Outcome, ReturnsWhatItCopied,
              WholeLine, Returned
<1>2. CASE ReadOn
  <2>1. /\ pc = "on" /\ UNCHANGED <<late, index, read_return, terminal_buf, nbytes, i, buf, ret>>
        /\ pc' = IF nbytes <= MAX_ARG_BUF THEN "wait" ELSE "off"
    BY <1>2 DEF ReadOn, locals
  <2>2. Len(buf') = i'
    BY <2>1 DEF ReadInv, LineInv
  <2>3. ASSUME ~late', nbytes' <= MAX_ARG_BUF
        PROVE  i' = 0 /\ pc' = "wait" /\ TypedLine' /\ CopiedLine' /\ Outcome'
    <3>1. ~late /\ nbytes <= MAX_ARG_BUF /\ index = 0 /\ i = 0 /\ ~read_return /\ pc' = "wait"
      BY <2>1, <2>3 DEF ReadInv, LineInv, FlagInv
    <3>2. TypedLine' /\ CopiedLine'
      BY <2>1, <3>1 DEF ReadInv, DataInv, CopyInv, TypedLine, CopiedLine
    <3>3. Outcome'
      BY <3>1 DEF Outcome, ReturnsWhatItCopied, WholeLine, Returned
    <3>4. QED BY <2>1, <3>1, <3>2, <3>3
  <2>4. QED BY <2>2, <2>3 DEF LineInv, Copying
<1>3. QED BY <1>1, <1>2

LEMMA LineWait == ASSUME ReadInv, Wait PROVE LineInv'
<1>1. pc = "wait" /\ pc' = "copy" /\ Complete /\ UNCHANGED <<late, shared, locals>>
  BY DEF Wait
<1>2. ASSUME ~late', nbytes' <= MAX_ARG_BUF
      PROVE  TypedLine' /\ CopiedLine' /\ Outcome'
  <2>1. ~late /\ nbytes <= MAX_ARG_BUF /\ TypedLine /\ CopiedLine
    BY <1>1, <1>2 DEF ReadInv, LineInv, shared, locals
  <2>2. TypedLine'
    BY <1>1, <2>1 DEF TypedLine, Complete, shared, locals, EntersLast
  <2>3. CopiedLine'
    BY <1>1, <2>1 DEF CopiedLine, shared, locals
  <2>4. Outcome'
    BY <1>1 DEF Outcome, ReturnsWhatItCopied, WholeLine, Returned
  <2>5. QED BY <2>2, <2>3, <2>4
<1>3. QED BY <1>1, <1>2 DEF ReadInv, LineInv, shared, locals, Copying

\* One more character, the one of its place in the buffer or NUL.
LEMMA LineCopy == ASSUME ReadInv, Copy PROVE LineInv'
<1>1. pc = "copy" /\ UNCHANGED <<late, shared, nbytes, ret>>
  BY DEF Copy, locals
<1>2. CASE i < nbytes
  <2> DEFINE c == IF i < index THEN terminal_buf[i] ELSE "nul"
  <2>1. buf' = Append(buf, c) /\ i' = i + 1 /\ pc' = "copy"
    BY <1>1, <1>2 DEF Copy
  <2>2. c \in Chars /\ buf \in Seq(Chars) /\ i \in Nat /\ nbytes \in Nat /\ Len(buf) = i
    <3>1. i < index => i \in 0 .. BUFFER_SIZE - 1
      BY BufferAssumption DEF ReadInv, DataInv, CopyInv, BufferInv
    <3>2. QED BY <3>1 DEF ReadInv, LineInv, DataInv, CopyInv, BufferInv, Chars
  <2> HIDE DEF c
  <2>3. Len(buf') = i' /\ buf'[i'] = c /\ \A j \in 1 .. i : buf'[j] = buf[j]
    BY <2>1, <2>2
  <2>4. ASSUME ~late', nbytes' <= MAX_ARG_BUF
        PROVE  TypedLine' /\ CopiedLine' /\ Outcome'
    <3>1. TypedLine /\ CopiedLine
      BY <1>1, <2>4 DEF ReadInv, LineInv, Copying
    <3>2. TypedLine'
      BY <1>1, <2>1, <3>1 DEF TypedLine, shared, EntersLast
    <3>3. ASSUME NEW j \in 1 .. i'
          PROVE  buf'[j] = IF j - 1 < index' THEN terminal_buf'[j - 1] ELSE "nul"
      <4>1. CASE j = i'
        <5>1. j - 1 = i
          BY <2>1, <2>2, <4>1
        <5>2. QED BY <1>1, <2>3, <4>1, <5>1 DEF c, shared
      <4>2. CASE j # i'
        <5>1. j \in 1 .. i
          BY <2>1, <2>2, <4>2
        <5>2. QED BY <1>1, <2>3, <3>1, <5>1 DEF CopiedLine, shared
      <4>3. QED BY <4>1, <4>2
    <3>4. CopiedLine'
      BY <1>1, <1>2, <2>1, <2>2, <3>3 DEF CopiedLine
    <3>5. Outcome'
      BY <2>1 DEF Outcome, ReturnsWhatItCopied, WholeLine, Returned
    <3>6. QED BY <3>2, <3>4, <3>5
  <2>5. QED BY <2>1, <2>3, <2>4 DEF LineInv, Copying
<1>3. CASE ~(i < nbytes)
  <2>1. pc' = "off" /\ UNCHANGED locals
    BY <1>1, <1>3 DEF Copy
  <2>2. ASSUME ~late', nbytes' <= MAX_ARG_BUF
        PROVE  TypedLine' /\ CopiedLine' /\ Outcome'
    <3>1. TypedLine /\ CopiedLine /\ nbytes \in Nat /\ i \in Nat
      BY <1>1, <2>2 DEF ReadInv, LineInv, Copying, DataInv, CopyInv
    <3>2. TypedLine'
      BY <1>1, <2>1, <3>1 DEF TypedLine, shared, EntersLast
    <3>3. CopiedLine'
      BY <1>1, <1>3, <2>1, <3>1 DEF CopiedLine, shared, locals
    <3>4. Outcome'
      BY <2>1 DEF Outcome, ReturnsWhatItCopied, WholeLine, Returned
    <3>5. QED BY <3>2, <3>3, <3>4
  <2>3. QED BY <2>1, <2>2 DEF ReadInv, LineInv, locals, Copying
<1>4. QED BY <1>2, <1>3

LEMMA LineResets == ASSUME ReadInv, ResetFlags PROVE LineInv'
<1>1. /\ pc \in {"off", "clear"} /\ pc' \in {"clear", "return"}
      /\ UNCHANGED <<late, index, terminal_buf, nbytes, i, buf, ret>>
  BY DEF ResetFlags, locals
<1>2. ASSUME ~late', nbytes' <= MAX_ARG_BUF
      PROVE  TypedLine' /\ CopiedLine' /\ Outcome'
  <2>1. TypedLine /\ CopiedLine
    BY <1>1, <1>2 DEF ReadInv, LineInv, Copying
  <2>2. TypedLine'
    BY <1>1, <2>1 DEF TypedLine, EntersLast
  <2>3. CopiedLine'
    BY <1>1, <2>1 DEF CopiedLine
  <2>4. Outcome'
    BY <1>1 DEF Outcome, ReturnsWhatItCopied, WholeLine, Returned
  <2>5. QED BY <2>2, <2>3, <2>4
<1>3. QED BY <1>1, <1>2 DEF ReadInv, LineInv, Copying

\* Nothing came since the read had all it waits for, so the index is still the length of
\* the line that was copied.
LEMMA LineReturns == ASSUME ReadInv, Return PROVE LineInv'
<1>1. /\ pc = "return" /\ pc' = "user"
      /\ UNCHANGED <<late, index, terminal_buf, nbytes, i, buf>>
      /\ ret' = IF nbytes <= MAX_ARG_BUF THEN index ELSE -1
  BY DEF Return, shared
<1>2. ASSUME ~late', nbytes' <= MAX_ARG_BUF
      PROVE  Outcome'
  <2>1. TypedLine /\ CopiedLine /\ i = nbytes /\ nbytes \in Nat /\ index \in 0 .. BUFFER_SIZE
    BY <1>1, <1>2 DEF ReadInv, LineInv, Copying, DataInv, CopyInv, BufferInv, CopiedLine
  <2>2. ret' = index /\ nbytes' = nbytes /\ buf' = buf
    BY <1>1, <1>2
  <2>3. index <= nbytes
    BY <2>1 DEF TypedLine
  <2>4. ASSUME NEW j \in 1 .. nbytes PROVE buf[j] = "nul" <=> j > index
    <3>1. CASE j > index
      <4>1. ~(j - 1 < index)
        BY <2>1, <3>1
      <4>2. QED BY <2>1, <3>1, <4>1 DEF CopiedLine
    <3>2. CASE ~(j > index)
      <4>1. j - 1 \in 0 .. index - 1 /\ j - 1 < index
        BY <2>1, <3>2
      <4>2. buf[j] \in {"key", "enter"}
        BY <2>1, <4>1 DEF CopiedLine, TypedLine
      <4>3. QED BY <3>2, <4>2
    <3>3. QED BY <3>1, <3>2
  <2>5. ReturnsWhatItCopied'
    BY <2>2, <2>3, <2>4 DEF ReturnsWhatItCopied
  <2>6. ASSUME index \in 1 .. nbytes, index < BUFFER_SIZE, index < nbytes
        PROVE  buf[index] = "enter"
    <3>1. EntersLast
      BY <1>1, <2>1, <2>6, BufferAssumption DEF TypedLine
    <3>2. index - 1 < index
      BY <2>1, BufferAssumption
    <3>3. QED BY <2>1, <2>6, <3>1, <3>2 DEF CopiedLine, EntersLast
  <2>7. WholeLine'
    BY <2>2, <2>6 DEF WholeLine
  <2>8. QED BY <2>5, <2>7 DEF Outcome
<1>3. QED BY <1>1, <1>2 DEF ReadInv, LineInv, Copying

\* A key that comes while the read waits.
LEMMA LineKey ==
    ASSUME ReadInv, Key \/ Enter \/ Backspace, ~late'
    PROVE  /\ pc = "wait" /\ ~Complete /\ ~late /\ ~read_return
           /\ index \in 0 .. BUFFER_SIZE - 1 /\ index < nbytes
           /\ UNCHANGED <<pc, read_on, locals>>
<1>1. /\ ~late /\ pc = "wait" /\ ~Complete
      /\ UNCHANGED <<pc, read_on, locals>>
  BY DEF Key, Enter, Backspace, Types
<1>2. index \in 0 .. BUFFER_SIZE /\ nbytes \in Nat
  BY DEF ReadInv, DataInv, BufferInv, CopyInv
<1>3. QED BY <1>1, <1>2, BufferAssumption DEF Complete

LEMMA LineTyped == ASSUME ReadInv, Key \/ Enter \/ Backspace PROVE LineInv'
<1>1. UNCHANGED <<i, buf, nbytes>>
  BY DEF Key, Enter, Backspace, locals
<1>2. ASSUME ~late', nbytes' <= MAX_ARG_BUF
      PROVE  pc' = "wait" /\ i' = 0 /\ TypedLine' /\ CopiedLine' /\ Outcome'
  <2>1. /\ pc = "wait" /\ pc' = "wait" /\ ~late /\ ~read_return
        /\ index \in 0 .. BUFFER_SIZE - 1 /\ index < nbytes /\ nbytes \in Nat
        /\ nbytes <= MAX_ARG_BUF
    BY <1>1, <1>2, LineKey DEF ReadInv, DataInv, CopyInv
  <2>2. TypedLine /\ i = 0 /\ terminal_buf \in [0 .. BUFFER_SIZE - 1 -> Chars]
    BY <2>1 DEF ReadInv, LineInv, DataInv, BufferInv
  <2>3. ASSUME Key \/ Enter PROVE TypedLine'
    <3>1. PICK c \in {"key", "enter"} :
              /\ terminal_buf' = [terminal_buf EXCEPT ![index] = c] /\ index' = index + 1
              /\ read_return' => c = "enter"
      BY <2>1, <2>3, BufferAssumption DEF Key, Enter, AppendChar
    <3>2. terminal_buf'[index] = c
          /\ \A j \in 0 .. index - 1 : terminal_buf'[j] = terminal_buf[j]
      BY <2>1, <2>2, <3>1
    <3>3. \A j \in 0 .. index' - 1 : j = index \/ j \in 0 .. index - 1
      BY <2>1, <3>1
    <3>4. \A j \in 0 .. index' - 1 : terminal_buf'[j] \in {"key", "enter"}
      BY <2>2, <3>2, <3>3 DEF TypedLine
    <3>5. index' <= nbytes /\ index' > 0 /\ index' - 1 = index
      BY <2>1, <3>1
    <3>6. read_return' => EntersLast'
      BY <3>1, <3>2, <3>5 DEF EntersLast
    <3>7. TypedLine'
      BY <1>1, <2>1, <3>4, <3>5, <3>6 DEF TypedLine
    <3>8. QED BY <3>7
  <2>4. ASSUME Backspace PROVE TypedLine'
    <3>1. /\ index # 0 /\ index' = index - 1 /\ read_return' = read_return
          /\ terminal_buf' = [terminal_buf EXCEPT ![index - 1] = "nul"]
      BY <2>4 DEF Backspace
    <3>2. \A j \in 0 .. index' - 1 : j \in 0 .. index - 1 /\ j # index - 1
                                     /\ j \in 0 .. BUFFER_SIZE - 1
      BY <2>1, <3>1, BufferAssumption
    <3>3. \A j \in 0 .. index' - 1 : terminal_buf'[j] \in {"key", "enter"}
      BY <2>2, <3>1, <3>2 DEF TypedLine
    <3>4. index' <= nbytes
      BY <2>1, <3>1
    <3>5. TypedLine'
      BY <1>1, <2>1, <3>1, <3>3, <3>4 DEF TypedLine
    <3>6. QED BY <3>5
  <2>5. TypedLine'
    BY <2>3, <2>4
  <2>6. CopiedLine'
    BY <1>1, <2>1, <2>2 DEF CopiedLine
  <2>7. Outcome'
    BY <2>1 DEF Outcome, ReturnsWhatItCopied, WholeLine, Returned
  <2>8. QED BY <1>1, <2>1, <2>2, <2>5, <2>6, <2>7
<1>3. QED BY <1>1, <1>2 DEF ReadInv, LineInv, Copying

\* A copy that faults leaves the caller's buffer short.
LEMMA LineFaults == ASSUME ReadInv, CopyFaults PROVE LineInv'
<1>1. /\ i < nbytes /\ pc' = "user" /\ UNCHANGED <<late, locals>>
  BY DEF CopyFaults
<1>2. Len(buf') # nbytes'
  BY <1>1 DEF ReadInv, LineInv, locals, DataInv, CopyInv
<1>3. Outcome'
  BY <1>2 DEF Outcome, ReturnsWhatItCopied, WholeLine, Returned
<1>4. QED BY <1>1, <1>3 DEF ReadInv, LineInv, locals, Copying

LEMMA LineUnseen == ASSUME ReadInv, ChangeTerminal \/ UNCHANGED vars PROVE LineInv'
BY DEF ChangeTerminal, vars, shared, locals, ReadInv, LineInv, TypedLine, CopiedLine, Copying,
       Complete, EntersLast, Outcome, ReturnsWhatItCopied, WholeLine, Returned

LEMMA ReadStep == ReadInv /\ [Next]_vars => ReadInv'
<1> SUFFICES ASSUME ReadInv, [Next]_vars PROVE ReadInv'
  OBVIOUS
<1>1. DataInv' /\ FlagInv'
  BY DataStep, FlagStep DEF ReadInv
<1>2. LineInv'
  BY LineCall, LineBegins, LineWait, LineCopy, LineResets, LineReturns, LineTyped, LineFaults,
     LineUnseen DEF Next, Reader, Keyboard
<1>3. QED BY <1>1, <1>2 DEF ReadInv

LEMMA ReadOutcome == ReadInv => Outcome
BY DEF ReadInv, LineInv, Outcome, ReturnsWhatItCopied, WholeLine, Returned

\* Of a read during which no key came after it had all it waited for, wherever keys came in
\* earlier reads and wherever those faulted: the value returned is the number of characters
\* copied, and the rest is NUL.  With a late key index moves under the copy, and it fails.
THEOREM ReturnsWhatItCopiedHolds == Spec => []ReturnsWhatItCopied
<1>1. Outcome => ReturnsWhatItCopied
  BY DEF Outcome
<1>2. QED BY ReadInit, ReadStep, ReadOutcome, <1>1, PTL DEF Spec

\* A read during which no key came late, and that ends short of what was asked for, and of
\* the buffer, ends with the Enter.
THEOREM WholeLineHolds == Spec => []WholeLine
<1>1. Outcome => WholeLine
  BY DEF Outcome
<1>2. QED BY ReadInit, ReadStep, ReadOutcome, <1>1, PTL DEF Spec
===============================================================================
