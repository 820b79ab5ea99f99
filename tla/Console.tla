-------------------------------- MODULE Console --------------------------------
(***************************************************************************)
(* Writing on the screen: putc, backspace, reset_screen and update_cursor  *)
(* (lib.c), the echo of keyboard_handler and the screen's part of          *)
(* change_terminal (keyboard.c), the pointer sys_vidmap gives away         *)
(* (system_call.c), the TLB that remap_page needs flushed.                 *)
(*                                                                         *)
(* Memory is the page on display and one buffer per terminal.  A program   *)
(* writes at USER_VIDEO, which its page directory maps to one of them; the *)
(* handler writes at VIDEO.  putc runs between cli and sti and the handler *)
(* with IF=0, so each is one step, but a string is many, and the PIT or a  *)
(* key comes between any two.  Directories are told apart by terminal:     *)
(* only the top program of a terminal runs.                                *)
(***************************************************************************)
EXTENDS Keyboard, Integers

CONSTANTS
    NUM_TERMINALS, NUM_COLS, NUM_ROWS,
    MaxMarks        \* bound on the characters put on all screens together

ASSUME ScreenAssumption ==
    /\ NUM_TERMINALS \in Nat \ {0}
    /\ NUM_COLS \in Nat /\ NUM_COLS > 1
    /\ NUM_ROWS \in Nat /\ NUM_ROWS > 1

Terminals  == 0 .. NUM_TERMINALS - 1
Screen     == -1                     \* the page VIDEO; t \in Terminals is BUF t
Unmapped   == -2
Blank      == "blank"
NewLine    == "newline"
Characters == {Blank, "mark"}
Cells      == 0 .. NUM_ROWS * NUM_COLS - 1
TerminalOf == [k \in FKeys |-> CASE k = "F1" -> 0 [] k = "F2" -> 1 [] k = "F3" -> 2]

ASSUME TerminalKeysAssumption == \A k \in FKeys : TerminalOf[k] \in Terminals

VARIABLES
    mem,                 \* the pages of text memory
    screen_x, screen_y,
    cursor,              \* the position in the registers of the CRT controller
    displayed_terminal,
    key_press,           \* 1 while the handler runs
    video_mem,           \* what putc writes through: VIDEO or USER_VIDEO
    user_video,          \* the directory of a terminal's top program -> page at USER_VIDEO
    tlb,                 \* what the CPU remembers of the current one, and never
                         \* forgets by itself, which is the worst case
    running,             \* the terminal whose top program has the CPU
    live,                \* the terminals with a program
    marks                \* characters put so far

conVars == <<mem, screen_x, screen_y, cursor, displayed_terminal, key_press, video_mem,
             user_video, tlb, running, live, marks>>
vars    == <<keyVars, conVars>>

\* The kernel has printed a line and started the first shell.
Init ==
    /\ KeyInit
    /\ mem = [p \in {Screen} \union Terminals |->
                 [c \in Cells |-> IF p = Screen /\ c < NUM_COLS THEN "mark" ELSE Blank]]
    /\ screen_x = [t \in Terminals |-> 0]
    /\ screen_y = [t \in Terminals |-> IF t = 0 THEN 1 ELSE 0]
    /\ cursor = NUM_COLS
    /\ displayed_terminal = 0
    /\ key_press = 0
    /\ video_mem = "USER_VIDEO"
    /\ user_video = [t \in Terminals |-> IF t = 0 THEN Screen ELSE Unmapped]
    /\ tlb = Unmapped
    /\ running = 0
    /\ live = {0}
    /\ marks = 0

-------------------------------------------------------------------------------
(* Pages *)

\* The page a program's access to USER_VIDEO reaches; afterwards the TLB has it.
UserPage == IF tlb # Unmapped THEN tlb ELSE user_video[running]

clear_row(text, row) ==
    [c \in Cells |-> IF c \div NUM_COLS = row THEN Blank ELSE text[c]]

\* memcpy of every row but the first one row up, and the last row cleared.
ScrollUp(text) ==
    clear_row([c \in Cells |-> IF c + NUM_COLS \in Cells THEN text[c + NUM_COLS] ELSE text[c]],
              NUM_ROWS - 1)

\* Seeded fault: row and column the other way round.
update_cursor_swapped(row, col) == cursor' = col * NUM_COLS + row

update_cursor(row, col) == cursor' = row * NUM_COLS + col

\* The body of putc on one page, for the terminal t.
PutcOn(page, t, ch) ==
    LET x == screen_x[t]
        y == screen_y[t]
        at     == NUM_COLS * y + x
        corner == x = NUM_COLS - 1 /\ y = NUM_ROWS - 1
        text   == [mem[page] EXCEPT ![at] = ch]
    IN
    /\ IF ch = NewLine
       THEN /\ mem' = IF y # NUM_ROWS - 1 THEN mem ELSE [mem EXCEPT ![page] = ScrollUp(@)]
            /\ screen_y' = [screen_y EXCEPT ![t] = IF y # NUM_ROWS - 1 THEN y + 1 ELSE y]
            /\ screen_x' = [screen_x EXCEPT ![t] = 0]
       ELSE /\ mem' = [mem EXCEPT ![page] = IF corner THEN ScrollUp(text) ELSE text]
            /\ screen_y' = [screen_y EXCEPT ![t] =
                               IF corner THEN y ELSE (y + x \div (NUM_COLS - 1)) % NUM_ROWS]
            /\ screen_x' = [screen_x EXCEPT ![t] = IF corner THEN 0 ELSE (x + 1) % NUM_COLS]
    /\ IF t = displayed_terminal THEN update_cursor(screen_y'[t], screen_x'[t])
       ELSE UNCHANGED cursor

\* putc by whatever runs: key_press tells it whose terminal and which address.
putc(pressed, ch) ==
    /\ marks' = IF ch = NewLine THEN marks ELSE marks + 1
    /\ marks' <= MaxMarks
    /\ IF pressed = 0
       THEN /\ PutcOn(IF video_mem = "VIDEO" THEN Screen ELSE UserPage, running, ch)
            /\ tlb' = IF video_mem = "VIDEO" THEN tlb ELSE UserPage
            /\ UNCHANGED video_mem
       ELSE /\ PutcOn(Screen, displayed_terminal, ch)
            /\ video_mem' = "USER_VIDEO"
            /\ UNCHANGED tlb
    /\ UNCHANGED <<displayed_terminal, user_video, running, live>>

backspace ==
    LET t == displayed_terminal
        x == screen_x[t]
        y == screen_y[t]
    IN
    /\ IF x = 0 /\ y = 0
       THEN UNCHANGED <<mem, screen_x, screen_y, cursor>>
       ELSE /\ screen_x' = [screen_x EXCEPT ![t] = IF x # 0 THEN x - 1 ELSE NUM_COLS - 1]
            /\ screen_y' = [screen_y EXCEPT ![t] = IF x # 0 THEN y ELSE y - 1]
            /\ mem' = [mem EXCEPT ![Screen][NUM_COLS * screen_y'[t] + screen_x'[t]] = Blank]
            /\ update_cursor(screen_y'[t], screen_x'[t])
    /\ video_mem' = "USER_VIDEO"
    /\ UNCHANGED <<displayed_terminal, user_video, tlb, running, live, marks>>

reset_screen ==
    /\ mem' = [mem EXCEPT ![Screen] = [c \in Cells |-> Blank]]
    /\ screen_x' = [screen_x EXCEPT ![displayed_terminal] = 0]
    /\ screen_y' = [screen_y EXCEPT ![displayed_terminal] = 0]
    /\ update_cursor(screen_x'[displayed_terminal], screen_y'[displayed_terminal])
    /\ UNCHANGED <<displayed_terminal, video_mem, user_video, tlb, running, live, marks>>

-------------------------------------------------------------------------------
(* change_terminal *)

\* remap_user_video_and_memcpy, for the old terminal and then for the new one;
\* the new one's directory is NULL if it has no program.
Remapped(new) ==
    [t \in Terminals |-> IF t = displayed_terminal THEN t
                         ELSE IF t = new /\ t \in live THEN Screen ELSE user_video[t]]

\* Seeded fault: the new terminal is shown before the old one is saved.
CopiedLate(new) ==
    LET shown == [mem EXCEPT ![Screen] = mem[new]]
    IN  [shown EXCEPT ![displayed_terminal] = shown[Screen]]

Copied(new) ==
    LET saved == [mem EXCEPT ![displayed_terminal] = mem[Screen]]
    IN  [saved EXCEPT ![Screen] = saved[new]]

\* A terminal with no program gets a shell, which runs at once on a directory and
\* a CR3 of its own; keyboard_handler is not returned to before its program
\* is scheduled again, so change_terminal clears key_press itself.
change_terminal(new) ==
    /\ new # displayed_terminal
    /\ mem' = Copied(new)
    /\ displayed_terminal' = new
    /\ tlb' = Unmapped
    /\ IF new \in live
       THEN /\ user_video' = Remapped(new)
            /\ update_cursor(screen_y[new], screen_x[new])
            /\ UNCHANGED <<live, running>>
       ELSE /\ user_video' = [Remapped(new) EXCEPT ![new] = Screen]
            /\ live' = live \union {new}
            /\ running' = new
            /\ UNCHANGED cursor
    /\ key_press' = 0
    /\ UNCHANGED <<screen_x, screen_y, video_mem, marks>>

-------------------------------------------------------------------------------
(* Steps *)

Idle == UNCHANGED <<mem, screen_x, screen_y, cursor, displayed_terminal, video_mem,
                    user_video, tlb, running, live, marks>>

\* What keyboard_handler does on screen.  Backspace may be refused by the line being
\* read (module TerminalRead), and a function key if no more programs may start
\* (module Kernel), with a message.
Echo(todo) ==
    \/ todo.op = "modifier" /\ Idle
    \/ todo.op = "clear" /\ reset_screen
    \/ todo.op = "erase" /\ (backspace \/ Idle)
    \/ todo.op \in FKeys /\ TerminalOf[todo.op] = displayed_terminal /\ Idle
    \/ todo.op \in FKeys /\ TerminalOf[todo.op] \notin live /\ putc(1, "mark")
    \/ todo.op = "put" /\ putc(1, "mark")
    \/ todo.op = "newline" /\ putc(1, NewLine)
    \/ todo.op = "beyond" /\ \E ch \in Characters \union {NewLine} : putc(1, ch)

KeyPressed(k) ==
    /\ Make(k)
    /\ \/ Echo(Meaning(k)) /\ key_press' = 0
       \/ Meaning(k).op \in FKeys /\ change_terminal(TerminalOf[Meaning(k).op])

KeyReleased(k) ==
    /\ Break(k)
    /\ key_press' = 0
    /\ Idle

\* The running program prints.
ProgramPuts ==
    /\ \E ch \in {"mark", NewLine} : putc(key_press, ch)
    /\ UNCHANGED <<keyVars, key_press>>

\* A program draws through the address it has from sys_vidmap.
ProgramDraws ==
    /\ marks < MaxMarks
    /\ \E c \in Cells : mem' = [mem EXCEPT ![UserPage][c] = "mark"]
    /\ tlb' = UserPage
    /\ marks' = marks + 1
    /\ UNCHANGED <<keyVars, screen_x, screen_y, cursor, displayed_terminal, key_press,
                   video_mem, user_video, running, live>>

\* The PIT gives the CPU to another terminal: CR3 is loaded.
PitSwitch ==
    /\ \E t \in live \ {running} : running' = t
    /\ tlb' = Unmapped
    /\ UNCHANGED <<keyVars, mem, screen_x, screen_y, cursor, displayed_terminal, key_press,
                   video_mem, user_video, live, marks>>

Next ==
    \/ \E k \in Keys : KeyPressed(k)
    \/ \E k \in Modifiers : KeyReleased(k)
    \/ ProgramPuts \/ ProgramDraws
    \/ PitSwitch

Spec == Init /\ [][Next]_vars

-------------------------------------------------------------------------------
\* Each terminal's screen is the page on display or its buffer, and each program
\* sees only the keys and the output of its terminal there: putc, backspace,
\* CTRL-L and change_terminal together implement Screens.
ScreensOf == INSTANCE Screens WITH
    screen    <- [t \in Terminals |-> mem[IF t = displayed_terminal THEN Screen ELSE t]],
    position  <- [t \in Terminals |-> screen_y[t] * NUM_COLS + screen_x[t]],
    displayed <- displayed_terminal
ImplementsScreens == ScreensOf!Spec

\* The blinking cursor stands where the next character of the terminal on display
\* goes, unless nothing was ever written there: a launched shell does not move it.
CursorFollows ==
    LET x == screen_x[displayed_terminal]
        y == screen_y[displayed_terminal]
    IN  cursor = y * NUM_COLS + x \/ (x = 0 /\ y = 0)
===============================================================================
