-------------------------------- MODULE Screens --------------------------------
(***************************************************************************)
(* What a user sees of several terminals on one monitor: every terminal    *)
(* has a screen of its own and a place in it where the next character      *)
(* goes.  A program writes on the screen of its own terminal whether it is *)
(* on display or not, keys go to the terminal on display, and changing the *)
(* display changes no screen.                                              *)
(***************************************************************************)
EXTENDS Naturals

CONSTANTS Terminals, NUM_COLS, NUM_ROWS, Characters, Blank, NewLine

Size  == NUM_COLS * NUM_ROWS
Cells == 0 .. Size - 1

VARIABLES
    screen,     \* the characters of each terminal, row after row
    position,   \* where its next character goes
    displayed

vars == <<screen, position, displayed>>

Init ==
    /\ screen \in [Terminals -> [Cells -> Characters]]
    /\ position \in [Terminals -> Cells]
    /\ displayed \in Terminals

\* Go to place p of terminal t; below the last row everything moves up one row.
GoTo(t, p, text) ==
    /\ screen' = [screen EXCEPT ![t] =
                     IF p < Size THEN text
                     ELSE [c \in Cells |-> IF c + NUM_COLS < Size THEN text[c + NUM_COLS]
                                           ELSE Blank]]
    /\ position' = [position EXCEPT ![t] = IF p < Size THEN p ELSE Size - NUM_COLS]
    /\ UNCHANGED displayed

Put(t, ch) ==
    IF ch = NewLine THEN GoTo(t, (position[t] \div NUM_COLS + 1) * NUM_COLS, screen[t])
    ELSE GoTo(t, position[t] + 1, [screen[t] EXCEPT ![position[t]] = ch])

\* A program draws anywhere in its terminal, past the place of the next character.
Draw(t, c, ch) ==
    /\ screen' = [screen EXCEPT ![t][c] = ch]
    /\ UNCHANGED <<position, displayed>>

Erase ==
    /\ position[displayed] > 0
    /\ position' = [position EXCEPT ![displayed] = @ - 1]
    /\ screen' = [screen EXCEPT ![displayed][position'[displayed]] = Blank]
    /\ UNCHANGED displayed

Clear ==
    /\ screen' = [screen EXCEPT ![displayed] = [c \in Cells |-> Blank]]
    /\ position' = [position EXCEPT ![displayed] = 0]
    /\ UNCHANGED displayed

Display(t) ==
    /\ displayed' = t
    /\ UNCHANGED <<screen, position>>

Next ==
    \/ \E t \in Terminals : Display(t)
    \/ Erase \/ Clear
    \/ \E t \in Terminals, ch \in Characters \union {NewLine} : Put(t, ch)
    \/ \E t \in Terminals, c \in Cells, ch \in Characters : Draw(t, c, ch)

Spec == Init /\ [][Next]_vars
===============================================================================
