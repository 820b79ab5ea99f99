------------------------------- MODULE Sessions -------------------------------
(***************************************************************************)
(* What the kernel promises the user of its terminals, free of slots being *)
(* recycled, stacks, page directories and steps of halt: every terminal    *)
(* has a stack of programs, a shell at the bottom; only the innermost      *)
(* program of a terminal runs; a program started goes on top of the one    *)
(* that started it, and when it ends that one goes on.  The terminal on    *)
(* display is never without a program for long: while it is, nothing but   *)
(* starting its shell happens.                                             *)
(***************************************************************************)
EXTENDS Naturals, Sequences

CONSTANTS Programs,     \* what may be running: the process slots
          Terminals

VARIABLES
    stack,              \* the programs of each terminal, the shell first
    displayed,
    running             \* the terminal whose innermost program has the CPU

vars == <<stack, displayed, running>>

Init ==
    /\ stack = [t \in Terminals |-> << >>]
    /\ displayed = 0
    /\ running = 0

Started == {p \in Programs : \E t \in Terminals : \E i \in 1 .. Len(stack[t]) : stack[t][i] = p}

Ready == stack[displayed] # << >>

\* A program on the terminal on display starts another one and waits for it.
Start(p) ==
    /\ Ready /\ running = displayed
    /\ p \notin Started
    /\ stack' = [stack EXCEPT ![running] = Append(@, p)]
    /\ UNCHANGED <<displayed, running>>

\* The empty terminal on display gets its shell.
Launch(p) ==
    /\ ~Ready
    /\ p \notin Started
    /\ stack' = [stack EXCEPT ![displayed] = <<p>>]
    /\ running' = displayed
    /\ UNCHANGED displayed

\* The running program ends; the last of a terminal only ends on display.
End ==
    /\ Ready
    /\ stack[running] # << >>
    /\ Len(stack[running]) = 1 => running = displayed
    /\ stack' = [stack EXCEPT ![running] = SubSeq(@, 1, Len(@) - 1)]
    /\ UNCHANGED <<displayed, running>>

\* The CPU goes to another terminal.
Switch(t) ==
    /\ Ready
    /\ t # running /\ stack[t] # << >>
    /\ running' = t
    /\ UNCHANGED <<stack, displayed>>

\* The user looks at another terminal, one that has a program or can get one.
Display(t) ==
    /\ Ready
    /\ t # displayed
    /\ stack[t] # << >> \/ Started # Programs
    /\ displayed' = t
    /\ UNCHANGED <<stack, running>>

Next ==
    \/ \E p \in Programs : Start(p) \/ Launch(p)
    \/ End
    \/ \E t \in Terminals : Switch(t) \/ Display(t)

\* An empty terminal on display gets a shell, and every terminal with a program
\* gets the CPU again and again.
Fairness ==
    /\ WF_vars(\E p \in Programs : Launch(p))
    /\ \A t \in Terminals : SF_vars(Switch(t))

Spec == Init /\ [][Next]_vars /\ Fairness
===============================================================================
