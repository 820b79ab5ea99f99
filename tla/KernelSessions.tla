---------------------------- MODULE KernelSessions ----------------------------
(***************************************************************************)
(* The process core implements Sessions.  A terminal's stack is read off   *)
(* the PCBs: the parents of its innermost program, num_progs of them, as   *)
(* the steps of halt leave them (Depth and TrueTop of KernelInv).  A       *)
(* program ends for its user when its PCB is destroyed.                    *)
(***************************************************************************)
EXTENDS KernelInv, Sequences

\* The k-th process under top, following the pointers to the parents.
Under(parent, top, k) ==
    LET up[i \in 0 .. k] == IF i = 0 THEN top ELSE parent[up[i - 1]]
    IN  up[k]

StackOf(t) == [i \in 1 .. Depth(t) |-> Under(parent_pcb, TrueTop(t), Depth(t) - i)]

Stacks == [t \in Terminals |-> StackOf(t)]

\* A halt past its destroy has no PCB to tell its terminal.
RunningTerminal ==
    IF cur \notin Contexts THEN Wild
    ELSE IF place[cur] \in GhostSteps THEN halt_terminal[cur]
    ELSE terminal_num[cur]

S == INSTANCE Sessions WITH
        Programs  <- Slots,
        stack     <- Stacks,
        displayed <- displayed_terminal,
        running   <- RunningTerminal

\* Slots, stacks and page directories realise the stacks of programs the user
\* sees: every statement of execute, halt, change_terminal and the PIT handler
\* is one move of Sessions or none, and the moves it owes do come.
ImplementsSessions == S!Spec
===============================================================================
