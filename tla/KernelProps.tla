------------------------------ MODULE KernelProps ------------------------------
(***************************************************************************)
(* What the process and terminal core promises: the type invariant, the    *)
(* safety invariants, the action property and the liveness properties of   *)
(* module Kernel.                                                          *)
(***************************************************************************)
EXTENDS Kernel

\* Every variable has its C type; counts may be negative.
TypeOK ==
    /\ global_pcb_ptrs \subseteq Slots
    /\ parent_pcb \in [Contexts -> Contexts \union {Null}]
    /\ terminal_num \in [Contexts -> Terminals]
    /\ pg_dir \in [Contexts -> Contexts \union {Null}]
    /\ esp \in [Contexts -> {"none", "irq", "exec"}]
    /\ esp0 \in [Contexts -> Contexts \union {Null}]
    /\ top_process \in [Terminals -> Contexts \union {Null}]
    /\ num_progs \in [Terminals -> Int]
    /\ displayed_terminal \in Terminals
    /\ tss_esp0 \in Contexts \union {Null}
    /\ cr3 \in Contexts
    /\ user_video \in [Slots -> Terminals \union {Screen, Unmapped}]
    /\ is_exception \in BOOLEAN
    /\ cur \in Contexts \union {Wild}
    /\ place \in [Contexts -> Places]
    /\ launching \in BOOLEAN
    /\ halt_parent \in [Contexts -> Contexts \union {Null}]
    /\ halt_terminal \in [Contexts -> Terminals]

\* Interrupts that halt survives: those before it starts to hand over.
SafeWindows == {"halt", "test", "last_cr3", "remap"}

-------------------------------------------------------------------------------
(* Between system calls of the core *)

\* No halt is under way on the CPU.
Settled == cur \in Contexts /\ place[cur] \notin HaltSteps

Members(t) == {s \in global_pcb_ptrs : terminal_num[s] = t}
Live(t)    == num_progs[t] > 0

\* The CPU never loads a directory without the kernel in it and never returns
\* into a stack frame whose function has gone: halt's order of CR3, directory,
\* top_process and PCB, and what execute, change_terminal and the PIT save.
NoCrash == cur # Wild

\* Program code runs on its own page directory, traps to its own kernel stack
\* and is the top process of its terminal, whoever switched to it last.
OwnContext ==
    Settled /\ ~launching /\ place[cur] = "run" =>
        /\ cur \in global_pcb_ptrs
        /\ tss_esp0 = cur
        /\ cr3 = cur
        /\ top_process[terminal_num[cur]] = cur

\* Whatever the PIT may switch to is where it was interrupted, with its own
\* stack and directory to go back to.
TopsResumable ==
    Settled => \A t \in Terminals :
        LET top == top_process[t] IN
        Live(t) /\ top # cur =>
            /\ top \in global_pcb_ptrs
            /\ place[top] \in {"run"} \union Windows
            /\ esp[top] = "irq"
            /\ esp0[top] = top
            /\ pg_dir[top] = top

\* num_progs, counted up by execute and down by halt, agrees with the PCBs.
CountsAgree ==
    Settled => \A t \in Terminals : num_progs[t] = Cardinality(Members(t))

\* The top process of each terminal draws on the screen if that terminal is
\* displayed and in the terminal's own buffer otherwise.
VideoFollowsDisplay ==
    Settled => \A t \in Terminals :
        Live(t) => user_video[top_process[t]] = IF t = displayed_terminal THEN Screen ELSE t

\* A slot that get_new_pcb_ptr may hand out has an empty page directory, so
\* map_page cannot refuse the new process its pages.
FreeSlotsClean ==
    \A s \in FreeSlots : user_video[s] = Unmapped /\ pg_dir[s] = Null

\* halt's "Shell failed to execute" is out of reach: the dead shell's own slot
\* is free and clean when it asks for a new one.
RelaunchPossible ==
    At("relaunch") => \E s \in Slots : FirstFree(s) /\ user_video[s] = Unmapped

\* Someone can always type into the terminal on display.
DisplayedLive ==
    Settled /\ ~launching /\ place[cur] # "boot" => Live(displayed_terminal)

\* halt is told of an exception exactly when its caller had one, so the parent
\* reads status 256 for a squashed program and for no other.
ExceptionFlag ==
    cur \in Contexts =>
        /\ place[cur] = "fault" => is_exception
        /\ place[cur] = "halt" => ~is_exception

\* execute returns to its caller only from the halt of the program it started.
ExecuteReturnsFromHalt ==
    [][\A p \in Slots :
          place[p] = "exec" /\ place'[p] # "exec" =>
              /\ cur \in Slots
              /\ place[cur] = "return"
              /\ halt_parent[cur] = p]_vars

-------------------------------------------------------------------------------
(* Liveness *)

OnCpu(t) == Settled /\ place[cur] = "run" /\ terminal_num[cur] = t

\* From its first shell on, a terminal gets the CPU again and again, through
\* exits of its last shell, switches of the display and its neighbours' load.
TerminalsServed ==
    \A t \in Terminals : [](Live(t) => []<>OnCpu(t))

\* A process that calls halt is torn down and the CPU goes to another frame.
HaltCompletes ==
    \A s \in Slots : cur = s /\ place[s] \in {"halt", "fault"} ~> place[s] \notin HaltSteps
===============================================================================
