------------------------------- MODULE KernelInv -------------------------------
(***************************************************************************)
(* The inductive invariant behind the safety properties of the process     *)
(* core, for environments that open no window outside SafeWindows.  The    *)
(* properties of KernelProps speak of the states between halts; halt takes *)
(* the terminal apart one statement at a time, so the invariant says what  *)
(* is already undone at each of its steps.                                 *)
(***************************************************************************)
EXTENDS KernelProps

\* Steps at which halt already works on its parent.
HandOver == {"tss", "cr3", "cleanup", "top", "count", "destroy", "return"}
\* Steps at which the process is still allocated but its directory is empty.
WipedSteps == {"top", "count", "destroy", "last_destroy"}
\* Steps of a halt whose PCB is destroyed.
GhostSteps == {"return", "last_count", "relaunch"}
LastSteps  == {"last_cr3", "last_cleanup", "last_destroy"}

\* The programs of terminal t that have a PCB.  num_progs is one behind between
\* the count and the destroy of halt.
Depth(t) ==
    IF cur \in Slots /\ halt_terminal[cur] = t /\ place[cur] = "destroy" THEN num_progs[t] + 1
    ELSE IF cur \in Slots /\ halt_terminal[cur] = t /\ place[cur] = "last_count"
    THEN num_progs[t] - 1
    ELSE num_progs[t]

\* The innermost program of terminal t that has a PCB.
TrueTop(t) ==
    IF cur \in Slots /\ halt_terminal[cur] = t /\ place[cur] \in {"count", "destroy"} THEN cur
    ELSE top_process[t]

\* What the user page of a terminal's top process should map.
Wanted(t) == IF t = displayed_terminal THEN Screen ELSE t

\* Before the first shell there is nothing but the boot stack; after it the CPU
\* never comes back there.
BootInv ==
    /\ cur \in Contexts
    /\ cur = Boot => /\ global_pcb_ptrs = {}
                     /\ \A t \in Terminals : num_progs[t] = 0
                     /\ place[Boot] = "boot"
                     /\ ~launching

\* Only allocated contexts are anywhere, except a halt that has just freed itself;
\* and off the CPU a context is blocked in execute or at an interruptible place.
PlaceInv ==
    /\ place[Boot] \in {"boot", "exec"}
    /\ \A s \in Slots :
        /\ place[s] # "boot"
        /\ s \in global_pcb_ptrs => place[s] \notin {"none"} \union GhostSteps
        /\ s \notin global_pcb_ptrs => place[s] = "none" \/ (s = cur /\ place[s] \in GhostSteps)
        /\ s = cur => place[s] \notin {"none", "exec"}
        /\ s # cur => place[s] \in {"none", "exec", "run"} \union Windows
        /\ place[s] = "none" => s \notin global_pcb_ptrs

\* halt's locals agree with the PCB as long as it has one.
LocalsInv ==
    \A s \in global_pcb_ptrs :
        place[s] \in HaltSteps \ {"halt", "fault"} =>
            halt_parent[s] = parent_pcb[s] /\ halt_terminal[s] = terminal_num[s]

\* The programs of a terminal are numbered 1, 2, ... up the chain of parents.
IsChain(level) ==
    /\ \A s \in global_pcb_ptrs : 1 <= level[s] /\ level[s] <= Depth(terminal_num[s])
    /\ \A r, s \in global_pcb_ptrs :
          terminal_num[r] = terminal_num[s] /\ level[r] = level[s] => r = s
    /\ \A s \in global_pcb_ptrs : level[s] > 1 =>
          /\ parent_pcb[s] \in global_pcb_ptrs
          /\ terminal_num[parent_pcb[s]] = terminal_num[s]
          /\ level[parent_pcb[s]] = level[s] - 1
    /\ \A t \in Terminals : Depth(t) > 0 =>
          /\ TrueTop(t) \in global_pcb_ptrs
          /\ terminal_num[TrueTop(t)] = t
          /\ level[TrueTop(t)] = Depth(t)
    /\ \A s \in global_pcb_ptrs : place[s] \in {"remap"} \union HandOver => level[s] > 1

ChainInv ==
    /\ \A t \in Terminals : Depth(t) \in Nat
    /\ \E level \in [Slots -> 0 .. MAX_NUM_PROCESS] : IsChain(level)

\* Past its own destroy, halt returns to the new top of its terminal.
ReturnInv ==
    cur \in Slots /\ place[cur] \in {"count", "destroy", "return"} =>
        /\ top_process[halt_terminal[cur]] = halt_parent[cur]
        /\ place[cur] = "return" => /\ Depth(halt_terminal[cur]) > 0
                                    /\ place[halt_parent[cur]] = "exec"

\* Below the top everyone is blocked in execute with its frame saved; off the CPU
\* a top process has the frame an interrupt left.
StackInv ==
    \A s \in global_pcb_ptrs :
        /\ s # TrueTop(terminal_num[s]) => place[s] = "exec"
        /\ place[s] = "exec" => esp[s] = "exec" /\ esp0[s] = s
        /\ place[s] = "exec" /\ s = TrueTop(terminal_num[s]) =>
               place[cur] = "return" /\ halt_parent[cur] = s
        /\ place[s] # "exec" /\ s # cur => esp[s] = "irq" /\ esp0[s] = s

\* The kernel stack and the directory the CPU has, and when halt changes them.
RegsInv ==
    cur \in Slots =>
        /\ tss_esp0 = IF place[cur] \in HandOver \ {"tss"} THEN halt_parent[cur] ELSE cur
        /\ cr3 = IF place[cur] \in HandOver \ {"tss", "cr3"} THEN halt_parent[cur]
                 ELSE IF place[cur] \in {"last_cleanup", "last_destroy", "last_count", "relaunch"}
                 THEN Boot ELSE cur

DirInv ==
    \A s \in global_pcb_ptrs :
        pg_dir[s] = s /\ (place[s] \notin WipedSteps => user_video[s] # Unmapped)

VideoInv ==
    /\ \A s \in global_pcb_ptrs :
          s = TrueTop(terminal_num[s]) /\ place[s] \notin WipedSteps =>
              user_video[s] = Wanted(terminal_num[s])
    /\ cur \in Slots /\ place[cur] \in HandOver =>
          user_video[halt_parent[cur]] = Wanted(halt_terminal[cur])

\* A last shell ends on the displayed terminal and is replaced there.
LastInv ==
    /\ \A s \in global_pcb_ptrs :
          /\ place[s] \in LastSteps => num_progs[terminal_num[s]] = 1
          /\ place[s] \in {"halt", "fault", "test"} \union LastSteps
                /\ num_progs[terminal_num[s]] = 1 => terminal_num[s] = displayed_terminal
    /\ cur \in Slots /\ place[cur] \in {"last_count", "relaunch"} =>
          halt_terminal[cur] = displayed_terminal
    /\ cur \in Slots /\ place[cur] = "last_count" => num_progs[halt_terminal[cur]] = 1
    /\ cur \in Slots /\ place[cur] = "relaunch" => num_progs[halt_terminal[cur]] = 0

\* change_terminal about to start a shell has saved the frame it interrupted.
LaunchInv ==
    launching =>
        /\ cur \in global_pcb_ptrs
        /\ num_progs[displayed_terminal] = 0
        /\ FreeSlots # {}
        /\ esp[cur] = "irq"
        /\ esp0[cur] = cur
        /\ place[cur] \in {"run"} \union Windows

\* The displayed terminal has a program, or is about to get one, and a terminal that
\* has none has no top process, unless its last shell is being replaced.
DisplayInv ==
    /\ cur \in Slots /\ ~launching /\ place[cur] \notin {"last_count", "relaunch"} =>
          Depth(displayed_terminal) > 0
    /\ \A t \in Terminals : Depth(t) = 0 =>
          \/ top_process[t] = Null
          \/ cur \in Slots /\ place[cur] \in {"last_count", "relaunch"} /\ halt_terminal[cur] = t

\* The counts are the numbers of PCBs.
CountInv == \A t \in Terminals : Depth(t) = Cardinality(Members(t))

\* The inductive invariant: each part holds in every state of the core.
IInv ==
    /\ BootInv /\ PlaceInv /\ LocalsInv /\ ChainInv /\ ReturnInv /\ StackInv
    /\ RegsInv /\ DirInv /\ VideoInv /\ LastInv /\ LaunchInv
    /\ DisplayInv /\ CountInv
===============================================================================
