-------------------------------- MODULE Kernel --------------------------------
(***************************************************************************)
(* Processes, terminals and the CPU: pcb.c, do_execute (syscall_exec.c),   *)
(* halt (system_call.c), the PIT scheduler (scheduler.c), change_terminal  *)
(* (keyboard.c) and the user video page of each page directory (paging.c). *)
(*                                                                         *)
(* One CPU.  `cur' is the context whose kernel stack ESP is on, which is   *)
(* what get_pcb_ptr() computes.  A context is a PCB slot, or the boot      *)
(* stack above them.  Execute, change_terminal and the PIT handler run     *)
(* with IF=0 and are single steps; halt runs behind a trap gate with IF=1  *)
(* and takes one step per statement that another handler could come        *)
(* between.                                                                *)
(*                                                                         *)
(* The kernel has places where an interrupt or a request arriving at the   *)
(* wrong moment breaks it.  Windows names the ones the environment of a    *)
(* run may hit: a step of halt, "boot" for the boot code before the first  *)
(* shell (an interrupt is taken there), and "background" (a program calls  *)
(* execute, or the last shell of a terminal ends, while that terminal is   *)
(* not displayed).                                                         *)
(* Interrupts in programs and in the other system calls are always taken.  *)
(***************************************************************************)
EXTENDS Naturals, Integers, FiniteSets

CONSTANTS
    MAX_NUM_PROCESS,  \* slots of global_pcb_ptrs
    NUM_TERMINALS,    \* virtual terminals
    Windows           \* timing windows open to the environment

ASSUME ProcessAssumption == MAX_NUM_PROCESS \in Nat \ {0}
ASSUME TerminalAssumption == NUM_TERMINALS \in Nat \ {0}
Slots     == 0 .. MAX_NUM_PROCESS - 1
Terminals == 0 .. NUM_TERMINALS - 1
Boot      == MAX_NUM_PROCESS      \* the boot stack and its PCB, get_global_pcb()
Contexts  == Slots \union {Boot}
Null      == -1
Wild      == -2                   \* the kernel faulted or jumped through a dead frame

\* What the page USER_VIDEO of a directory maps; t \in Terminals is BUF t.
Screen    == -1                   \* VIDEO, the memory on display
Unmapped  == -2                   \* the whole directory is empty

\* Where a context stands.  "run" is its program or any other system call.
HaltSteps == {"halt", "fault", "test", "last_cr3", "last_cleanup", "last_destroy",
              "last_count", "relaunch", "remap", "tss", "cr3", "cleanup", "top",
              "count", "destroy", "return"}
Places    == {"none", "boot", "run", "exec"} \union HaltSteps

ASSUME WindowAssumption == Windows \subseteq HaltSteps \union {"boot", "background"}

VARIABLES
    global_pcb_ptrs,     \* the slots whose pointer is not NULL
    parent_pcb,          \* fields of each PCB, as functions of the context
    terminal_num,
    pg_dir,
    esp,                 \* the kind of stack frame that pcb.esp and pcb.ebp save
    esp0,                \* the stack that pcb.esp0 saves
    top_process,
    num_progs,
    displayed_terminal,
    tss_esp0,            \* the stack the CPU takes on the next trap from user mode
    cr3,
    user_video,          \* page directory of a slot -> what USER_VIDEO maps there
    is_exception,
    cur,
    place,
    launching,           \* change_terminal is about to execute a shell, IF=0
    halt_parent,         \* halt's locals parent_pcb_ptr and current_terminal
    halt_terminal

pcbVars  == <<parent_pcb, terminal_num, pg_dir, esp, esp0>>
termVars == <<top_process, num_progs>>
hwVars   == <<tss_esp0, cr3>>
haltVars == <<halt_parent, halt_terminal>>
vars     == <<global_pcb_ptrs, pcbVars, termVars, displayed_terminal, hwVars, user_video,
              is_exception, cur, place, launching, haltVars>>

Init ==
    /\ global_pcb_ptrs = {}
    /\ parent_pcb = [c \in Contexts |-> Null]
    /\ terminal_num = [c \in Contexts |-> 0]
    /\ pg_dir = [c \in Contexts |-> Null]
    /\ esp = [c \in Contexts |-> "none"]
    /\ esp0 = [c \in Contexts |-> Null]
    /\ top_process = [t \in Terminals |-> Null]
    /\ num_progs = [t \in Terminals |-> 0]
    /\ displayed_terminal = 0
    /\ tss_esp0 = Boot
    /\ cr3 = Boot
    /\ user_video = [s \in Slots |-> Unmapped]
    /\ is_exception = FALSE
    /\ cur = Boot
    /\ place = [c \in Contexts |-> IF c = Boot THEN "boot" ELSE "none"]
    /\ launching = FALSE
    /\ halt_parent = [c \in Contexts |-> Null]
    /\ halt_terminal = [c \in Contexts |-> 0]

-------------------------------------------------------------------------------
(* Helpers of the C code *)

FreeSlots == Slots \ global_pcb_ptrs

\* get_new_pcb_ptr returns the first empty slot.
FirstFree(s) == s \in FreeSlots /\ \A r \in FreeSlots : s <= r

\* A directory the CPU can run the kernel on: not NULL and not wiped.
Usable(dir) == dir = Boot \/ (dir \in Slots /\ user_video[dir] # Unmapped)

\* Seeded fault: the PCB is filled with ones instead of zeros.
ClearPcbOnes(c) ==
    /\ parent_pcb' = [parent_pcb EXCEPT ![c] = Null]
    /\ terminal_num' = [terminal_num EXCEPT ![c] = -1]
    /\ pg_dir' = [pg_dir EXCEPT ![c] = Null]
    /\ UNCHANGED <<esp, esp0>>

\* The PCB of c, all zero: what destroy_pcb_ptr leaves.
ClearPcb(c) ==
    /\ parent_pcb' = [parent_pcb EXCEPT ![c] = Null]
    /\ terminal_num' = [terminal_num EXCEPT ![c] = 0]
    /\ pg_dir' = [pg_dir EXCEPT ![c] = Null]
    /\ esp' = [esp EXCEPT ![c] = "none"]
    /\ esp0' = [esp0 EXCEPT ![c] = Null]

\* Seeded fault: the page is left as it was.
RemapNothing(pages, dir, page) == pages

\* remap_page(USER_VIDEO, page, dir) as a function of the pages so far: -1, and
\* no change, for NULL, the kernel's own directory or a wiped one.
RemapUserVideo(pages, dir, page) ==
    IF dir \in Slots /\ pages[dir] # Unmapped THEN [pages EXCEPT ![dir] = page] ELSE pages

\* An interrupt can reach the current context here.
Interruptible ==
    /\ cur \in Contexts
    /\ ~launching
    /\ place[cur] \in {"run"} \union Windows

-------------------------------------------------------------------------------
(* execute *)

\* The frame of the caller is saved only if the displayed terminal has programs.
Saves == num_progs[displayed_terminal] # 0
SavedEsp  == IF Saves THEN [esp EXCEPT ![cur] = "exec"] ELSE esp
SavedEsp0 == IF Saves THEN [esp0 EXCEPT ![cur] = tss_esp0] ELSE esp0

\* do_execute on the stack of the current context, up to the iret.
DoExecute(new) ==
    /\ FirstFree(new)
    /\ user_video[new] = Unmapped
    /\ global_pcb_ptrs' = global_pcb_ptrs \union {new}
    /\ parent_pcb' = [parent_pcb EXCEPT ![new] = cur]
    /\ terminal_num' = [terminal_num EXCEPT ![new] = displayed_terminal]
    /\ esp' = SavedEsp
    /\ esp0' = SavedEsp0
    /\ pg_dir' = [c \in Contexts |-> IF c = new \/ (c = Boot /\ cur = Boot) THEN c
                                     ELSE pg_dir[c]]
    /\ user_video' = [user_video EXCEPT ![new] = Screen]
    /\ tss_esp0' = new
    /\ cr3' = new
    /\ top_process' = [top_process EXCEPT ![displayed_terminal] = new]
    /\ num_progs' = [num_progs EXCEPT ![displayed_terminal] = @ + 1]
    /\ cur' = new
    /\ UNCHANGED <<displayed_terminal, is_exception>>

\* do_execute returning -1: no slot is free, the command is no executable
\* (~found), or the new directory maps one of the pages already.
DoExecuteFails(outcomes) ==
    /\ \/ /\ FreeSlots = {}
          /\ UNCHANGED <<pcbVars, user_video>>
       \/ \E found \in outcomes, new \in Slots :
            /\ FirstFree(new)
            /\ found => user_video[new] # Unmapped
            /\ parent_pcb' = [parent_pcb EXCEPT ![new] = Null]
            /\ terminal_num' = [terminal_num EXCEPT ![new] = 0]
            /\ pg_dir' = [pg_dir EXCEPT ![new] = Null]
            /\ esp' = [SavedEsp EXCEPT ![new] = "none"]
            /\ esp0' = [SavedEsp0 EXCEPT ![new] = Null]
            /\ user_video' = IF found THEN [user_video EXCEPT ![new] = Unmapped]
                             ELSE user_video
    /\ UNCHANGED <<global_pcb_ptrs, termVars, displayed_terminal, hwVars, is_exception, cur>>

-------------------------------------------------------------------------------
(* Steps of the current context *)

At(p)   == cur \in Contexts /\ ~launching /\ place[cur] = p
Goto(p) == place' = [place EXCEPT ![cur] = p]

\* A fault of the kernel itself: nothing after it is modelled.
Crash ==
    /\ cur' = Wild
    /\ UNCHANGED <<global_pcb_ptrs, pcbVars, termVars, displayed_terminal, hwVars,
                   user_video, is_exception, place, launching, haltVars>>

InForeground == "background" \in Windows \/ terminal_num[cur] = displayed_terminal

\* The execute system call of a program, and the kernel's own first one.
Execute ==
    /\ \/ At("run") /\ InForeground
       \/ At("boot")
    /\ \E new \in Slots :
          DoExecute(new) /\ place' = [place EXCEPT ![cur] = "exec", ![new] = "run"]
    /\ UNCHANGED <<launching, haltVars>>

ExecuteFails ==
    /\ At("run")
    /\ InForeground
    /\ DoExecuteFails(BOOLEAN)
    /\ UNCHANGED <<place, launching, haltVars>>

\* A program may end unless it is the last shell of a terminal in the background.
MayEnd == At("run") /\ (num_progs[terminal_num[cur]] # 1 \/ InForeground)

CallHalt ==
    /\ MayEnd
    /\ Goto("halt")
    /\ UNCHANGED <<global_pcb_ptrs, pcbVars, termVars, displayed_terminal, hwVars,
                   user_video, is_exception, cur, launching, haltVars>>

\* An exception in a program: the handler marks it and calls halt.
Fault ==
    /\ MayEnd
    /\ is_exception' = TRUE
    /\ Goto("fault")
    /\ UNCHANGED <<global_pcb_ptrs, pcbVars, termVars, displayed_terminal, hwVars,
                   user_video, cur, launching, haltVars>>

-------------------------------------------------------------------------------
(* halt, one action per statement that changes what others see *)

\* Seeded fault: the exception mark is read and not cleared.
HaltEntryKeepsMark ==
    /\ At("halt") \/ At("fault")
    /\ halt_parent' = [halt_parent EXCEPT ![cur] = parent_pcb[cur]]
    /\ halt_terminal' = [halt_terminal EXCEPT ![cur] = terminal_num[cur]]
    /\ Goto("test")
    /\ UNCHANGED <<global_pcb_ptrs, pcbVars, termVars, displayed_terminal, hwVars,
                   user_video, is_exception, cur, launching>>

HaltEntry ==
    /\ At("halt") \/ At("fault")
    /\ is_exception' = FALSE
    /\ halt_parent' = [halt_parent EXCEPT ![cur] = parent_pcb[cur]]
    /\ halt_terminal' = [halt_terminal EXCEPT ![cur] = terminal_num[cur]]
    /\ Goto("test")
    /\ UNCHANGED <<global_pcb_ptrs, pcbVars, termVars, displayed_terminal, hwVars,
                   user_video, cur, launching>>

HaltTest ==
    /\ At("test")
    /\ IF num_progs[halt_terminal[cur]] = 1
       THEN tss_esp0' = cur /\ Goto("last_cr3")
       ELSE Goto("remap") /\ UNCHANGED tss_esp0
    /\ UNCHANGED <<global_pcb_ptrs, pcbVars, termVars, displayed_terminal, cr3, user_video,
                   is_exception, cur, launching, haltVars>>

HaltLastSetCr3 ==
    /\ At("last_cr3")
    /\ cr3' = Boot
    /\ Goto("last_cleanup")
    /\ UNCHANGED <<global_pcb_ptrs, pcbVars, termVars, displayed_terminal, tss_esp0,
                   user_video, is_exception, cur, launching, haltVars>>

\* cleanup_pg_dir of the halting process, then on to the next statement.
\* Wiping the directory that CR3 points to takes the kernel's own pages away.
CleanupPgDir(next) ==
    IF pg_dir[cur] \in Slots /\ pg_dir[cur] # cr3
    THEN /\ user_video' = [user_video EXCEPT ![pg_dir[cur]] = Unmapped]
         /\ Goto(next)
         /\ UNCHANGED <<global_pcb_ptrs, pcbVars, termVars, displayed_terminal, hwVars,
                        is_exception, cur, launching, haltVars>>
    ELSE Crash

\* destroy_pcb_ptr of the halting process; -1 and no change if it has no slot.
DestroyPcb(next) ==
    /\ IF cur \in global_pcb_ptrs
       THEN global_pcb_ptrs' = global_pcb_ptrs \ {cur} /\ ClearPcb(cur)
       ELSE UNCHANGED <<global_pcb_ptrs, pcbVars>>
    /\ Goto(next)
    /\ UNCHANGED <<termVars, displayed_terminal, hwVars, user_video, is_exception, cur,
                   launching, haltVars>>

\* Seeded fault: the program is not counted out.
CountsNothing(next) ==
    /\ Goto(next)
    /\ UNCHANGED <<global_pcb_ptrs, pcbVars, termVars, displayed_terminal, hwVars,
                   user_video, is_exception, cur, launching, haltVars>>

CountDown(next) ==
    /\ num_progs' = [num_progs EXCEPT ![halt_terminal[cur]] = @ - 1]
    /\ Goto(next)
    /\ UNCHANGED <<global_pcb_ptrs, pcbVars, top_process, displayed_terminal, hwVars,
                   user_video, is_exception, cur, launching, haltVars>>

\* Seeded fault: the directory of the last shell is kept.
HaltLastKeepsDir == At("last_cleanup") /\ CountsNothing("last_destroy")

HaltLastCleanup == At("last_cleanup") /\ CleanupPgDir("last_destroy")
\* Seeded fault: the last shell keeps its slot.
HaltLastKeepsSlot == At("last_destroy") /\ CountsNothing("last_count")

HaltLastDestroy == At("last_destroy") /\ DestroyPcb("last_count")
HaltLastCount   == At("last_count") /\ CountDown("relaunch")

\* sys_execute("shell") on the stack of the dead shell, which is then abandoned.
\* It cannot fail: the shell's own slot has just become free (RelaunchPossible).
HaltRelaunch ==
    /\ At("relaunch")
    /\ \E new \in Slots :
          DoExecute(new) /\ place' = [place EXCEPT ![cur] = "none", ![new] = "run"]
    /\ halt_parent' = [halt_parent EXCEPT ![cur] = Null]
    /\ halt_terminal' = [halt_terminal EXCEPT ![cur] = 0]
    /\ UNCHANGED launching

\* Give the parent's terminal page back; with no parent, halt returns -1.
HaltRemap ==
    /\ At("remap")
    /\ IF halt_parent[cur] = Null
       THEN Goto("run") /\ UNCHANGED user_video
       ELSE /\ user_video' = RemapUserVideo(user_video, pg_dir[halt_parent[cur]],
                                IF halt_terminal[cur] = displayed_terminal THEN Screen
                                ELSE halt_terminal[cur])
            /\ Goto("tss")
    /\ UNCHANGED <<global_pcb_ptrs, pcbVars, termVars, displayed_terminal, hwVars,
                   is_exception, cur, launching, haltVars>>

\* Seeded fault: the TSS keeps the dying process's stack.
HaltKeepsTss == At("tss") /\ CountsNothing("cr3")

HaltSetTss ==
    /\ At("tss")
    /\ tss_esp0' = esp0[halt_parent[cur]]
    /\ Goto("cr3")
    /\ UNCHANGED <<global_pcb_ptrs, pcbVars, termVars, displayed_terminal, cr3, user_video,
                   is_exception, cur, launching, haltVars>>

\* Seeded fault: the directory is cleaned up while CR3 still points to it.
HaltKeepsCr3 == At("cr3") /\ CountsNothing("cleanup")

HaltSetCr3 ==
    /\ At("cr3")
    /\ IF Usable(pg_dir[halt_parent[cur]])
       THEN /\ cr3' = pg_dir[halt_parent[cur]]
            /\ Goto("cleanup")
            /\ UNCHANGED <<global_pcb_ptrs, pcbVars, termVars, displayed_terminal, tss_esp0,
                           user_video, is_exception, cur, launching, haltVars>>
       ELSE Crash

HaltCleanup == At("cleanup") /\ CleanupPgDir("top")

\* Seeded faults: the dead process stays on top; its grandparent comes on top.
HaltKeepsTop == At("top") /\ CountsNothing("count")
HaltSkipsParent ==
    /\ At("top")
    /\ top_process' = [top_process EXCEPT ![halt_terminal[cur]] =
                          IF parent_pcb[halt_parent[cur]] \in Slots
                          THEN parent_pcb[halt_parent[cur]] ELSE halt_parent[cur]]
    /\ Goto("count")
    /\ UNCHANGED <<global_pcb_ptrs, pcbVars, num_progs, displayed_terminal, hwVars,
                   user_video, is_exception, cur, launching, haltVars>>

HaltSetTop ==
    /\ At("top")
    /\ top_process' = [top_process EXCEPT ![halt_terminal[cur]] = halt_parent[cur]]
    /\ Goto("count")
    /\ UNCHANGED <<global_pcb_ptrs, pcbVars, num_progs, displayed_terminal, hwVars,
                   user_video, is_exception, cur, launching, haltVars>>

HaltCount   == At("count") /\ CountDown("destroy")
HaltDestroy == At("destroy") /\ DestroyPcb("return")

\* Load the frame that the parent's do_execute saved and jump to halt_ret.
HaltReturn ==
    LET parent == halt_parent[cur] IN
    /\ At("return")
    /\ IF esp[parent] = "exec" /\ place[parent] = "exec"
       THEN /\ cur' = parent
            /\ place' = [place EXCEPT ![cur] = "none", ![parent] = "run"]
            /\ halt_parent' = [halt_parent EXCEPT ![cur] = Null]
            /\ halt_terminal' = [halt_terminal EXCEPT ![cur] = 0]
            /\ UNCHANGED <<global_pcb_ptrs, pcbVars, termVars, displayed_terminal, hwVars,
                           user_video, is_exception, launching>>
       ELSE Crash

Halt ==
    \/ HaltEntry \/ HaltTest
    \/ HaltLastSetCr3 \/ HaltLastCleanup \/ HaltLastDestroy \/ HaltLastCount
    \/ HaltRelaunch
    \/ HaltRemap \/ HaltSetTss \/ HaltSetCr3 \/ HaltCleanup
    \/ HaltSetTop \/ HaltCount \/ HaltDestroy \/ HaltReturn

-------------------------------------------------------------------------------
(* Interrupts *)

\* Seeded fault: only the neighbouring terminal is looked at.
NextTaskOneStep(t, n) == n = (1 + t) % NUM_TERMINALS /\ n # t /\ num_progs[n] > 0

\* get_next_task_number: the next terminal that has a program, if there is one.
NextTask(t, n) ==
    \E i \in 1 .. NUM_TERMINALS - 1 :
        /\ n = (i + t) % NUM_TERMINALS
        /\ num_progs[n] > 0
        /\ \A j \in 1 .. i - 1 : num_progs[(j + t) % NUM_TERMINALS] <= 0

\* switch_task: `leave; ret' on the frame saved by the PIT or by change_terminal
\* goes back to what they interrupted; on the one saved by do_execute it returns
\* from do_execute itself.  A frame whose function is gone cannot be returned to.
SwitchTask(n) ==
    LET new  == top_process[n]
        save == [esp EXCEPT ![cur] = "irq"]
        live == \/ save[new] = "irq" /\ place[new] # "exec"
                \/ save[new] = "exec" /\ place[new] = "exec"
    IN  IF new \in Contexts /\ Usable(pg_dir[new]) /\ live
        THEN /\ cr3' = pg_dir[new]
             /\ esp' = save
             /\ esp0' = [esp0 EXCEPT ![cur] = tss_esp0]
             /\ tss_esp0' = esp0'[new]
             /\ cur' = new
             /\ place' = IF save[new] = "exec" THEN [place EXCEPT ![new] = "run"] ELSE place
             /\ UNCHANGED <<global_pcb_ptrs, parent_pcb, terminal_num, pg_dir, termVars,
                            displayed_terminal, user_video, is_exception, launching, haltVars>>
        ELSE Crash

\* pit_handler; with no next task it does nothing.
PitHandler ==
    /\ Interruptible
    /\ \E n \in Terminals : NextTask(terminal_num[cur], n) /\ SwitchTask(n)

\* Seeded fault: the programs are not counted before a shell is promised.
ProgramCountZero(f) == 0

ProgramCount(f) ==
    LET S[t \in 0 .. NUM_TERMINALS] == IF t = 0 THEN 0 ELSE S[t - 1] + f[t - 1]
    IN  S[NUM_TERMINALS]

PgDirOf(p) == IF p = Null THEN Null ELSE pg_dir[p]

EndingLastShell ==
    /\ num_progs[displayed_terminal] = 1
    /\ \E c \in Contexts : place[c] \in HaltSteps /\ terminal_num[c] = displayed_terminal

\* change_terminal up to the test for an empty terminal.  ALT with the function
\* key of the displayed terminal, or of an empty one when no more programs may
\* start, does nothing.
ChangeTerminal(new) ==
    LET old   == displayed_terminal
        shown == RemapUserVideo(RemapUserVideo(user_video, PgDirOf(top_process[old]), old),
                                PgDirOf(top_process[new]), Screen)
    IN
    /\ Interruptible
    /\ "background" \in Windows \/ ~EndingLastShell
    /\ new # old
    /\ ProgramCount(num_progs) < MAX_NUM_PROCESS \/ num_progs[new] # 0
    /\ IF top_process[old] # Null /\ Usable(pg_dir[cur])
       THEN /\ user_video' = shown
            /\ cr3' = pg_dir[cur]
            /\ displayed_terminal' = new
            /\ IF num_progs[new] = 0
               THEN /\ esp' = [esp EXCEPT ![cur] = "irq"]
                    /\ esp0' = [esp0 EXCEPT ![cur] = tss_esp0]
                    /\ launching' = TRUE
               ELSE UNCHANGED <<esp, esp0, launching>>
            /\ UNCHANGED <<global_pcb_ptrs, parent_pcb, terminal_num, pg_dir, termVars,
                           tss_esp0, is_exception, cur, place, haltVars>>
       ELSE Crash

\* The rest of change_terminal: a shell for the empty terminal, on the stack of
\* whatever was interrupted, still with IF=0.
LaunchShell ==
    /\ cur \in Contexts /\ launching
    /\ \E new \in Slots : DoExecute(new) /\ place' = [place EXCEPT ![new] = "run"]
    /\ launching' = FALSE
    /\ UNCHANGED haltVars

LaunchShellFails ==
    /\ cur \in Contexts /\ launching
    /\ DoExecuteFails({TRUE})
    /\ launching' = FALSE
    /\ UNCHANGED <<place, haltVars>>

-------------------------------------------------------------------------------
Next ==
    \/ Execute \/ ExecuteFails
    \/ CallHalt \/ Fault \/ Halt
    \/ PitHandler
    \/ \E t \in Terminals : ChangeTerminal(t)
    \/ LaunchShell \/ LaunchShellFails

\* The CPU makes progress in whatever context it is given, and the PIC latches
\* IRQ0 until it can be delivered.
Fairness ==
    /\ WF_vars(At("boot") /\ Execute)
    /\ WF_vars(LaunchShell)
    /\ \A c \in Slots : SF_vars(cur = c /\ Halt)
    /\ SF_vars(PitHandler)

Spec     == Init /\ [][Next]_vars
FairSpec == Spec /\ Fairness
===============================================================================
