------------------------------ MODULE KernelProofs ------------------------------
(***************************************************************************)
(* Proofs about module Kernel for every number of slots and terminals:     *)
(* the types, the counts and the halting of programs for every set of      *)
(* Windows first.  Then every step keeps IInv when the environment opens   *)
(* no window outside SafeWindows: the steps of halt, then execute,         *)
(* change_terminal and the PIT, one lemma per action and one step per part *)
(* of IInv.  The safety theorems follow.  Last, the spine of parents that  *)
(* KernelSessions reads off a terminal is shown to be unique, so that each *)
(* step grows it, shrinks it or keeps it: Kernel takes a step of Sessions  *)
(* or stutters.                                                            *)
(***************************************************************************)
EXTENDS KernelSessions, FiniteSetTheorems, SequenceTheorems, NatFacts

\* halt has its parent pointer once it is past the test for NULL.
ParentKnown == \A c \in Contexts : place[c] \in HandOver => halt_parent[c] \in Contexts

TypeInv == TypeOK /\ ParentKnown

\* The numbers that stand for contexts, pages and NULL do not overlap.
LEMMA Numbers ==
    /\ Boot \in Contexts /\ Boot \notin Slots
    /\ Slots \subseteq Contexts
    /\ Null \notin Contexts /\ Wild \notin Contexts
    /\ Unmapped \notin Terminals /\ Screen \notin Terminals /\ Screen # Unmapped
    /\ 0 \in Terminals
  BY ProcessAssumption, TerminalAssumption
     DEF Boot, Contexts, Slots, Null, Wild, Unmapped, Screen, Terminals

\* The step that makes a process sets every variable to a value of its type.
LEMMA DoExecuteType ==
    ASSUME TypeOK, cur \in Contexts, NEW new \in Slots, DoExecute(new)
    PROVE  /\ global_pcb_ptrs' \subseteq Slots
           /\ parent_pcb' \in [Contexts -> Contexts \union {Null}]
           /\ terminal_num' \in [Contexts -> Terminals]
           /\ pg_dir' \in [Contexts -> Contexts \union {Null}]
           /\ esp' \in [Contexts -> {"none", "irq", "exec"}]
           /\ esp0' \in [Contexts -> Contexts \union {Null}]
           /\ top_process' \in [Terminals -> Contexts \union {Null}]
           /\ num_progs' \in [Terminals -> Int]
           /\ displayed_terminal' \in Terminals
           /\ tss_esp0' \in Contexts \union {Null}
           /\ cr3' \in Contexts
           /\ user_video' \in [Slots -> Terminals \union {Screen, Unmapped}]
           /\ is_exception' \in BOOLEAN
           /\ cur' \in Contexts
  BY Numbers DEF TypeOK, DoExecute, SavedEsp, SavedEsp0

LEMMA DoExecuteFailsType ==
    ASSUME TypeOK, cur \in Contexts, NEW outcomes, DoExecuteFails(outcomes),
           UNCHANGED <<place, haltVars>>, launching' \in BOOLEAN
    PROVE  TypeOK'
  BY Numbers DEF TypeOK, DoExecuteFails, SavedEsp, SavedEsp0, pcbVars, termVars, hwVars,
     haltVars

LEMMA TypeStep == TypeInv /\ [Next]_vars => TypeInv'
<1> SUFFICES ASSUME TypeOK, ParentKnown, [Next]_vars
             PROVE  TypeOK' /\ ParentKnown'
  BY DEF TypeInv
<1> USE Numbers
<1> USE DEF pcbVars, termVars, hwVars, haltVars
<1>1. CASE Execute
  <2>1. TypeOK'
    BY <1>1, DoExecuteType DEF Execute, At, TypeOK, Places
  <2>2. ParentKnown'
    BY <1>1 DEF Execute, At, TypeOK, ParentKnown, HandOver
  <2>3. QED BY <2>1, <2>2
<1>2. CASE ExecuteFails
  BY <1>2, DoExecuteFailsType DEF ExecuteFails, At, TypeOK, ParentKnown
<1>3. CASE CallHalt
  BY <1>3 DEF CallHalt, MayEnd, At, Goto, TypeOK, ParentKnown, HandOver, Places, HaltSteps
<1>4. CASE Fault
  BY <1>4 DEF Fault, MayEnd, At, Goto, TypeOK, ParentKnown, HandOver, Places, HaltSteps
<1>5. CASE HaltEntry
  BY <1>5 DEF HaltEntry, At, Goto, TypeOK, ParentKnown, HandOver, Places, HaltSteps
<1>6. CASE HaltTest
  BY <1>6 DEF HaltTest, At, Goto, TypeOK, ParentKnown, HandOver, Places, HaltSteps
<1>7. CASE HaltLastSetCr3
  BY <1>7 DEF HaltLastSetCr3, At, Goto, TypeOK, ParentKnown, HandOver, Places, HaltSteps
<1>8. CASE HaltLastCleanup
  BY <1>8 DEF HaltLastCleanup, CleanupPgDir, Crash, At, Goto, TypeOK, ParentKnown, HandOver,
     Places, HaltSteps
<1>9. CASE HaltLastDestroy
  BY <1>9 DEF HaltLastDestroy, DestroyPcb, ClearPcb, At, Goto, TypeOK, ParentKnown, HandOver,
     Places, HaltSteps
<1>10. CASE HaltLastCount
  BY <1>10 DEF HaltLastCount, CountDown, At, Goto, TypeOK, ParentKnown, HandOver, Places,
     HaltSteps
<1>11. CASE HaltRelaunch
  <2>1. TypeOK'
    BY <1>11, DoExecuteType DEF HaltRelaunch, At, TypeOK, Places
  <2>2. ParentKnown'
    BY <1>11 DEF HaltRelaunch, At, TypeOK, ParentKnown, HandOver
  <2>3. QED BY <2>1, <2>2
<1>12. CASE HaltRemap
  BY <1>12 DEF HaltRemap, RemapUserVideo, At, Goto, TypeOK, ParentKnown, HandOver, Places,
     HaltSteps
<1>13. CASE HaltSetTss
  BY <1>13 DEF HaltSetTss, At, Goto, TypeOK, ParentKnown, HandOver, Places, HaltSteps
<1>14. CASE HaltSetCr3
  BY <1>14 DEF HaltSetCr3, Usable, Crash, At, Goto, TypeOK, ParentKnown, HandOver, Places,
     HaltSteps
<1>15. CASE HaltCleanup
  BY <1>15 DEF HaltCleanup, CleanupPgDir, Crash, At, Goto, TypeOK, ParentKnown, HandOver,
     Places, HaltSteps
<1>16. CASE HaltSetTop
  BY <1>16 DEF HaltSetTop, At, Goto, TypeOK, ParentKnown, HandOver, Places, HaltSteps
<1>17. CASE HaltCount
  BY <1>17 DEF HaltCount, CountDown, At, Goto, TypeOK, ParentKnown, HandOver, Places,
     HaltSteps
<1>18. CASE HaltDestroy
  BY <1>18 DEF HaltDestroy, DestroyPcb, ClearPcb, At, Goto, TypeOK, ParentKnown, HandOver,
     Places, HaltSteps
<1>19. CASE HaltReturn
  BY <1>19 DEF HaltReturn, Crash, At, TypeOK, ParentKnown, HandOver, Places, HaltSteps
<1>20. CASE PitHandler
  <2>1. PICK n \in Terminals : SwitchTask(n)
    BY <1>20 DEF PitHandler
  <2>2. cur \in Contexts
    BY <1>20 DEF PitHandler, Interruptible
  <2>3. QED
    BY <2>1, <2>2 DEF SwitchTask, Usable, Crash, TypeOK, ParentKnown, HandOver, Places
<1>21. CASE \E t \in Terminals : ChangeTerminal(t)
  <2>1. PICK t \in Terminals : ChangeTerminal(t)
    BY <1>21
  <2>2. cur \in Contexts
    BY <2>1 DEF ChangeTerminal, Interruptible
  <2>3. ASSUME NEW dir, NEW pages \in [Slots -> Terminals \union {Screen, Unmapped}],
               NEW page \in Terminals \union {Screen}
        PROVE  RemapUserVideo(pages, dir, page) \in [Slots -> Terminals \union {Screen, Unmapped}]
    BY DEF RemapUserVideo
  <2>4. user_video' \in [Slots -> Terminals \union {Screen, Unmapped}]
    <3> DEFINE old   == displayed_terminal
               first == RemapUserVideo(user_video, PgDirOf(top_process[old]), old)
               shown == RemapUserVideo(first, PgDirOf(top_process[t]), Screen)
    <3>1. user_video' = shown \/ user_video' = user_video
      BY <2>1 DEF ChangeTerminal, Crash
    <3>2. user_video \in [Slots -> Terminals \union {Screen, Unmapped}] /\ old \in Terminals
      BY DEF TypeOK
    <3>3. first \in [Slots -> Terminals \union {Screen, Unmapped}]
      BY <2>3, <3>2
    <3>4. shown \in [Slots -> Terminals \union {Screen, Unmapped}]
      <4> HIDE DEF first
      <4> QED BY <2>3, <3>3
    <3>5. QED BY <3>1, <3>2, <3>4
  <2>5. CASE Crash
    BY <2>5 DEF Crash, TypeOK, ParentKnown
  <2>6. CASE ~Crash
    <3>1. /\ Usable(pg_dir[cur]) /\ cr3' = pg_dir[cur]
          /\ displayed_terminal' = t
          /\ esp' \in {esp, [esp EXCEPT ![cur] = "irq"]}
          /\ esp0' \in {esp0, [esp0 EXCEPT ![cur] = tss_esp0]}
          /\ launching' = launching \/ launching' = TRUE
          /\ UNCHANGED <<global_pcb_ptrs, parent_pcb, terminal_num, pg_dir, top_process,
                         num_progs, tss_esp0, is_exception, cur, place, haltVars>>
      BY <2>1, <2>6 DEF ChangeTerminal
    <3>2. cr3' \in Contexts
      BY <3>1 DEF Usable
    <3>3. QED
      <4>1. /\ esp' \in [Contexts -> {"none", "irq", "exec"}]
            /\ esp0' \in [Contexts -> Contexts \union {Null}]
        BY <2>2, <3>1 DEF TypeOK
      <4>2. launching' \in BOOLEAN
        BY <3>1, Zenon DEF TypeOK
      <4>3. TypeOK'
        BY <2>4, <3>1, <3>2, <4>1, <4>2 DEF TypeOK
      <4>4. ParentKnown'
        BY <3>1 DEF ParentKnown
      <4>5. QED BY <4>3, <4>4
  <2>7. QED BY <2>5, <2>6
<1>22. CASE LaunchShell
  <2>1. TypeOK'
    BY <1>22, DoExecuteType DEF LaunchShell, TypeOK, Places
  <2>2. ParentKnown'
    BY <1>22 DEF LaunchShell, TypeOK, ParentKnown, HandOver
  <2>3. QED BY <2>1, <2>2
<1>23. CASE LaunchShellFails
  BY <1>23, DoExecuteFailsType DEF LaunchShellFails, TypeOK, ParentKnown
<1>24. CASE UNCHANGED vars
  BY <1>24 DEF vars, TypeOK, ParentKnown
<1>25. QED
  BY <1>1, <1>2, <1>3, <1>4, <1>5, <1>6, <1>7, <1>8, <1>9, <1>10, <1>11, <1>12, <1>13,
     <1>14, <1>15, <1>16, <1>17, <1>18, <1>19, <1>20, <1>21, <1>22, <1>23, <1>24
     DEF Next, Halt

LEMMA TypeInit == Init => TypeInv
<1> SUFFICES ASSUME Init PROVE TypeOK /\ ParentKnown
  BY DEF TypeInv
<1>1. TypeOK
  <2>1. place \in [Contexts -> Places]
    BY Numbers DEF Init, Places
  <2>2. /\ terminal_num \in [Contexts -> Terminals]
        /\ halt_terminal \in [Contexts -> Terminals]
        /\ num_progs \in [Terminals -> Int]
    BY Numbers DEF Init
  <2>3. QED
    BY <2>1, <2>2, Numbers DEF Init, TypeOK
<1>2. ParentKnown
  BY Numbers DEF Init, ParentKnown, HandOver
<1>3. QED BY <1>1, <1>2

\* Whatever windows are open, every variable keeps its type.
THEOREM TypeCorrect == Spec => []TypeOK
<1>1. Init => TypeInv
  BY TypeInit
<1>2. TypeInv /\ [Next]_vars => TypeInv'
  BY TypeStep
<1>3. TypeInv => TypeOK
  BY DEF TypeInv
<1>4. QED
  BY <1>1, <1>2, <1>3, PTL DEF Spec

-------------------------------------------------------------------------------
(* Free slots are clean, whichever windows are open *)

\* A page directory pointer is NULL or the PCB's own, and a halt that is past its
\* cleanup has left an empty directory.
OwnDir == \A c \in Contexts : pg_dir[c] \in {Null, c}
Wiped  == \A s \in Slots :
    place[s] \in {"top", "count", "destroy", "last_destroy"} => user_video[s] = Unmapped

CleanInv == OwnDir /\ Wiped /\ FreeSlotsClean

LEMMA RemapKeepsUnmapped ==
    ASSUME NEW pages, pages \in [Slots -> Terminals \union {Screen, Unmapped}],
           NEW dir, NEW page \in Terminals \union {Screen}
    PROVE  /\ RemapUserVideo(pages, dir, page) \in [Slots -> Terminals \union {Screen, Unmapped}]
           /\ \A s \in Slots :
                (RemapUserVideo(pages, dir, page)[s] = Unmapped) <=> (pages[s] = Unmapped)
  BY Numbers DEF RemapUserVideo

LEMMA CleanInit == Init => CleanInv
  BY Numbers DEF Init, CleanInv, OwnDir, Wiped, FreeSlotsClean, FreeSlots

LEMMA CleanStep == TypeInv /\ CleanInv /\ [Next]_vars => CleanInv'
<1> SUFFICES ASSUME TypeOK, ParentKnown, OwnDir, Wiped, FreeSlotsClean, [Next]_vars
             PROVE  OwnDir' /\ Wiped' /\ FreeSlotsClean'
  BY DEF TypeInv, CleanInv
<1> USE Numbers
<1> USE DEF pcbVars, termVars, hwVars, haltVars, OwnDir, Wiped, FreeSlotsClean, FreeSlots
<1>1. CASE Execute
  <2>1. PICK new \in Slots : DoExecute(new)
                /\ place' = [place EXCEPT ![cur] = "exec", ![new] = "run"]
    BY <1>1 DEF Execute
  <2>2. QED
    BY <1>1, <2>1 DEF Execute, DoExecute, At, TypeOK
<1>2. CASE ExecuteFails
  BY <1>2 DEF ExecuteFails, DoExecuteFails, FirstFree, At, TypeOK
<1>3. CASE CallHalt \/ Fault \/ HaltEntry \/ HaltTest \/ HaltLastSetCr3 \/ HaltSetTss
  BY <1>3 DEF CallHalt, Fault, HaltEntry, HaltTest, HaltLastSetCr3, HaltSetTss, MayEnd, At,
     Goto, TypeOK
<1>4. CASE HaltLastCleanup \/ HaltCleanup
  BY <1>4 DEF HaltLastCleanup, HaltCleanup, CleanupPgDir, Crash, At, Goto, TypeOK
<1>5. CASE HaltLastDestroy \/ HaltDestroy
  BY <1>5 DEF HaltLastDestroy, HaltDestroy, DestroyPcb, ClearPcb, At, Goto, TypeOK
<1>6. CASE HaltLastCount \/ HaltCount
  BY <1>6 DEF HaltLastCount, HaltCount, CountDown, At, Goto, TypeOK
<1>7. CASE HaltRelaunch
  <2>1. PICK new \in Slots : DoExecute(new)
                /\ place' = [place EXCEPT ![cur] = "none", ![new] = "run"]
    BY <1>7 DEF HaltRelaunch
  <2>2. QED
    BY <1>7, <2>1 DEF HaltRelaunch, DoExecute, At, TypeOK
<1>8. CASE HaltRemap
  <2> DEFINE page == IF halt_terminal[cur] = displayed_terminal THEN Screen
                     ELSE halt_terminal[cur]
  <2>1. cur \in Contexts /\ page \in Terminals \union {Screen}
    BY <1>8 DEF HaltRemap, At, TypeOK
  <2>2. \A s \in Slots : user_video'[s] = Unmapped <=> user_video[s] = Unmapped
    BY <1>8, <2>1, RemapKeepsUnmapped DEF HaltRemap, TypeOK
  <2>3. QED
    BY <1>8, <2>2 DEF HaltRemap, At, Goto, TypeOK
<1>9. CASE HaltSetCr3
  BY <1>9 DEF HaltSetCr3, Crash, At, Goto, TypeOK
<1>10. CASE HaltSetTop
  BY <1>10 DEF HaltSetTop, At, Goto, TypeOK
<1>11. CASE HaltReturn
  BY <1>11 DEF HaltReturn, Crash, At, TypeOK
<1>12. CASE PitHandler
  <2>1. PICK n \in Terminals : SwitchTask(n)
    BY <1>12 DEF PitHandler
  <2>2. QED
    BY <2>1 DEF SwitchTask, Crash, TypeOK
<1>13. CASE \E t \in Terminals : ChangeTerminal(t)
  <2>1. PICK t \in Terminals : ChangeTerminal(t)
    BY <1>13
  <2>2. \A s \in Slots : user_video'[s] = Unmapped <=> user_video[s] = Unmapped
    BY <2>1, RemapKeepsUnmapped DEF ChangeTerminal, Crash, TypeOK
  <2>3. UNCHANGED <<global_pcb_ptrs, pg_dir, place>>
    BY <2>1 DEF ChangeTerminal, Crash
  <2>4. QED
    BY <2>2, <2>3
<1>14. CASE LaunchShell
  <2>1. PICK new \in Slots : DoExecute(new) /\ place' = [place EXCEPT ![new] = "run"]
    BY <1>14 DEF LaunchShell
  <2>2. QED
    BY <1>14, <2>1 DEF LaunchShell, DoExecute, TypeOK
<1>15. CASE LaunchShellFails
  BY <1>15 DEF LaunchShellFails, DoExecuteFails, FirstFree, TypeOK
<1>16. CASE UNCHANGED vars
  BY <1>16 DEF vars
<1>17. QED
  BY <1>1, <1>2, <1>3, <1>4, <1>5, <1>6, <1>7, <1>8, <1>9, <1>10, <1>11, <1>12, <1>13,
     <1>14, <1>15, <1>16 DEF Next, Halt

\* Whatever interrupts halt, execute finds every free slot's directory empty.
THEOREM FreeSlotsStayClean == Spec => []FreeSlotsClean
<1>1. Init => TypeInv /\ CleanInv
  BY TypeInit, CleanInit
<1>2. (TypeInv /\ CleanInv) /\ [Next]_vars => (TypeInv /\ CleanInv)'
  BY TypeStep, CleanStep
<1>3. CleanInv => FreeSlotsClean
  BY DEF CleanInv
<1>4. QED
  BY <1>1, <1>2, <1>3, PTL DEF Spec

-------------------------------------------------------------------------------
(* The exception mark, when the handler is not interrupted before halt *)

MarkInv ==
    /\ \A c \in Contexts : place[c] = "fault" => c = cur \/ cur = Wild
    /\ cur \in Contexts => (is_exception <=> place[cur] = "fault")
    /\ cur \in Contexts /\ launching => place[cur] # "fault"

LEMMA MarkStep ==
    ASSUME "fault" \notin Windows
    PROVE  TypeInv /\ MarkInv /\ [Next]_vars => MarkInv'
<1> SUFFICES ASSUME TypeOK, MarkInv, [Next]_vars
             PROVE  MarkInv'
  BY DEF TypeInv
<1> USE Numbers
<1> USE DEF pcbVars, termVars, hwVars, haltVars, MarkInv
<1>1. CASE Execute \/ HaltRelaunch
  BY <1>1 DEF Execute, HaltRelaunch, DoExecute, At, TypeOK
<1>2. CASE ExecuteFails
  BY <1>2 DEF ExecuteFails, DoExecuteFails, At, TypeOK
<1>3. CASE CallHalt \/ Fault \/ HaltEntry \/ HaltTest \/ HaltLastSetCr3 \/ HaltSetTss
  BY <1>3 DEF CallHalt, Fault, HaltEntry, HaltTest, HaltLastSetCr3, HaltSetTss, MayEnd, At,
     Goto, TypeOK
<1>4. CASE HaltLastCleanup \/ HaltCleanup
  BY <1>4 DEF HaltLastCleanup, HaltCleanup, CleanupPgDir, Crash, At, Goto, TypeOK
<1>5. CASE HaltLastDestroy \/ HaltDestroy \/ HaltLastCount \/ HaltCount
  BY <1>5 DEF HaltLastDestroy, HaltDestroy, HaltLastCount, HaltCount, DestroyPcb, CountDown,
     At, Goto, TypeOK
<1>6. CASE HaltRemap \/ HaltSetCr3 \/ HaltSetTop
  BY <1>6 DEF HaltRemap, HaltSetCr3, HaltSetTop, Crash, At, Goto, TypeOK
<1>7. CASE HaltReturn
  BY <1>7 DEF HaltReturn, Crash, At, TypeOK
<1>8. CASE PitHandler
  <2>1. PICK n \in Terminals : SwitchTask(n)
    BY <1>8 DEF PitHandler
  <2>2. cur \in Contexts /\ place[cur] # "fault"
    BY <1>8 DEF PitHandler, Interruptible
  <2>3. QED
    BY <2>1, <2>2 DEF SwitchTask, Crash, TypeOK
<1>9. CASE \E t \in Terminals : ChangeTerminal(t)
  <2>1. UNCHANGED <<is_exception, place>> /\ (cur' = cur \/ cur' = Wild)
    BY <1>9 DEF ChangeTerminal, Crash
  <2>2. cur \in Contexts /\ place[cur] # "fault"
    BY <1>9 DEF ChangeTerminal, Interruptible
  <2>3. QED
    BY <2>1, <2>2
<1>10. CASE LaunchShell
  BY <1>10 DEF LaunchShell, DoExecute, TypeOK
<1>11. CASE LaunchShellFails
  BY <1>11 DEF LaunchShellFails, DoExecuteFails, TypeOK
<1>12. CASE UNCHANGED vars
  BY <1>12 DEF vars
<1>13. QED
  BY <1>1, <1>2, <1>3, <1>4, <1>5, <1>6, <1>7, <1>8, <1>9, <1>10, <1>11, <1>12
     DEF Next, Halt

\* If no interrupt separates the exception handler's mark from halt's read, halt
\* sees the mark exactly when its caller was squashed.
THEOREM ExceptionFlagCorrect ==
    ASSUME "fault" \notin Windows
    PROVE  Spec => []ExceptionFlag
<1>1. Init => TypeInv /\ MarkInv
  BY TypeInit, Numbers DEF Init, MarkInv
<1>2. (TypeInv /\ MarkInv) /\ [Next]_vars => (TypeInv /\ MarkInv)'
  BY TypeStep, MarkStep
<1>3. MarkInv => ExceptionFlag
  BY DEF MarkInv, ExceptionFlag
<1>4. QED
  BY <1>1, <1>2, <1>3, PTL DEF Spec
-------------------------------------------------------------------------------
(* halt's new shell has a slot, whichever windows are open *)

\* The boot stack is left for good with the first shell: nothing saves a frame on it.
BootLeft ==
    /\ esp[Boot] = "none"
    /\ cur = Boot => /\ place[Boot] = "boot" /\ ~launching
                     /\ \A t \in Terminals : num_progs[t] = 0 /\ top_process[t] = Null

\* A last shell that has destroyed its PCB has not been given another.
SlotGone == \A s \in Slots : place[s] \in {"last_count", "relaunch"} => s \notin global_pcb_ptrs

GoneInv == BootLeft /\ SlotGone

LEMMA GoneInit == Init => GoneInv
  BY Numbers DEF Init, GoneInv, BootLeft, SlotGone

LEMMA GoneStep == TypeInv /\ GoneInv /\ [Next]_vars => GoneInv'
<1> SUFFICES ASSUME TypeOK, BootLeft, SlotGone, [Next]_vars
             PROVE  BootLeft' /\ SlotGone'
  BY DEF TypeInv, GoneInv
<1> USE Numbers
<1> USE DEF pcbVars, termVars, hwVars, haltVars, BootLeft, SlotGone
<1>1. CASE Execute
  <2>1. PICK new \in Slots : DoExecute(new)
                /\ place' = [place EXCEPT ![cur] = "exec", ![new] = "run"]
    BY <1>1 DEF Execute
  <2>2. \A s \in Slots : place'[s] \in {"last_count", "relaunch"}
            => s # new /\ place'[s] = place[s]
    BY <2>1, <1>1 DEF Execute, At, TypeOK
  <2>3. SlotGone'
    BY <2>1, <2>2 DEF DoExecute
  <2>4. esp'[Boot] = "none" /\ cur' # Boot
    BY <2>1 DEF DoExecute, SavedEsp, Saves, TypeOK
  <2>5. QED BY <2>3, <2>4
<1>2. CASE ExecuteFails
  BY <1>2 DEF ExecuteFails, DoExecuteFails, SavedEsp, At, TypeOK
<1>3. CASE CallHalt \/ Fault \/ HaltEntry \/ HaltTest \/ HaltLastSetCr3 \/ HaltSetTss
  BY <1>3 DEF CallHalt, Fault, HaltEntry, HaltTest, HaltLastSetCr3, HaltSetTss, MayEnd, At,
     Goto, TypeOK
<1>4. CASE HaltLastCleanup \/ HaltCleanup
  BY <1>4 DEF HaltLastCleanup, HaltCleanup, CleanupPgDir, Crash, At, Goto, TypeOK
<1>5. CASE HaltLastDestroy \/ HaltDestroy
  BY <1>5 DEF HaltLastDestroy, HaltDestroy, DestroyPcb, ClearPcb, At, Goto, TypeOK
<1>6. CASE HaltLastCount \/ HaltCount
  BY <1>6 DEF HaltLastCount, HaltCount, CountDown, At, Goto, TypeOK
<1>7. CASE HaltRelaunch
  <2>1. PICK new \in Slots : DoExecute(new)
                /\ place' = [place EXCEPT ![cur] = "none", ![new] = "run"]
    BY <1>7 DEF HaltRelaunch
  <2>2. cur \in Slots
    BY <1>7 DEF HaltRelaunch, At, Contexts
  <2>3. \A s \in Slots : place'[s] \in {"last_count", "relaunch"}
            => s # new /\ place'[s] = place[s]
    BY <2>1, <2>2 DEF TypeOK
  <2>4. SlotGone'
    BY <2>1, <2>3 DEF DoExecute
  <2>5. esp'[Boot] = "none" /\ cur' # Boot
    BY <2>1, <2>2 DEF DoExecute, SavedEsp, TypeOK
  <2>6. QED BY <2>4, <2>5
<1>8. CASE HaltRemap \/ HaltSetCr3 \/ HaltSetTop
  BY <1>8 DEF HaltRemap, HaltSetCr3, HaltSetTop, Crash, At, Goto, TypeOK
<1>9. CASE HaltReturn
  BY <1>9 DEF HaltReturn, Crash, At, TypeOK
<1>10. CASE PitHandler
  <2>1. PICK t \in Terminals, n \in Terminals : NextTask(t, n) /\ SwitchTask(n)
    BY <1>10 DEF PitHandler, Interruptible, TypeOK
  <2>2. num_progs[n] > 0 /\ cur \in Contexts
    BY <2>1, <1>10 DEF NextTask, PitHandler, Interruptible
  <2>3. cur # Boot
    BY <2>2
  <2>4. QED
    BY <2>1, <2>2, <2>3 DEF SwitchTask, Crash, TypeOK
<1>11. CASE \E t \in Terminals : ChangeTerminal(t)
  <2>1. PICK t \in Terminals : ChangeTerminal(t)
    BY <1>11
  <2>2. UNCHANGED <<global_pcb_ptrs, place, num_progs, top_process>> /\ (cur' = cur \/ cur' = Wild)
    BY <2>1 DEF ChangeTerminal, Crash
  <2>3. cur = Boot => cur' = Wild /\ esp' = esp
    BY <2>1 DEF ChangeTerminal, Crash, TypeOK
  <2>4. esp' = esp \/ esp' = [esp EXCEPT ![cur] = "irq"]
    BY <2>1 DEF ChangeTerminal, Crash
  <2>5. esp'[Boot] = "none"
    BY <2>3, <2>4 DEF TypeOK
  <2>6. QED BY <2>2, <2>3, <2>5
<1>12. CASE LaunchShell
  <2>1. PICK new \in Slots : DoExecute(new) /\ place' = [place EXCEPT ![new] = "run"]
    BY <1>12 DEF LaunchShell
  <2>2. cur # Boot /\ cur \in Contexts
    BY <1>12 DEF LaunchShell
  <2>3. \A s \in Slots : place'[s] \in {"last_count", "relaunch"}
            => s # new /\ place'[s] = place[s]
    BY <2>1 DEF TypeOK
  <2>4. SlotGone'
    BY <2>1, <2>3 DEF DoExecute
  <2>5. esp'[Boot] = "none" /\ cur' # Boot
    BY <2>1, <2>2 DEF DoExecute, SavedEsp, TypeOK
  <2>6. QED BY <2>4, <2>5
<1>13. CASE LaunchShellFails
  BY <1>13 DEF LaunchShellFails, DoExecuteFails, SavedEsp, TypeOK
<1>14. CASE UNCHANGED vars
  BY <1>14 DEF vars
<1>15. QED
  BY <1>1, <1>2, <1>3, <1>4, <1>5, <1>6, <1>7, <1>8, <1>9, <1>10, <1>11, <1>12, <1>13,
     <1>14 DEF Next, Halt

LEMMA FirstFreeExists == ASSUME FreeSlots # {} PROVE \E s \in Slots : FirstFree(s)
<1>1. FreeSlots \in SUBSET Nat /\ FreeSlots \subseteq Slots
  BY ProcessAssumption DEF FreeSlots, Slots
<1>2. \E s \in FreeSlots : \A r \in FreeSlots : s <= r
  BY <1>1, LeastMember
<1>3. QED BY <1>1, <1>2 DEF FirstFree

\* Whatever interrupts halt, the shell that halt itself starts for a terminal whose last one
\* has died gets a slot, and one whose page directory is empty.  It says nothing of the shell
\* that change_terminal starts.
THEOREM RelaunchPossibleHolds == Spec => []RelaunchPossible
<1>1. TypeInv /\ CleanInv /\ GoneInv => RelaunchPossible
  <2> SUFFICES ASSUME FreeSlotsClean, BootLeft, SlotGone, At("relaunch")
               PROVE  \E s \in Slots : FirstFree(s) /\ user_video[s] = Unmapped
    BY DEF CleanInv, GoneInv, RelaunchPossible
  <2>1. cur \in Slots
    BY DEF At, BootLeft, Contexts
  <2>2. cur \in FreeSlots
    BY <2>1 DEF At, SlotGone, FreeSlots
  <2>3. QED BY <2>2, FirstFreeExists DEF FirstFree, FreeSlotsClean
<1>2. Init => TypeInv /\ CleanInv /\ GoneInv
  BY TypeInit, CleanInit, GoneInit
<1>3. (TypeInv /\ CleanInv /\ GoneInv) /\ [Next]_vars => (TypeInv /\ CleanInv /\ GoneInv)'
  BY TypeStep, CleanStep, GoneStep
<1>4. QED
  BY <1>1, <1>2, <1>3, PTL DEF Spec

-------------------------------------------------------------------------------
(* change_terminal adds up num_progs before it promises a shell.  The sum is the number *)
(* of PCBs in use, so if it is below MAX_NUM_PROCESS a slot is free.                     *)

\* A function that adds up the first entries of f.
Sums(f, g, n) ==
    g = [t \in 0 .. n |-> IF t = 0 THEN 0 ELSE g[t - 1] + f[t - 1]]

LEMMA SumsExist ==
    ASSUME NEW f, NEW N \in Nat
    PROVE  \E g : Sums(f, g, N)
<1> DEFINE Bad == {n \in Nat : ~\E g : Sums(f, g, n)}
<1>1. ASSUME Bad # {} PROVE FALSE
  <2>1. PICK m \in Bad : \A k \in Bad : m <= k
    BY <1>1, LeastMember
  <2>2. CASE m = 0
    <3>1. Sums(f, [t \in 0 .. 0 |-> 0], 0)
      BY DEF Sums
    <3>2. QED BY <2>1, <2>2, <3>1
  <2>3. CASE m # 0
    <3>1. m \in Nat /\ m - 1 \in Nat /\ m - 1 \notin Bad
      BY <2>1, <2>3
    <3>2. PICK g : Sums(f, g, m - 1)
      BY <3>1
    <3> DEFINE h == [t \in 0 .. m |-> IF t = m THEN g[m - 1] + f[m - 1] ELSE g[t]]
    <3>3. \A t \in 0 .. m - 1 : g[t] = IF t = 0 THEN 0 ELSE g[t - 1] + f[t - 1]
      BY <3>2 DEF Sums
    <3>4. h = [t \in 0 .. m |-> IF t = 0 THEN 0 ELSE h[t - 1] + f[t - 1]]
      BY <2>3, <3>1, <3>3
    <3>5. QED BY <2>1, <3>4 DEF Sums
  <2>4. QED BY <2>2, <2>3
<1>2. N \notin Bad
  BY <1>1
<1>3. QED BY <1>2

\* The sum over the terminals of the numbers of their PCBs is the number of PCBs.
LEMMA ProgramCountIsUsed ==
    ASSUME TypeOK, \A t \in Terminals : num_progs[t] = Cardinality(Members(t))
    PROVE  ProgramCount(num_progs) = Cardinality(global_pcb_ptrs)
<1> DEFINE g == CHOOSE g : Sums(num_progs, g, NUM_TERMINALS)
           Below(n) == {s \in global_pcb_ptrs : terminal_num[s] < n}
           Bad == {n \in Nat : n \in 0 .. NUM_TERMINALS /\ g[n] # Cardinality(Below(n))}
<1>1. NUM_TERMINALS \in Nat /\ Sums(num_progs, g, NUM_TERMINALS)
  BY SumsExist, TerminalAssumption
<1>2. ProgramCount(num_progs) = g[NUM_TERMINALS]
  BY DEF ProgramCount, Sums
<1> HIDE DEF g
<1>3. /\ g[0] = 0
      /\ \A t \in 1 .. NUM_TERMINALS : g[t] = g[t - 1] + num_progs[t - 1]
  <2>1. \A t \in 0 .. NUM_TERMINALS :
           g[t] = IF t = 0 THEN 0 ELSE g[t - 1] + num_progs[t - 1]
    BY <1>1 DEF Sums
  <2>2. QED BY <1>1, <2>1
<1>4. /\ IsFiniteSet(global_pcb_ptrs)
      /\ \A s \in global_pcb_ptrs : s \in Contexts /\ terminal_num[s] \in 0 .. NUM_TERMINALS - 1
  <2>1. IsFiniteSet(Slots) /\ global_pcb_ptrs \in SUBSET Slots
    BY ProcessAssumption, FS_Interval DEF Slots, TypeOK
  <2>2. QED BY <2>1, FS_Subset, Numbers DEF TypeOK, Terminals
<1>5. \A n : IsFiniteSet(Below(n)) /\ Cardinality(Below(n)) \in Nat
  <2>1. \A n : Below(n) \in SUBSET global_pcb_ptrs
    OBVIOUS
  <2> HIDE DEF Below
  <2>2. \A n : IsFiniteSet(Below(n))
    BY <1>4, <2>1, FS_Subset
  <2>3. QED BY <2>2, FS_CardinalityType
<1>6. ASSUME Bad # {} PROVE FALSE
  <2>1. PICK m \in Bad : \A k \in Bad : m <= k
    BY <1>6, LeastMember
  <2>2. CASE m = 0
    <3>1. Below(0) = {}
      BY <1>4
    <3>2. QED BY <1>3, <2>1, <2>2, <3>1, FS_EmptySet
  <2>3. CASE m # 0
    <3>1. m - 1 \in Nat /\ m \in 1 .. NUM_TERMINALS /\ m - 1 \in Terminals
      BY <1>1, <2>1, <2>3 DEF Terminals
    <3>2. g[m - 1] = Cardinality(Below(m - 1))
      BY <1>1, <2>1, <3>1
    <3>3. /\ Below(m) = Below(m - 1) \union Members(m - 1)
          /\ Below(m - 1) \intersect Members(m - 1) = {}
          /\ Members(m - 1) \in SUBSET global_pcb_ptrs
      BY <1>4, <3>1 DEF Members
    <3>4. IsFiniteSet(Members(m - 1)) /\ Cardinality(Members(m - 1)) \in Nat
      BY <1>4, <3>3, FS_Subset, FS_CardinalityType
    <3>5. Cardinality(Below(m)) = Cardinality(Below(m - 1)) + Cardinality(Members(m - 1))
      <4>1. Cardinality(Below(m - 1) \intersect Members(m - 1)) = 0
        BY <3>3, FS_EmptySet
      <4> HIDE DEF Below
      <4>2. Cardinality(Below(m - 1) \union Members(m - 1))
              = Cardinality(Below(m - 1)) + Cardinality(Members(m - 1))
                - Cardinality(Below(m - 1) \intersect Members(m - 1))
        BY <1>5, <3>4, FS_Union
      <4>3. QED BY <1>5, <3>3, <3>4, <4>1, <4>2
    <3>6. QED BY <1>3, <2>1, <3>1, <3>2, <3>5
  <2>4. QED BY <2>2, <2>3
<1>7. g[NUM_TERMINALS] = Cardinality(Below(NUM_TERMINALS))
  BY <1>1, <1>6
<1>8. Below(NUM_TERMINALS) = global_pcb_ptrs
  BY <1>1, <1>4
<1>9. QED BY <1>2, <1>7, <1>8

LEMMA FreeSlotLeft ==
    ASSUME TypeOK, \A t \in Terminals : num_progs[t] = Cardinality(Members(t)),
           ProgramCount(num_progs) < MAX_NUM_PROCESS
    PROVE  FreeSlots # {}
<1>1. Cardinality(Slots) = MAX_NUM_PROCESS /\ MAX_NUM_PROCESS \in Nat
  BY ProcessAssumption, FS_Interval DEF Slots
<1>2. Cardinality(global_pcb_ptrs) < MAX_NUM_PROCESS
  BY ProgramCountIsUsed
<1>3. global_pcb_ptrs # Slots
  BY <1>1, <1>2
<1>4. QED BY <1>3 DEF FreeSlots, TypeOK
-------------------------------------------------------------------------------
(* No step breaks IInv *)

FullInv == TypeInv /\ CleanInv /\ IInv

Core == Windows \subseteq SafeWindows

\* The chain, and with it the counts, only depend on the PCBs and on the tops.
LEMMA ChainFrame ==
    ASSUME TypeOK, ChainInv, CountInv,
           global_pcb_ptrs' = global_pcb_ptrs,
           \A s \in global_pcb_ptrs :
               terminal_num'[s] = terminal_num[s] /\ parent_pcb'[s] = parent_pcb[s],
           \A t \in Terminals : Depth(t)' = Depth(t) /\ TrueTop(t)' = TrueTop(t),
           \A s \in global_pcb_ptrs : place'[s] \in {"remap"} \union HandOver =>
               place[s] \in {"remap"} \union HandOver \/
               (s = TrueTop(terminal_num[s]) /\ Depth(terminal_num[s]) > 1)
    PROVE  ChainInv' /\ CountInv'
<1>1. PICK level \in [Slots -> 0 .. MAX_NUM_PROCESS] : IsChain(level)
  BY DEF ChainInv
<1>2. \A s \in global_pcb_ptrs : s \in Slots /\ terminal_num[s] \in Terminals
  BY Numbers DEF TypeOK
<1>3. \A s \in global_pcb_ptrs : place'[s] \in {"remap"} \union HandOver => level[s] > 1
  <2>1. SUFFICES ASSUME NEW s \in global_pcb_ptrs, place'[s] \in {"remap"} \union HandOver
                 PROVE  level[s] > 1
    OBVIOUS
  <2>2. CASE place[s] \in {"remap"} \union HandOver
    BY <1>1, <2>2 DEF IsChain
  <2>3. CASE s = TrueTop(terminal_num[s]) /\ Depth(terminal_num[s]) > 1
    <3>1. Depth(terminal_num[s]) \in Nat
      BY <1>2 DEF ChainInv
    <3>2. level[s] = Depth(terminal_num[s])
      BY <1>1, <1>2, <2>3, <3>1 DEF IsChain
    <3>3. QED BY <2>3, <3>1, <3>2
  <2>4. QED BY <2>1, <2>2, <2>3
<1>4. IsChain(level)'
  BY <1>1, <1>2, <1>3 DEF IsChain
<1>5. ChainInv'
  BY <1>1, <1>4 DEF ChainInv
<1>6. CountInv'
  BY DEF CountInv, Members
<1>7. QED BY <1>5, <1>6

\* Where the current context is, when it runs a step of its own.
LEMMA Current ==
    ASSUME TypeOK, BootInv, PlaceInv, cur \in Contexts, place[cur] # "boot"
    PROVE  /\ cur \in Slots
           /\ place[cur] \notin GhostSteps => cur \in global_pcb_ptrs
<1>1. cur \in Slots
  BY Numbers DEF BootInv, Contexts
<1>2. place[cur] \notin GhostSteps => cur \in global_pcb_ptrs
  BY <1>1 DEF PlaceInv
<1>3. QED BY <1>1, <1>2

LEMMA CallStep ==
    ASSUME Core, FullInv, CallHalt \/ Fault
    PROVE  IInv'
<1> USE DEF pcbVars, termVars, hwVars, haltVars
<1>1. At("run") /\ MayEnd
  BY DEF CallHalt, Fault, MayEnd
<1>2. cur \in Slots /\ cur \in global_pcb_ptrs /\ place[cur] = "run" /\ ~launching
  BY <1>1, Current DEF At, FullInv, TypeInv, IInv, GhostSteps
<1>3. /\ place' \in {[place EXCEPT ![cur] = "halt"], [place EXCEPT ![cur] = "fault"]}
      /\ UNCHANGED <<global_pcb_ptrs, pcbVars, termVars, displayed_terminal, hwVars,
                     user_video, cur, launching, haltVars>>
  BY DEF CallHalt, Fault, Goto
<1>4. /\ place' \in [Contexts -> Places]
      /\ \A c \in Contexts \ {cur} : place'[c] = place[c]
      /\ place'[cur] \in {"halt", "fault"}
  BY <1>2, <1>3, Numbers DEF FullInv, TypeInv, TypeOK, Places, HaltSteps
<1>5. \A t \in Terminals : Depth(t)' = Depth(t) /\ TrueTop(t)' = TrueTop(t)
  BY <1>2, <1>3, <1>4 DEF Depth, TrueTop
<1>6. BootInv' /\ PlaceInv'
  BY <1>2, <1>3, <1>4, Numbers DEF FullInv, IInv, BootInv, PlaceInv, GhostSteps
<1>7. LocalsInv'
  BY <1>2, <1>3, <1>4, Numbers DEF FullInv, IInv, LocalsInv, TypeInv, TypeOK
<1>8. ChainInv' /\ CountInv'
  BY <1>2, <1>3, <1>4, <1>5, ChainFrame, Numbers DEF FullInv, IInv, TypeInv, TypeOK, HandOver
<1>9. ReturnInv' /\ StackInv'
  BY <1>2, <1>3, <1>4, <1>5, Numbers
     DEF FullInv, IInv, ReturnInv, StackInv, TypeInv, TypeOK
<1>10. RegsInv' /\ LaunchInv' /\ DisplayInv'
  BY <1>2, <1>3, <1>4, <1>5, Numbers
     DEF FullInv, TypeInv, TypeOK, IInv, DisplayInv, RegsInv, LaunchInv, HandOver
<1>11. DirInv' /\ VideoInv'
  BY <1>2, <1>3, <1>4, <1>5, Numbers
     DEF FullInv, IInv, DirInv, VideoInv, TypeInv, TypeOK, WipedSteps, HandOver, Wanted
<1>12. LastInv'
  BY <1>1, <1>2, <1>3, <1>4, Numbers
     DEF FullInv, IInv, LastInv, TypeInv, TypeOK, LastSteps, MayEnd, InForeground, Core, SafeWindows
<1>13. QED
  BY <1>6, <1>7, <1>8, <1>9, <1>10, <1>11, <1>12 DEF IInv

\* A process that runs a step of its own and still has a PCB is the innermost of
\* its terminal.
LEMMA CurrentIsTop ==
    ASSUME TypeOK, ChainInv, StackInv, PlaceInv, cur \in global_pcb_ptrs
    PROVE  /\ cur = TrueTop(terminal_num[cur])
           /\ terminal_num[cur] \in Terminals
           /\ Depth(terminal_num[cur]) \in Nat \ {0}
<1>1. cur \in Slots /\ terminal_num[cur] \in Terminals
  BY Numbers DEF TypeOK
<1>2. place[cur] # "exec"
  BY <1>1 DEF PlaceInv
<1>3. cur = TrueTop(terminal_num[cur])
  BY <1>2 DEF StackInv
<1>4. PICK level \in [Slots -> 0 .. MAX_NUM_PROCESS] : IsChain(level)
  BY DEF ChainInv
<1>5. level[cur] \in Nat /\ Depth(terminal_num[cur]) \in Nat
  BY <1>1, <1>4 DEF ChainInv
<1>6. 1 <= level[cur] /\ level[cur] <= Depth(terminal_num[cur])
  BY <1>4 DEF IsChain
<1>7. QED BY <1>1, <1>3, <1>5, <1>6

\* A process that is handing over is the innermost of its terminal, and its parent
\* is blocked in execute, one further down in the same terminal.
Handing ==
    LET parent == halt_parent[cur] IN
    /\ terminal_num[cur] \in Terminals
    /\ halt_parent[cur] = parent_pcb[cur] /\ halt_terminal[cur] = terminal_num[cur]
    /\ cur = TrueTop(terminal_num[cur])
    /\ parent \in global_pcb_ptrs /\ parent \in Slots /\ parent # cur
    /\ terminal_num[parent] = terminal_num[cur]
    /\ place[parent] = "exec" /\ esp[parent] = "exec" /\ esp0[parent] = parent
    /\ pg_dir[parent] = parent /\ user_video[parent] # Unmapped
    /\ Depth(terminal_num[cur]) > 1

LEMMA HaltParent ==
    ASSUME TypeOK, PlaceInv, ChainInv, StackInv, LocalsInv, DirInv,
           cur \in global_pcb_ptrs, place[cur] \in {"remap"} \union HandOver
    PROVE  Handing
<1>1. cur \in Slots /\ terminal_num[cur] \in Terminals
  BY Numbers DEF TypeOK
<1>2. halt_parent[cur] = parent_pcb[cur] /\ halt_terminal[cur] = terminal_num[cur]
  BY DEF LocalsInv, HaltSteps, HandOver
<1>3. PICK level \in [Slots -> 0 .. MAX_NUM_PROCESS] : IsChain(level)
  BY DEF ChainInv
<1>4. level[cur] > 1
  BY <1>3 DEF IsChain
<1>5. /\ parent_pcb[cur] \in global_pcb_ptrs
      /\ terminal_num[parent_pcb[cur]] = terminal_num[cur]
      /\ level[parent_pcb[cur]] = level[cur] - 1
  BY <1>3, <1>4 DEF IsChain
<1>6. level[cur] \in Nat /\ level[cur] <= Depth(terminal_num[cur])
      /\ Depth(terminal_num[cur]) \in Nat
  BY <1>1, <1>3 DEF IsChain, ChainInv
<1>7. parent_pcb[cur] # cur
  BY <1>5, <1>6
<1>8. cur = TrueTop(terminal_num[cur])
  BY CurrentIsTop
<1>9. place[parent_pcb[cur]] = "exec"
  BY <1>5, <1>7, <1>8 DEF StackInv
<1>10. QED
  BY <1>1, <1>2, <1>4, <1>5, <1>6, <1>7, <1>8, <1>9, Numbers
     DEF Handing, StackInv, DirInv, WipedSteps, TypeOK

\* FullInv opened up, for the lemmas about one action each.
LEMMA Parts ==
    ASSUME FullInv
    PROVE  /\ TypeOK /\ ParentKnown /\ OwnDir /\ Wiped /\ FreeSlotsClean
           /\ BootInv /\ PlaceInv /\ LocalsInv /\ ChainInv /\ ReturnInv /\ StackInv
           /\ RegsInv /\ DirInv /\ VideoInv /\ LastInv /\ LaunchInv
              /\ DisplayInv /\ CountInv
  BY DEF FullInv, TypeInv, CleanInv, IInv

LEMMA HaltEntryStep ==
    ASSUME Core, FullInv, HaltEntry
    PROVE  IInv'
<1> USE Parts, Numbers DEF pcbVars, termVars, hwVars
<1>1. At("halt") \/ At("fault")
  BY DEF HaltEntry
<1>2. cur \in Slots /\ cur \in global_pcb_ptrs /\ place[cur] \in {"halt", "fault"} /\ ~launching
  BY <1>1, Current DEF At, GhostSteps
<1>3. /\ place' = [place EXCEPT ![cur] = "test"]
      /\ halt_parent' = [halt_parent EXCEPT ![cur] = parent_pcb[cur]]
      /\ halt_terminal' = [halt_terminal EXCEPT ![cur] = terminal_num[cur]]
      /\ UNCHANGED <<global_pcb_ptrs, pcbVars, termVars, displayed_terminal, hwVars,
                     user_video, cur, launching>>
  BY DEF HaltEntry, Goto
<1>4. /\ \A c \in Contexts \ {cur} : place'[c] = place[c]
      /\ place'[cur] = "test"
  BY <1>2, <1>3 DEF TypeOK
<1>5. \A t \in Terminals : Depth(t)' = Depth(t) /\ TrueTop(t)' = TrueTop(t)
  BY <1>2, <1>3, <1>4 DEF Depth, TrueTop
<1>6. BootInv' /\ PlaceInv'
  BY <1>2, <1>3, <1>4 DEF BootInv, PlaceInv, GhostSteps
<1>7. LocalsInv'
  BY <1>2, <1>3, <1>4 DEF LocalsInv, TypeOK
<1>8. ChainInv' /\ CountInv'
  BY <1>2, <1>3, <1>4, <1>5, ChainFrame DEF TypeOK, HandOver
<1>9. ReturnInv' /\ StackInv'
  BY <1>2, <1>3, <1>4, <1>5 DEF ReturnInv, StackInv, TypeOK
<1>10. RegsInv' /\ LaunchInv' /\ DisplayInv'
  BY <1>2, <1>3, <1>4, <1>5 DEF TypeOK, DisplayInv, RegsInv, LaunchInv, HandOver
<1>11. DirInv' /\ VideoInv'
  BY <1>2, <1>3, <1>4, <1>5 DEF DirInv, VideoInv, TypeOK, WipedSteps, HandOver, Wanted
<1>12. LastInv'
  BY <1>2, <1>3, <1>4 DEF LastInv, TypeOK, LastSteps
<1>13. QED
  BY <1>6, <1>7, <1>8, <1>9, <1>10, <1>11, <1>12 DEF IInv

LEMMA HaltTestStep ==
    ASSUME Core, FullInv, HaltTest
    PROVE  IInv'
<1> USE Parts, Numbers DEF pcbVars, termVars, haltVars
<1>1. cur \in Slots /\ cur \in global_pcb_ptrs /\ place[cur] = "test" /\ ~launching
  BY Current DEF HaltTest, At, GhostSteps
<1>2. /\ halt_terminal[cur] = terminal_num[cur] /\ halt_parent[cur] = parent_pcb[cur]
      /\ terminal_num[cur] \in Terminals
  BY <1>1 DEF LocalsInv, HaltSteps, TypeOK
<1>3. /\ Depth(terminal_num[cur]) = num_progs[terminal_num[cur]]
      /\ Depth(terminal_num[cur]) \in Nat \ {0}
      /\ cur = TrueTop(terminal_num[cur])
  BY <1>1, <1>2, CurrentIsTop DEF Depth
<1>4. /\ \A c \in Contexts \ {cur} : place'[c] = place[c]
      /\ place'[cur] = IF num_progs[terminal_num[cur]] = 1 THEN "last_cr3" ELSE "remap"
      /\ tss_esp0' = cur
      /\ UNCHANGED <<global_pcb_ptrs, pcbVars, termVars, displayed_terminal, cr3,
                     user_video, cur, launching, haltVars>>
  BY <1>1, <1>2 DEF HaltTest, Goto, TypeOK, RegsInv, HandOver
<1>5. \A t \in Terminals : Depth(t)' = Depth(t) /\ TrueTop(t)' = TrueTop(t)
  BY <1>1, <1>4 DEF Depth, TrueTop
<1>6. BootInv' /\ PlaceInv'
  BY <1>1, <1>4 DEF BootInv, PlaceInv, GhostSteps
<1>7. LocalsInv'
  BY <1>1, <1>2, <1>4 DEF LocalsInv, TypeOK
<1>8. ChainInv' /\ CountInv'
  <2>1. \A s \in global_pcb_ptrs : place'[s] \in {"remap"} \union HandOver =>
               place[s] \in {"remap"} \union HandOver \/
               (s = TrueTop(terminal_num[s]) /\ Depth(terminal_num[s]) > 1)
    BY <1>1, <1>3, <1>4 DEF HandOver, TypeOK
  <2>2. QED
    BY <1>4, <1>5, <2>1, ChainFrame
<1>9. ReturnInv' /\ StackInv'
  BY <1>1, <1>4, <1>5 DEF ReturnInv, StackInv, TypeOK
<1>10. RegsInv' /\ LaunchInv' /\ DisplayInv'
  BY <1>1, <1>4, <1>5 DEF TypeOK, DisplayInv, RegsInv, LaunchInv, HandOver
<1>11. DirInv' /\ VideoInv'
  BY <1>1, <1>4, <1>5 DEF DirInv, VideoInv, TypeOK, WipedSteps, HandOver, Wanted
<1>12. LastInv'
  BY <1>1, <1>2, <1>4 DEF LastInv, TypeOK, LastSteps
<1>13. QED
  BY <1>6, <1>7, <1>8, <1>9, <1>10, <1>11, <1>12 DEF IInv

LEMMA HaltRemapStep ==
    ASSUME Core, FullInv, HaltRemap
    PROVE  IInv'
<1> USE Parts, Numbers DEF pcbVars, termVars, hwVars, haltVars
<1>1. cur \in Slots /\ cur \in global_pcb_ptrs /\ place[cur] = "remap" /\ ~launching
  BY Current DEF HaltRemap, At, GhostSteps
<1>2. Handing
  BY <1>1, HaltParent DEF HandOver
<1> USE DEF Handing
<1>3. /\ \A c \in Contexts \ {cur} : place'[c] = place[c]
      /\ place'[cur] = "tss"
      /\ user_video' = [user_video EXCEPT ![halt_parent[cur]] = Wanted(terminal_num[cur])]
      /\ UNCHANGED <<global_pcb_ptrs, pcbVars, termVars, displayed_terminal, hwVars, cur,
                     launching, haltVars>>
  BY <1>1, <1>2 DEF HaltRemap, RemapUserVideo, Wanted, Goto, TypeOK, RegsInv, HandOver
<1>4. \A t \in Terminals : Depth(t)' = Depth(t) /\ TrueTop(t)' = TrueTop(t)
  BY <1>1, <1>2, <1>3 DEF Depth, TrueTop, TypeOK
<1>5. BootInv' /\ PlaceInv'
  BY <1>1, <1>3 DEF BootInv, PlaceInv, GhostSteps
<1>6. LocalsInv'
  BY <1>1, <1>2, <1>3 DEF LocalsInv, TypeOK
<1>7. ChainInv' /\ CountInv'
  BY <1>1, <1>3, <1>4, ChainFrame DEF TypeOK, HandOver
<1>8. ReturnInv' /\ StackInv'
  BY <1>1, <1>2, <1>3, <1>4 DEF ReturnInv, StackInv, TypeOK
<1>9. RegsInv' /\ LaunchInv' /\ DisplayInv'
  BY <1>1, <1>2, <1>3, <1>4 DEF TypeOK, DisplayInv, RegsInv, LaunchInv, HandOver
<1>10. DirInv' /\ VideoInv'
  BY <1>1, <1>2, <1>3, <1>4 DEF DirInv, VideoInv, TypeOK, WipedSteps, HandOver, Wanted
<1>11. LastInv'
  BY <1>1, <1>2, <1>3 DEF LastInv, TypeOK, LastSteps
<1>12. QED
  BY <1>5, <1>6, <1>7, <1>8, <1>9, <1>10, <1>11 DEF IInv

LEMMA HaltSetTssStep ==
    ASSUME Core, FullInv, HaltSetTss
    PROVE  IInv'
<1> USE Parts, Numbers DEF pcbVars, termVars, hwVars, haltVars
<1>1. cur \in Slots /\ cur \in global_pcb_ptrs /\ place[cur] = "tss" /\ ~launching
  BY Current DEF HaltSetTss, At, GhostSteps
<1>2. Handing
  BY <1>1, HaltParent DEF HandOver
<1> USE DEF Handing
<1>3. /\ \A c \in Contexts \ {cur} : place'[c] = place[c]
      /\ place'[cur] = "cr3"
      /\ tss_esp0' = halt_parent[cur]
      /\ UNCHANGED <<global_pcb_ptrs, pcbVars, termVars, displayed_terminal, cr3, user_video,
                     cur, launching, haltVars>>
  BY <1>1, <1>2 DEF HaltSetTss, Goto, TypeOK, RegsInv, HandOver
<1>4. \A t \in Terminals : Depth(t)' = Depth(t) /\ TrueTop(t)' = TrueTop(t)
  BY <1>1, <1>2, <1>3 DEF Depth, TrueTop, TypeOK
<1>5. BootInv' /\ PlaceInv'
  BY <1>1, <1>3 DEF BootInv, PlaceInv, GhostSteps
<1>6. LocalsInv'
  BY <1>1, <1>2, <1>3 DEF LocalsInv, TypeOK
<1>7. ChainInv' /\ CountInv'
  BY <1>1, <1>3, <1>4, ChainFrame DEF TypeOK, HandOver
<1>8. ReturnInv' /\ StackInv'
  BY <1>1, <1>2, <1>3, <1>4 DEF ReturnInv, StackInv, TypeOK
<1>9. RegsInv' /\ LaunchInv' /\ DisplayInv'
  BY <1>1, <1>2, <1>3, <1>4 DEF TypeOK, DisplayInv, RegsInv, LaunchInv, HandOver
<1>10. DirInv' /\ VideoInv'
  BY <1>1, <1>2, <1>3, <1>4 DEF DirInv, VideoInv, TypeOK, WipedSteps, HandOver, Wanted
<1>11. LastInv'
  BY <1>1, <1>2, <1>3 DEF LastInv, TypeOK, LastSteps
<1>12. QED
  BY <1>5, <1>6, <1>7, <1>8, <1>9, <1>10, <1>11 DEF IInv

LEMMA HaltSetCr3Step ==
    ASSUME Core, FullInv, HaltSetCr3
    PROVE  IInv'
<1> USE Parts, Numbers DEF pcbVars, termVars, hwVars, haltVars
<1>1. cur \in Slots /\ cur \in global_pcb_ptrs /\ place[cur] = "cr3" /\ ~launching
  BY Current DEF HaltSetCr3, At, GhostSteps
<1>2. Handing
  BY <1>1, HaltParent DEF HandOver
<1> USE DEF Handing
<1>3. /\ \A c \in Contexts \ {cur} : place'[c] = place[c]
      /\ place'[cur] = "cleanup"
      /\ cr3' = halt_parent[cur]
      /\ UNCHANGED <<global_pcb_ptrs, pcbVars, termVars, displayed_terminal, tss_esp0,
                     user_video, cur, launching, haltVars>>
  BY <1>1, <1>2 DEF HaltSetCr3, Usable, Goto, TypeOK, RegsInv, HandOver
<1>4. \A t \in Terminals : Depth(t)' = Depth(t) /\ TrueTop(t)' = TrueTop(t)
  BY <1>1, <1>2, <1>3 DEF Depth, TrueTop, TypeOK
<1>5. BootInv' /\ PlaceInv'
  BY <1>1, <1>3 DEF BootInv, PlaceInv, GhostSteps
<1>6. LocalsInv'
  BY <1>1, <1>2, <1>3 DEF LocalsInv, TypeOK
<1>7. ChainInv' /\ CountInv'
  BY <1>1, <1>3, <1>4, ChainFrame DEF TypeOK, HandOver
<1>8. ReturnInv' /\ StackInv'
  BY <1>1, <1>2, <1>3, <1>4 DEF ReturnInv, StackInv, TypeOK
<1>9. RegsInv' /\ LaunchInv' /\ DisplayInv'
  BY <1>1, <1>2, <1>3, <1>4 DEF TypeOK, DisplayInv, RegsInv, LaunchInv, HandOver
<1>10. DirInv' /\ VideoInv'
  BY <1>1, <1>2, <1>3, <1>4 DEF DirInv, VideoInv, TypeOK, WipedSteps, HandOver, Wanted
<1>11. LastInv'
  BY <1>1, <1>2, <1>3 DEF LastInv, TypeOK, LastSteps
<1>12. QED
  BY <1>5, <1>6, <1>7, <1>8, <1>9, <1>10, <1>11 DEF IInv

LEMMA HaltCleanupStep ==
    ASSUME Core, FullInv, HaltCleanup
    PROVE  IInv'
<1> USE Parts, Numbers DEF pcbVars, termVars, hwVars, haltVars
<1>1. cur \in Slots /\ cur \in global_pcb_ptrs /\ place[cur] = "cleanup" /\ ~launching
  BY Current DEF HaltCleanup, At, GhostSteps
<1>2. Handing
  BY <1>1, HaltParent DEF HandOver
<1> USE DEF Handing
<1>3. /\ \A c \in Contexts \ {cur} : place'[c] = place[c]
      /\ place'[cur] = "top"
      /\ user_video' = [user_video EXCEPT ![cur] = Unmapped]
      /\ UNCHANGED <<global_pcb_ptrs, pcbVars, termVars, displayed_terminal, hwVars, cur,
                     launching, haltVars>>
  BY <1>1, <1>2 DEF HaltCleanup, CleanupPgDir, DirInv, Goto, TypeOK, RegsInv, HandOver
<1>4. \A t \in Terminals : Depth(t)' = Depth(t) /\ TrueTop(t)' = TrueTop(t)
  BY <1>1, <1>2, <1>3 DEF Depth, TrueTop, TypeOK
<1>5. BootInv' /\ PlaceInv'
  BY <1>1, <1>3 DEF BootInv, PlaceInv, GhostSteps
<1>6. LocalsInv'
  BY <1>1, <1>2, <1>3 DEF LocalsInv, TypeOK
<1>7. ChainInv' /\ CountInv'
  BY <1>1, <1>3, <1>4, ChainFrame DEF TypeOK, HandOver
<1>8. ReturnInv' /\ StackInv'
  BY <1>1, <1>2, <1>3, <1>4 DEF ReturnInv, StackInv, TypeOK
<1>9. RegsInv' /\ LaunchInv' /\ DisplayInv'
  BY <1>1, <1>2, <1>3, <1>4 DEF TypeOK, DisplayInv, RegsInv, LaunchInv, HandOver
<1>10. DirInv' /\ VideoInv'
  BY <1>1, <1>2, <1>3, <1>4 DEF DirInv, VideoInv, TypeOK, WipedSteps, HandOver, Wanted
<1>11. LastInv'
  BY <1>1, <1>2, <1>3 DEF LastInv, TypeOK, LastSteps
<1>12. QED
  BY <1>5, <1>6, <1>7, <1>8, <1>9, <1>10, <1>11 DEF IInv

LEMMA HaltSetTopStep ==
    ASSUME Core, FullInv, HaltSetTop
    PROVE  IInv'
<1> USE Parts, Numbers DEF pcbVars, termVars, hwVars, haltVars
<1>1. cur \in Slots /\ cur \in global_pcb_ptrs /\ place[cur] = "top" /\ ~launching
  BY Current DEF HaltSetTop, At, GhostSteps
<1>2. Handing
  BY <1>1, HaltParent DEF HandOver
<1> USE DEF Handing
<1>3. /\ \A c \in Contexts \ {cur} : place'[c] = place[c]
      /\ place'[cur] = "count"
      /\ top_process' = [top_process EXCEPT ![terminal_num[cur]] = halt_parent[cur]]
      /\ UNCHANGED <<global_pcb_ptrs, pcbVars, num_progs, displayed_terminal, hwVars,
                     user_video, cur, launching, haltVars>>
  BY <1>1, <1>2 DEF HaltSetTop, Goto, TypeOK, RegsInv, HandOver
<1>4. \A t \in Terminals : Depth(t)' = Depth(t) /\ TrueTop(t)' = TrueTop(t)
  BY <1>1, <1>2, <1>3 DEF Depth, TrueTop, TypeOK
<1>5. BootInv' /\ PlaceInv'
  BY <1>1, <1>3 DEF BootInv, PlaceInv, GhostSteps
<1>6. LocalsInv'
  BY <1>1, <1>2, <1>3 DEF LocalsInv, TypeOK
<1>7. ChainInv' /\ CountInv'
  BY <1>1, <1>3, <1>4, ChainFrame DEF TypeOK, HandOver
<1>8. ReturnInv' /\ StackInv'
  BY <1>1, <1>2, <1>3, <1>4 DEF ReturnInv, StackInv, TypeOK
<1>9. RegsInv' /\ LaunchInv' /\ DisplayInv'
  BY <1>1, <1>2, <1>3, <1>4 DEF TypeOK, DisplayInv, RegsInv, LaunchInv, HandOver
<1>10. DirInv' /\ VideoInv'
  BY <1>1, <1>2, <1>3, <1>4 DEF DirInv, VideoInv, TypeOK, WipedSteps, HandOver, Wanted
<1>11. LastInv'
  BY <1>1, <1>2, <1>3 DEF LastInv, TypeOK, LastSteps
<1>12. QED
  BY <1>5, <1>6, <1>7, <1>8, <1>9, <1>10, <1>11 DEF IInv

LEMMA HaltCountStep ==
    ASSUME Core, FullInv, HaltCount
    PROVE  IInv'
<1> USE Parts, Numbers DEF pcbVars, termVars, hwVars, haltVars
<1>1. cur \in Slots /\ cur \in global_pcb_ptrs /\ place[cur] = "count" /\ ~launching
  BY Current DEF HaltCount, At, GhostSteps
<1>2. Handing
  BY <1>1, HaltParent DEF HandOver
<1> USE DEF Handing
<1>3. /\ \A c \in Contexts \ {cur} : place'[c] = place[c]
      /\ place'[cur] = "destroy"
      /\ num_progs' = [num_progs EXCEPT ![terminal_num[cur]] = @ - 1]
      /\ UNCHANGED <<global_pcb_ptrs, pcbVars, top_process, displayed_terminal, hwVars,
                     user_video, cur, launching, haltVars>>
  BY <1>1, <1>2 DEF HaltCount, CountDown, Goto, TypeOK, RegsInv, HandOver
<1>4. \A t \in Terminals : Depth(t)' = Depth(t) /\ TrueTop(t)' = TrueTop(t)
  <2>1. \A t \in Terminals : TrueTop(t)' = TrueTop(t)
    BY <1>1, <1>2, <1>3 DEF TrueTop
  <2>2. SUFFICES ASSUME NEW t \in Terminals PROVE Depth(t)' = Depth(t)
    BY <2>1
  <2>3. num_progs[t] \in Int
    BY DEF TypeOK
  <2>4. CASE t = terminal_num[cur]
    BY <1>1, <1>2, <1>3, <2>3, <2>4 DEF Depth, TypeOK
  <2>5. CASE t # terminal_num[cur]
    BY <1>1, <1>2, <1>3, <2>3, <2>5 DEF Depth, TypeOK
  <2>6. QED BY <2>4, <2>5
<1>5. BootInv' /\ PlaceInv'
  BY <1>1, <1>3 DEF BootInv, PlaceInv, GhostSteps
<1>6. LocalsInv'
  BY <1>1, <1>2, <1>3 DEF LocalsInv, TypeOK
<1>7. ChainInv' /\ CountInv'
  BY <1>1, <1>3, <1>4, ChainFrame DEF TypeOK, HandOver
<1>8. ReturnInv' /\ StackInv'
  BY <1>1, <1>2, <1>3, <1>4 DEF ReturnInv, StackInv, TypeOK
<1>9. RegsInv' /\ LaunchInv' /\ DisplayInv'
  BY <1>1, <1>2, <1>3, <1>4 DEF TypeOK, DisplayInv, RegsInv, LaunchInv, HandOver
<1>10. DirInv' /\ VideoInv'
  BY <1>1, <1>2, <1>3, <1>4 DEF DirInv, VideoInv, TypeOK, WipedSteps, HandOver, Wanted
<1>11. LastInv'
  <2>1. \A s \in global_pcb_ptrs : terminal_num[s] \in Terminals /\ s \in Contexts
    BY DEF TypeOK
  <2>2. \A s \in global_pcb_ptrs : s # cur => place'[s] = place[s]
    BY <1>3, <2>1
  <2>3. \A s \in global_pcb_ptrs :
           s # cur /\ terminal_num[s] = terminal_num[cur] => place'[s] = "exec"
    BY <1>2, <2>2 DEF StackInv
  <2>4. \A s \in global_pcb_ptrs :
           terminal_num[s] # terminal_num[cur] =>
               num_progs'[terminal_num[s]] = num_progs[terminal_num[s]]
    BY <1>2, <1>3, <2>1 DEF TypeOK
  <2>5. \A s \in global_pcb_ptrs :
          /\ place'[s] \in LastSteps => num_progs'[terminal_num[s]] = 1
          /\ place'[s] \in {"halt", "fault", "test"} \union LastSteps
                /\ num_progs'[terminal_num[s]] = 1 => terminal_num[s] = displayed_terminal
    BY <1>1, <1>3, <2>2, <2>3, <2>4 DEF LastInv, LastSteps
  <2>6. QED
    BY <1>1, <1>3, <2>5 DEF LastInv
<1>12. QED
  BY <1>5, <1>6, <1>7, <1>8, <1>9, <1>10, <1>11 DEF IInv

\* The PCBs of a terminal can be counted.
LEMMA MembersFinite ==
    ASSUME TypeOK, NEW t
    PROVE  IsFiniteSet(Members(t)) /\ Cardinality(Members(t)) \in Nat
<1>1. IsFiniteSet(Slots)
  BY ProcessAssumption, FS_Interval DEF Slots
<1>2. Members(t) \in SUBSET Slots
  BY DEF Members, TypeOK
<1>3. QED
  BY <1>1, <1>2, FS_Subset, FS_CardinalityType

\* Taking the innermost program of a terminal out of the PCBs shortens its chain.
LEMMA ChainShrinks ==
    ASSUME TypeOK, ChainInv, CountInv, NEW c \in global_pcb_ptrs,
           c = TrueTop(terminal_num[c]), Depth(terminal_num[c]) > 0,
           global_pcb_ptrs' = global_pcb_ptrs \ {c},
           \A s \in global_pcb_ptrs \ {c} :
               terminal_num'[s] = terminal_num[s] /\ parent_pcb'[s] = parent_pcb[s],
           \A t \in Terminals :
               /\ Depth(t)' = IF t = terminal_num[c] THEN Depth(t) - 1 ELSE Depth(t)
               /\ t # terminal_num[c] => TrueTop(t)' = TrueTop(t),
           Depth(terminal_num[c]) > 1 => parent_pcb[c] = top_process'[terminal_num[c]],
           \A t \in Terminals : t = terminal_num[c] => TrueTop(t)' = top_process'[t],
           \A s \in global_pcb_ptrs \ {c} : place'[s] \in {"remap"} \union HandOver =>
               place[s] \in {"remap"} \union HandOver
    PROVE  ChainInv' /\ CountInv'
<1>1. PICK level \in [Slots -> 0 .. MAX_NUM_PROCESS] : IsChain(level)
  BY DEF ChainInv
<1>2. \A s \in global_pcb_ptrs : s \in Slots /\ terminal_num[s] \in Terminals
                                 /\ level[s] \in Nat
  BY <1>1, Numbers DEF TypeOK
<1>3. \A t \in Terminals : Depth(t) \in Nat /\ Depth(t)' \in Nat
  BY <1>2 DEF ChainInv
<1>4. level[c] = Depth(terminal_num[c])
  BY <1>1, <1>2 DEF IsChain
<1>5. \A s \in global_pcb_ptrs \ {c} :
         terminal_num[s] = terminal_num[c] => level[s] <= Depth(terminal_num[c]) - 1
  <2>1. SUFFICES ASSUME NEW s \in global_pcb_ptrs \ {c}, terminal_num[s] = terminal_num[c]
                 PROVE  level[s] <= Depth(terminal_num[c]) - 1
    OBVIOUS
  <2>2. level[s] <= Depth(terminal_num[c]) /\ level[s] # level[c]
    BY <1>1, <2>1 DEF IsChain
  <2>3. QED BY <1>2, <1>3, <1>4, <2>1, <2>2
<1>6. \A s \in global_pcb_ptrs' : 1 <= level[s] /\ level[s] <= Depth(terminal_num[s])'
  BY <1>1, <1>2, <1>3, <1>5 DEF IsChain
<1>7. \A s \in global_pcb_ptrs' : level[s] > 1 =>
          /\ parent_pcb'[s] \in global_pcb_ptrs'
          /\ terminal_num'[parent_pcb'[s]] = terminal_num'[s]
          /\ level[parent_pcb'[s]] = level[s] - 1
  <2>1. SUFFICES ASSUME NEW s \in global_pcb_ptrs \ {c}, level[s] > 1
                 PROVE  /\ parent_pcb[s] \in global_pcb_ptrs \ {c}
                        /\ terminal_num[parent_pcb[s]] = terminal_num[s]
                        /\ level[parent_pcb[s]] = level[s] - 1
    OBVIOUS
  <2>2. /\ parent_pcb[s] \in global_pcb_ptrs
        /\ terminal_num[parent_pcb[s]] = terminal_num[s]
        /\ level[parent_pcb[s]] = level[s] - 1
    BY <1>1, <2>1 DEF IsChain
  <2>3. parent_pcb[s] # c
    BY <1>2, <1>3, <1>4, <1>5, <2>1, <2>2
  <2>4. QED BY <2>2, <2>3
<1>8. ASSUME NEW t \in Terminals, Depth(t)' > 0
      PROVE  /\ TrueTop(t)' \in global_pcb_ptrs'
             /\ terminal_num'[TrueTop(t)'] = t
             /\ level[TrueTop(t)'] = Depth(t)'
  <2>1. CASE t = terminal_num[c]
    <3>1. Depth(terminal_num[c]) > 1 /\ TrueTop(t)' = parent_pcb[c]
      BY <1>2, <1>3, <1>8, <2>1
    <3>2. /\ parent_pcb[c] \in global_pcb_ptrs
          /\ terminal_num[parent_pcb[c]] = terminal_num[c]
          /\ level[parent_pcb[c]] = level[c] - 1
      BY <1>1, <1>4, <3>1 DEF IsChain
    <3>3. parent_pcb[c] # c
      BY <1>2, <3>2
    <3>4. QED BY <1>4, <2>1, <3>1, <3>2, <3>3
  <2>2. CASE t # terminal_num[c]
    <3>1. /\ TrueTop(t) \in global_pcb_ptrs
          /\ terminal_num[TrueTop(t)] = t
          /\ level[TrueTop(t)] = Depth(t)
      BY <1>1, <1>8, <2>2 DEF IsChain
    <3>2. QED BY <2>2, <3>1
  <2>3. QED BY <2>1, <2>2
<1>9. \A r, s \in global_pcb_ptrs' :
          terminal_num'[r] = terminal_num'[s] /\ level[r] = level[s] => r = s
  BY <1>1 DEF IsChain
<1>10. \A s \in global_pcb_ptrs' : place'[s] \in {"remap"} \union HandOver => level[s] > 1
  BY <1>1 DEF IsChain
<1>11. IsChain(level)'
  BY <1>6, <1>7, <1>8, <1>9, <1>10 DEF IsChain
<1>12. ChainInv'
  BY <1>1, <1>3, <1>11 DEF ChainInv
<1>13. CountInv'
  <2>1. SUFFICES ASSUME NEW t \in Terminals PROVE Depth(t)' = Cardinality(Members(t)')
    BY DEF CountInv
  <2>2. Depth(t) = Cardinality(Members(t)) /\ IsFiniteSet(Members(t))
    BY MembersFinite DEF CountInv
  <2>3. CASE t = terminal_num[c]
    <3>1. Members(t)' = Members(t) \ {c} /\ c \in Members(t)
      BY <2>3 DEF Members
    <3>2. Cardinality(Members(t) \ {c}) = Cardinality(Members(t)) - 1
      BY <2>2, <3>1, FS_RemoveElement
    <3>3. QED BY <2>2, <2>3, <3>1, <3>2
  <2>4. CASE t # terminal_num[c]
    <3>1. Members(t)' = Members(t)
      BY <2>4 DEF Members
    <3>2. QED BY <2>2, <2>4, <3>1
  <2>5. QED BY <2>3, <2>4
<1>14. QED BY <1>12, <1>13

LEMMA HaltDestroyStep ==
    ASSUME Core, FullInv, HaltDestroy
    PROVE  IInv'
<1> USE Parts, Numbers DEF termVars, hwVars, haltVars
<1>1. cur \in Slots /\ cur \in global_pcb_ptrs /\ place[cur] = "destroy" /\ ~launching
  BY Current DEF HaltDestroy, At, GhostSteps
<1>2. Handing /\ top_process[terminal_num[cur]] = halt_parent[cur]
  BY <1>1, HaltParent DEF HandOver, ReturnInv, Handing
<1> USE DEF Handing
<1>3. /\ \A c \in Contexts \ {cur} :
            /\ place'[c] = place[c] /\ parent_pcb'[c] = parent_pcb[c]
            /\ terminal_num'[c] = terminal_num[c] /\ pg_dir'[c] = pg_dir[c]
            /\ esp'[c] = esp[c] /\ esp0'[c] = esp0[c]
      /\ place'[cur] = "return"
      /\ global_pcb_ptrs' = global_pcb_ptrs \ {cur}
      /\ UNCHANGED <<termVars, displayed_terminal, hwVars, user_video, cur, launching,
                     haltVars>>
  BY <1>1, <1>2 DEF HaltDestroy, DestroyPcb, ClearPcb, Goto, TypeOK
<1>4. /\ \A t \in Terminals :
            /\ Depth(t)' = IF t = terminal_num[cur] THEN Depth(t) - 1 ELSE Depth(t)
            /\ t # terminal_num[cur] => TrueTop(t)' = TrueTop(t)
            /\ t = terminal_num[cur] => TrueTop(t)' = top_process'[t]
      /\ \A s \in global_pcb_ptrs : s \in Slots /\ s \in Contexts
                                    /\ terminal_num[s] \in Terminals
  <2>1. \A t \in Terminals : num_progs[t] \in Int
    BY DEF TypeOK
  <2>2. \A t \in Terminals :
            /\ t # terminal_num[cur] => TrueTop(t)' = TrueTop(t)
            /\ t = terminal_num[cur] => TrueTop(t)' = top_process'[t]
    BY <1>1, <1>2, <1>3 DEF TrueTop
  <2>3. ASSUME NEW t \in Terminals
        PROVE  Depth(t)' = IF t = terminal_num[cur] THEN Depth(t) - 1 ELSE Depth(t)
    <3>1. CASE t = terminal_num[cur]
      <4>1. Depth(t) = num_progs[t] + 1 /\ Depth(t)' = num_progs[t]
        BY <1>1, <1>2, <1>3, <3>1 DEF Depth
      <4>2. QED BY <2>1, <3>1, <4>1
    <3>2. CASE t # terminal_num[cur]
      BY <1>1, <1>2, <1>3, <3>2 DEF Depth
    <3>3. QED BY <3>1, <3>2
  <2>4. QED BY <2>2, <2>3 DEF TypeOK
<1>5. BootInv' /\ PlaceInv'
  BY <1>1, <1>3 DEF BootInv, PlaceInv, GhostSteps
<1>6. LocalsInv'
  BY <1>1, <1>3, <1>4 DEF LocalsInv
<1>7. ChainInv' /\ CountInv'
  <2>1. \A s \in global_pcb_ptrs \ {cur} :
           /\ terminal_num'[s] = terminal_num[s] /\ parent_pcb'[s] = parent_pcb[s]
           /\ place'[s] \in {"remap"} \union HandOver => place[s] \in {"remap"} \union HandOver
    BY <1>3, <1>4
  <2>2. parent_pcb[cur] = top_process'[terminal_num[cur]] /\ Depth(terminal_num[cur]) > 0
    <3>1. Depth(terminal_num[cur]) \in Nat
      BY <1>2 DEF ChainInv
    <3>2. QED BY <1>2, <1>3, <3>1
  <2>3. cur = TrueTop(terminal_num[cur]) /\ global_pcb_ptrs' = global_pcb_ptrs \ {cur}
    BY <1>2, <1>3
  <2> HIDE DEF Handing
  <2>4. QED BY <1>1, <1>4, <2>1, <2>2, <2>3, ChainShrinks
<1>8. ReturnInv' /\ StackInv'
  <2>1. ReturnInv'
    <3>1. Depth(terminal_num[cur]) \in Nat
      BY <1>2 DEF ChainInv
    <3>2. \A t \in Terminals : t = terminal_num[cur] => Depth(t)' > 0
      BY <1>2, <1>4, <3>1
    <3>3. QED BY <1>1, <1>2, <1>3, <3>2 DEF ReturnInv
  <2>2. StackInv'
    <3>1. SUFFICES ASSUME NEW s \in global_pcb_ptrs \ {cur}
          PROVE  /\ s # TrueTop(terminal_num[s])' => place[s] = "exec"
                 /\ place[s] = "exec" => esp[s] = "exec" /\ esp0[s] = s
                 /\ place[s] = "exec" /\ s = TrueTop(terminal_num[s])' => halt_parent[cur] = s
                 /\ place[s] # "exec" => esp[s] = "irq" /\ esp0[s] = s
      BY <1>1, <1>3, <1>4 DEF StackInv
    <3>2. CASE terminal_num[s] = terminal_num[cur]
      <4>1. TrueTop(terminal_num[s])' = halt_parent[cur]
        BY <1>2, <1>3, <1>4, <3>2
      <4>2. QED BY <1>2, <3>2, <4>1 DEF StackInv
    <3>3. CASE terminal_num[s] # terminal_num[cur]
      <4>1. TrueTop(terminal_num[s])' = TrueTop(terminal_num[s])
        BY <1>3, <1>4, <3>3
      <4>2. QED BY <1>1, <4>1 DEF StackInv
    <3>4. QED BY <3>2, <3>3
  <2>3. QED BY <2>1, <2>2
<1>9. RegsInv' /\ LaunchInv' /\ DisplayInv'
  <2>1. RegsInv' /\ LaunchInv'
    BY <1>1, <1>3 DEF RegsInv, LaunchInv, HandOver
  <2>2. displayed_terminal \in Terminals
    BY DEF TypeOK
  <2>3. Depth(displayed_terminal) > 0 /\ Depth(displayed_terminal) \in Nat
        /\ Depth(terminal_num[cur]) \in Nat
    BY <1>1, <1>2, <2>2 DEF DisplayInv, ChainInv
  <2>4. \A t \in Terminals : t = displayed_terminal => Depth(t)' > 0
    BY <1>2, <1>4, <2>2, <2>3
  <2>5. \A t \in Terminals : Depth(t)' = 0 => top_process[t] = Null
    <3>1. \A t \in Terminals : Depth(t)' = 0 => Depth(t) = 0
      BY <1>2, <1>4, <2>3
    <3>2. QED BY <1>1, <3>1 DEF DisplayInv
  <2>6. QED BY <1>3, <2>1, <2>2, <2>4, <2>5 DEF DisplayInv
<1>10. DirInv' /\ VideoInv'
  <2>1. DirInv'
    BY <1>3, <1>4 DEF DirInv
  <2>2. user_video[halt_parent[cur]] = Wanted(halt_terminal[cur])
    BY <1>1 DEF VideoInv, HandOver
  <2>3. ASSUME NEW s \in global_pcb_ptrs \ {cur}, s = TrueTop(terminal_num[s])',
               place[s] \notin WipedSteps
        PROVE  user_video[s] = Wanted(terminal_num[s])
    <3>1. CASE terminal_num[s] = terminal_num[cur]
      BY <1>2, <1>3, <1>4, <2>2, <2>3, <3>1
    <3>2. CASE terminal_num[s] # terminal_num[cur]
      <4>1. s = TrueTop(terminal_num[s])
        BY <1>3, <1>4, <2>3, <3>2
      <4>2. QED BY <2>3, <4>1 DEF VideoInv
    <3>3. QED BY <3>1, <3>2
  <2>4. VideoInv'
    BY <1>1, <1>2, <1>3, <1>4, <2>2, <2>3 DEF VideoInv, Wanted, HandOver
  <2>5. QED BY <2>1, <2>4
<1>11. LastInv'
  BY <1>1, <1>3, <1>4 DEF LastInv, LastSteps
<1>12. QED
  BY <1>5, <1>6, <1>7, <1>8, <1>9, <1>10, <1>11 DEF IInv

\* halt jumps to a parent that is still inside its execute.
LEMMA HaltReturnStep ==
    ASSUME Core, FullInv, HaltReturn
    PROVE  IInv'
<1> USE Parts, Numbers DEF pcbVars, termVars, hwVars
<1> DEFINE parent == halt_parent[cur]
           t0     == halt_terminal[cur]
<1>1. cur \in Slots /\ place[cur] = "return" /\ ~launching
  BY Current DEF HaltReturn, At, GhostSteps
<1>2. cur \notin global_pcb_ptrs /\ t0 \in Terminals
  BY <1>1 DEF PlaceInv, GhostSteps, TypeOK
<1>3. /\ top_process[t0] = parent /\ Depth(t0) > 0 /\ TrueTop(t0) = parent
      /\ place[parent] = "exec"
  BY <1>1 DEF ReturnInv, TrueTop
<1>4. parent \in global_pcb_ptrs /\ terminal_num[parent] = t0 /\ parent \in Slots
  <2>1. PICK level \in [Slots -> 0 .. MAX_NUM_PROCESS] : IsChain(level)
    BY DEF ChainInv
  <2>2. QED BY <1>2, <1>3, <2>1 DEF IsChain, TypeOK
<1>5. esp[parent] = "exec" /\ esp0[parent] = parent
  BY <1>3, <1>4 DEF StackInv
<1>6. /\ \A c \in Contexts \ {cur, parent} : place'[c] = place[c]
      /\ place'[cur] = "none" /\ place'[parent] = "run" /\ parent # cur
      /\ \A c \in Contexts \ {cur} : halt_parent'[c] = halt_parent[c]
                                     /\ halt_terminal'[c] = halt_terminal[c]
      /\ cur' = parent
      /\ UNCHANGED <<global_pcb_ptrs, pcbVars, termVars, displayed_terminal, hwVars,
                     user_video, launching>>
  BY <1>1, <1>2, <1>3, <1>4, <1>5 DEF HaltReturn, TypeOK
<1>7. \A t \in Terminals : Depth(t)' = Depth(t) /\ TrueTop(t)' = TrueTop(t)
  BY <1>1, <1>4, <1>6 DEF Depth, TrueTop
<1>8. \A s \in global_pcb_ptrs : s \in Slots /\ s \in Contexts /\ terminal_num[s] \in Terminals
                                 /\ s # cur
  BY <1>2 DEF TypeOK
<1>9. BootInv' /\ PlaceInv'
  <2>1. BootInv'
    BY <1>4, <1>6 DEF BootInv
  <2>2. PlaceInv'
    BY <1>1, <1>2, <1>3, <1>4, <1>6, <1>8 DEF PlaceInv, GhostSteps
  <2>3. QED BY <2>1, <2>2
<1>10. LocalsInv'
  BY <1>4, <1>6, <1>8 DEF LocalsInv, HaltSteps
<1>11. ChainInv' /\ CountInv'
  <2>1. \A s \in global_pcb_ptrs : place'[s] \in {"remap"} \union HandOver =>
               place[s] \in {"remap"} \union HandOver
    BY <1>6, <1>8 DEF HandOver
  <2>2. QED BY <1>6, <1>7, <2>1, ChainFrame
<1>12. ReturnInv' /\ StackInv'
  BY <1>1, <1>3, <1>4, <1>5, <1>6, <1>7, <1>8 DEF ReturnInv, StackInv
<1>13. RegsInv' /\ LaunchInv' /\ DisplayInv'
  BY <1>1, <1>4, <1>6, <1>7 DEF RegsInv, LaunchInv, DisplayInv, HandOver, TypeOK
<1>14. DirInv' /\ VideoInv'
  BY <1>1, <1>3, <1>4, <1>6, <1>7, <1>8 DEF DirInv, VideoInv, HandOver, WipedSteps, Wanted
<1>15. LastInv'
  BY <1>1, <1>4, <1>6, <1>8 DEF LastInv, LastSteps
<1>16. QED
  BY <1>9, <1>10, <1>11, <1>12, <1>13, <1>14, <1>15 DEF IInv

\* The current process in one of the steps that end a last shell.
LEMMA LastShell ==
    ASSUME TypeOK, PlaceInv, ChainInv, StackInv, LocalsInv, DirInv, LastInv,
           cur \in global_pcb_ptrs, place[cur] \in LastSteps
    PROVE  /\ halt_terminal[cur] = terminal_num[cur]
           /\ terminal_num[cur] \in Terminals
           /\ terminal_num[cur] = displayed_terminal
           /\ num_progs[terminal_num[cur]] = 1
           /\ Depth(terminal_num[cur]) = 1
           /\ cur = TrueTop(terminal_num[cur])
           /\ pg_dir[cur] = cur
<1>1. cur \in Slots /\ terminal_num[cur] \in Terminals
  BY Numbers DEF TypeOK
<1>2. halt_terminal[cur] = terminal_num[cur]
  BY DEF LocalsInv, HaltSteps, LastSteps
<1>3. num_progs[terminal_num[cur]] = 1 /\ terminal_num[cur] = displayed_terminal
  BY DEF LastInv
<1>4. Depth(terminal_num[cur]) = 1
  BY <1>1, <1>3 DEF Depth, LastSteps
<1>5. QED
  BY <1>1, <1>2, <1>3, <1>4, CurrentIsTop DEF DirInv

LEMMA HaltLastSetCr3Step ==
    ASSUME Core, FullInv, HaltLastSetCr3
    PROVE  IInv'
<1> USE Parts, Numbers DEF pcbVars, termVars, haltVars
<1>1. cur \in Slots /\ cur \in global_pcb_ptrs /\ place[cur] = "last_cr3" /\ ~launching
  BY Current DEF HaltLastSetCr3, At, GhostSteps
<1>2. /\ \A c \in Contexts \ {cur} : place'[c] = place[c]
      /\ place'[cur] = "last_cleanup"
      /\ cr3' = Boot
      /\ UNCHANGED <<global_pcb_ptrs, pcbVars, termVars, displayed_terminal, tss_esp0,
                     user_video, cur, launching, haltVars>>
  BY <1>1 DEF HaltLastSetCr3, Goto, TypeOK
<1>3. \A t \in Terminals : Depth(t)' = Depth(t) /\ TrueTop(t)' = TrueTop(t)
  BY <1>1, <1>2 DEF Depth, TrueTop
<1>4. BootInv' /\ PlaceInv'
  BY <1>1, <1>2 DEF BootInv, PlaceInv, GhostSteps
<1>5. LocalsInv'
  BY <1>1, <1>2 DEF LocalsInv, TypeOK, HaltSteps
<1>6. ChainInv' /\ CountInv'
  BY <1>1, <1>2, <1>3, ChainFrame DEF TypeOK, HandOver
<1>7. ReturnInv' /\ StackInv'
  BY <1>1, <1>2, <1>3 DEF ReturnInv, StackInv, TypeOK
<1>8. RegsInv' /\ LaunchInv' /\ DisplayInv'
  BY <1>1, <1>2, <1>3 DEF RegsInv, LaunchInv, DisplayInv, HandOver, TypeOK
<1>9. DirInv' /\ VideoInv'
  BY <1>1, <1>2, <1>3 DEF DirInv, VideoInv, TypeOK, WipedSteps, HandOver, Wanted
<1>10. LastInv'
  BY <1>1, <1>2 DEF LastInv, TypeOK, LastSteps
<1>11. QED
  BY <1>4, <1>5, <1>6, <1>7, <1>8, <1>9, <1>10 DEF IInv

LEMMA HaltLastCleanupStep ==
    ASSUME Core, FullInv, HaltLastCleanup
    PROVE  IInv'
<1> USE Parts, Numbers DEF pcbVars, termVars, hwVars, haltVars
<1>1. cur \in Slots /\ cur \in global_pcb_ptrs /\ place[cur] = "last_cleanup" /\ ~launching
  BY Current DEF HaltLastCleanup, At, GhostSteps
<1>2. /\ \A c \in Contexts \ {cur} : place'[c] = place[c]
      /\ place'[cur] = "last_destroy"
      /\ user_video' = [user_video EXCEPT ![cur] = Unmapped]
      /\ UNCHANGED <<global_pcb_ptrs, pcbVars, termVars, displayed_terminal, hwVars, cur,
                     launching, haltVars>>
  BY <1>1, LastShell DEF HaltLastCleanup, CleanupPgDir, RegsInv, HandOver, LastSteps, Goto,
     TypeOK
<1>3. \A t \in Terminals : Depth(t)' = Depth(t) /\ TrueTop(t)' = TrueTop(t)
  BY <1>1, <1>2 DEF Depth, TrueTop
<1>4. BootInv' /\ PlaceInv'
  BY <1>1, <1>2 DEF BootInv, PlaceInv, GhostSteps
<1>5. LocalsInv'
  BY <1>1, <1>2 DEF LocalsInv, TypeOK, HaltSteps
<1>6. ChainInv' /\ CountInv'
  BY <1>1, <1>2, <1>3, ChainFrame DEF TypeOK, HandOver
<1>7. ReturnInv' /\ StackInv'
  BY <1>1, <1>2, <1>3 DEF ReturnInv, StackInv, TypeOK
<1>8. RegsInv' /\ LaunchInv' /\ DisplayInv'
  BY <1>1, <1>2, <1>3 DEF RegsInv, LaunchInv, DisplayInv, HandOver, TypeOK
<1>9. DirInv' /\ VideoInv'
  BY <1>1, <1>2, <1>3 DEF DirInv, VideoInv, TypeOK, WipedSteps, HandOver, Wanted
<1>10. LastInv'
  BY <1>1, <1>2 DEF LastInv, TypeOK, LastSteps
<1>11. QED
  BY <1>4, <1>5, <1>6, <1>7, <1>8, <1>9, <1>10 DEF IInv

LEMMA HaltLastDestroyStep ==
    ASSUME Core, FullInv, HaltLastDestroy
    PROVE  IInv'
<1> USE Parts, Numbers DEF termVars, hwVars, haltVars
<1> DEFINE d == displayed_terminal
<1>1. cur \in Slots /\ cur \in global_pcb_ptrs /\ place[cur] = "last_destroy" /\ ~launching
  BY Current DEF HaltLastDestroy, At, GhostSteps
<1>2. /\ halt_terminal[cur] = d /\ terminal_num[cur] = d /\ d \in Terminals
      /\ num_progs[d] = 1 /\ Depth(d) = 1 /\ cur = TrueTop(d)
  BY <1>1, LastShell DEF LastSteps
<1>3. /\ \A c \in Contexts \ {cur} :
            /\ place'[c] = place[c] /\ parent_pcb'[c] = parent_pcb[c]
            /\ terminal_num'[c] = terminal_num[c] /\ pg_dir'[c] = pg_dir[c]
            /\ esp'[c] = esp[c] /\ esp0'[c] = esp0[c]
      /\ place'[cur] = "last_count"
      /\ global_pcb_ptrs' = global_pcb_ptrs \ {cur}
      /\ UNCHANGED <<termVars, displayed_terminal, hwVars, user_video, cur, launching,
                     haltVars>>
  BY <1>1 DEF HaltLastDestroy, DestroyPcb, ClearPcb, Goto, TypeOK
<1>4. \A t \in Terminals :
         /\ Depth(t)' = IF t = d THEN 0 ELSE Depth(t)
         /\ TrueTop(t)' = TrueTop(t)
         /\ t = d => TrueTop(t)' = top_process'[t]
  BY <1>1, <1>2, <1>3 DEF Depth, TrueTop
<1>5. \A s \in global_pcb_ptrs \ {cur} :
         s \in Slots /\ s \in Contexts /\ terminal_num[s] \in Terminals
         /\ terminal_num[s] # d
  <2>1. PICK level \in [Slots -> 0 .. MAX_NUM_PROCESS] : IsChain(level)
    BY DEF ChainInv
  <2>2. \A s \in global_pcb_ptrs :
           s \in Slots /\ s \in Contexts /\ terminal_num[s] \in Terminals /\ level[s] \in Nat
    BY <2>1 DEF TypeOK
  <2>3. \A s \in global_pcb_ptrs : terminal_num[s] = d => level[s] = 1
    BY <1>2, <2>1, <2>2 DEF IsChain
  <2>4. QED BY <1>1, <1>2, <2>1, <2>2, <2>3 DEF IsChain
<1>6. BootInv' /\ PlaceInv'
  BY <1>1, <1>3 DEF BootInv, PlaceInv, GhostSteps
<1>7. LocalsInv'
  BY <1>1, <1>3, <1>5 DEF LocalsInv, HaltSteps
<1>8. ChainInv' /\ CountInv'
  <2>1. \A s \in global_pcb_ptrs \ {cur} :
           /\ terminal_num'[s] = terminal_num[s] /\ parent_pcb'[s] = parent_pcb[s]
           /\ place'[s] \in {"remap"} \union HandOver => place[s] \in {"remap"} \union HandOver
    BY <1>3, <1>5
  <2>2. \A t \in Terminals : Depth(t)' = IF t = terminal_num[cur] THEN Depth(t) - 1 ELSE Depth(t)
    BY <1>2, <1>4
  <2>3. QED BY <1>1, <1>2, <1>3, <1>4, <2>1, <2>2, ChainShrinks
<1>9. ReturnInv' /\ StackInv'
  <2>1. \A s \in global_pcb_ptrs \ {cur} : TrueTop(terminal_num[s])' = TrueTop(terminal_num[s])
    BY <1>3, <1>4, <1>5
  <2>2. QED BY <1>1, <1>3, <1>5, <2>1 DEF ReturnInv, StackInv
<1>10. RegsInv' /\ LaunchInv' /\ DisplayInv'
  BY <1>1, <1>2, <1>3, <1>4 DEF RegsInv, LaunchInv, DisplayInv, HandOver
<1>11. DirInv' /\ VideoInv'
  <2>1. \A s \in global_pcb_ptrs \ {cur} : TrueTop(terminal_num[s])' = TrueTop(terminal_num[s])
    BY <1>3, <1>4, <1>5
  <2>2. QED BY <1>1, <1>3, <1>5, <2>1 DEF DirInv, VideoInv, HandOver, WipedSteps, Wanted
<1>12. LastInv'
  BY <1>1, <1>2, <1>3, <1>5 DEF LastInv, LastSteps
<1>13. QED
  BY <1>6, <1>7, <1>8, <1>9, <1>10, <1>11, <1>12 DEF IInv

LEMMA HaltLastCountStep ==
    ASSUME Core, FullInv, HaltLastCount
    PROVE  IInv'
<1> USE Parts, Numbers DEF pcbVars, termVars, hwVars, haltVars
<1> DEFINE d == displayed_terminal
<1>1. cur \in Slots /\ place[cur] = "last_count" /\ ~launching
  BY Current DEF HaltLastCount, At, GhostSteps
<1>2. /\ halt_terminal[cur] = d /\ d \in Terminals /\ num_progs[d] = 1
      /\ cur \notin global_pcb_ptrs
  BY <1>1 DEF LastInv, TypeOK, PlaceInv, GhostSteps
<1>3. /\ \A c \in Contexts \ {cur} : place'[c] = place[c]
      /\ place'[cur] = "relaunch"
      /\ num_progs' = [num_progs EXCEPT ![d] = @ - 1]
      /\ UNCHANGED <<global_pcb_ptrs, pcbVars, top_process, displayed_terminal, hwVars,
                     user_video, cur, launching, haltVars>>
  BY <1>1, <1>2 DEF HaltLastCount, CountDown, Goto, TypeOK
<1>4. num_progs'[d] = 0 /\ \A t \in Terminals \ {d} : num_progs'[t] = num_progs[t]
  BY <1>2, <1>3 DEF TypeOK
<1>5. /\ \A t \in Terminals : Depth(t)' = Depth(t) /\ TrueTop(t)' = TrueTop(t)
      /\ Depth(d) = 0
  BY <1>1, <1>2, <1>3, <1>4 DEF Depth, TrueTop
<1>6. \A s \in global_pcb_ptrs :
         s \in Slots /\ s \in Contexts /\ terminal_num[s] \in Terminals
         /\ terminal_num[s] # d /\ s # cur
  <2>1. PICK level \in [Slots -> 0 .. MAX_NUM_PROCESS] : IsChain(level)
    BY DEF ChainInv
  <2>2. \A s \in global_pcb_ptrs :
           s \in Slots /\ s \in Contexts /\ terminal_num[s] \in Terminals /\ level[s] \in Nat
    BY <2>1 DEF TypeOK
  <2>3. QED BY <1>2, <1>5, <2>1, <2>2 DEF IsChain
<1>7. BootInv' /\ PlaceInv'
  BY <1>1, <1>2, <1>3 DEF BootInv, PlaceInv, GhostSteps
<1>8. LocalsInv'
  BY <1>3, <1>6 DEF LocalsInv
<1>9. ChainInv' /\ CountInv'
  BY <1>3, <1>5, <1>6, ChainFrame
<1>10. ReturnInv' /\ StackInv'
  BY <1>1, <1>3, <1>5, <1>6 DEF ReturnInv, StackInv
<1>11. RegsInv' /\ LaunchInv' /\ DisplayInv'
  BY <1>1, <1>2, <1>3, <1>5 DEF RegsInv, LaunchInv, DisplayInv, HandOver
<1>12. DirInv' /\ VideoInv'
  BY <1>1, <1>3, <1>5, <1>6 DEF DirInv, VideoInv, HandOver, WipedSteps, Wanted
<1>13. LastInv'
  BY <1>1, <1>2, <1>3, <1>4, <1>6 DEF LastInv, LastSteps
<1>14. QED
  BY <1>7, <1>8, <1>9, <1>10, <1>11, <1>12, <1>13 DEF IInv
-------------------------------------------------------------------------------
(* execute, change_terminal and the PIT *)

\* A new process put on top of a terminal makes its chain longer by one.
LEMMA ChainGrows ==
    ASSUME TypeOK, ChainInv, CountInv, NEW new \in FreeSlots, NEW d \in Terminals,
           global_pcb_ptrs' = global_pcb_ptrs \union {new},
           \A s \in global_pcb_ptrs :
               terminal_num'[s] = terminal_num[s] /\ parent_pcb'[s] = parent_pcb[s],
           terminal_num'[new] = d,
           Depth(d) > 0 => parent_pcb'[new] = TrueTop(d),
           \A t \in Terminals :
               /\ Depth(t)' = IF t = d THEN Depth(t) + 1 ELSE Depth(t)
               /\ TrueTop(t)' = IF t = d THEN new ELSE TrueTop(t),
           \A s \in global_pcb_ptrs : place'[s] \in {"remap"} \union HandOver =>
               place[s] \in {"remap"} \union HandOver,
           place'[new] = "run"
    PROVE  ChainInv' /\ CountInv'
<1>1. PICK level \in [Slots -> 0 .. MAX_NUM_PROCESS] : IsChain(level)
  BY DEF ChainInv
<1>2. new \in Slots /\ new \notin global_pcb_ptrs
  BY DEF FreeSlots
<1>3. \A s \in global_pcb_ptrs : s \in Slots /\ s # new /\ terminal_num[s] \in Terminals
                                 /\ level[s] \in Nat
  BY <1>1, <1>2, Numbers DEF TypeOK
<1>4. \A t \in Terminals : Depth(t) \in Nat /\ Depth(t)' \in Nat
  BY DEF ChainInv
<1>5. \A t \in Terminals : Members(t)' = IF t = d THEN Members(t) \union {new} ELSE Members(t)
  BY <1>3 DEF Members
<1>6. CountInv'
  <2>1. SUFFICES ASSUME NEW t \in Terminals PROVE Depth(t)' = Cardinality(Members(t)')
    BY DEF CountInv
  <2>2. Depth(t) = Cardinality(Members(t)) /\ IsFiniteSet(Members(t))
    BY MembersFinite DEF CountInv
  <2>3. new \notin Members(t)
    BY <1>2 DEF Members
  <2>4. Cardinality(Members(t) \union {new}) = Cardinality(Members(t)) + 1
    BY <2>2, <2>3, FS_AddElement
  <2>5. QED BY <1>5, <2>2, <2>4
<1>7. Depth(d) + 1 \in 1 .. MAX_NUM_PROCESS
  <2>1. IsFiniteSet(Slots \ {new}) /\ Cardinality(Slots \ {new}) = MAX_NUM_PROCESS - 1
    <3>1. IsFiniteSet(Slots) /\ Cardinality(Slots) = MAX_NUM_PROCESS
      BY ProcessAssumption, FS_Interval DEF Slots
    <3>2. QED BY <1>2, <3>1, FS_RemoveElement
  <2>2. Members(d) \in SUBSET (Slots \ {new})
    BY <1>2, <1>3 DEF Members
  <2>3. Cardinality(Members(d)) <= MAX_NUM_PROCESS - 1
    BY <2>1, <2>2, FS_Subset
  <2>4. QED BY <1>4, <2>3, ProcessAssumption DEF CountInv
<1>8. PICK level2 \in [Slots -> 0 .. MAX_NUM_PROCESS] :
          /\ level2[new] = Depth(d) + 1
          /\ \A s \in global_pcb_ptrs : level2[s] = level[s]
  <2>1. [level EXCEPT ![new] = Depth(d) + 1] \in [Slots -> 0 .. MAX_NUM_PROCESS]
    BY <1>2, <1>7
  <2>2. QED BY <1>2, <1>3, <2>1
<1>9. \A s \in global_pcb_ptrs : 1 <= level[s] /\ level[s] <= Depth(terminal_num[s])
  BY <1>1 DEF IsChain
<1>10. \A s \in global_pcb_ptrs' : 1 <= level2[s] /\ level2[s] <= Depth(terminal_num[s])'
  <2>1. SUFFICES ASSUME NEW s \in global_pcb_ptrs \union {new}
                 PROVE  1 <= level2[s] /\ level2[s] <= Depth(terminal_num[s])'
    OBVIOUS
  <2>2. CASE s = new
    BY <1>4, <1>7, <1>8, <2>2
  <2>3. CASE s \in global_pcb_ptrs
    BY <1>3, <1>4, <1>8, <1>9, <2>3
  <2>4. QED BY <2>1, <2>2, <2>3
<1>11. \A r, s \in global_pcb_ptrs' :
          terminal_num'[r] = terminal_num'[s] /\ level2[r] = level2[s] => r = s
  <2>1. \A r \in global_pcb_ptrs : terminal_num[r] = d => level[r] # Depth(d) + 1
    BY <1>3, <1>4, <1>9
  <2>2. QED BY <1>1, <1>8, <2>1 DEF IsChain
<1>12. \A s \in global_pcb_ptrs' : level2[s] > 1 =>
          /\ parent_pcb'[s] \in global_pcb_ptrs'
          /\ terminal_num'[parent_pcb'[s]] = terminal_num'[s]
          /\ level2[parent_pcb'[s]] = level2[s] - 1
  <2>1. SUFFICES ASSUME NEW s \in global_pcb_ptrs \union {new}, level2[s] > 1
                 PROVE  /\ parent_pcb'[s] \in global_pcb_ptrs
                        /\ terminal_num[parent_pcb'[s]] = terminal_num'[s]
                        /\ level[parent_pcb'[s]] = level2[s] - 1
    BY <1>8
  <2>2. CASE s = new
    <3>1. Depth(d) > 0
      BY <1>4, <1>8, <2>1, <2>2
    <3>2. /\ TrueTop(d) \in global_pcb_ptrs /\ terminal_num[TrueTop(d)] = d
          /\ level[TrueTop(d)] = Depth(d)
      BY <1>1, <3>1 DEF IsChain
    <3>3. QED BY <1>4, <1>8, <2>2, <3>1, <3>2
  <2>3. CASE s \in global_pcb_ptrs
    BY <1>1, <1>8, <2>1, <2>3 DEF IsChain
  <2>4. QED BY <2>1, <2>2, <2>3
<1>13. ASSUME NEW t \in Terminals, Depth(t)' > 0
       PROVE  /\ TrueTop(t)' \in global_pcb_ptrs'
              /\ terminal_num'[TrueTop(t)'] = t
              /\ level2[TrueTop(t)'] = Depth(t)'
  <2>1. CASE t = d
    BY <1>8, <2>1
  <2>2. CASE t # d
    <3>1. /\ TrueTop(t) \in global_pcb_ptrs /\ terminal_num[TrueTop(t)] = t
          /\ level[TrueTop(t)] = Depth(t)
      BY <1>1, <1>13, <2>2 DEF IsChain
    <3>2. QED BY <1>8, <2>2, <3>1
  <2>3. QED BY <2>1, <2>2
<1>14. \A s \in global_pcb_ptrs' : place'[s] \in {"remap"} \union HandOver => level2[s] > 1
  BY <1>1, <1>8 DEF IsChain, HandOver
<1>15. IsChain(level2)'
  BY <1>10, <1>11, <1>12, <1>13, <1>14 DEF IsChain
<1>16. ChainInv'
  BY <1>4, <1>8, <1>15 DEF ChainInv
<1>17. QED BY <1>6, <1>16

\* do_execute keeps the invariant when its caller, if the displayed terminal has
\* programs, is the top one, and when everyone else is left where it was.
LEMMA Spawn ==
    ASSUME Core, FullInv, NEW new \in Slots, DoExecute(new),
           \A t \in Terminals : Depth(t) = num_progs[t] /\ TrueTop(t) = top_process[t],
           num_progs[displayed_terminal] > 0 => cur = top_process[displayed_terminal],
           \A s \in global_pcb_ptrs :
               /\ place'[s] = IF terminal_num[s] = displayed_terminal THEN "exec" ELSE place[s]
               /\ place[s] \notin WipedSteps
               /\ place'[s] \in {"exec", "run"} \union Windows
               /\ esp'[s] = IF place'[s] = "exec" THEN "exec" ELSE "irq"
               /\ esp0'[s] = s
               /\ halt_parent'[s] = halt_parent[s] /\ halt_terminal'[s] = halt_terminal[s],
           \A s \in Slots \ global_pcb_ptrs : place'[s] = IF s = new THEN "run" ELSE "none",
           place'[Boot] \in {"boot", "exec"},
           cur \in Contexts, place[cur] # "return",
           ~launching'
    PROVE  IInv'
<1> USE Parts, Numbers
<1> DEFINE d == displayed_terminal
<1>1. /\ new \in FreeSlots /\ new \notin global_pcb_ptrs /\ new # Boot
      /\ d \in Terminals /\ new \in Contexts
  BY DEF DoExecute, FirstFree, FreeSlots, TypeOK
<1>2. /\ global_pcb_ptrs' = global_pcb_ptrs \union {new}
      /\ parent_pcb'[new] = cur /\ terminal_num'[new] = d /\ pg_dir'[new] = new
      /\ user_video'[new] = Screen
      /\ tss_esp0' = new /\ cr3' = new /\ cur' = new /\ displayed_terminal' = d
      /\ top_process' = [top_process EXCEPT ![d] = new]
      /\ num_progs' = [num_progs EXCEPT ![d] = @ + 1]
      /\ place'[new] = "run"
  BY <1>1 DEF DoExecute, TypeOK
<1>3. \A s \in global_pcb_ptrs :
         /\ s \in Slots /\ s # new /\ s # Boot /\ terminal_num[s] \in Terminals
         /\ parent_pcb'[s] = parent_pcb[s] /\ terminal_num'[s] = terminal_num[s]
         /\ pg_dir'[s] = pg_dir[s] /\ user_video'[s] = user_video[s]
         /\ place'[s] \in {"exec", "run", "halt", "test", "last_cr3", "remap"}
         /\ place'[s] # "exec" => terminal_num[s] # d
         /\ terminal_num[s] # d => place'[s] = place[s]
  <2>1. \A s \in global_pcb_ptrs : s \in Slots /\ s # new /\ s # Boot /\ s \in Contexts
                                   /\ terminal_num[s] \in Terminals
    BY <1>1 DEF TypeOK
  <2>2. \A s \in global_pcb_ptrs :
           /\ parent_pcb'[s] = parent_pcb[s] /\ terminal_num'[s] = terminal_num[s]
           /\ pg_dir'[s] = pg_dir[s] /\ user_video'[s] = user_video[s]
    BY <2>1 DEF DoExecute, TypeOK
  <2>3. QED BY <2>1, <2>2 DEF Core, SafeWindows
<1>4. \A t \in Terminals :
         /\ Depth(t)' = IF t = d THEN Depth(t) + 1 ELSE Depth(t)
         /\ TrueTop(t)' = IF t = d THEN new ELSE TrueTop(t)
         /\ Depth(t) \in Nat
         /\ num_progs'[t] = IF t = d THEN num_progs[t] + 1 ELSE num_progs[t]
  <2>1. \A t \in Terminals : num_progs[t] \in Int /\ Depth(t) \in Nat
    BY DEF TypeOK, ChainInv
  <2>2. \A t \in Terminals : Depth(t)' = num_progs'[t] /\ TrueTop(t)' = top_process'[t]
    BY <1>2 DEF Depth, TrueTop
  <2>3. QED BY <1>2, <2>1, <2>2 DEF TypeOK
<1>5. BootInv' /\ PlaceInv'
  <2>1. BootInv'
    BY <1>1, <1>2 DEF BootInv
  <2>2. PlaceInv'
    BY <1>1, <1>2, <1>3 DEF PlaceInv, GhostSteps, Core
  <2>3. QED BY <2>1, <2>2
<1>6. LocalsInv'
  BY <1>2, <1>3 DEF LocalsInv, HaltSteps
<1>7. ChainInv' /\ CountInv'
  <2>1. Depth(d) > 0 => parent_pcb'[new] = TrueTop(d)
    BY <1>1, <1>2
  <2>2. \A s \in global_pcb_ptrs : place'[s] \in {"remap"} \union HandOver =>
               place[s] \in {"remap"} \union HandOver
    BY <1>3 DEF HandOver
  <2>3. QED BY <1>1, <1>2, <1>3, <1>4, <2>1, <2>2, ChainGrows
<1>8. \A s \in global_pcb_ptrs :
         /\ terminal_num[s] = d => TrueTop(terminal_num[s])' = new
         /\ terminal_num[s] # d => TrueTop(terminal_num[s])' = TrueTop(terminal_num[s])
                                   /\ num_progs'[terminal_num[s]] = num_progs[terminal_num[s]]
  BY <1>3, <1>4
<1>9. TrueTop(terminal_num[new])' = new
  BY <1>1, <1>2, <1>4
<1>10. ReturnInv' /\ StackInv'
  <2>1. ReturnInv'
    BY <1>2 DEF ReturnInv
  <2>2. \A s \in global_pcb_ptrs : place[s] = "exec" => s # TrueTop(terminal_num[s])
    BY DEF StackInv
  <2>3. ASSUME NEW s \in global_pcb_ptrs
        PROVE  /\ s # TrueTop(terminal_num[s])' => place'[s] = "exec"
               /\ place'[s] = "exec" => s # TrueTop(terminal_num[s])'
    <3>1. CASE terminal_num[s] = d
      BY <1>3, <1>8, <3>1
    <3>2. CASE terminal_num[s] # d
      BY <1>8, <2>2, <2>3, <3>2 DEF StackInv
    <3>3. QED BY <3>1, <3>2
  <2>4. StackInv'
    BY <1>2, <1>9, <2>3 DEF StackInv
  <2>5. QED BY <2>1, <2>4
<1>11. RegsInv' /\ LaunchInv' /\ DisplayInv'
  <2>1. RegsInv' /\ LaunchInv'
    BY <1>2 DEF RegsInv, LaunchInv, HandOver
  <2>2. \A t \in Terminals : t = d => Depth(t)' > 0
    BY <1>4
  <2>3. \A t \in Terminals : t # d => top_process'[t] = top_process[t]
    BY <1>2 DEF TypeOK
  <2>4. \A t \in Terminals : t # d /\ Depth(t) = 0 => top_process[t] = Null
    BY DEF DisplayInv, LastInv
  <2>5. \A t \in Terminals : Depth(t)' = 0 => top_process'[t] = Null
    BY <1>4, <2>2, <2>3, <2>4
  <2>6. QED BY <1>1, <1>2, <2>1, <2>2, <2>5 DEF DisplayInv
<1>12. DirInv' /\ VideoInv'
  <2>1. DirInv'
    BY <1>2, <1>3 DEF DirInv, WipedSteps
  <2>2. \A s \in global_pcb_ptrs : s = TrueTop(terminal_num[s])' =>
            user_video[s] = Wanted(terminal_num[s])
    BY <1>3, <1>8 DEF VideoInv, WipedSteps
  <2>3. VideoInv'
    BY <1>2, <1>3, <2>2 DEF VideoInv, Wanted, HandOver
  <2>4. QED BY <2>1, <2>3
<1>13. LastInv'
  BY <1>2, <1>3, <1>8 DEF LastInv, LastSteps
<1>14. QED
  BY <1>5, <1>6, <1>7, <1>10, <1>11, <1>12, <1>13 DEF IInv

\* At a place an interrupt can reach in the core, or about to launch, halt has not
\* touched the counts and tops.
LEMMA Counted ==
    ASSUME Core, TypeOK, cur \in Contexts, place[cur] \in {"boot", "run", "relaunch"} \union Windows
    PROVE  \A t \in Terminals : Depth(t) = num_progs[t] /\ TrueTop(t) = top_process[t]
  BY DEF Core, SafeWindows, Depth, TrueTop

\* Off the CPU everyone is blocked in execute or has an interrupt's frame.
LEMMA OffCpu ==
    ASSUME Core, FullInv, cur \in Contexts, place[cur] # "return"
    PROVE  \A s \in global_pcb_ptrs :
              /\ s \in Slots /\ s \in Contexts /\ s # Boot /\ terminal_num[s] \in Terminals
              /\ s # TrueTop(terminal_num[s]) => place[s] = "exec"
              /\ place[s] = "exec" => /\ s # TrueTop(terminal_num[s])
                                      /\ esp[s] = "exec" /\ esp0[s] = s
              /\ s # cur => /\ place[s] \in {"exec", "run", "halt", "test", "last_cr3", "remap"}
                            /\ place[s] \in {"exec", "run"} \union Windows
              /\ s # cur /\ place[s] # "exec" => esp[s] = "irq" /\ esp0[s] = s
<1>1. \A s \in global_pcb_ptrs :
         s \in Slots /\ s \in Contexts /\ s # Boot /\ terminal_num[s] \in Terminals
  BY Parts, Numbers DEF TypeOK
<1>2. \A s \in global_pcb_ptrs : s # cur =>
         place[s] \in {"exec", "run", "halt", "test", "last_cr3", "remap"}
         /\ place[s] \in {"exec", "run"} \union Windows
  BY <1>1, Parts DEF PlaceInv, Core, SafeWindows
<1>3. QED
  BY <1>1, <1>2, Parts DEF StackInv

\* If the displayed terminal has programs, its top one is a PCB of that terminal.
LEMMA LiveTop ==
    ASSUME FullInv, NEW t \in Terminals, Depth(t) > 0
    PROVE  TrueTop(t) \in global_pcb_ptrs /\ terminal_num[TrueTop(t)] = t
<1>1. PICK level \in [Slots -> 0 .. MAX_NUM_PROCESS] : IsChain(level)
  BY Parts DEF ChainInv
<1>2. QED BY <1>1 DEF IsChain

\* A terminal without programs has no PCBs.
LEMMA EmptyTerminal ==
    ASSUME FullInv, NEW s \in global_pcb_ptrs
    PROVE  Depth(terminal_num[s]) > 0
<1>1. PICK level \in [Slots -> 0 .. MAX_NUM_PROCESS] : IsChain(level)
  BY Parts DEF ChainInv
<1>2. s \in Slots /\ terminal_num[s] \in Terminals
  BY Parts, Numbers DEF TypeOK
<1>3. level[s] \in Nat /\ Depth(terminal_num[s]) \in Nat
  BY <1>1, <1>2, Parts DEF ChainInv
<1>4. 1 <= level[s] /\ level[s] <= Depth(terminal_num[s])
  BY <1>1 DEF IsChain
<1>5. QED BY <1>3, <1>4

\* execute called by a program of the displayed terminal.
LEMMA ExecuteStep ==
    ASSUME Core, FullInv, Execute
    PROVE  IInv'
<1> USE Parts, Numbers DEF haltVars
<1> DEFINE d == displayed_terminal
<1>1. PICK new \in Slots : DoExecute(new)
          /\ place' = [place EXCEPT ![cur] = "exec", ![new] = "run"]
  BY DEF Execute
<1>2. /\ cur \in Contexts /\ place[cur] \in {"boot", "run"} /\ ~launching' /\ d \in Terminals
      /\ \A s \in Contexts : halt_parent'[s] = halt_parent[s]
                             /\ halt_terminal'[s] = halt_terminal[s]
      /\ new \in Contexts /\ new # Boot /\ new \notin global_pcb_ptrs
  BY <1>1 DEF Execute, At, DoExecute, FirstFree, FreeSlots, TypeOK
<1>3. \A t \in Terminals : Depth(t) = num_progs[t] /\ TrueTop(t) = top_process[t]
  BY <1>2, Counted
<1>4. CASE place[cur] = "boot"
  <2>1. cur = Boot /\ global_pcb_ptrs = {} /\ num_progs[d] = 0
    BY <1>2, <1>4 DEF BootInv, PlaceInv, Contexts
  <2>2. \A s \in Slots \ global_pcb_ptrs : place'[s] = IF s = new THEN "run" ELSE "none"
    BY <1>1, <1>2, <2>1 DEF PlaceInv, GhostSteps, TypeOK
  <2>3. place'[Boot] = "exec"
    BY <1>1, <1>2, <2>1 DEF TypeOK
  <2>4. \A s \in global_pcb_ptrs : FALSE
    BY <2>1
  <2>5. ~(num_progs[d] > 0) /\ place[cur] # "return"
    BY <1>4, <2>1
  <2> HIDE DEF d
  <2>6. QED BY <1>1, <1>2, <1>3, <2>2, <2>3, <2>4, <2>5, Spawn DEF d
<1>5. CASE place[cur] = "run"
  <2>1. /\ cur \in Slots /\ cur \in global_pcb_ptrs /\ terminal_num[cur] = d /\ cur # new
        /\ cur # Boot
    <3>1. cur \in Slots /\ cur \in global_pcb_ptrs
      BY <1>2, <1>5, Current DEF GhostSteps
    <3>2. QED BY <1>2, <1>5, <3>1 DEF Execute, InForeground, At, Core, SafeWindows
  <2>2. cur = TrueTop(d) /\ Depth(d) > 0 /\ tss_esp0 = cur
    BY <1>5, <2>1, CurrentIsTop, EmptyTerminal DEF RegsInv, HandOver
  <2>3. /\ esp' = [esp EXCEPT ![cur] = "exec"]
        /\ esp0' = [esp0 EXCEPT ![cur] = cur]
    BY <1>1, <1>2, <1>3, <2>2 DEF DoExecute, SavedEsp, SavedEsp0, Saves
  <2>4. \A s \in global_pcb_ptrs :
               /\ place'[s] = IF terminal_num[s] = d THEN "exec" ELSE place[s]
               /\ place[s] \notin WipedSteps
               /\ place'[s] \in {"exec", "run"} \union Windows
               /\ esp'[s] = IF place'[s] = "exec" THEN "exec" ELSE "irq"
               /\ esp0'[s] = s
    <3>1. SUFFICES ASSUME NEW s \in global_pcb_ptrs
          PROVE  /\ place'[s] = IF terminal_num[s] = d THEN "exec" ELSE place[s]
                 /\ place[s] \notin WipedSteps
                 /\ place'[s] \in {"exec", "run"} \union Windows
                 /\ esp'[s] = IF place'[s] = "exec" THEN "exec" ELSE "irq"
                 /\ esp0'[s] = s
      OBVIOUS
    <3>2. /\ s \in Slots /\ s \in Contexts /\ s # Boot /\ terminal_num[s] \in Terminals
          /\ s # TrueTop(terminal_num[s]) => place[s] = "exec"
          /\ place[s] = "exec" => /\ s # TrueTop(terminal_num[s])
                                  /\ esp[s] = "exec" /\ esp0[s] = s
          /\ s # cur => /\ place[s] \in {"exec", "run", "halt", "test", "last_cr3", "remap"}
                        /\ place[s] \in {"exec", "run"} \union Windows
          /\ s # cur /\ place[s] # "exec" => esp[s] = "irq" /\ esp0[s] = s
      BY <1>2, <1>5, OffCpu
    <3>3. CASE s = cur
      BY <1>1, <1>2, <1>5, <2>1, <2>3, <3>2, <3>3 DEF TypeOK, WipedSteps
    <3>4. CASE s # cur
      <4>1. place'[s] = place[s] /\ esp'[s] = esp[s] /\ esp0'[s] = esp0[s]
        BY <1>1, <1>2, <2>3, <3>2, <3>4 DEF TypeOK
      <4>2. QED BY <2>2, <3>2, <3>4, <4>1 DEF WipedSteps
    <3>5. QED BY <3>3, <3>4
  <2>5. \A s \in Slots \ global_pcb_ptrs : place'[s] = IF s = new THEN "run" ELSE "none"
    BY <1>1, <1>2, <1>5, <2>1 DEF PlaceInv, GhostSteps, TypeOK
  <2>6. place'[Boot] \in {"boot", "exec"}
    BY <1>1, <1>2, <2>1 DEF PlaceInv, TypeOK
  <2>7. \A s \in global_pcb_ptrs : s \in Contexts
    BY DEF TypeOK
  <2>8. QED BY <1>1, <1>2, <1>3, <1>5, <2>2, <2>4, <2>5, <2>6, <2>7, Spawn
<1>6. QED BY <1>2, <1>4, <1>5

\* The shell that replaces the last shell of the displayed terminal.
LEMMA HaltRelaunchStep ==
    ASSUME Core, FullInv, HaltRelaunch
    PROVE  IInv'
<1> USE Parts, Numbers
<1> DEFINE d == displayed_terminal
<1>1. PICK new \in Slots : DoExecute(new)
          /\ place' = [place EXCEPT ![cur] = "none", ![new] = "run"]
  BY DEF HaltRelaunch
<1>2. cur \in Slots /\ place[cur] = "relaunch" /\ ~launching' /\ d \in Terminals
  BY Current DEF HaltRelaunch, At, GhostSteps, TypeOK
<1>3. /\ cur \notin global_pcb_ptrs /\ num_progs[d] = 0
      /\ new \in Contexts /\ new # Boot /\ new \notin global_pcb_ptrs
      /\ \A s \in Contexts \ {cur} : halt_parent'[s] = halt_parent[s]
                                     /\ halt_terminal'[s] = halt_terminal[s]
  BY <1>1, <1>2 DEF PlaceInv, GhostSteps, LastInv, HaltRelaunch, DoExecute, FirstFree, FreeSlots,
     TypeOK
<1>4. \A t \in Terminals : Depth(t) = num_progs[t] /\ TrueTop(t) = top_process[t]
  BY <1>2, Counted
<1>5. esp' = esp /\ esp0' = esp0
  BY <1>1, <1>3 DEF DoExecute, SavedEsp, SavedEsp0, Saves
<1>6. ASSUME NEW s \in global_pcb_ptrs
      PROVE  /\ terminal_num[s] # d
             /\ place'[s] = place[s]
             /\ place[s] \notin WipedSteps
             /\ place'[s] \in {"exec", "run"} \union Windows
             /\ esp'[s] = IF place'[s] = "exec" THEN "exec" ELSE "irq"
             /\ esp0'[s] = s
             /\ halt_parent'[s] = halt_parent[s] /\ halt_terminal'[s] = halt_terminal[s]
  <2>1. /\ s \in Slots /\ s \in Contexts /\ terminal_num[s] \in Terminals /\ s # cur /\ s # new
        /\ place[s] \in {"exec", "run", "halt", "test", "last_cr3", "remap"}
        /\ place[s] \in {"exec", "run"} \union Windows
        /\ place[s] = "exec" => esp[s] = "exec" /\ esp0[s] = s
        /\ place[s] # "exec" => esp[s] = "irq" /\ esp0[s] = s
    BY <1>2, <1>3, OffCpu
  <2>2. place'[s] = place[s]
    BY <1>1, <1>2, <1>3, <2>1 DEF TypeOK
  <2>3. terminal_num[s] # d
    BY <1>2, <1>3, <1>4, EmptyTerminal
  <2>4. QED BY <1>3, <1>5, <2>1, <2>2, <2>3 DEF WipedSteps
<1>7. \A s \in Slots \ global_pcb_ptrs : place'[s] = IF s = new THEN "run" ELSE "none"
  BY <1>1, <1>2, <1>3 DEF PlaceInv, GhostSteps, TypeOK
<1>8. place'[Boot] \in {"boot", "exec"}
  BY <1>1, <1>2, <1>3 DEF PlaceInv, TypeOK
<1>9. ~(num_progs[d] > 0) /\ cur \in Contexts /\ place[cur] # "return"
  BY <1>2, <1>3
<1> HIDE DEF d
<1>10. \A s \in global_pcb_ptrs :
          /\ place'[s] = IF terminal_num[s] = d THEN "exec" ELSE place[s]
          /\ place[s] \notin WipedSteps
          /\ place'[s] \in {"exec", "run"} \union Windows
          /\ esp'[s] = IF place'[s] = "exec" THEN "exec" ELSE "irq"
          /\ esp0'[s] = s
          /\ halt_parent'[s] = halt_parent[s] /\ halt_terminal'[s] = halt_terminal[s]
  BY <1>6
<1>11. QED BY <1>1, <1>2, <1>4, <1>7, <1>8, <1>9, <1>10, Spawn DEF d

\* The shell that change_terminal starts in an empty terminal.
LEMMA LaunchShellStep ==
    ASSUME Core, FullInv, LaunchShell
    PROVE  IInv'
<1> USE Parts, Numbers DEF haltVars
<1> DEFINE d == displayed_terminal
<1>1. PICK new \in Slots : DoExecute(new) /\ place' = [place EXCEPT ![new] = "run"]
  BY DEF LaunchShell
<1>2. /\ cur \in global_pcb_ptrs /\ num_progs[d] = 0 /\ esp[cur] = "irq" /\ esp0[cur] = cur
      /\ place[cur] \in {"run"} \union Windows /\ ~launching' /\ d \in Terminals
      /\ UNCHANGED haltVars
  BY DEF LaunchShell, LaunchInv, TypeOK
<1>3. /\ new \in Contexts /\ new # Boot /\ new \notin global_pcb_ptrs /\ cur \in Contexts
  BY <1>1, <1>2 DEF DoExecute, FirstFree, FreeSlots, TypeOK
<1>4. \A t \in Terminals : Depth(t) = num_progs[t] /\ TrueTop(t) = top_process[t]
  BY <1>2, <1>3, Counted
<1>5. esp' = esp /\ esp0' = esp0
  BY <1>1, <1>2 DEF DoExecute, SavedEsp, SavedEsp0, Saves
<1>6. place[cur] \in {"run", "halt", "test", "last_cr3", "remap"}
  BY <1>2 DEF Core, SafeWindows
<1>7. ASSUME NEW s \in global_pcb_ptrs
      PROVE  /\ terminal_num[s] # d
             /\ place'[s] = place[s]
             /\ place[s] \notin WipedSteps
             /\ place'[s] \in {"exec", "run"} \union Windows
             /\ esp'[s] = IF place'[s] = "exec" THEN "exec" ELSE "irq"
             /\ esp0'[s] = s
  <2>1. /\ s \in Slots /\ s \in Contexts /\ terminal_num[s] \in Terminals /\ s # new
        /\ s # cur => /\ place[s] \in {"exec", "run", "halt", "test", "last_cr3", "remap"}
                      /\ place[s] \in {"exec", "run"} \union Windows
        /\ place[s] = "exec" => esp[s] = "exec" /\ esp0[s] = s
        /\ s # cur /\ place[s] # "exec" => esp[s] = "irq" /\ esp0[s] = s
    BY <1>3, <1>6, OffCpu
  <2>2. place'[s] = place[s]
    BY <1>1, <1>3, <2>1 DEF TypeOK
  <2>3. terminal_num[s] # d
    BY <1>2, <1>4, EmptyTerminal
  <2>4. QED BY <1>2, <1>5, <1>6, <2>1, <2>2, <2>3 DEF WipedSteps
<1>8. \A s \in Slots \ global_pcb_ptrs : place'[s] = IF s = new THEN "run" ELSE "none"
  BY <1>1, <1>2, <1>3 DEF PlaceInv, GhostSteps, TypeOK
<1>9. place'[Boot] \in {"boot", "exec"}
  BY <1>1, <1>3 DEF PlaceInv, TypeOK
<1>10. ~(num_progs[d] > 0) /\ place[cur] # "return"
  BY <1>2, <1>6
<1> HIDE DEF d
<1>11. QED BY <1>1, <1>2, <1>3, <1>4, <1>7, <1>8, <1>9, <1>10, Spawn DEF d

\* The slot that change_terminal counted on is still free and clean.
LEMMA LaunchShellFailsStep ==
    ASSUME FullInv, LaunchShellFails
    PROVE  FALSE
<1>1. FreeSlots # {}
  BY Parts DEF LaunchShellFails, LaunchInv
<1>2. PICK found \in {TRUE}, new \in Slots :
          FirstFree(new) /\ (found => user_video[new] # Unmapped)
  BY <1>1 DEF LaunchShellFails, DoExecuteFails
<1>3. QED BY <1>2, Parts DEF FreeSlotsClean, FirstFree

\* execute that finds no slot or no program leaves everyone where they were.
LEMMA ExecuteFailsStep ==
    ASSUME Core, FullInv, ExecuteFails
    PROVE  IInv'
<1> USE Parts, Numbers DEF pcbVars, termVars, hwVars, haltVars
<1>1. /\ cur \in Slots /\ cur \in global_pcb_ptrs /\ place[cur] = "run" /\ ~launching
      /\ tss_esp0 = cur
  <2>1. cur \in Slots /\ cur \in global_pcb_ptrs /\ place[cur] = "run" /\ ~launching
    BY Current DEF ExecuteFails, At, GhostSteps
  <2>2. QED BY <2>1 DEF RegsInv, HandOver
<1>2. /\ UNCHANGED <<global_pcb_ptrs, user_video, termVars, displayed_terminal, hwVars, cur,
                     place, launching, haltVars>>
      /\ \A s \in global_pcb_ptrs :
            /\ parent_pcb'[s] = parent_pcb[s] /\ terminal_num'[s] = terminal_num[s]
            /\ pg_dir'[s] = pg_dir[s]
            /\ s # cur => esp'[s] = esp[s] /\ esp0'[s] = esp0[s]
  <2>1. UNCHANGED <<global_pcb_ptrs, termVars, displayed_terminal, hwVars, cur,
                    place, launching, haltVars>>
    BY DEF ExecuteFails, DoExecuteFails
  <2>2. CASE UNCHANGED <<pcbVars, user_video>>
    BY <2>1, <2>2
  <2>3. ASSUME NEW found \in BOOLEAN, NEW new \in Slots, FirstFree(new),
               found => user_video[new] # Unmapped,
               parent_pcb' = [parent_pcb EXCEPT ![new] = Null],
               terminal_num' = [terminal_num EXCEPT ![new] = 0],
               pg_dir' = [pg_dir EXCEPT ![new] = Null],
               esp' = [SavedEsp EXCEPT ![new] = "none"],
               esp0' = [SavedEsp0 EXCEPT ![new] = Null],
               user_video' = IF found THEN [user_video EXCEPT ![new] = Unmapped]
                             ELSE user_video
        PROVE  user_video' = user_video /\
               \A s \in global_pcb_ptrs :
                  /\ parent_pcb'[s] = parent_pcb[s] /\ terminal_num'[s] = terminal_num[s]
                  /\ pg_dir'[s] = pg_dir[s]
                  /\ s # cur => esp'[s] = esp[s] /\ esp0'[s] = esp0[s]
    <3>1. new \notin global_pcb_ptrs /\ ~found
      BY <2>3 DEF FirstFree, FreeSlots, FreeSlotsClean
    <3>2. \A s \in global_pcb_ptrs : s \in Contexts /\ s # new
      BY <3>1 DEF TypeOK
    <3>3. QED BY <2>3, <3>1, <3>2, <1>1 DEF SavedEsp, SavedEsp0, TypeOK
  <2>4. QED
    BY <2>1, <2>2, <2>3 DEF ExecuteFails, DoExecuteFails
<1>3. \A s \in global_pcb_ptrs : s \in Slots /\ s \in Contexts /\ terminal_num[s] \in Terminals
  BY DEF TypeOK
<1>4. \A t \in Terminals : Depth(t)' = Depth(t) /\ TrueTop(t)' = TrueTop(t)
  BY <1>1, <1>2 DEF Depth, TrueTop
<1>5. BootInv' /\ PlaceInv'
  BY <1>1, <1>2 DEF BootInv, PlaceInv
<1>6. LocalsInv'
  BY <1>2 DEF LocalsInv
<1>7. \A s \in global_pcb_ptrs : TrueTop(terminal_num[s])' = TrueTop(terminal_num[s])
  BY <1>2, <1>3, <1>4
<1>8. ReturnInv' /\ StackInv' /\ ChainInv' /\ CountInv'
  BY <1>1, <1>2, <1>4, <1>7, ChainFrame DEF ReturnInv, StackInv
<1>9. RegsInv' /\ LaunchInv' /\ DisplayInv'
  BY <1>1, <1>2, <1>4 DEF RegsInv, LaunchInv, DisplayInv, TypeOK
<1>10. DirInv' /\ VideoInv'
  BY <1>1, <1>2, <1>7 DEF DirInv, VideoInv, HandOver, Wanted
<1>11. LastInv'
  BY <1>1, <1>2 DEF LastInv
<1>12. QED
  BY <1>5, <1>6, <1>8, <1>9, <1>10, <1>11 DEF IInv

\* The interrupted context in the core: a process with a PCB, at a place where halt
\* has changed nothing yet.
LEMMA Interrupted ==
    ASSUME Core, FullInv, Interruptible
    PROVE  /\ cur \in Slots /\ cur \in global_pcb_ptrs /\ ~launching
           /\ place[cur] \in {"run", "halt", "test", "last_cr3", "remap"}
           /\ place[cur] \in {"run"} \union Windows
           /\ tss_esp0 = cur /\ cr3 = cur /\ pg_dir[cur] = cur
           /\ user_video[cur] # Unmapped
<1>1. cur \in Contexts /\ ~launching /\ place[cur] \in {"run"} \union Windows
  BY DEF Interruptible
<1>2. place[cur] \in {"run", "halt", "test", "last_cr3", "remap"}
  BY <1>1 DEF Core, SafeWindows
<1>3. cur \in Slots /\ cur \in global_pcb_ptrs
  BY <1>1, <1>2, Current, Parts DEF GhostSteps
<1>4. QED
  BY <1>1, <1>2, <1>3, Parts DEF RegsInv, HandOver, DirInv, WipedSteps

\* switch_task finds the next terminal's top process where an interrupt left it.
LEMMA PitStep ==
    ASSUME Core, FullInv, PitHandler
    PROVE  IInv'
<1> USE Parts, Numbers DEF pcbVars, termVars, haltVars
<1>1. PICK n \in Terminals : NextTask(terminal_num[cur], n) /\ SwitchTask(n)
  BY DEF PitHandler
<1>2. /\ cur \in Slots /\ cur \in global_pcb_ptrs /\ ~launching
      /\ place[cur] \in {"run", "halt", "test", "last_cr3", "remap"}
      /\ place[cur] \in {"run"} \union Windows
      /\ tss_esp0 = cur /\ cr3 = cur /\ pg_dir[cur] = cur
      /\ user_video[cur] # Unmapped
  BY Interrupted DEF PitHandler
<1> DEFINE new == top_process[n]
<1>3. \A t \in Terminals : Depth(t) = num_progs[t] /\ TrueTop(t) = top_process[t]
  BY <1>2, Counted
<1>4. /\ new \in global_pcb_ptrs /\ new \in Slots /\ terminal_num[new] = n
      /\ new = TrueTop(terminal_num[new])
  <2>1. Depth(n) > 0
    BY <1>1, <1>3 DEF NextTask
  <2>2. QED BY <1>1, <1>3, <2>1, LiveTop DEF TypeOK
<1>5. /\ place[new] \in {"run", "halt", "test", "last_cr3", "remap"}
      /\ place[new] \in {"run"} \union Windows
      /\ new # cur => esp[new] = "irq" /\ esp0[new] = new
  BY <1>2, <1>4, OffCpu
<1>6. pg_dir[new] = new /\ user_video[new] # Unmapped
  BY <1>4, <1>5 DEF DirInv, WipedSteps
<1>7. /\ cr3' = new /\ tss_esp0' = new /\ cur' = new
      /\ esp' = [esp EXCEPT ![cur] = "irq"] /\ esp0' = [esp0 EXCEPT ![cur] = cur]
      /\ UNCHANGED <<place, global_pcb_ptrs, parent_pcb, terminal_num, pg_dir, termVars,
                     displayed_terminal, user_video, launching, haltVars>>
  <2> DEFINE save == [esp EXCEPT ![cur] = "irq"]
  <2>1. save[new] = "irq" /\ place[new] # "exec" /\ new \in Contexts /\ Usable(pg_dir[new])
    BY <1>2, <1>4, <1>5, <1>6 DEF Usable, TypeOK
  <2>2. /\ cr3' = pg_dir[new] /\ esp' = save
        /\ esp0' = [esp0 EXCEPT ![cur] = tss_esp0] /\ tss_esp0' = esp0'[new]
        /\ cur' = new /\ place' = place
        /\ UNCHANGED <<global_pcb_ptrs, parent_pcb, terminal_num, pg_dir, termVars,
                       displayed_terminal, user_video, launching, haltVars>>
    BY <1>1, <2>1 DEF SwitchTask
  <2>3. esp0'[new] = new
    BY <1>2, <1>4, <1>5, <2>2 DEF TypeOK
  <2>4. QED BY <1>2, <1>6, <2>2, <2>3
<1>8. \A t \in Terminals : Depth(t)' = Depth(t) /\ TrueTop(t)' = TrueTop(t)
  BY <1>3, <1>5, <1>7 DEF Depth, TrueTop
<1>9. \A s \in global_pcb_ptrs :
         /\ s \in Slots /\ s \in Contexts /\ terminal_num[s] \in Terminals
         /\ TrueTop(terminal_num[s])' = TrueTop(terminal_num[s])
  BY <1>7, <1>8 DEF TypeOK
<1>10. BootInv' /\ PlaceInv'
  <2>1. BootInv'
    BY <1>4, <1>7 DEF BootInv
  <2>2. PlaceInv'
    BY <1>2, <1>4, <1>5, <1>7 DEF PlaceInv, GhostSteps
  <2>3. QED BY <2>1, <2>2
<1>11. LocalsInv'
  BY <1>7 DEF LocalsInv
<1>12. ChainInv' /\ CountInv'
  BY <1>7, <1>8, ChainFrame
<1>13. ReturnInv' /\ StackInv'
  <2>1. ReturnInv'
    BY <1>5, <1>7 DEF ReturnInv
  <2>2. \A s \in global_pcb_ptrs :
           /\ esp'[s] = IF s = cur THEN "irq" ELSE esp[s]
           /\ esp0'[s] = IF s = cur THEN cur ELSE esp0[s]
    BY <1>7, <1>9 DEF TypeOK
  <2>3. StackInv'
    BY <1>2, <1>7, <1>9, <2>2, OffCpu DEF StackInv
  <2>4. QED BY <2>1, <2>3
<1>14. RegsInv' /\ LaunchInv' /\ DisplayInv'
  BY <1>2, <1>4, <1>5, <1>7, <1>8 DEF RegsInv, LaunchInv, DisplayInv, HandOver, TypeOK
<1>15. DirInv' /\ VideoInv'
  BY <1>5, <1>7, <1>9 DEF DirInv, VideoInv, HandOver, Wanted
<1>16. LastInv'
  BY <1>5, <1>7 DEF LastInv
<1>17. QED
  BY <1>10, <1>11, <1>12, <1>13, <1>14, <1>15, <1>16 DEF IInv

\* change_terminal moves the pages of the two top processes and no others.
LEMMA ChangeTerminalStep ==
    ASSUME Core, FullInv, NEW new \in Terminals, ChangeTerminal(new)
    PROVE  IInv'
<1> USE Parts, Numbers DEF termVars, haltVars
<1> DEFINE old == displayed_terminal
<1>1. /\ cur \in Slots /\ cur \in global_pcb_ptrs /\ ~launching
      /\ place[cur] \in {"run", "halt", "test", "last_cr3", "remap"}
      /\ place[cur] \in {"run"} \union Windows
      /\ tss_esp0 = cur /\ cr3 = cur /\ pg_dir[cur] = cur
      /\ user_video[cur] # Unmapped
  BY Interrupted DEF ChangeTerminal
<1>2. \A t \in Terminals : /\ Depth(t) = num_progs[t] /\ TrueTop(t) = top_process[t]
                           /\ Depth(t) \in Nat
  BY <1>1, Counted DEF ChainInv
<1>3. old \in Terminals /\ new # old /\ Depth(old) > 0 /\ ~EndingLastShell
  BY <1>1 DEF TypeOK, DisplayInv, ChangeTerminal, Core, SafeWindows
<1>4. /\ TrueTop(old) \in global_pcb_ptrs /\ terminal_num[TrueTop(old)] = old
      /\ TrueTop(old) \in Slots /\ pg_dir[TrueTop(old)] = TrueTop(old)
  <2>1. TrueTop(old) \in global_pcb_ptrs /\ terminal_num[TrueTop(old)] = old
    BY <1>3, LiveTop
  <2>2. QED BY <2>1 DEF DirInv, TypeOK
<1>5. Depth(new) > 0 =>
      /\ TrueTop(new) \in global_pcb_ptrs /\ terminal_num[TrueTop(new)] = new
      /\ TrueTop(new) \in Slots /\ pg_dir[TrueTop(new)] = TrueTop(new)
  <2>1. Depth(new) > 0 => TrueTop(new) \in global_pcb_ptrs /\ terminal_num[TrueTop(new)] = new
    BY LiveTop
  <2>2. QED BY <2>1 DEF DirInv, TypeOK
<1>6. \A s \in global_pcb_ptrs :
         /\ s \in Slots /\ s \in Contexts /\ terminal_num[s] \in Terminals
         /\ s = TrueTop(terminal_num[s]) => place[s] \notin WipedSteps
         /\ place[s] \notin WipedSteps
         /\ place[s] \notin {"last_cleanup", "last_destroy"}
  <2>1. \A s \in global_pcb_ptrs : s \in Slots /\ s \in Contexts /\ terminal_num[s] \in Terminals
    BY DEF TypeOK
  <2>2. QED BY <1>1, <2>1, OffCpu DEF WipedSteps
<1> DEFINE shown == RemapUserVideo(RemapUserVideo(user_video, PgDirOf(top_process[old]), old),
                                   PgDirOf(top_process[new]), Screen)
<1>7. /\ user_video' = shown /\ cr3' = cur /\ displayed_terminal' = new
      /\ IF num_progs[new] = 0
         THEN /\ esp' = [esp EXCEPT ![cur] = "irq"] /\ esp0' = [esp0 EXCEPT ![cur] = cur]
              /\ launching' = TRUE
         ELSE UNCHANGED <<esp, esp0, launching>>
      /\ UNCHANGED <<global_pcb_ptrs, parent_pcb, terminal_num, pg_dir, termVars, tss_esp0,
                     cur, place, haltVars>>
      /\ ProgramCount(num_progs) < MAX_NUM_PROCESS \/ num_progs[new] # 0
  <2>1. top_process[old] # Null /\ Usable(pg_dir[cur])
    BY <1>1, <1>2, <1>3, <1>4 DEF Usable
  <2>2. QED BY <1>1, <2>1 DEF ChangeTerminal
<1>8. \A s \in global_pcb_ptrs :
         /\ user_video'[s] = IF s = TrueTop(old) THEN old
                             ELSE IF Depth(new) > 0 /\ s = TrueTop(new) THEN Screen
                             ELSE user_video[s]
         /\ user_video[s] # Unmapped
  <2> DEFINE first == RemapUserVideo(user_video, PgDirOf(top_process[old]), old)
  <2>1. \A s \in global_pcb_ptrs : user_video[s] # Unmapped
    BY <1>6 DEF DirInv
  <2>2. first = [user_video EXCEPT ![TrueTop(old)] = old]
    BY <1>2, <1>3, <1>4, <2>1 DEF RemapUserVideo, PgDirOf
  <2>3. CASE Depth(new) > 0
    <3>1. PgDirOf(top_process[new]) = TrueTop(new) /\ TrueTop(new) # TrueTop(old)
      BY <1>2, <1>3, <1>4, <1>5, <2>3 DEF PgDirOf
    <3>2. shown = [first EXCEPT ![TrueTop(new)] = Screen]
      BY <1>4, <1>5, <2>1, <2>2, <2>3, <3>1 DEF RemapUserVideo, TypeOK
    <3>3. QED BY <1>4, <1>5, <1>6, <1>7, <2>1, <2>2, <2>3, <3>1, <3>2 DEF TypeOK
  <2>4. CASE Depth(new) = 0
    <3>1. top_process[new] = Null
      BY <1>1, <2>4 DEF DisplayInv
    <3>2. Null \notin Slots
      BY DEF Contexts
    <3>3. shown = first
      BY <3>1, <3>2 DEF RemapUserVideo, PgDirOf
    <3>4. user_video' = [user_video EXCEPT ![TrueTop(old)] = old]
      BY <1>7, <2>2, <3>3
    <3> HIDE DEF shown, first
    <3>5. ~(Depth(new) > 0)
      BY <2>4
    <3>6. QED BY <1>4, <1>6, <2>1, <3>4, <3>5 DEF TypeOK
  <2>5. QED BY <1>2, <2>3, <2>4
<1>9. \A t \in Terminals : Depth(t)' = Depth(t) /\ TrueTop(t)' = TrueTop(t)
  BY <1>1, <1>7 DEF Depth, TrueTop
<1>10. \A s \in global_pcb_ptrs :
         /\ TrueTop(terminal_num[s])' = TrueTop(terminal_num[s])
         /\ s # cur => esp'[s] = esp[s] /\ esp0'[s] = esp0[s]
  BY <1>6, <1>7, <1>9 DEF TypeOK
<1>11. BootInv' /\ PlaceInv' /\ LocalsInv'
  BY <1>1, <1>7 DEF BootInv, PlaceInv, LocalsInv
<1>12. ChainInv' /\ CountInv'
  BY <1>7, <1>9, ChainFrame
<1>13. ReturnInv' /\ StackInv'
  BY <1>1, <1>7, <1>10 DEF ReturnInv, StackInv
<1>14. RegsInv' /\ LaunchInv' /\ DisplayInv'
  <2>1. RegsInv'
    BY <1>1, <1>7 DEF RegsInv, HandOver
  <2>2. LaunchInv'
    <3>1. \A t \in Terminals : num_progs[t] = Cardinality(Members(t))
      BY <1>2 DEF CountInv
    <3>2. num_progs[new] = 0 => FreeSlots # {}
      BY <1>7, <3>1, FreeSlotLeft
    <3>3. FreeSlots' = FreeSlots
      BY <1>7 DEF FreeSlots
    <3>4. cur \in Contexts
      BY <1>1
    <3>5. QED BY <1>1, <1>7, <3>2, <3>3, <3>4 DEF LaunchInv, TypeOK
  <2>3. DisplayInv'
    BY <1>1, <1>2, <1>3, <1>7, <1>9 DEF DisplayInv
  <2>4. QED BY <2>1, <2>2, <2>3
<1>15. DirInv' /\ VideoInv'
  <2>1. DirInv'
    BY <1>3, <1>6, <1>7, <1>8 DEF DirInv
  <2>2. ASSUME NEW s \in global_pcb_ptrs, s = TrueTop(terminal_num[s])
        PROVE  user_video'[s] = IF terminal_num[s] = new THEN Screen ELSE terminal_num[s]
    <3>1. CASE terminal_num[s] = old
      BY <1>3, <1>8, <2>2, <3>1
    <3>2. CASE terminal_num[s] = new
      <4>1. Depth(new) > 0
        BY <3>2, EmptyTerminal
      <4>2. QED BY <1>3, <1>4, <1>8, <2>2, <3>2, <4>1
    <3>3. CASE terminal_num[s] # old /\ terminal_num[s] # new
      <4>1. user_video'[s] = user_video[s]
        BY <1>4, <1>5, <1>8, <3>3
      <4>2. QED BY <1>6, <2>2, <3>3, <4>1 DEF VideoInv, Wanted
    <3>4. QED BY <3>1, <3>2, <3>3
  <2>3. VideoInv'
    BY <1>1, <1>7, <1>10, <2>2 DEF VideoInv, Wanted, HandOver
  <2>4. QED BY <2>1, <2>3
<1>16. LastInv'
  <2>1. \A s \in global_pcb_ptrs :
           place[s] \in {"halt", "fault", "test"} \union LastSteps =>
               num_progs[terminal_num[s]] # 1
    BY <1>3, <1>6 DEF LastInv, EndingLastShell, HaltSteps, LastSteps
  <2>2. QED BY <1>1, <1>7, <2>1 DEF LastInv
<1>17. QED
  BY <1>11, <1>12, <1>13, <1>14, <1>15, <1>16 DEF IInv

LEMMA IInit == Init => IInv
<1> SUFFICES ASSUME Init PROVE IInv
  OBVIOUS
<1> USE Numbers DEF Init
<1>1. cur = Boot /\ global_pcb_ptrs = {} /\ place[Boot] = "boot" /\ cur \notin Slots
      /\ \A s \in Slots : place[s] = "none"
      /\ \A t \in Terminals : num_progs[t] = 0 /\ top_process[t] = Null
  BY DEF Contexts
<1>2. \A t \in Terminals : Depth(t) = 0
  BY <1>1 DEF Depth
<1>3. BootInv /\ PlaceInv /\ LocalsInv /\ ReturnInv /\ StackInv /\ RegsInv /\ DirInv
      /\ VideoInv /\ LastInv /\ LaunchInv
  BY <1>1 DEF BootInv, PlaceInv, LocalsInv, ReturnInv, StackInv, RegsInv, DirInv, VideoInv,
     LastInv, LaunchInv, GhostSteps
<1>4. ChainInv
  <2>1. [s \in Slots |-> 0] \in [Slots -> 0 .. MAX_NUM_PROCESS]
    BY ProcessAssumption
  <2>2. IsChain([s \in Slots |-> 0])
    BY <1>1, <1>2 DEF IsChain
  <2>3. QED BY <1>2, <2>1, <2>2 DEF ChainInv
<1>5. DisplayInv /\ CountInv
  <2>1. \A t \in Terminals : Members(t) = {}
    BY <1>1 DEF Members
  <2>2. QED BY <1>1, <1>2, <2>1, FS_EmptySet DEF DisplayInv, CountInv
<1>6. QED BY <1>3, <1>4, <1>5 DEF IInv

LEMMA IStep ==
    ASSUME Core
    PROVE  FullInv /\ [Next]_vars => IInv'
<1> SUFFICES ASSUME FullInv, [Next]_vars PROVE IInv'
  OBVIOUS
<1>1. CASE Execute
  BY <1>1, ExecuteStep
<1>2. CASE ExecuteFails
  BY <1>2, ExecuteFailsStep
<1>3. CASE CallHalt \/ Fault
  BY <1>3, CallStep
<1>4. CASE HaltEntry \/ HaltTest \/ HaltRemap \/ HaltSetTss \/ HaltSetCr3 \/ HaltCleanup
  BY <1>4, HaltEntryStep, HaltTestStep, HaltRemapStep, HaltSetTssStep, HaltSetCr3Step,
     HaltCleanupStep
<1>5. CASE HaltSetTop \/ HaltCount \/ HaltDestroy \/ HaltReturn
  BY <1>5, HaltSetTopStep, HaltCountStep, HaltDestroyStep, HaltReturnStep
<1>6. CASE HaltLastSetCr3 \/ HaltLastCleanup \/ HaltLastDestroy \/ HaltLastCount
           \/ HaltRelaunch
  BY <1>6, HaltLastSetCr3Step, HaltLastCleanupStep, HaltLastDestroyStep, HaltLastCountStep,
     HaltRelaunchStep
<1>7. CASE PitHandler
  BY <1>7, PitStep
<1>8. CASE \E t \in Terminals : ChangeTerminal(t)
  BY <1>8, ChangeTerminalStep
<1>9. CASE LaunchShell \/ LaunchShellFails
  BY <1>9, LaunchShellStep, LaunchShellFailsStep
<1>10. CASE UNCHANGED vars
  <2>1. UNCHANGED <<global_pcb_ptrs, pcbVars, termVars, displayed_terminal, hwVars, user_video,
                    cur, place, launching, haltVars>>
    BY <1>10 DEF vars
  <2> USE DEF pcbVars, termVars, hwVars, haltVars
  <2>2. \A t \in Terminals : Depth(t)' = Depth(t) /\ TrueTop(t)' = TrueTop(t)
    BY <2>1 DEF Depth, TrueTop
  <2>3. \A s \in global_pcb_ptrs : TrueTop(terminal_num[s])' = TrueTop(terminal_num[s])
    <3>1. \A s \in global_pcb_ptrs : terminal_num[s] \in Terminals
      BY Parts, Numbers DEF TypeOK
    <3>2. QED BY <2>1, <2>2, <3>1
  <2>4. ChainInv' /\ CountInv'
    BY <2>1, <2>2, ChainFrame, Parts
  <2>5. BootInv' /\ PlaceInv' /\ LocalsInv' /\ RegsInv' /\ DirInv' /\ LastInv'
    BY <2>1, Parts DEF BootInv, PlaceInv, LocalsInv, RegsInv, DirInv, LastInv
  <2>6. ReturnInv' /\ StackInv' /\ VideoInv' /\ LaunchInv' /\ DisplayInv'
    <3>1. StackInv' /\ VideoInv' /\ LaunchInv'
      BY <2>1, <2>3, Parts DEF StackInv, VideoInv, LaunchInv, Wanted, FreeSlots
    <3>2. displayed_terminal \in Terminals /\ \A c \in Slots : halt_terminal[c] \in Terminals
      BY Parts, Numbers DEF TypeOK
    <3>3. ReturnInv' /\ DisplayInv'
      BY <2>1, <2>2, <3>2, Parts DEF ReturnInv, DisplayInv
    <3>4. QED BY <3>1, <3>3
  <2>7. QED BY <2>4, <2>5, <2>6 DEF IInv
<1>11. QED
  BY <1>1, <1>2, <1>3, <1>4, <1>5, <1>6, <1>7, <1>8, <1>9, <1>10 DEF Next, Halt

\* The invariant of the whole core.  It and the theorems that follow from it assume that halt
\* is interrupted only before it hands over (Windows \subseteq SafeWindows).  The code does not
\* see to that: halt runs with IF=1 to its end, and with a later window open they are false.
THEOREM InvariantHolds ==
    ASSUME Core
    PROVE  Spec => [](FullInv /\ IInv)
<1>1. Init => FullInv
  BY TypeInit, CleanInit, IInit DEF FullInv
<1>2. FullInv /\ [Next]_vars => FullInv'
  BY TypeStep, CleanStep, IStep DEF FullInv
<1>3. FullInv => FullInv /\ IInv
  BY DEF FullInv
<1>4. QED
  BY <1>1, <1>2, <1>3, PTL DEF Spec

-------------------------------------------------------------------------------
(* What follows from it *)

\* Between halts the counts and the tops are those of the PCBs.
LEMMA SettledCounted ==
    ASSUME FullInv, Settled
    PROVE  \A t \in Terminals : Depth(t) = num_progs[t] /\ TrueTop(t) = top_process[t]
  BY DEF Settled, Depth, TrueTop, HaltSteps

\* As long as halt is interrupted only before it hands over (Windows \subseteq SafeWindows):
\* the kernel neither loads an empty directory nor returns into a dead frame.
THEOREM NeverCrashes ==
    ASSUME Core
    PROVE  Spec => []NoCrash
<1>1. FullInv => NoCrash
  BY Parts, Numbers DEF BootInv, NoCrash
<1>2. QED
  BY <1>1, InvariantHolds, PTL

\* As long as halt is interrupted only before it hands over (Windows \subseteq SafeWindows):
\* a program that runs has its own directory and kernel stack and is on top.
THEOREM OwnContextHolds ==
    ASSUME Core
    PROVE  Spec => []OwnContext
<1>1. FullInv => OwnContext
  <2>1. SUFFICES ASSUME FullInv, Settled, place[cur] = "run"
                 PROVE  /\ cur \in global_pcb_ptrs
                        /\ tss_esp0 = cur
                        /\ cr3 = cur
                        /\ top_process[terminal_num[cur]] = cur
    BY DEF OwnContext
  <2>2. cur \in Slots /\ cur \in global_pcb_ptrs
    BY <2>1, Current, Parts DEF Settled, GhostSteps
  <2>3. tss_esp0 = cur /\ cr3 = cur
    BY <2>1, <2>2, Parts DEF RegsInv, HandOver
  <2>4. cur = TrueTop(terminal_num[cur]) /\ terminal_num[cur] \in Terminals
    BY <2>1, <2>2, CurrentIsTop, Parts
  <2>5. QED BY <2>1, <2>2, <2>3, <2>4, SettledCounted
<1>2. QED
  BY <1>1, InvariantHolds, PTL

\* As long as halt is interrupted only before it hands over (Windows \subseteq SafeWindows):
\* the PIT always finds the next terminal's top process in a frame it can resume.
THEOREM TopsResumableHolds ==
    ASSUME Core
    PROVE  Spec => []TopsResumable
<1>1. FullInv => TopsResumable
  <2>1. SUFFICES ASSUME FullInv, Settled, NEW t \in Terminals, Live(t), top_process[t] # cur
                 PROVE  /\ top_process[t] \in global_pcb_ptrs
                        /\ place[top_process[t]] \in {"run"} \union Windows
                        /\ esp[top_process[t]] = "irq"
                        /\ esp0[top_process[t]] = top_process[t]
                        /\ pg_dir[top_process[t]] = top_process[t]
    BY DEF TopsResumable
  <2>2. TrueTop(t) = top_process[t] /\ Depth(t) > 0
    BY <2>1, SettledCounted DEF Live
  <2>3. top_process[t] \in global_pcb_ptrs /\ terminal_num[top_process[t]] = t
    BY <2>1, <2>2, LiveTop
  <2>4. cur \in Contexts /\ place[cur] # "return"
    BY <2>1 DEF Settled, HaltSteps
  <2>5. QED BY <2>1, <2>2, <2>3, <2>4, OffCpu, Parts DEF DirInv
<1>2. QED
  BY <1>1, InvariantHolds, PTL

\* As long as halt is interrupted only before it hands over (Windows \subseteq SafeWindows):
\* num_progs is the number of PCBs of each terminal.
THEOREM CountsAgreeHolds ==
    ASSUME Core
    PROVE  Spec => []CountsAgree
<1>1. FullInv => CountsAgree
  BY SettledCounted, Parts DEF CountsAgree, CountInv
<1>2. QED
  BY <1>1, InvariantHolds, PTL

\* As long as halt is interrupted only before it hands over (Windows \subseteq SafeWindows):
\* a terminal's top process draws on the screen exactly if the terminal is shown.
THEOREM VideoFollowsDisplayHolds ==
    ASSUME Core
    PROVE  Spec => []VideoFollowsDisplay
<1>1. FullInv => VideoFollowsDisplay
  <2>1. SUFFICES ASSUME FullInv, Settled, NEW t \in Terminals, Live(t)
                 PROVE  user_video[top_process[t]] = Wanted(t)
    BY SMTT(30) DEF VideoFollowsDisplay, Wanted
  <2>2. TrueTop(t) = top_process[t] /\ Depth(t) > 0
    BY <2>1, SettledCounted DEF Live
  <2>3. top_process[t] \in global_pcb_ptrs /\ terminal_num[top_process[t]] = t
    BY <2>1, <2>2, LiveTop
  <2>4. place[top_process[t]] \notin WipedSteps
    <3>1. cur \in Contexts /\ place[cur] \notin HaltSteps /\ place[cur] # "return"
      BY <2>1 DEF Settled, HaltSteps
    <3>2. CASE top_process[t] = cur
      BY <3>1, <3>2 DEF WipedSteps, HaltSteps
    <3>3. CASE top_process[t] # cur
      BY <2>1, <2>3, <3>1, <3>3, OffCpu DEF WipedSteps
    <3>4. QED BY <3>2, <3>3
  <2>5. QED BY <2>1, <2>2, <2>3, <2>4, Parts DEF VideoInv
<1>2. QED
  BY <1>1, InvariantHolds, PTL

\* As long as halt is interrupted only before it hands over (Windows \subseteq SafeWindows):
\* the terminal on display has a program to type to.
THEOREM DisplayedLiveHolds ==
    ASSUME Core
    PROVE  Spec => []DisplayedLive
<1>1. FullInv => DisplayedLive
  <2>1. SUFFICES ASSUME FullInv, Settled, ~launching, place[cur] # "boot"
                 PROVE  Live(displayed_terminal)
    BY DEF DisplayedLive
  <2>2. displayed_terminal \in Terminals /\ cur \in Slots
    BY <2>1, Current, Parts DEF TypeOK, Settled
  <2>3. QED
    BY <2>1, <2>2, SettledCounted, Parts DEF DisplayInv, Live, Settled, HaltSteps
<1>2. QED
  BY <1>1, InvariantHolds, PTL

\* As long as halt is interrupted only before it hands over (Windows \subseteq SafeWindows):
\* the only way out of execute is the halt of the program that it started.  ("background" is
\* closed too: programs of terminals that are not displayed do not call execute.)
THEOREM ExecuteReturnsFromHaltHolds ==
    ASSUME Core
    PROVE  Spec => ExecuteReturnsFromHalt
<1> DEFINE OnlyHalt == \A p \in Slots :
                          place[p] = "exec" /\ place'[p] # "exec" =>
                              /\ cur \in Slots
                              /\ place[cur] = "return"
                              /\ halt_parent[cur] = p
<1>1. FullInv /\ [Next]_vars => [OnlyHalt]_vars
  <2> SUFFICES ASSUME FullInv, [Next]_vars,
                      NEW p \in Slots, place[p] = "exec", place'[p] # "exec"
               PROVE  /\ cur \in Slots
                      /\ place[cur] = "return"
                      /\ halt_parent[cur] = p
    OBVIOUS
  <2> USE Parts, Numbers
  <2>1. p \in global_pcb_ptrs /\ p \in Contexts /\ p # cur
    BY DEF PlaceInv, GhostSteps
  <2>2. CASE Execute \/ HaltRelaunch \/ LaunchShell
    BY <2>1, <2>2 DEF Execute, HaltRelaunch, LaunchShell, DoExecute, FirstFree, FreeSlots, At,
       TypeOK
  <2>3. CASE CallHalt \/ Fault \/ HaltEntry \/ HaltTest \/ HaltLastSetCr3 \/ HaltSetTss
             \/ HaltRemap \/ HaltSetCr3 \/ HaltSetTop
    BY <2>1, <2>3 DEF CallHalt, Fault, HaltEntry, HaltTest, HaltLastSetCr3, HaltSetTss,
       HaltRemap, HaltSetCr3, HaltSetTop, Crash, Goto, TypeOK
  <2>4. CASE HaltLastCleanup \/ HaltCleanup \/ HaltLastDestroy \/ HaltDestroy
             \/ HaltLastCount \/ HaltCount
    BY <2>1, <2>4 DEF HaltLastCleanup, HaltCleanup, CleanupPgDir, HaltLastDestroy, HaltDestroy,
       DestroyPcb, HaltLastCount, HaltCount, CountDown, Crash, Goto, TypeOK
  <2>5. CASE HaltReturn
    BY <2>1, <2>5, Current DEF HaltReturn, At, Crash, TypeOK
  <2>6. CASE PitHandler
    <3>1. PICK n \in Terminals : NextTask(terminal_num[cur], n) /\ SwitchTask(n)
      BY <2>6 DEF PitHandler
    <3>2. /\ cur \in Slots /\ place[cur] \in {"run", "halt", "test", "last_cr3", "remap"}
      BY <2>6, Interrupted DEF PitHandler
    <3>3. Depth(n) > 0 /\ TrueTop(n) = top_process[n]
      BY <3>1, <3>2 DEF NextTask, Depth, TrueTop
    <3>4. top_process[n] \in global_pcb_ptrs /\ terminal_num[top_process[n]] = n
      BY <3>1, <3>3, LiveTop
    <3>5. p # top_process[n]
      BY <2>1, <3>2, <3>3, <3>4, OffCpu
    <3>6. QED BY <2>1, <3>1, <3>5 DEF SwitchTask, Crash, TypeOK
  <2>7. CASE \E t \in Terminals : ChangeTerminal(t)
    BY <2>7 DEF ChangeTerminal, Crash
  <2>8. CASE ExecuteFails \/ LaunchShellFails \/ UNCHANGED vars
    BY <2>8 DEF ExecuteFails, LaunchShellFails, vars
  <2>9. QED
    BY <2>2, <2>3, <2>4, <2>5, <2>6, <2>7, <2>8 DEF Next, Halt
<1>2. QED
  BY <1>1, InvariantHolds, PTL DEF Spec, ExecuteReturnsFromHalt

-------------------------------------------------------------------------------
(* The steps of Sessions.  A stack of Sessions is the line of parents from the innermost *)
(* program of its terminal down; such a line is all that Under computes.                 *)

\* q lists n contexts, each after its parent, up to top.
Spine(parent, top, n, q) ==
    /\ q \in Seq(Slots) /\ Len(q) = n
    /\ n > 0 => q[n] = top
    /\ \A i \in 2 .. n : parent[q[i]] = q[i - 1]

\* There is one such list at most.
LEMMA SpineUnique ==
    ASSUME NEW parent, NEW top, NEW n \in Nat, NEW q, NEW r,
           Spine(parent, top, n, q), Spine(parent, top, n, r)
    PROVE  q = r
<1> DEFINE Bad == {k \in Nat : k < n /\ q[n - k] # r[n - k]}
<1>1. ASSUME Bad # {} PROVE FALSE
  <2>1. PICK m \in Bad : \A k \in Bad : m <= k
    BY <1>1, LeastMember
  <2>2. CASE m = 0
    BY <2>1, <2>2 DEF Spine
  <2>3. CASE m # 0
    <3>1. m - 1 \in Nat /\ m - 1 < n /\ m - 1 \notin Bad
      BY <2>1, <2>3
    <3>2. q[n - (m - 1)] = r[n - (m - 1)]
      BY <3>1
    <3>3. n - (m - 1) \in 2 .. n /\ (n - (m - 1)) - 1 = n - m
      BY <2>1, <2>3
    <3>4. q[n - m] = r[n - m]
      BY <3>2, <3>3 DEF Spine
    <3>5. QED BY <2>1, <3>4
  <2>4. QED BY <2>2, <2>3
<1>2. \A i \in 1 .. n : q[i] = r[i]
  <2>1. SUFFICES ASSUME NEW i \in 1 .. n PROVE q[i] = r[i]
    OBVIOUS
  <2>2. n - i \in Nat /\ n - i < n /\ n - (n - i) = i
    OBVIOUS
  <2>3. n - i \notin Bad
    BY <1>1
  <2>4. QED BY <2>2, <2>3
<1>3. q \in Seq(Slots) /\ r \in Seq(Slots) /\ Len(q) = n /\ Len(r) = n
  BY DEF Spine
<1>4. QED BY <1>2, <1>3, SeqEqual

\* Following the parents from top gives that list.
LEMMA UnderSpine ==
    ASSUME NEW parent, NEW top, NEW n \in Nat, NEW q, Spine(parent, top, n, q),
           NEW k \in 0 .. n - 1
    PROVE  Under(parent, top, k) = q[n - k]
<1> DEFINE IsUp(f) == f = [i \in 0 .. k |-> IF i = 0 THEN top ELSE parent[f[i - 1]]]
           up == CHOOSE f : IsUp(f)
           h == [i \in 0 .. k |-> q[n - i]]
           Bad == {i \in Nat : i <= k /\ up[i] # h[i]}
<1>1. k \in Nat /\ k < n
  OBVIOUS
<1>2. /\ h[0] = top
      /\ \A i \in 1 .. k : h[i] = parent[h[i - 1]]
  <2>1. h[0] = q[n] /\ q[n] = top
    BY <1>1 DEF Spine
  <2>2. ASSUME NEW i \in 1 .. k PROVE h[i] = parent[h[i - 1]]
    <3>1. n - (i - 1) \in 2 .. n /\ (n - (i - 1)) - 1 = n - i
      BY <1>1
    <3>2. h[i] = q[n - i] /\ h[i - 1] = q[n - (i - 1)]
      BY <1>1
    <3>3. parent[q[n - (i - 1)]] = q[n - i]
      BY <3>1 DEF Spine
    <3>4. QED BY <3>2, <3>3
  <2>3. QED BY <2>1, <2>2
<1>3. \E f : IsUp(f)
  <2>1. h = [i \in 0 .. k |-> h[i]]
    OBVIOUS
  <2> HIDE DEF h
  <2>2. \A i \in 0 .. k : h[i] = IF i = 0 THEN top ELSE parent[h[i - 1]]
    BY <1>1, <1>2
  <2>3. h = [i \in 0 .. k |-> IF i = 0 THEN top ELSE parent[h[i - 1]]]
    BY <2>1, <2>2
  <2>4. QED BY <2>3
<1>4. IsUp(up)
  BY <1>3
<1>5. Under(parent, top, k) = up[k]
  BY DEF Under
<1> HIDE DEF up, h
<1>6. \A i \in 0 .. k : up[i] = IF i = 0 THEN top ELSE parent[up[i - 1]]
  BY <1>4
<1>7. ASSUME Bad # {} PROVE FALSE
  <2>1. PICK m \in Bad : \A i \in Bad : m <= i
    BY <1>7, LeastMember
  <2>2. CASE m = 0
    BY <1>1, <1>2, <1>6, <2>1, <2>2
  <2>3. CASE m # 0
    <3>1. m - 1 \in Nat /\ m - 1 <= k /\ m - 1 \notin Bad
      BY <1>1, <2>1, <2>3
    <3>2. up[m - 1] = h[m - 1] /\ m \in 1 .. k
      BY <1>1, <2>1, <3>1
    <3>3. up[m] = h[m]
      BY <1>2, <1>6, <3>2
    <3>4. QED BY <2>1, <3>3
  <2>4. QED BY <2>2, <2>3
<1>8. up[k] = h[k]
  BY <1>1, <1>7
<1>9. QED BY <1>5, <1>8 DEF h

\* The numbering of ChainInv is such a list for every terminal.
LEMMA ChainSpine ==
    ASSUME FullInv, NEW t \in Terminals
    PROVE  /\ Depth(t) \in Nat
           /\ \E q : /\ Spine(parent_pcb, TrueTop(t), Depth(t), q)
                     /\ \A i \in 1 .. Depth(t) : q[i] \in Members(t)
<1>1. PICK level \in [Slots -> 0 .. MAX_NUM_PROCESS] : IsChain(level)
  BY Parts DEF ChainInv
<1>2. PICK n \in Nat : n = Depth(t)
  BY Parts DEF ChainInv
<1>3. PICK top : top = TrueTop(t)
  OBVIOUS
<1>4. Members(t) \subseteq Slots
  BY Parts DEF Members, TypeOK
<1>5. /\ \A r, s \in Members(t) : level[r] = level[s] => r = s
      /\ \A s \in Members(t) : level[s] > 1 =>
            parent_pcb[s] \in Members(t) /\ level[parent_pcb[s]] = level[s] - 1
      /\ n > 0 => top \in Members(t) /\ level[top] = n
  BY <1>1, <1>2, <1>3 DEF IsChain, Members
<1> DEFINE Bad == {k \in Nat : k < n /\ \A s \in Members(t) : level[s] # n - k}
<1>6. ASSUME Bad # {} PROVE FALSE
  <2>1. PICK m \in Bad : \A k \in Bad : m <= k
    BY <1>6, LeastMember
  <2>2. CASE m = 0
    BY <1>5, <2>1, <2>2
  <2>3. CASE m # 0
    <3>1. m - 1 \in Nat /\ m - 1 < n /\ m - 1 \notin Bad
      BY <2>1, <2>3
    <3>2. PICK s \in Members(t) : level[s] = n - (m - 1)
      BY <3>1
    <3>3. n - (m - 1) > 1 /\ (n - (m - 1)) - 1 = n - m
      BY <2>1
    <3>4. parent_pcb[s] \in Members(t) /\ level[parent_pcb[s]] = n - m
      BY <1>5, <3>2, <3>3
    <3>5. QED BY <2>1, <3>4
  <2>4. QED BY <2>2, <2>3
<1>7. \A i \in 1 .. n : \E s \in Members(t) : level[s] = i
  <2>1. SUFFICES ASSUME NEW i \in 1 .. n PROVE \E s \in Members(t) : level[s] = i
    OBVIOUS
  <2>2. n - i \in Nat /\ n - i < n /\ n - (n - i) = i
    OBVIOUS
  <2>3. n - i \notin Bad
    BY <1>6
  <2>4. QED BY <2>2, <2>3
<1> DEFINE q == [i \in 1 .. n |-> CHOOSE s \in Members(t) : level[s] = i]
<1>8. \A i \in 1 .. n : q[i] \in Members(t) /\ level[q[i]] = i
  BY <1>7
<1>9. q \in Seq(Slots) /\ Len(q) = n
  BY <1>4, <1>8
<1> HIDE DEF q
<1>10. Spine(parent_pcb, top, n, q)
  <2>1. n > 0 => q[n] = top
    BY <1>5, <1>8
  <2>2. ASSUME NEW i \in 2 .. n PROVE parent_pcb[q[i]] = q[i - 1]
    <3>1. i \in 1 .. n /\ i - 1 \in 1 .. n /\ i > 1
      OBVIOUS
    <3>2. parent_pcb[q[i]] \in Members(t) /\ level[parent_pcb[q[i]]] = i - 1
      BY <1>5, <1>8, <3>1
    <3>3. QED BY <1>5, <1>8, <3>1, <3>2
  <2>3. QED BY <1>9, <2>1, <2>2 DEF Spine
<1>11. QED BY <1>2, <1>3, <1>8, <1>10

\* What the stacks of Sessions are.
StacksInv ==
    \A t \in Terminals :
        /\ Depth(t) \in Nat
        /\ Spine(parent_pcb, TrueTop(t), Depth(t), Stacks[t])
        /\ \A i \in 1 .. Depth(t) : Stacks[t][i] \in Members(t)

LEMMA StacksRead == FullInv => StacksInv
<1> SUFFICES ASSUME FullInv, NEW t \in Terminals
             PROVE  /\ Depth(t) \in Nat
                    /\ Spine(parent_pcb, TrueTop(t), Depth(t), Stacks[t])
                    /\ \A i \in 1 .. Depth(t) : Stacks[t][i] \in Members(t)
  BY DEF StacksInv
<1>1. PICK q : /\ Spine(parent_pcb, TrueTop(t), Depth(t), q)
               /\ \A i \in 1 .. Depth(t) : q[i] \in Members(t)
  BY ChainSpine
<1>2. PICK n \in Nat : n = Depth(t)
  BY ChainSpine
<1>3. PICK top : top = TrueTop(t)
  OBVIOUS
<1>4. PICK parent : parent = parent_pcb
  OBVIOUS
<1>5. Spine(parent, top, n, q)
  BY <1>1, <1>2, <1>3, <1>4
<1>6. \A i \in 1 .. n : Under(parent, top, n - i) = q[i]
  <2>1. SUFFICES ASSUME NEW i \in 1 .. n PROVE Under(parent, top, n - i) = q[i]
    OBVIOUS
  <2>2. PICK k \in 0 .. n - 1 : k = n - i /\ n - k = i
    OBVIOUS
  <2>3. Under(parent, top, k) = q[n - k]
    BY <1>5, UnderSpine
  <2>4. QED BY <2>2, <2>3
<1>7. Stacks[t] = [i \in 1 .. n |-> Under(parent, top, n - i)]
  BY <1>2, <1>3, <1>4 DEF Stacks, StackOf
<1>8. q \in Seq(Slots) /\ Len(q) = n
  BY <1>5 DEF Spine
<1>9. Stacks[t] = q
  BY <1>6, <1>7, <1>8
<1>10. QED BY <1>1, <1>2, <1>9

\* The line q with one more program on top is the line r.
Extends(p1, p2, t1, t2, n, m, q, r) ==
    /\ n \in Nat /\ m \in Nat /\ n < m /\ m <= n + 1
    /\ Spine(p1, t1, n, q) /\ Spine(p2, t2, m, r)
    /\ n > 0 => p2[t2] = t1
    /\ \A i \in 1 .. n : p2[q[i]] = p1[q[i]]

LEMMA SpineGrows ==
    ASSUME NEW p1, NEW p2, NEW t1, NEW t2, NEW n, NEW m, NEW q, NEW r,
           Extends(p1, p2, t1, t2, n, m, q, r)
    PROVE  r = Append(q, t2) /\ q = SubSeq(r, 1, Len(r) - 1)
<1> DEFINE a == Append(q, t2)
<1>0. /\ n \in Nat /\ m = n + 1
      /\ Spine(p1, t1, n, q) /\ Spine(p2, t2, m, r)
      /\ n > 0 => p2[t2] = t1
      /\ \A i \in 1 .. n : p2[q[i]] = p1[q[i]]
  BY DEF Extends
<1>1. /\ q \in Seq(Slots) /\ Len(q) = n
      /\ n > 0 => q[n] = t1
      /\ \A i \in 2 .. n : p1[q[i]] = q[i - 1]
  BY <1>0 DEF Spine
<1>2. t2 \in Slots
  <2>1. r \in Seq(Slots) /\ Len(r) = n + 1 /\ r[n + 1] = t2
    BY <1>0 DEF Spine
  <2>2. n + 1 \in 1 .. Len(r)
    BY <1>0, <2>1
  <2>3. QED BY <2>1, <2>2, ElementOfSeq
<1>3. /\ a \in Seq(Slots) /\ Len(a) = n + 1
      /\ \A i \in 1 .. n : a[i] = q[i]
      /\ a[n + 1] = t2
  BY <1>0, <1>1, <1>2, AppendProperties
<1>4. SubSeq(a, 1, n) = q
  <2> HIDE DEF a
  <2>1. \A i \in 1 .. n : a[i] \in Slots
    BY <1>0, <1>3, ElementOfSeq
  <2>2. /\ SubSeq(a, 1, n) \in Seq(Slots)
        /\ Len(SubSeq(a, 1, n)) = IF 1 <= n THEN n - 1 + 1 ELSE 0
        /\ \A i \in 1 .. n - 1 + 1 : SubSeq(a, 1, n)[i] = a[1 + i - 1]
    BY <1>0, <2>1, SubSeqProperties
  <2>3. Len(SubSeq(a, 1, n)) = n
    BY <1>0, <2>2
  <2>4. \A i \in 1 .. n : SubSeq(a, 1, n)[i] = q[i]
    BY <1>0, <1>3, <2>2
  <2>5. QED BY <1>1, <2>2, <2>3, <2>4, SeqEqual
<1> HIDE DEF a
<1>5. Spine(p2, t2, m, a)
  <2>1. ASSUME NEW i \in 2 .. n + 1 PROVE p2[a[i]] = a[i - 1]
    <3>1. CASE i \in 2 .. n
      BY <1>0, <1>1, <1>3, <3>1
    <3>2. CASE i = n + 1
      BY <1>0, <1>1, <1>3, <3>2
    <3>3. QED BY <1>0, <3>1, <3>2
  <2>2. QED BY <1>0, <1>3, <2>1 DEF Spine
<1>6. r = a
  BY <1>0, <1>5, SpineUnique
<1>7. Len(r) - 1 = n
  BY <1>0, <1>3, <1>6
<1>8. QED BY <1>4, <1>6, <1>7 DEF a

\* A step keeps the number and the innermost of the programs of t.
SameTop(t) == Depth(t)' = Depth(t) /\ (Depth(t) > 0 => TrueTop(t)' = TrueTop(t))

LEMMA StackKept ==
    ASSUME StacksInv, StacksInv', NEW t \in Terminals, SameTop(t),
           \A s \in Members(t) : parent_pcb'[s] = parent_pcb[s]
    PROVE  Stacks'[t] = Stacks[t]
<1>1. PICK n, q, p1, t1 :
         n \in Nat /\ n = Depth(t) /\ q = Stacks[t] /\ p1 = parent_pcb /\ t1 = TrueTop(t)
  BY DEF StacksInv
<1> n \in Nat
  BY <1>1
<1>2. PICK r, p2, t2 : r = Stacks'[t] /\ p2 = parent_pcb' /\ t2 = TrueTop(t)'
  OBVIOUS
<1>3. Spine(p1, t1, n, q) /\ \A i \in 1 .. n : p2[q[i]] = p1[q[i]]
  BY <1>1, <1>2 DEF StacksInv
<1>4. Spine(p2, t2, n, r) /\ (n > 0 => t2 = t1)
  <2>1. n = Depth(t)'
    BY <1>1 DEF SameTop
  <2>2. Spine(p2, t2, n, r)
    BY <1>2, <2>1 DEF StacksInv
  <2>3. QED BY <1>1, <1>2, <2>2 DEF SameTop
<1>5. Spine(p2, t2, n, q)
  <2>1. \A i \in 2 .. n : i \in 1 .. n
    OBVIOUS
  <2>2. QED BY <1>3, <1>4, <2>1 DEF Spine
<1>6. QED BY <1>1, <1>2, <1>4, <1>5, SpineUnique

LEMMA StacksKept ==
    ASSUME StacksInv, StacksInv', \A t \in Terminals : SameTop(t),
           \A s \in global_pcb_ptrs : parent_pcb'[s] = parent_pcb[s]
    PROVE  Stacks' = Stacks
<1>1. \A t \in Terminals : Stacks'[t] = Stacks[t]
  BY StackKept DEF Members
<1>2. Stacks = [t \in Terminals |-> Stacks[t]] /\ Stacks' = [t \in Terminals |-> Stacks'[t]]
  BY DEF Stacks
<1>3. QED BY <1>1, <1>2

LEMMA StackGrows ==
    ASSUME StacksInv, StacksInv', NEW d \in Terminals, NEW new, new = TrueTop(d)',
           Depth(d)' = Depth(d) + 1, Depth(d) > 0 => parent_pcb'[new] = TrueTop(d),
           \A t \in Terminals \ {d} : SameTop(t),
           \A s \in global_pcb_ptrs : parent_pcb'[s] = parent_pcb[s]
    PROVE  Stacks' = [Stacks EXCEPT ![d] = Append(Stacks[d], new)]
<1>1. \A t \in Terminals \ {d} : Stacks'[t] = Stacks[t]
  BY StackKept DEF Members
<1>2. PICK n, q, p1, t1 :
         n \in Nat /\ n = Depth(d) /\ q = Stacks[d] /\ p1 = parent_pcb /\ t1 = TrueTop(d)
  BY DEF StacksInv
<1> n \in Nat
  BY <1>2
<1>3. PICK r, p2 : r = Stacks'[d] /\ p2 = parent_pcb'
  OBVIOUS
<1>4. n \in Nat /\ Spine(p1, t1, n, q) /\ \A i \in 1 .. n : p2[q[i]] = p1[q[i]]
  BY <1>2, <1>3 DEF StacksInv, Members
<1>5. PICK m \in Nat : n < m /\ m <= n + 1 /\ Spine(p2, new, m, r)
  <2>1. Depth(d)' = n + 1 /\ n + 1 \in Nat
    BY <1>2
  <2>2. Spine(p2, new, Depth(d)', r)
    BY <1>3 DEF StacksInv
  <2>3. PICK m : m = Depth(d)'
    OBVIOUS
  <2>4. QED BY <2>1, <2>2, <2>3
<1>6. n > 0 => p2[new] = t1
  BY <1>2, <1>3
<1>7. r = Append(q, new)
  <2>1. Extends(p1, p2, t1, new, n, m, q, r)
    BY <1>4, <1>5, <1>6 DEF Extends
  <2>2. QED BY <2>1, SpineGrows
<1>8. Stacks = [t \in Terminals |-> Stacks[t]] /\ Stacks' = [t \in Terminals |-> Stacks'[t]]
  BY DEF Stacks
<1>9. QED BY <1>1, <1>2, <1>3, <1>7, <1>8

LEMMA StackShrinks ==
    ASSUME StacksInv, StacksInv', NEW d \in Terminals,
           Depth(d) = Depth(d)' + 1, Depth(d)' > 0 => parent_pcb[TrueTop(d)] = TrueTop(d)',
           \A t \in Terminals \ {d} : SameTop(t),
           \A s \in global_pcb_ptrs : terminal_num[s] # d => parent_pcb'[s] = parent_pcb[s],
           \A s \in global_pcb_ptrs' : parent_pcb'[s] = parent_pcb[s]
    PROVE  Stacks' = [Stacks EXCEPT ![d] = SubSeq(@, 1, Len(@) - 1)]
<1>1. \A t \in Terminals \ {d} : Stacks'[t] = Stacks[t]
  BY StackKept DEF Members
<1>2. PICK n, q, p1, t1 :
         n \in Nat /\ n = Depth(d)' /\ q = Stacks'[d] /\ p1 = parent_pcb' /\ t1 = TrueTop(d)'
  BY DEF StacksInv
<1> n \in Nat
  BY <1>2
<1>3. PICK r, p2, t2 : r = Stacks[d] /\ p2 = parent_pcb /\ t2 = TrueTop(d)
  OBVIOUS
<1>4. n \in Nat /\ Spine(p1, t1, n, q) /\ \A i \in 1 .. n : p2[q[i]] = p1[q[i]]
  BY <1>2, <1>3 DEF StacksInv, Members
<1>5. PICK m \in Nat : n < m /\ m <= n + 1 /\ Spine(p2, t2, m, r)
  <2>1. Depth(d) = n + 1 /\ n + 1 \in Nat
    BY <1>2
  <2>2. Spine(p2, t2, Depth(d), r)
    BY <1>3 DEF StacksInv
  <2>3. PICK m : m = Depth(d)
    OBVIOUS
  <2>4. QED BY <2>1, <2>2, <2>3
<1>6. n > 0 => p2[t2] = t1
  BY <1>2, <1>3
<1>7. q = SubSeq(r, 1, Len(r) - 1)
  <2>1. Extends(p1, p2, t1, t2, n, m, q, r)
    BY <1>4, <1>5, <1>6 DEF Extends
  <2>2. QED BY <2>1, SpineGrows
<1>8. Stacks = [t \in Terminals |-> Stacks[t]] /\ Stacks' = [t \in Terminals |-> Stacks'[t]]
  BY DEF Stacks
<1>9. QED BY <1>1, <1>2, <1>3, <1>7, <1>8

\* Before and after a step of the core in its invariant, and what the step is to Sessions.
Sound == FullInv /\ FullInv' /\ StacksInv /\ StacksInv'

SessionStep == S!Next \/ UNCHANGED <<Stacks, displayed_terminal, RunningTerminal>>

\* Places at which num_progs or top_process are ahead of the PCBs, or the PCB is gone.
Between == GhostSteps \union {"count", "destroy"}

LEMMA Stutters ==
    ASSUME Sound, \A t \in Terminals : SameTop(t),
           \A s \in global_pcb_ptrs : parent_pcb'[s] = parent_pcb[s],
           displayed_terminal' = displayed_terminal, RunningTerminal' = RunningTerminal
    PROVE  SessionStep
<1>1. Stacks' = Stacks
  BY StacksKept DEF Sound
<1>2. QED BY <1>1 DEF SessionStep

\* A statement of the current process that touches neither counts nor PCBs.
LEMMA InPlaceStutters ==
    ASSUME Sound, cur \in Contexts, cur' = cur, place[cur] \notin Between, place'[cur] \notin Between,
           UNCHANGED <<global_pcb_ptrs, parent_pcb, terminal_num, termVars, displayed_terminal>>
    PROVE  SessionStep
<1>1. \A t \in Terminals : SameTop(t)
  BY DEF SameTop, Depth, TrueTop, Between, GhostSteps, termVars
<1>2. RunningTerminal' = RunningTerminal
  BY DEF RunningTerminal, Between
<1>3. QED BY <1>1, <1>2, Stutters

\* No step of the core ends in a crash.
LEMMA NoCrashStep == ASSUME Sound PROVE ~Crash
  BY Numbers DEF Sound, FullInv, IInv, BootInv, Crash

LEMMA CallsStutter ==
    ASSUME Sound, CallHalt \/ Fault \/ HaltEntry \/ HaltTest \/ HaltLastSetCr3 \/ HaltRemap
                  \/ HaltSetTss \/ HaltSetCr3 \/ HaltLastCleanup \/ HaltCleanup
    PROVE  SessionStep
<1> USE DEF pcbVars, termVars, hwVars, haltVars
<1>1. PICK p \in HaltSteps \union {"run"} :
         /\ cur \in Contexts /\ cur' = cur /\ place[cur] \notin Between /\ p \notin Between
         /\ Goto(p)
         /\ UNCHANGED <<global_pcb_ptrs, parent_pcb, terminal_num, termVars, displayed_terminal>>
  <2>1. CASE CallHalt \/ Fault \/ HaltEntry
    BY <2>1 DEF CallHalt, Fault, MayEnd, HaltEntry, At, HaltSteps, Between, GhostSteps
  <2>2. CASE HaltTest \/ HaltLastSetCr3 \/ HaltRemap \/ HaltSetTss
    BY <2>2 DEF HaltTest, HaltLastSetCr3, HaltRemap, HaltSetTss, At, HaltSteps, Between, GhostSteps
  <2>3. CASE HaltSetCr3 \/ HaltLastCleanup \/ HaltCleanup
    BY <2>3, NoCrashStep DEF HaltSetCr3, HaltLastCleanup, HaltCleanup, CleanupPgDir, At, HaltSteps,
       Between, GhostSteps
  <2>4. QED BY <2>1, <2>2, <2>3
<1>2. place'[cur] = p
  BY <1>1 DEF Goto, Sound, FullInv, TypeInv, TypeOK
<1>3. QED BY <1>1, <1>2, InPlaceStutters

\* execute that fails only touches a slot without a PCB.
LEMMA FailedExecuteStutters ==
    ASSUME Sound, Core, ExecuteFails
    PROVE  SessionStep
<1> USE DEF pcbVars, termVars, hwVars, haltVars
<1>1. FullInv
  BY DEF Sound
<1>2. /\ cur \in Slots /\ cur \in global_pcb_ptrs /\ place[cur] = "run"
      /\ UNCHANGED <<global_pcb_ptrs, termVars, displayed_terminal, cur, place, haltVars>>
  BY <1>1, Parts, Current DEF ExecuteFails, DoExecuteFails, At, GhostSteps
<1>3. \A s \in global_pcb_ptrs :
         parent_pcb'[s] = parent_pcb[s] /\ terminal_num'[s] = terminal_num[s]
  <2>1. SUFFICES ASSUME NEW new \in Slots, FirstFree(new),
                        parent_pcb' = [parent_pcb EXCEPT ![new] = Null],
                        terminal_num' = [terminal_num EXCEPT ![new] = 0]
                 PROVE  \A s \in global_pcb_ptrs :
                           parent_pcb'[s] = parent_pcb[s] /\ terminal_num'[s] = terminal_num[s]
    BY DEF ExecuteFails, DoExecuteFails
  <2>2. \A s \in global_pcb_ptrs : s # new /\ s \in Contexts
    BY <1>1, <2>1, Parts, Numbers DEF FirstFree, FreeSlots, TypeOK
  <2>3. QED BY <1>1, <2>1, <2>2, Parts DEF TypeOK
<1>4. \A t \in Terminals : SameTop(t)
  BY <1>2 DEF SameTop, Depth, TrueTop
<1>5. RunningTerminal' = RunningTerminal
  BY <1>2, <1>3 DEF RunningTerminal, GhostSteps
<1>6. QED BY <1>2, <1>3, <1>4, <1>5, Stutters

\* halt's assignments to top_process and num_progs come before the PCB is destroyed, or
\* after, and are no moves of their own.
LEMMA CountsStutter ==
    ASSUME Sound, HaltSetTop \/ HaltCount \/ HaltLastCount
    PROVE  SessionStep
<1> USE DEF pcbVars, termVars, hwVars, haltVars
<1>1. FullInv
  BY DEF Sound
<1>2. /\ cur \in Slots /\ cur \in Contexts /\ cur' = cur
      /\ UNCHANGED <<global_pcb_ptrs, parent_pcb, terminal_num, displayed_terminal, haltVars>>
  BY <1>1, Parts, Current DEF HaltSetTop, HaltCount, HaltLastCount, CountDown, At
<1>3. halt_terminal[cur] \in Terminals /\ \A t \in Terminals : num_progs[t] \in Int
  BY <1>1, <1>2, Parts DEF TypeOK
<1>4. CASE HaltSetTop
  <2>1. place[cur] = "top" /\ place'[cur] = "count"
    BY <1>1, <1>2, <1>4, Parts DEF HaltSetTop, At, Goto, TypeOK
  <2>2. Handing
    BY <1>1, <1>2, <2>1, Parts, Current, HaltParent DEF HandOver, GhostSteps
  <2>3. /\ num_progs' = num_progs
        /\ \A t \in Terminals \ {halt_terminal[cur]} : top_process'[t] = top_process[t]
    BY <1>1, <1>4, Parts DEF HaltSetTop, TypeOK
  <2>4. \A t \in Terminals : SameTop(t)
    BY <1>2, <2>1, <2>2, <2>3 DEF SameTop, Depth, TrueTop, Handing
  <2>5. RunningTerminal' = RunningTerminal
    BY <1>2, <2>1 DEF RunningTerminal, GhostSteps
  <2>6. QED BY <1>2, <2>4, <2>5, Stutters
<1>5. CASE HaltCount \/ HaltLastCount
  <2>1. \/ place[cur] = "count" /\ place'[cur] = "destroy"
        \/ place[cur] = "last_count" /\ place'[cur] = "relaunch"
    BY <1>1, <1>2, <1>5, Parts DEF HaltCount, HaltLastCount, CountDown, At, Goto, TypeOK
  <2>2. /\ top_process' = top_process
        /\ num_progs'[halt_terminal[cur]] = num_progs[halt_terminal[cur]] - 1
        /\ \A t \in Terminals \ {halt_terminal[cur]} : num_progs'[t] = num_progs[t]
    BY <1>1, <1>3, <1>5, Parts DEF HaltCount, HaltLastCount, CountDown, TypeOK
  <2>3. \A t \in Terminals : TrueTop(t)' = TrueTop(t)
    BY <1>2, <2>1, <2>2 DEF TrueTop
  <2>4. ASSUME NEW t \in Terminals PROVE Depth(t)' = Depth(t)
    <3>1. CASE t = halt_terminal[cur]
      BY <1>2, <1>3, <2>1, <2>2, <3>1 DEF Depth
    <3>2. CASE t # halt_terminal[cur]
      BY <1>2, <2>1, <2>2, <3>2 DEF Depth
    <3>3. QED BY <3>1, <3>2
  <2>5. RunningTerminal' = RunningTerminal
    BY <1>2, <2>1 DEF RunningTerminal, GhostSteps
  <2>6. QED BY <1>2, <2>3, <2>4, <2>5, Stutters DEF SameTop
<1>6. QED BY <1>4, <1>5

\* halt's return to the parent: the terminal keeps the CPU.
LEMMA ReturnStutters ==
    ASSUME Sound, HaltReturn
    PROVE  SessionStep
<1> USE DEF pcbVars, termVars, hwVars, haltVars
<1>1. FullInv
  BY DEF Sound
<1> DEFINE d == halt_terminal[cur]
           parent == halt_parent[cur]
<1>2. cur \in Slots /\ cur \in Contexts /\ place[cur] = "return" /\ cur \notin global_pcb_ptrs
  BY <1>1, Parts, Numbers, Current DEF HaltReturn, At, GhostSteps, PlaceInv
<1>3. d \in Terminals /\ top_process[d] = parent /\ Depth(d) > 0
  BY <1>1, <1>2, Parts DEF ReturnInv, TypeOK
<1>4. /\ cur' = parent /\ place' = [place EXCEPT ![cur] = "none", ![parent] = "run"]
      /\ halt_terminal' = [halt_terminal EXCEPT ![cur] = 0]
      /\ UNCHANGED <<global_pcb_ptrs, pcbVars, termVars, displayed_terminal>>
  BY NoCrashStep DEF HaltReturn
<1>5. parent \in global_pcb_ptrs /\ terminal_num[parent] = d
  BY <1>1, <1>2, <1>3, LiveTop DEF TrueTop
<1>6. parent \in Contexts /\ place'[parent] = "run"
  BY <1>1, <1>4, <1>5, Parts, Numbers DEF TypeOK
<1>7. \A t \in Terminals : SameTop(t)
  BY <1>2, <1>4, <1>6 DEF SameTop, Depth, TrueTop
<1>8. RunningTerminal' = RunningTerminal
  BY <1>2, <1>4, <1>5, <1>6 DEF RunningTerminal, GhostSteps
<1>9. QED BY <1>4, <1>7, <1>8, Stutters

\* Which programs Sessions takes for started: all have a PCB.
LEMMA StartedHasPcb ==
    ASSUME StacksInv
    PROVE  /\ S!Started \subseteq global_pcb_ptrs
           /\ \A t \in Terminals : Len(Stacks[t]) = Depth(t) /\ (Stacks[t] # << >> <=> Depth(t) > 0)
<1>1. \A t \in Terminals :
         /\ Depth(t) \in Nat /\ Stacks[t] \in Seq(Slots) /\ Len(Stacks[t]) = Depth(t)
         /\ \A i \in 1 .. Len(Stacks[t]) : Stacks[t][i] \in global_pcb_ptrs
  BY DEF StacksInv, Spine, Members
<1>2. \A t \in Terminals : Stacks[t] # << >> <=> Depth(t) > 0
  BY <1>1, EmptySeq
<1>3. QED BY <1>1, <1>2 DEF S!Started

\* A program ends when halt destroys its PCB.
LEMMA DestroyEnds ==
    ASSUME Sound, HaltDestroy \/ HaltLastDestroy
    PROVE  S!End
<1> USE DEF termVars, hwVars, haltVars
<1>1. FullInv /\ FullInv' /\ StacksInv /\ StacksInv'
  BY DEF Sound
<1>2. /\ cur \in Slots /\ cur \in Contexts /\ cur \in global_pcb_ptrs /\ ~launching
      /\ place[cur] \in {"destroy", "last_destroy"}
  BY <1>1, Parts, Numbers, Current DEF HaltDestroy, HaltLastDestroy, At, GhostSteps
<1>3. PICK d \in Terminals :
         /\ terminal_num[cur] = d /\ halt_terminal[cur] = d
         /\ cur = TrueTop(d) /\ Depth(d) \in Nat \ {0}
  BY <1>1, <1>2, Parts, CurrentIsTop DEF LocalsInv, HaltSteps
<1>4. /\ \A c \in Contexts \ {cur} : parent_pcb'[c] = parent_pcb[c]
      /\ global_pcb_ptrs' = global_pcb_ptrs \ {cur}
      /\ UNCHANGED <<termVars, displayed_terminal, cur, haltVars>>
  BY <1>1, <1>2, Parts DEF HaltDestroy, HaltLastDestroy, DestroyPcb, ClearPcb, TypeOK
<1>5. place'[cur] = IF place[cur] = "destroy" THEN "return" ELSE "last_count"
  BY <1>1, <1>2, Parts DEF HaltDestroy, HaltLastDestroy, DestroyPcb, At, Goto, TypeOK
<1>6. \A t \in Terminals \ {d} : SameTop(t)
  BY <1>2, <1>3, <1>4, <1>5 DEF SameTop, Depth, TrueTop
<1>7. Depth(d) = Depth(d)' + 1
  <2>1. num_progs[d] \in Int
    BY <1>1, <1>3, Parts DEF TypeOK
  <2>2. QED BY <1>2, <1>3, <1>4, <1>5, <2>1 DEF Depth
<1>8. Depth(d)' > 0 => parent_pcb[TrueTop(d)] = TrueTop(d)'
  <2>1. ASSUME place[cur] = "destroy"
        PROVE  parent_pcb[TrueTop(d)] = TrueTop(d)'
    <3>1. Handing /\ top_process[d] = halt_parent[cur]
      BY <1>1, <1>2, <1>3, <2>1, Parts, HaltParent DEF HandOver, ReturnInv
    <3>2. QED BY <1>2, <1>3, <1>4, <1>5, <2>1, <3>1 DEF TrueTop, Handing
  <2>2. ASSUME place[cur] = "last_destroy"
        PROVE  ~(Depth(d)' > 0)
    <3>1. num_progs[d] = 1
      BY <1>1, <1>2, <1>3, <2>2, Parts, LastShell DEF LastSteps
    <3>2. Depth(d)' = 0
      BY <1>2, <1>3, <1>4, <1>5, <2>2, <3>1 DEF Depth
    <3>3. QED BY <3>2
  <2>3. place[cur] = "destroy" \/ place[cur] = "last_destroy"
    BY <1>2
  <2>4. QED BY <2>1, <2>2, <2>3
<1>9. \A s \in global_pcb_ptrs : terminal_num[s] # d => parent_pcb'[s] = parent_pcb[s]
  BY <1>1, <1>3, <1>4, Parts, Numbers DEF TypeOK
<1>10. \A s \in global_pcb_ptrs' : parent_pcb'[s] = parent_pcb[s]
  BY <1>1, <1>4, Parts, Numbers DEF TypeOK
<1>11. RunningTerminal = d /\ RunningTerminal' = d
  BY <1>2, <1>3, <1>4, <1>5 DEF RunningTerminal, GhostSteps
<1>12. Stacks' = [Stacks EXCEPT ![d] = SubSeq(@, 1, Len(@) - 1)]
  BY <1>1, <1>6, <1>7, <1>8, <1>9, <1>10, StackShrinks
<1>13. S!Ready
  <2>1. Depth(displayed_terminal) > 0 /\ displayed_terminal \in Terminals
    BY <1>1, <1>2, Parts DEF DisplayInv, TypeOK
  <2>2. QED BY <1>1, <2>1, StartedHasPcb DEF S!Ready
<1>14. Len(Stacks[d]) = Depth(d) /\ Stacks[d] # << >>
  BY <1>1, <1>3, StartedHasPcb
<1>15. Depth(d) = 1 => d = displayed_terminal
  <2>1. CASE place[cur] = "destroy"
    <3>1. Depth(d) > 1
      BY <1>1, <1>2, <1>3, <2>1, Parts, HaltParent DEF HandOver, Handing
    <3>2. QED BY <3>1
  <2>2. CASE place[cur] = "last_destroy"
    BY <1>1, <1>2, <1>3, <2>2, Parts, LastShell DEF LastSteps
  <2>3. QED BY <1>2, <2>1, <2>2
<1>16. QED BY <1>3, <1>4, <1>11, <1>12, <1>13, <1>14, <1>15 DEF S!End

\* do_execute puts a new program on the stack of the displayed terminal, on top of the
\* one that called it, and gives it the CPU.
LEMMA SpawnGrows ==
    ASSUME Sound, Core, NEW new \in Slots, DoExecute(new), cur \in Contexts, place'[new] = "run",
           place[cur] \in {"boot", "run", "relaunch"} \union Windows,
           Depth(displayed_terminal) > 0 => cur = TrueTop(displayed_terminal)
    PROVE  /\ Stacks' = [Stacks EXCEPT ![displayed_terminal] = Append(@, new)]
           /\ new \in Slots \ S!Started
           /\ displayed_terminal' = displayed_terminal
           /\ RunningTerminal' = displayed_terminal
<1>1. FullInv /\ StacksInv /\ StacksInv'
  BY DEF Sound
<1> PICK d \in Terminals : d = displayed_terminal
  BY <1>1, Parts DEF TypeOK
<1>2. \A t \in Terminals : Depth(t) = num_progs[t] /\ TrueTop(t) = top_process[t]
  BY <1>1, Parts, Counted
<1>3. /\ cur' = new /\ new \in Contexts /\ new \notin global_pcb_ptrs
      /\ parent_pcb' = [parent_pcb EXCEPT ![new] = cur]
      /\ terminal_num' = [terminal_num EXCEPT ![new] = d]
      /\ top_process' = [top_process EXCEPT ![d] = new]
      /\ num_progs' = [num_progs EXCEPT ![d] = @ + 1]
      /\ displayed_terminal' = d
  BY Numbers DEF DoExecute, FirstFree, FreeSlots
<1>4. /\ num_progs'[d] = num_progs[d] + 1 /\ top_process'[d] = new
      /\ \A t \in Terminals \ {d} : num_progs'[t] = num_progs[t] /\ top_process'[t] = top_process[t]
      /\ parent_pcb'[new] = cur /\ terminal_num'[new] = d
      /\ \A s \in global_pcb_ptrs : parent_pcb'[s] = parent_pcb[s]
  BY <1>1, <1>3, Parts, Numbers DEF TypeOK
<1>5. \A t \in Terminals : Depth(t)' = num_progs'[t] /\ TrueTop(t)' = top_process'[t]
  BY <1>3 DEF Depth, TrueTop
<1>6. /\ Depth(d)' = Depth(d) + 1 /\ TrueTop(d)' = new
      /\ Depth(d) > 0 => parent_pcb'[new] = TrueTop(d)
      /\ \A t \in Terminals \ {d} : SameTop(t)
  BY <1>1, <1>2, <1>4, <1>5 DEF SameTop
<1>7. RunningTerminal' = d
  BY <1>3, <1>4 DEF RunningTerminal, GhostSteps
<1>8. new \notin S!Started
  BY <1>1, <1>3, StartedHasPcb
<1>9. Stacks' = [Stacks EXCEPT ![d] = Append(Stacks[d], new)]
  BY <1>1, <1>4, <1>6, StackGrows
<1>10. QED BY <1>3, <1>7, <1>8, <1>9

\* A program of the displayed terminal starts another, or the boot code the first shell.
LEMMA ExecuteMoves ==
    ASSUME Sound, Core, Execute
    PROVE  \E p \in Slots : S!Start(p) \/ S!Launch(p)
<1> DEFINE d == displayed_terminal
<1>1. FullInv /\ StacksInv /\ d \in Terminals
  BY Parts DEF Sound, TypeOK
<1>2. PICK new \in Slots :
         DoExecute(new) /\ place' = [place EXCEPT ![cur] = "exec", ![new] = "run"]
  BY DEF Execute
<1>3. cur \in Contexts /\ place[cur] \in {"boot", "run"} /\ place'[new] = "run"
  <2>1. place \in [Contexts -> Places] /\ new \in Contexts
    BY <1>1, Parts, Numbers DEF TypeOK
  <2>2. QED BY <1>2, <2>1 DEF Execute, At
<1>4. \A t \in Terminals : Depth(t) = num_progs[t]
  BY <1>1, <1>3, Parts, Counted
<1>5. Len(Stacks[d]) = Depth(d) /\ (Stacks[d] # << >> <=> Depth(d) > 0) /\ Stacks[d] \in Seq(Slots)
  BY <1>1, StartedHasPcb DEF StacksInv, Spine
<1>6. CASE place[cur] = "boot"
  <2>1. Depth(d) = 0
    BY <1>1, <1>3, <1>4, <1>6, Parts DEF BootInv, PlaceInv, Contexts
  <2>2. Stacks[d] = << >>
    BY <1>5, <2>1
  <2>3. /\ Stacks' = [Stacks EXCEPT ![d] = Append(Stacks[d], new)] /\ new \notin S!Started
        /\ displayed_terminal' = d /\ RunningTerminal' = d
    <3>1. place[cur] \in {"boot", "run", "relaunch"} \union Windows /\ ~(Depth(d) > 0)
      BY <1>6, <2>1
    <3>2. QED BY <1>2, <1>3, <3>1, SpawnGrows
  <2>4. Append(<< >>, new) = <<new>>
    OBVIOUS
  <2>5. QED BY <2>2, <2>3, <2>4 DEF S!Launch, S!Ready
<1>7. CASE place[cur] = "run"
  <2>1. cur \in global_pcb_ptrs /\ terminal_num[cur] = d
    BY <1>1, <1>3, <1>7, Parts, Current DEF GhostSteps, Execute, InForeground, At, Core, SafeWindows
  <2>2. cur = TrueTop(d) /\ Depth(d) > 0
    BY <1>1, <2>1, Parts, CurrentIsTop
  <2>3. /\ Stacks' = [Stacks EXCEPT ![d] = Append(@, new)] /\ new \notin S!Started
        /\ displayed_terminal' = d /\ RunningTerminal' = d
    BY <1>2, <1>3, <1>7, <2>2, SpawnGrows
  <2>4. RunningTerminal = d
    BY <1>3, <1>7, <2>1 DEF RunningTerminal, GhostSteps
  <2>5. S!Ready
    BY <1>5, <2>2 DEF S!Ready
  <2>6. QED BY <2>3, <2>4, <2>5 DEF S!Start
<1>8. QED BY <1>3, <1>6, <1>7

\* The shells that halt and change_terminal start are those of an empty terminal on display.
LEMMA LaunchMoves ==
    ASSUME Sound, Core, HaltRelaunch \/ LaunchShell
    PROVE  \E p \in Slots : S!Launch(p)
<1> DEFINE d == displayed_terminal
<1>1. FullInv /\ StacksInv /\ d \in Terminals
  BY Parts DEF Sound, TypeOK
<1>2. PICK new \in Slots :
         /\ DoExecute(new)
         /\ place' \in {[place EXCEPT ![cur] = "none", ![new] = "run"],
                        [place EXCEPT ![new] = "run"]}
  BY DEF HaltRelaunch, LaunchShell
<1>3. place'[new] = "run"
  <2>1. place \in [Contexts -> Places] /\ new \in Contexts
    BY <1>1, Parts, Numbers DEF TypeOK
  <2>2. QED BY <1>2, <2>1
<1>4. /\ cur \in Contexts /\ place[cur] \in {"run", "relaunch"} \union Windows
      /\ num_progs[d] = 0
  <2>1. CASE HaltRelaunch
    BY <1>1, <2>1, Parts, Current DEF HaltRelaunch, At, LastInv
  <2>2. CASE LaunchShell
    BY <1>1, <2>2, Parts DEF LaunchShell, LaunchInv
  <2>3. QED BY <2>1, <2>2
<1>5. Depth(d) = 0
  BY <1>1, <1>4, Parts, Counted
<1>6. Stacks[d] = << >>
  BY <1>1, <1>5, StartedHasPcb
<1>7. /\ Stacks' = [Stacks EXCEPT ![d] = Append(Stacks[d], new)] /\ new \notin S!Started
      /\ displayed_terminal' = d /\ RunningTerminal' = d
  BY <1>2, <1>3, <1>4, <1>5, SpawnGrows
<1>8. Append(<< >>, new) = <<new>>
  OBVIOUS
<1>9. QED BY <1>6, <1>7, <1>8 DEF S!Launch, S!Ready

\* The PIT gives the CPU to the innermost program of another terminal.
LEMMA PitMoves ==
    ASSUME Sound, Core, PitHandler
    PROVE  \E t \in Terminals : S!Switch(t)
<1> USE DEF pcbVars, termVars, hwVars, haltVars
<1>1. FullInv /\ StacksInv
  BY DEF Sound
<1>2. PICK n \in Terminals : NextTask(terminal_num[cur], n) /\ SwitchTask(n)
  BY DEF PitHandler
<1>3. /\ cur \in Slots /\ cur \in global_pcb_ptrs /\ ~launching
      /\ place[cur] \in {"run", "halt", "test", "last_cr3", "remap"}
      /\ place[cur] \in {"run"} \union Windows
  BY <1>1, Interrupted DEF PitHandler
<1>4. \A t \in Terminals : Depth(t) = num_progs[t] /\ TrueTop(t) = top_process[t]
  BY <1>1, <1>3, Parts, Numbers, Counted
<1> DEFINE new == top_process[n]
<1>5. /\ cur' = new /\ new \in Contexts
      /\ place' = place \/ place' = [place EXCEPT ![new] = "run"]
      /\ UNCHANGED <<global_pcb_ptrs, parent_pcb, terminal_num, termVars, displayed_terminal>>
  BY <1>2, NoCrashStep DEF SwitchTask
<1>6. Depth(n) > 0 /\ new \in global_pcb_ptrs /\ terminal_num[new] = n
  BY <1>1, <1>2, <1>4, LiveTop DEF NextTask
<1>7. place[new] \in {"run", "halt", "test", "last_cr3", "remap"}
  BY <1>1, <1>3, <1>4, <1>6, Parts, Numbers, OffCpu
<1>8. place'[new] \notin Between
  <2>1. place'[new] \in {place[new], "run"}
    BY <1>1, <1>5, Parts DEF TypeOK
  <2>2. QED BY <1>7, <2>1 DEF Between, GhostSteps
<1>9. \A t \in Terminals : SameTop(t)
  BY <1>3, <1>5, <1>8 DEF SameTop, Depth, TrueTop, Between, GhostSteps
<1>10. Stacks' = Stacks
  BY <1>5, <1>9, StacksKept DEF Sound
<1>11. RunningTerminal = terminal_num[cur] /\ RunningTerminal' = n
  BY <1>3, <1>5, <1>6, <1>8, Numbers DEF RunningTerminal, GhostSteps, Between
<1>12. n # terminal_num[cur]
  <2>1. PICK t \in 0 .. NUM_TERMINALS - 1 : t = terminal_num[cur]
    BY <1>1, <1>3, Parts, Numbers DEF TypeOK, Terminals
  <2>2. PICK i \in 1 .. NUM_TERMINALS - 1 : n = (i + t) % NUM_TERMINALS
    BY <1>2, <2>1 DEF NextTask
  <2>3. QED BY <2>1, <2>2, TerminalAssumption
<1>13. S!Ready
  <2>1. displayed_terminal \in Terminals /\ Depth(displayed_terminal) > 0
    BY <1>1, <1>3, Parts DEF DisplayInv, TypeOK
  <2>2. QED BY <1>1, <2>1, StartedHasPcb DEF S!Ready
<1>14. Stacks[n] # << >>
  BY <1>1, <1>6, StartedHasPcb
<1>15. QED BY <1>5, <1>10, <1>11, <1>12, <1>13, <1>14 DEF S!Switch

\* change_terminal only shows a terminal that has a program, or a slot for its shell.
LEMMA DisplayMoves ==
    ASSUME Sound, Core, NEW new \in Terminals, ChangeTerminal(new)
    PROVE  S!Display(new)
<1> USE DEF pcbVars, termVars, hwVars, haltVars
<1>1. FullInv /\ StacksInv
  BY DEF Sound
<1>2. /\ cur \in Slots /\ cur \in global_pcb_ptrs /\ ~launching
      /\ place[cur] \in {"run", "halt", "test", "last_cr3", "remap"}
      /\ place[cur] \in {"run"} \union Windows
  BY <1>1, Interrupted DEF ChangeTerminal
<1>3. \A t \in Terminals : Depth(t) = num_progs[t] /\ TrueTop(t) = top_process[t] /\ Depth(t) \in Nat
  BY <1>1, <1>2, Parts, Numbers, Counted DEF ChainInv
<1>4. /\ displayed_terminal' = new /\ new # displayed_terminal
      /\ ProgramCount(num_progs) < MAX_NUM_PROCESS \/ num_progs[new] # 0
      /\ UNCHANGED <<global_pcb_ptrs, parent_pcb, terminal_num, termVars, cur, place, haltVars>>
  BY NoCrashStep DEF ChangeTerminal
<1>5. \A t \in Terminals : SameTop(t)
  BY <1>4 DEF SameTop, Depth, TrueTop
<1>6. Stacks' = Stacks
  BY <1>4, <1>5, StacksKept DEF Sound
<1>7. RunningTerminal' = RunningTerminal
  BY <1>4 DEF RunningTerminal
<1>8. S!Ready
  <2>1. displayed_terminal \in Terminals /\ Depth(displayed_terminal) > 0
    BY <1>1, <1>2, Parts DEF DisplayInv, TypeOK
  <2>2. QED BY <1>1, <2>1, StartedHasPcb DEF S!Ready
<1>9. Stacks[new] # << >> \/ S!Started # Slots
  <2>1. CASE num_progs[new] # 0
    BY <1>1, <1>3, <2>1, StartedHasPcb
  <2>2. CASE ProgramCount(num_progs) < MAX_NUM_PROCESS
    <3>1. FreeSlots # {}
      BY <1>1, <1>3, <2>2, Parts, FreeSlotLeft DEF CountInv
    <3>2. QED BY <1>1, <3>1, StartedHasPcb DEF FreeSlots
  <2>3. QED BY <1>4, <2>1, <2>2
<1>10. QED BY <1>4, <1>6, <1>7, <1>8, <1>9 DEF S!Display

LEMMA SessionsInit == Init => S!Init
<1> SUFFICES ASSUME Init PROVE S!Init
  OBVIOUS
<1>1. FullInv
  BY TypeInit, CleanInit, IInit DEF FullInv
<1>2. \A t \in Terminals : Depth(t) = 0
  BY Numbers DEF Init, Depth, Contexts
<1>3. \A t \in Terminals : Stacks[t] = << >>
  BY <1>1, <1>2, StacksRead, StartedHasPcb
<1>4. Stacks = [t \in Terminals |-> Stacks[t]]
  BY DEF Stacks
<1>5. Stacks = [t \in Terminals |-> << >>]
  BY <1>3, <1>4
<1>6. displayed_terminal = 0 /\ RunningTerminal = 0
  BY Numbers DEF Init, RunningTerminal, GhostSteps
<1>7. QED BY <1>5, <1>6 DEF S!Init

LEMMA SessionsStep ==
    ASSUME Core
    PROVE  Sound /\ [Next]_vars => SessionStep
<1> SUFFICES ASSUME Sound, [Next]_vars PROVE SessionStep
  OBVIOUS
<1>1. CASE Execute
  BY <1>1, ExecuteMoves DEF SessionStep, S!Next
<1>2. CASE ExecuteFails
  BY <1>2, FailedExecuteStutters
<1>3. CASE CallHalt \/ Fault \/ HaltEntry \/ HaltTest \/ HaltLastSetCr3 \/ HaltRemap
           \/ HaltSetTss \/ HaltSetCr3 \/ HaltLastCleanup \/ HaltCleanup
  BY <1>3, CallsStutter
<1>4. CASE HaltSetTop \/ HaltCount \/ HaltLastCount
  BY <1>4, CountsStutter
<1>5. CASE HaltDestroy \/ HaltLastDestroy
  BY <1>5, DestroyEnds DEF SessionStep, S!Next
<1>6. CASE HaltReturn
  BY <1>6, ReturnStutters
<1>7. CASE HaltRelaunch \/ LaunchShell
  BY <1>7, LaunchMoves DEF SessionStep, S!Next
<1>8. CASE PitHandler
  BY <1>8, PitMoves DEF SessionStep, S!Next
<1>9. CASE \E t \in Terminals : ChangeTerminal(t)
  BY <1>9, DisplayMoves DEF SessionStep, S!Next
<1>10. CASE LaunchShellFails
  BY <1>10, LaunchShellFailsStep DEF Sound
<1>11. CASE UNCHANGED vars
  <2> USE DEF pcbVars, termVars, hwVars, haltVars
  <2>1. \A t \in Terminals : SameTop(t)
    BY <1>11 DEF vars, SameTop, Depth, TrueTop
  <2>2. RunningTerminal' = RunningTerminal
    BY <1>11 DEF vars, RunningTerminal
  <2>3. QED BY <1>11, <2>1, <2>2, Stutters DEF vars
<1>12. QED
  BY <1>1, <1>2, <1>3, <1>4, <1>5, <1>6, <1>7, <1>8, <1>9, <1>10, <1>11 DEF Next, Halt

\* The safety part of ImplementsSessions, for any number of slots and terminals: every step
\* of execute, halt, change_terminal and the PIT is one move of Sessions or none, as long as
\* halt is interrupted only before it hands over (Windows \subseteq SafeWindows).
THEOREM SessionsImplemented ==
    ASSUME Core
    PROVE  Spec => S!Init /\ [][S!Next]_(S!vars)
<1>1. Init => S!Init
  BY SessionsInit
<1>2. FullInv => StacksInv
  BY StacksRead
<1>3. Sound /\ [Next]_vars => [S!Next]_(S!vars)
  BY SessionsStep DEF SessionStep, S!vars
<1>4. FullInv /\ FullInv' /\ StacksInv /\ StacksInv' => Sound
  BY DEF Sound
<1>5. QED BY <1>1, <1>2, <1>3, <1>4, InvariantHolds, PTL DEF Spec
===============================================================================
