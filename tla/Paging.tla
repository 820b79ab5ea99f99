-------------------------------- MODULE Paging --------------------------------
(***************************************************************************)
(* Page directories and page tables: paging.c, and the calls to it of      *)
(* do_execute (syscall_exec.c), halt (system_call.c) and change_terminal   *)
(* (keyboard.c).                                                           *)
(*                                                                         *)
(* Addresses are numbers of 4 KB pages, the real ones.  An entry is the    *)
(* page it points to, or None without PAGING_PRESENT; the other flags are  *)
(* left out.  The kernel has the directory Boot with pg_table, slot s has  *)
(* pg_dirs[s] and pg_tables[s].                                            *)
(*                                                                         *)
(* do_execute runs with IF=0: between its calls of map_page nothing else   *)
(* happens.  halt runs with IF=1: cleanup_pg_dir takes two steps, the      *)
(* directory and then the table, and between them a terminal may be        *)
(* changed, or the scheduler may run another program, which may halt too.  *)
(*                                                                         *)
(* The scheduler may even load the directory that has been cleaned: halt   *)
(* still is the top process of its terminal.  The processor then finds no  *)
(* kernel, which is NoCrash of module Kernel; here CR3 is only followed.   *)
(***************************************************************************)
EXTENDS Integers, Sequences

CONSTANT MAX_NUM_PROCESS

ASSUME PagingAssumption == MAX_NUM_PROCESS \in Nat \ {0}

Slots == 0 .. MAX_NUM_PROCESS - 1
Boot  == MAX_NUM_PROCESS
Dirs  == Slots \union {Boot}
None  == -1

\* paging.h, lib.h and syscall_exec.c.
FourM       == 1024                  \* PAGE_SIZE_4M = PAGE_BEGINNING_ADDR_4M
VIDEO       == 184                   \* 0xB8000
VIDEO_BUFS  == {185, 186, 187}
USER_VIDEO  == 188                   \* 0xBC000
TASK        == 32 * FourM            \* TASK_PAGE_VIRT_ADDR, 128 MB
KERNEL      == FourM
Frame       == [s \in Slots |-> 2 * FourM + s * FourM]   \* PHYSICAL_MEM_8MB + ...

\* The indexes that are used of the 1024 of each: PAGE_DIR_OFFSET, PAGE_TABLE_OFFSET.
DirOffset(p)   == p \div FourM
TableOffset(p) == p % FourM
PDE == {DirOffset(p) : p \in {VIDEO, KERNEL, TASK}}
PTE == {VIDEO, USER_VIDEO} \union VIDEO_BUFS

VARIABLES
    pg_dir,      \* directory -> entry -> a 4 MB page, or the directory whose table it is
    pg_table,    \* directory -> entry of its table -> a 4 KB page
    cr3,
    building,    \* do_execute's new slot and the number of its next map_page
    used,        \* slots of global_pcb_ptrs
    wiping       \* the slots whose directory is clean and whose table is not yet

vars == <<pg_dir, pg_table, cr3, building, used, wiping>>

NotBuilding == [slot |-> None, next |-> 0]

-------------------------------------------------------------------------------
(* paging.c, on directories and tables <<d, t>> *)

\* enable_global_pages for [first, end): low pages one by one, high ones as 4 MB.
\* A range across 4 MB is split there; a lower half that ends at 4 MB is an "illegal
\* state" and enables nothing.
enable_global_pages(d, t, first, end) ==
    IF first < end /\ end < FourM
    THEN <<d, [t EXCEPT ![Boot] = [i \in PTE |-> IF i \in first .. end - 1 THEN i ELSE @[i]]]>>
    ELSE IF first < end /\ end > FourM
    THEN LET from == IF first < FourM THEN FourM ELSE first
             last == from \div FourM + (end - from - 1) \div FourM
         IN  <<[d EXCEPT ![Boot] = [i \in PDE |-> IF i \in from \div FourM .. last
                                                  THEN i * FourM ELSE @[i]]], t>>
    ELSE <<d, t>>

\* map_page: -1 and no change for what is mapped already (the directory entry of a
\* table is filled in all the same), else the entries.
CanMap(d, t, dir, virt) ==
    IF virt < FourM THEN t[dir][TableOffset(virt)] = None ELSE d[dir][DirOffset(virt)] = None
map_page(d, t, dir, virt, phys) ==
    IF virt < FourM
    THEN <<[d EXCEPT ![dir][DirOffset(virt)] = IF @ = None THEN dir ELSE @],
           [t EXCEPT ![dir][TableOffset(virt)] = IF @ = None THEN phys ELSE @]>>
    ELSE <<[d EXCEPT ![dir][DirOffset(virt)] = IF @ = None THEN phys ELSE @], t>>

\* Seeded fault: the directory entry gets the kernel's table, pg_table.
remap_global(d, t, dir, virt, phys) ==
    <<[d EXCEPT ![dir][DirOffset(virt)] = IF @ = None THEN @ ELSE Boot],
      [t EXCEPT ![Boot][TableOffset(virt)] = IF @ = None THEN @ ELSE phys]>>

\* remap_page of a 4 KB page of a process: the entries that are present.
remap_page(d, t, dir, virt, phys) ==
    <<[d EXCEPT ![dir][DirOffset(virt)] = IF @ = None THEN @ ELSE dir],
      [t EXCEPT ![dir][TableOffset(virt)] = IF @ = None THEN @ ELSE phys]>>

EmptyDir   == [i \in PDE |-> None]
EmptyTable == [i \in PTE |-> None]

Becomes(pair) == pg_dir' = pair[1] /\ pg_table' = pair[2]

\* One more call of enable_global_pages.
Enable(pair, first, end) == enable_global_pages(pair[1], pair[2], first, end)

\* init_paging.  The first entry of the kernel's directory is its table.
Init ==
    LET d0 == [dir \in Dirs |-> [EmptyDir EXCEPT ![0] = IF dir = Boot THEN Boot ELSE None]]
        t0 == [dir \in Dirs |-> EmptyTable]
        k  == Enable(<<d0, t0>>, KERNEL, KERNEL + FourM)
        v  == Enable(k, VIDEO, VIDEO + 1)
        b1 == Enable(v, 185, 186)
        b2 == Enable(b1, 186, 187)
        b3 == Enable(b2, 187, 188)
        u  == map_page(b3[1], b3[2], Boot, USER_VIDEO, VIDEO)
    IN
    /\ pg_dir = u[1]
    /\ pg_table = u[2]
    /\ cr3 = Boot
    /\ building = NotBuilding
    /\ used = {}
    /\ wiping = {}

-------------------------------------------------------------------------------
(* do_execute *)

\* Its calls of map_page, in order.
Maps(s) == << <<185, 185>>, <<186, 186>>, <<187, 187>>, <<USER_VIDEO, VIDEO>>,
              <<TASK, Frame[s]>>, <<KERNEL, KERNEL>>, <<VIDEO, VIDEO>> >>

FirstFree(s) == s \in Slots \ used /\ \A r \in Slots \ used : s <= r

BeginExecute ==
    /\ building = NotBuilding
    /\ \E s \in Slots : FirstFree(s) /\ used' = used \union {s}
                                     /\ building' = [slot |-> s, next |-> 1]
    /\ UNCHANGED <<pg_dir, pg_table, cr3, wiping>>

\* The command is no executable: nothing has been mapped yet.
ExecuteNotFound ==
    /\ building.next = 1
    /\ used' = used \ {building.slot}
    /\ building' = NotBuilding
    /\ UNCHANGED <<pg_dir, pg_table, cr3, wiping>>

\* map_page never refuses (MapsAccepted); module Kernel follows the failure.
MapNext ==
    LET s == building.slot
        m == Maps(s)[building.next]
    IN
    /\ building.next \in 1 .. 7
    /\ CanMap(pg_dir, pg_table, s, m[1])
    /\ Becomes(map_page(pg_dir, pg_table, s, m[1], m[2]))
    /\ building' = [building EXCEPT !.next = @ + 1]
    /\ UNCHANGED <<cr3, used, wiping>>

\* The new directory is loaded, and the program runs on it.
EnterProgram ==
    /\ building.next = 8
    /\ cr3' = building.slot
    /\ building' = NotBuilding
    /\ UNCHANGED <<pg_dir, pg_table, used, wiping>>

-------------------------------------------------------------------------------
(* change_terminal, the scheduler and halt *)

\* change_terminal gives a terminal's top process another page of text memory, and
\* halt its parent.  The process may be in the middle of its cleanup.
Remap ==
    /\ building = NotBuilding
    /\ \E s \in used, page \in {VIDEO} \union VIDEO_BUFS :
          Becomes(remap_page(pg_dir, pg_table, s, USER_VIDEO, page))
    /\ UNCHANGED <<cr3, building, used, wiping>>

\* The scheduler loads the directory of another process, and halt that of its parent,
\* or the kernel's for a last shell.  No code asks whether the directory is complete.
SetCr3 ==
    /\ building = NotBuilding
    /\ cr3' \in used \union {Boot}
    /\ cr3' # cr3
    /\ UNCHANGED <<pg_dir, pg_table, building, used, wiping>>

\* cleanup_pg_dir of a halting process: its directory.
CleanupDir ==
    /\ building = NotBuilding
    /\ \E s \in used \ wiping :
          pg_dir' = [pg_dir EXCEPT ![s] = EmptyDir] /\ wiping' = wiping \union {s}
    /\ UNCHANGED <<pg_table, cr3, building, used>>

\* Seeded fault: cleanup_pg_dir stops after the directory.
KeepTable ==
    /\ building = NotBuilding
    /\ \E s \in wiping : used' = used \ {s} /\ wiping' = wiping \ {s}
    /\ UNCHANGED <<pg_dir, pg_table, cr3, building>>

\* The rest of it, and destroy_pcb_ptr; halt does nothing between that pages notice.
CleanupTable ==
    /\ building = NotBuilding
    /\ \E s \in wiping :
          /\ pg_table' = [pg_table EXCEPT ![s] = EmptyTable]
          /\ used' = used \ {s}
          /\ wiping' = wiping \ {s}
    /\ UNCHANGED <<pg_dir, cr3, building>>

Next ==
    \/ BeginExecute \/ ExecuteNotFound \/ MapNext \/ EnterProgram
    \/ Remap \/ SetCr3 \/ CleanupDir \/ CleanupTable

Spec == Init /\ [][Next]_vars

-------------------------------------------------------------------------------
(* Properties *)

\* Where the CPU finds page p under a directory.
Translate(dir, p) ==
    IF p >= FourM THEN pg_dir[dir][DirOffset(p)]
    ELSE IF pg_dir[dir][DirOffset(p)] = None THEN None
    ELSE pg_table[pg_dir[dir][DirOffset(p)]][TableOffset(p)]

Shared  == {VIDEO, KERNEL} \union VIDEO_BUFS
Virtual == Shared \union {TASK, USER_VIDEO}
Nothing == [p \in Virtual |-> None]

SpaceOf(s) ==
    IF s = building.slot THEN Nothing ELSE [p \in Virtual |-> Translate(s, p)]

\* Through reuse of slots, remaps and cleanups in two steps, a slot outside
\* do_execute has the whole address space of its program or none.
Spaces == INSTANCE AddressSpaces WITH
    TaskPage <- TASK, Views <- {VIDEO} \union VIDEO_BUFS, Screen <- VIDEO, Empty <- Nothing,
    space <- [s \in Slots |-> SpaceOf(s)]
ImplementsSpaces == Spaces!Spec

\* do_execute's maps of a new directory are never refused: cleanup_pg_dir has left
\* nothing in the table of a slot that is handed out again.
MapsAccepted ==
    building.next \in 1 .. 7 =>
        CanMap(pg_dir, pg_table, building.slot, Maps(building.slot)[building.next][1])
===============================================================================
