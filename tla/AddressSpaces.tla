----------------------------- MODULE AddressSpaces -----------------------------
(***************************************************************************)
(* What paging promises the rest of the kernel: a process slot has no      *)
(* address space at all, or a whole one, in which the kernel and the text  *)
(* memory lie where they lie physically, the program has a page of its own *)
(* and USER_VIDEO shows one of the pages of text memory.                   *)
(***************************************************************************)
EXTENDS Naturals

CONSTANTS
    Slots,
    Shared,             \* the pages that are mapped to themselves
    TaskPage,           \* where a program sees its own page
    Frame,              \* the physical page of each slot's program
    USER_VIDEO,
    Views               \* what USER_VIDEO may show; Screen is on display
CONSTANTS Screen, Empty

VARIABLE space

Whole(s, view) ==
    [p \in Shared \union {TaskPage, USER_VIDEO} |->
        IF p = TaskPage THEN Frame[s] ELSE IF p = USER_VIDEO THEN view ELSE p]

Init == space = [s \in Slots |-> Empty]

Create(s)       == space[s] = Empty /\ space' = [space EXCEPT ![s] = Whole(s, Screen)]
Show(s, view)   == space[s] # Empty /\ space' = [space EXCEPT ![s] = Whole(s, view)]
Destroy(s)      == space[s] # Empty /\ space' = [space EXCEPT ![s] = Empty]

Next == \E s \in Slots : Create(s) \/ Destroy(s) \/ \E view \in Views : Show(s, view)

Spec == Init /\ [][Next]_space
===============================================================================
