---------------------------------- MODULE Pic ----------------------------------
(***************************************************************************)
(* The two 8259 interrupt controllers as i8259.c drives them: edge         *)
(* triggered, fully nested, with specific ends of interrupt.  The slave    *)
(* hangs on line 2 of the master, so IRQs 8 to 15 rank between 1 and 3 and *)
(* are in service on both.                                                 *)
(***************************************************************************)
EXTENDS Integers

VARIABLES
    irr,             \* requests latched
    isr,             \* interrupts in service; 2 is the slave's line on the master
    imr              \* interrupts masked

pic == <<irr, isr, imr>>

IRQs     == 8
SLAVEIRQ == 2
PIT_IRQ == 0
KEYBOARD_IRQ == 1
RTC_IRQ == 8

\* The master's line of an interrupt.
MasterLine(i) == IF i >= IRQs THEN SLAVEIRQ ELSE i

\* i8259_init masks everything but the line of the slave.
i8259_init == irr = {} /\ isr = {} /\ imr = (0 .. 2 * IRQs - 1) \ {SLAVEIRQ}

\* A device raises its line: the edge is latched, masked or not.
Latched(i) == irr \union {i}

\* enable_irq reads the mask from the chip, so its copy in master_mask or
\* slave_mask is never stale.
enable_irq(i) == imr' = imr \ {i} /\ UNCHANGED <<irr, isr>>

\* Seeded fault: the interrupt of the slave is ended on the slave only.
EndedOnOne(i) == isr \ {i}

\* What is in service after send_eoi(i).  An interrupt that is not in service has
\* no bit to reset.
Ended(i) == isr \ {i, MasterLine(i)}

\* The controllers put i to the CPU: nothing of its rank or above is in service.
Ready(i) ==
    /\ i \in irr
    /\ i \notin imr /\ MasterLine(i) \notin imr
    /\ \A j \in isr : IF j < IRQs THEN MasterLine(i) < j ELSE i < j \/ i < IRQs

Deliverable(i) == Ready(i) /\ \A j \in irr : Ready(j) =>
    MasterLine(i) < MasterLine(j) \/ (MasterLine(i) = MasterLine(j) /\ i <= j)

\* The CPU acknowledges i.
Acknowledge(i) ==
    /\ Deliverable(i)
    /\ irr' = irr \ {i}
    /\ isr' = isr \union {i, MasterLine(i)}
    /\ UNCHANGED imr

\* A line of the slave that has gone down by the time of the acknowledge: the slave
\* answers with its last interrupt, 15, and marks nothing; the master marks its line.
AcknowledgeSpurious ==
    /\ SLAVEIRQ \notin imr
    /\ \A j \in isr : SLAVEIRQ < j
    /\ isr' = isr \union {SLAVEIRQ}
    /\ UNCHANGED <<irr, imr>>
===============================================================================
