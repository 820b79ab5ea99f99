--------------------------------- MODULE Clock ---------------------------------
(***************************************************************************)
(* The interrupts of the machine from boot on: the controllers (Pic), the  *)
(* real-time clock with the programs that use it (Rtc), the PIT that takes *)
(* the CPU from one terminal to the next (scheduler.c), and the keyboard   *)
(* handler as far as it starts shells (keyboard.c).                        *)
(*                                                                         *)
(* Handlers run behind interrupt gates: none interrupts another.  A        *)
(* handler does not always end where it began: the PIT's leaves through    *)
(* the frame of another terminal, and a keyboard handler that starts a     *)
(* shell stays behind until the PIT comes back to its terminal.            *)
(*                                                                         *)
(* Windows = {"select"} lets an interrupt come between the selection of a  *)
(* register of the RTC and the access to it.                               *)
(***************************************************************************)
EXTENDS Rtc, Pic, Sequences

CONSTANT Windows

ASSUME WindowAssumption == Windows \subseteq {"select"}

VARIABLES
    boot,            \* next statement of entry(), counted from 1
    handling,        \* the interrupt being handled, "none" with IF=1
    running,         \* the terminal that has the CPU
    started,         \* terminals that have a program
    suspended,       \* terminals left in the middle of keyboard_handler
    rested,          \* of the PIT and the keyboard, those whose next request is due
    spurious         \* history: the slave has answered with a spurious interrupt

control   == <<boot, handling, running, started, suspended, rested, spurious>>
clockvars == <<rtc, pic, control>>

Devices   == {PIT_IRQ, KEYBOARD_IRQ, RTC_IRQ}
\* What entry() has left to do: enable these one by one, and its later steps.
Enabled   == <<RTC_IRQ, KEYBOARD_IRQ, PIT_IRQ>>
Sti          == Len(Enabled) + 1
TerminalOpen == Sti + 1
FirstShell   == TerminalOpen + 1
Booted    == boot > FirstShell

\* entry() after i8259_init and rtc_init.
ClockInit ==
    /\ rtc_init
    /\ i8259_init
    /\ boot = 1
    /\ handling = "none"
    /\ running = 0
    /\ started = {}
    /\ suspended = {}
    /\ rested = {PIT_IRQ, KEYBOARD_IRQ}
    /\ spurious = FALSE

-------------------------------------------------------------------------------
(* The CPU outside the handlers *)

InterruptsOn == handling = "none" /\ boot > Sti

\* The rest of entry(): the interrupts enabled one by one, sti, terminal_open, which
\* enables the keyboard again, and the first shell.
Boot ==
    /\ ~Booted
    /\ handling = "none"
    /\ boot' = boot + 1
    /\ \/ boot < Sti /\ enable_irq(Enabled[boot]) /\ UNCHANGED started
       \/ boot = Sti /\ UNCHANGED <<started, pic>>
       \/ boot = TerminalOpen /\ enable_irq(KEYBOARD_IRQ) /\ UNCHANGED started
       \/ boot = FirstShell /\ started' = {running} /\ UNCHANGED pic
    /\ UNCHANGED <<rtc, handling, running, suspended, rested, spurious>>

Runs(t) == Booted /\ handling = "none" /\ running = t

\* The program of the terminal that has the CPU moves on in a call, or makes one.
Steps(t) == Runs(t) /\ Driver(t) /\ UNCHANGED <<pic, control>>

Calls(t) ==
    /\ Runs(t)
    /\ ReadCall(t) \/ OpenCall(t) \/ \E freq \in Frequencies : WriteCall(t, freq)
    /\ UNCHANGED <<pic, control>>

-------------------------------------------------------------------------------
(* The devices *)

\* The PIT's period ends, or a key is pressed or released.
Raise(i) ==
    /\ i \in rested
    /\ irr' = Latched(i)
    /\ rested' = rested \ {i}
    /\ UNCHANGED <<rtc, isr, imr, boot, handling, running, started, suspended, spurious>>

\* Both are slow: neither comes twice before the CPU is done with both.
Rest ==
    /\ {PIT_IRQ, KEYBOARD_IRQ} \intersect (irr \ imr) = {}
    /\ handling \notin {"pit", "keyboard", "keyboard_end"}
    /\ rested' = {PIT_IRQ, KEYBOARD_IRQ} \ irr
    /\ UNCHANGED <<rtc, pic, boot, handling, running, started, suspended, spurious>>

\* The RTC's line goes up with its flag and stays up until the flag is read, so only
\* the first tick is an edge.
RtcTick ==
    /\ Tick
    /\ irr' = IF irqf THEN irr ELSE Latched(RTC_IRQ)
    /\ UNCHANGED <<isr, imr, control>>

-------------------------------------------------------------------------------
(* The handlers *)

Interruptible ==
    /\ InterruptsOn
    /\ "select" \in Windows \/ ~InAccess(running)

\* The choice common_handler makes.
HandlerOf(i) == CASE i = PIT_IRQ -> "pit"
                  [] i = KEYBOARD_IRQ -> "keyboard"
                  [] i = RTC_IRQ -> "rtc"
                  [] OTHER -> "other"

Accept(i) ==
    /\ Interruptible
    /\ Acknowledge(i)
    /\ handling' = HandlerOf(i)
    /\ UNCHANGED <<rtc, boot, running, started, suspended, rested, spurious>>

AcceptSpurious ==
    /\ Interruptible
    /\ ~irqf
    /\ AcknowledgeSpurious
    /\ handling' = HandlerOf(15)
    /\ spurious' = TRUE
    /\ UNCHANGED <<rtc, boot, running, started, suspended, rested>>

\* The next terminal that has a program, or the same one.
NextRunning ==
    IF started \ {running} = {} THEN running
    ELSE CHOOSE t \in started \ {running} :
             \A u \in started \ {running} :
                 (t - running) % NUM_TERMINALS <= (u - running) % NUM_TERMINALS

\* pit_handler: EOI, and back into the frame of the next terminal, which may be that of
\* a keyboard handler.
pit_handler ==
    /\ handling = "pit"
    /\ isr' = Ended(PIT_IRQ)
    /\ running' = NextRunning
    /\ handling' = IF NextRunning \in suspended \ {running} THEN "keyboard_end" ELSE "none"
    /\ suspended' = suspended \ {NextRunning}
    /\ UNCHANGED <<rtc, irr, imr, boot, started, rested, spurious>>

\* Seeded fault: change_terminal leaves the EOI to keyboard_handler.
LaunchWithoutEoi(t) ==
    /\ handling = "keyboard"
    /\ t \notin started
    /\ suspended' = suspended \union {running}
    /\ running' = t
    /\ started' = started \union {t}
    /\ handling' = "none"
    /\ UNCHANGED <<rtc, pic, boot, rested, spurious>>

\* change_terminal to a terminal without a program: EOI, and execute of a shell, which
\* begins with IF=1.  The handler stays behind.
Launch(t) ==
    /\ handling = "keyboard"
    /\ started # {}
    /\ t \notin started
    /\ isr' = Ended(KEYBOARD_IRQ)
    /\ suspended' = suspended \union {running}
    /\ running' = t
    /\ started' = started \union {t}
    /\ handling' = "none"
    /\ UNCHANGED <<rtc, irr, imr, boot, rested, spurious>>

\* The same when execute fails and returns.
LaunchFails ==
    /\ handling = "keyboard"
    /\ started \notin {{}, Terminals}
    /\ isr' = Ended(KEYBOARD_IRQ)
    /\ handling' = "keyboard_end"
    /\ UNCHANGED <<rtc, irr, imr, boot, running, started, suspended, rested, spurious>>

\* The end of keyboard_handler, for every other key or at last: the EOI may be the
\* second one.
KeyboardEnd ==
    /\ handling \in {"keyboard", "keyboard_end"}
    /\ isr' = Ended(KEYBOARD_IRQ)
    /\ handling' = "none"
    /\ UNCHANGED <<rtc, irr, imr, boot, running, started, suspended, rested, spurious>>

\* rtc_handler, and the EOI at its end: the chip may tick in between.
ServeRtc ==
    \/ /\ handling = "rtc"
       /\ rtc_handler
       /\ handling' = "rtc_end"
       /\ UNCHANGED <<pic, boot, running, started, suspended, rested, spurious>>
    \/ /\ handling = "rtc_end"
       /\ isr' = Ended(RTC_IRQ)
       /\ handling' = "none"
       /\ UNCHANGED <<rtc, irr, imr, boot, running, started, suspended, rested, spurious>>

\* common_handler for any other interrupt: it prints, and sends no EOI.
OtherInterrupt ==
    /\ handling = "other"
    /\ handling' = "none"
    /\ UNCHANGED <<rtc, pic, boot, running, started, suspended, rested, spurious>>

Handlers == pit_handler \/ (\E t \in Terminals : Launch(t)) \/ LaunchFails \/ KeyboardEnd
            \/ ServeRtc \/ OtherInterrupt

ClockNext ==
    \/ Boot
    \/ \E t \in Terminals : Steps(t) \/ Calls(t)
    \/ Raise(PIT_IRQ) \/ Raise(KEYBOARD_IRQ) \/ Rest \/ RtcTick
    \/ \E i \in Devices : Accept(i)
    \/ AcceptSpurious
    \/ Handlers

ClockSpec == ClockInit /\ [][ClockNext]_clockvars

\* The CPU runs and takes the interrupts it is offered, the PIT and, while it is on, the
\* RTC tick for ever, and a time slice is long enough for a statement.
ClockFairness ==
    /\ WF_clockvars(Boot \/ Handlers)
    /\ WF_clockvars(Raise(PIT_IRQ))
    /\ WF_clockvars(Rest)
    /\ WF_clockvars(RtcTick)
    /\ SF_clockvars(Accept(PIT_IRQ) \/ Accept(KEYBOARD_IRQ))
    /\ SF_clockvars(Accept(RTC_IRQ))
    /\ \A t \in Terminals : SF_clockvars(Steps(t))

ClockFairSpec == ClockSpec /\ ClockFairness
-------------------------------------------------------------------------------
(* Properties *)

\* Whatever handlers stay behind and are taken up again, the CPU is never back in a
\* program with an interrupt still in service ("Issue EOI(End Of Interrupt) to unmask
\* handled interrupt", interrupt_handler.c:85), unless it was one without a handler.
NothingLeftInService == handling = "none" => isr \subseteq IF spurious THEN {SLAVEIRQ} ELSE {}

\* Every interrupt that a device requests is handled; one that has no handler
\* (interrupt_handler.c:115) is never ended, but that shuts out the RTC only.
EveryInterruptServed ==
    /\ []<>({PIT_IRQ, KEYBOARD_IRQ} \intersect irr = {})
    /\ []<>(RTC_IRQ \notin irr \/ spurious)

\* Every read returns unless the clock is switched off, for good or again and again, by
\* a rate of 0 (rtc.c:175): no terminal's tick is lost to another or to the driver.
ReadReturns ==
    <>[](rate # 0 /\ ~spurious) => \A t \in Terminals : []<>(pc[t] # "wait")
===============================================================================
