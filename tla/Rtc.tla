--------------------------------- MODULE Rtc ---------------------------------
(***************************************************************************)
(* The real-time clock and its driver (rtc.c): programs on the terminals   *)
(* call rtc_open, rtc_read and rtc_write, the chip ticks, and rtc_handler  *)
(* serves its interrupt.  Clock puts them together with the interrupt      *)
(* controllers and the scheduler.                                          *)
(*                                                                         *)
(* The chip has one index port, which says what its data port reads and    *)
(* writes.  Driver calls select register A and then use the data port; the *)
(* handler selects register C.  One frequency serves all terminals.        *)
(***************************************************************************)
EXTENDS Integers

CONSTANTS
    NUM_TERMINALS,
    Frequencies      \* what programs write to the RTC

ASSUME TerminalAssumption  == NUM_TERMINALS \in Nat \ {0}
ASSUME FrequencyAssumption == Frequencies \subseteq Int

Terminals == 0 .. NUM_TERMINALS - 1

VARIABLES
    selected,        \* the register behind the data port
    rate,            \* low half of register A: the rate of the periodic interrupt
    irqf,            \* flag of register C: the line is up until it is read
    divider,         \* high half of register A: does it hold the time base set by the BIOS
    rtcreadcalled,
    RTCreadCheck,
    pc,              \* where the program of each terminal stands, "user" outside a call
    select_bits,     \* its locals: the rate to set and the byte read from the chip
    temp_good,
    requested,       \* history: the Hz that the call under way is to set
    frequency,       \* history: Hz of the last call that returned 0
    ticked           \* history: an interrupt was served since this read began

chip     == <<selected, rate, irqf, divider>>
flags    == <<rtcreadcalled, RTCreadCheck>>
calls    == <<pc, select_bits, temp_good>>
history  == <<requested, frequency, ticked>>
rtc      == <<chip, flags, calls, history>>

InitialRate == 7     \* rtc_init: FREQ3 or-ed with the 6 of the BIOS
Places == {"user", "read", "wait", "done", "reset", "select", "load", "reselect", "store"}

Reading == {"read", "wait", "done", "reset"}

\* Hz of a rate, by the chip's data sheet; rate 0 turns the interrupt off.
Hertz(r) == IF r = 0 THEN 0 ELSE 2 ^ (16 - r)

\* What rtc_init leaves.
rtc_init ==
    /\ selected = "B"
    /\ rate = InitialRate
    /\ irqf = FALSE
    /\ divider = TRUE
    /\ rtcreadcalled = [t \in Terminals |-> FALSE]
    /\ RTCreadCheck = [t \in Terminals |-> FALSE]
    /\ pc = [t \in Terminals |-> "user"]
    /\ select_bits = [t \in Terminals |-> 0]
    /\ temp_good = [t \in Terminals |-> TRUE]
    /\ requested = [t \in Terminals |-> 0]
    /\ frequency = Hertz(InitialRate)
    /\ ticked = [t \in Terminals |-> FALSE]

-------------------------------------------------------------------------------
(* rtc_write and rtc_open *)

\* FrequencySet, the table that rtc_write builds: 0, 2, 4, ... 1024.
FrequencySet == [k \in 0 .. 10 |-> IF k = 0 THEN 0 ELSE 2 ^ k]

\* The rate select bits for a frequency of the table: 16 - k, of which 4 bits are kept.
SelectBits(freq) == (16 - CHOOSE k \in 0 .. 10 : FrequencySet[k] = freq) % 16

Goes(t, from, to) == pc[t] = from /\ pc' = [pc EXCEPT ![t] = to]

\* rtc_write up to its first outb; a frequency that is not in the table returns -1
\* and leaves everything alone.
WriteCall(t, freq) ==
    /\ freq \in {FrequencySet[k] : k \in 0 .. 10}
    /\ Goes(t, "user", "select")
    /\ select_bits' = [select_bits EXCEPT ![t] = SelectBits(freq)]
    /\ requested' = [requested EXCEPT ![t] = freq]
    /\ UNCHANGED <<chip, flags, temp_good, frequency, ticked>>

\* rtc_open: the same with rate 15, 2 Hz, which or-ed with the old rate stays 15.
OpenCall(t) ==
    /\ Goes(t, "user", "select")
    /\ select_bits' = [select_bits EXCEPT ![t] = 15]
    /\ requested' = [requested EXCEPT ![t] = 2]
    /\ UNCHANGED <<chip, flags, temp_good, frequency, ticked>>

\* Seeded fault: register A is not selected again before the store.
SelectOnce(t) ==
    /\ \/ Goes(t, "select", "load") /\ selected' = "A"
       \/ Goes(t, "reselect", "store") /\ UNCHANGED selected
    /\ UNCHANGED <<rate, irqf, divider, flags, select_bits, temp_good, history>>

\* outb(RTC_REGA, RTC_CMD_PORT), before the load and again before the store
Select(t) ==
    /\ Goes(t, "select", "load") \/ Goes(t, "reselect", "store")
    /\ selected' = "A"
    /\ UNCHANGED <<rate, irqf, divider, flags, select_bits, temp_good, history>>

\* temp = inb(RTC_DATA_PORT): the time base, if register A is still selected.  If it
\* is register C, the read takes the interrupt flag with it.
Load(t) ==
    /\ Goes(t, "load", "reselect")
    /\ temp_good' = [temp_good EXCEPT ![t] = (selected = "A" /\ divider)]
    /\ irqf' = (irqf /\ selected # "C")
    /\ UNCHANGED <<selected, rate, divider, flags, select_bits, history>>

\* The last outb: the byte is lost unless register A is still selected.  The locals
\* die with the call.
Store(t) ==
    /\ Goes(t, "store", "user")
    /\ IF selected = "A"
       THEN rate' = select_bits[t] /\ divider' = temp_good[t]
       ELSE UNCHANGED <<rate, divider>>
    /\ frequency' = requested[t]
    /\ select_bits' = [select_bits EXCEPT ![t] = 0]
    /\ temp_good' = [temp_good EXCEPT ![t] = TRUE]
    /\ requested' = [requested EXCEPT ![t] = 0]
    /\ UNCHANGED <<selected, irqf, flags, ticked>>

-------------------------------------------------------------------------------
(* rtc_read *)

ReadCall(t) ==
    /\ Goes(t, "user", "read")
    /\ ticked' = [ticked EXCEPT ![t] = FALSE]
    /\ UNCHANGED <<chip, flags, select_bits, temp_good, requested, frequency>>

\* A tick that is there already is taken for the one to wait for.
ReadStart(t) ==
    /\ Goes(t, "read", "wait")
    /\ rtcreadcalled' = [rtcreadcalled EXCEPT ![t] = @ \/ ~RTCreadCheck[t]]
    /\ UNCHANGED <<chip, RTCreadCheck, select_bits, temp_good, history>>

ReadWait(t) ==
    /\ RTCreadCheck[t]
    /\ Goes(t, "wait", "done")
    /\ UNCHANGED <<chip, flags, select_bits, temp_good, history>>

\* Seeded fault: the two flags are reset in the other order.
ReadResetSwapped(t) ==
    /\ \/ /\ Goes(t, "done", "reset")
          /\ RTCreadCheck' = [RTCreadCheck EXCEPT ![t] = FALSE]
          /\ UNCHANGED <<rtcreadcalled, ticked>>
       \/ /\ Goes(t, "reset", "user")
          /\ rtcreadcalled' = [rtcreadcalled EXCEPT ![t] = FALSE]
          /\ ticked' = [ticked EXCEPT ![t] = FALSE]
          /\ UNCHANGED RTCreadCheck
    /\ UNCHANGED <<chip, select_bits, temp_good, requested, frequency>>

\* rtcreadcalled is reset before RTCreadCheck, so no tick slips in between.
ReadReset(t) ==
    /\ \/ /\ Goes(t, "done", "reset")
          /\ rtcreadcalled' = [rtcreadcalled EXCEPT ![t] = FALSE]
          /\ UNCHANGED <<RTCreadCheck, ticked>>
       \/ /\ Goes(t, "reset", "user")
          /\ RTCreadCheck' = [RTCreadCheck EXCEPT ![t] = FALSE]
          /\ ticked' = [ticked EXCEPT ![t] = FALSE]
          /\ UNCHANGED rtcreadcalled
    /\ UNCHANGED <<chip, select_bits, temp_good, requested, frequency>>

Driver(t) == Select(t) \/ Load(t) \/ Store(t) \/ ReadStart(t) \/ ReadWait(t) \/ ReadReset(t)

-------------------------------------------------------------------------------
(* rtc_handler *)

InAccess(t) == pc[t] \in {"load", "store"}

\* The chip ticks while its rate is not zero.
Tick ==
    /\ rate # 0
    /\ irqf' = TRUE
    /\ UNCHANGED <<selected, rate, divider, flags, calls, history>>

\* Seeded fault: the handler serves the lowest waiting terminal only.
HandlerServesOne ==
    /\ selected' = "C"
    /\ irqf' = FALSE
    /\ RTCreadCheck' = [t \in Terminals |->
            RTCreadCheck[t] \/ (rtcreadcalled[t] /\ \A u \in 0 .. t - 1 : ~rtcreadcalled[u])]
    /\ ticked' = [t \in Terminals |-> pc[t] \in Reading]
    /\ UNCHANGED <<rate, divider, rtcreadcalled, calls, requested, frequency>>

\* The handler reads register C and so leaves it selected, and wakes every terminal
\* that waits.
rtc_handler ==
    /\ selected' = "C"
    /\ irqf' = FALSE
    /\ RTCreadCheck' = [t \in Terminals |-> RTCreadCheck[t] \/ rtcreadcalled[t]]
    /\ ticked' = [t \in Terminals |-> pc[t] \in Reading]
    /\ UNCHANGED <<rate, divider, rtcreadcalled, calls, requested, frequency>>
-------------------------------------------------------------------------------
(* Properties *)

\* A read never returns on a tick from before it began: rtc_read waits "until the rtc
\* interrupt occurs" (rtc.c:104), with the handler anywhere between its statements.
ReadWaitsForTick == \A t \in Terminals : pc[t] \in {"done", "reset"} => ticked[t]

\* The chip runs at the frequency of the last rtc_write or rtc_open that returned 0,
\* whichever terminals made the calls and however they interleave ("return 0 on success
\* else -1", rtc.c:137).
ClockAsRequested == Hertz(rate) = frequency /\ divider
===============================================================================
