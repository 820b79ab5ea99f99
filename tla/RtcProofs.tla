------------------------------- MODULE RtcProofs -------------------------------
(***************************************************************************)
(* Proofs about Clock and the Rtc in it, for any number of terminals, any  *)
(* frequencies and with the interrupts anywhere.                           *)
(***************************************************************************)
EXTENDS Clock, TLAPS

\* What the two flags of a terminal say: a read waits for a tick exactly while it may
\* take one, and a tick is pending only for a read that has begun before it.
FlagInv ==
    /\ pc \in [Terminals -> Places]
    /\ rtcreadcalled \in [Terminals -> BOOLEAN]
    /\ RTCreadCheck \in [Terminals -> BOOLEAN]
    /\ ticked \in [Terminals -> BOOLEAN]
    /\ \A t \in Terminals :
          /\ rtcreadcalled[t] => pc[t] \in {"wait", "done"}
          /\ RTCreadCheck[t] => pc[t] \in {"wait", "done", "reset"} /\ ticked[t]
          /\ pc[t] \in {"done", "reset"} => RTCreadCheck[t]

LEMMA FlagInit == ClockInit => FlagInv
BY DEF ClockInit, rtc_init, FlagInv, Places

LEMMA FlagStep == FlagInv /\ [ClockNext]_clockvars => FlagInv'
<1> SUFFICES ASSUME FlagInv, [ClockNext]_clockvars PROVE FlagInv'
  OBVIOUS
<1> USE DEF FlagInv, Places
<1>1. ASSUME NEW t \in Terminals, Steps(t) PROVE FlagInv'
  <2>1. CASE Select(t)
    BY <2>1 DEF Select, Goes, flags, history
  <2>2. CASE Load(t)
    BY <2>2 DEF Load, Goes, flags, history
  <2>3. CASE Store(t)
    BY <2>3 DEF Store, Goes, flags
  <2>4. CASE ReadStart(t)
    BY <2>4 DEF ReadStart, Goes, history
  <2>5. CASE ReadWait(t)
    BY <2>5 DEF ReadWait, Goes, flags, history
  <2>6. CASE ReadReset(t)
    BY <2>6 DEF ReadReset, Goes
  <2>7. QED BY <1>1, <2>1, <2>2, <2>3, <2>4, <2>5, <2>6 DEF Steps, Driver
<1>2. ASSUME NEW t \in Terminals, Calls(t) PROVE FlagInv'
  <2>1. CASE ReadCall(t)
    BY <2>1 DEF ReadCall, Goes, flags
  <2>2. CASE OpenCall(t)
    BY <2>2 DEF OpenCall, Goes, flags
  <2>3. ASSUME NEW freq \in Frequencies, WriteCall(t, freq) PROVE FlagInv'
    BY <2>3 DEF WriteCall, Goes, flags
  <2>4. QED BY <1>2, <2>1, <2>2, <2>3 DEF Calls
<1>3. ASSUME rtc_handler PROVE FlagInv'
  BY <1>3 DEF rtc_handler, calls, Reading
<1>4. ASSUME Tick PROVE FlagInv'
  BY <1>4 DEF Tick, flags, calls, history
<1>5. ASSUME UNCHANGED rtc PROVE FlagInv'
  BY <1>5 DEF rtc, flags, calls, history
<1>6. CASE Boot \/ Raise(PIT_IRQ) \/ Raise(KEYBOARD_IRQ) \/ Rest \/ AcceptSpurious
  BY <1>5, <1>6 DEF Boot, Raise, Rest, AcceptSpurious
<1>7. ASSUME NEW i \in Devices, Accept(i) PROVE FlagInv'
  BY <1>5, <1>7 DEF Accept
<1>8. CASE Handlers
  BY <1>3, <1>5, <1>8 DEF Handlers, pit_handler, Launch, LaunchFails, KeyboardEnd, ServeRtc, OtherInterrupt
<1>9. CASE RtcTick
  BY <1>4, <1>9 DEF RtcTick
<1>10. CASE UNCHANGED clockvars
  BY <1>5, <1>10 DEF clockvars
<1>11. QED BY <1>1, <1>2, <1>6, <1>7, <1>8, <1>9, <1>10 DEF ClockNext

\* A read of the RTC returns on a tick served since it began, never on an older one.
THEOREM ReadWaitsForTickHolds == ClockSpec => []ReadWaitsForTick
<1>1. FlagInv => ReadWaitsForTick
  BY DEF FlagInv, ReadWaitsForTick, Reading
<1>2. QED BY FlagInit, FlagStep, <1>1, PTL DEF ClockSpec

-------------------------------------------------------------------------------
\* What each handler has in service until its EOI.
Held == CASE handling = "pit" -> {PIT_IRQ}
          [] handling = "keyboard" -> {KEYBOARD_IRQ}
          [] handling \in {"rtc", "rtc_end"} -> {RTC_IRQ, SLAVEIRQ}
          [] OTHER -> {}

ServiceInv ==
    /\ isr \subseteq Held \union (IF spurious THEN {SLAVEIRQ} ELSE {})
    /\ spurious \in BOOLEAN

LEMMA ServiceInit == ClockInit => ServiceInv
BY DEF ClockInit, i8259_init, ServiceInv

LEMMA ServiceStep == ServiceInv /\ [ClockNext]_clockvars => ServiceInv'
<1> SUFFICES ASSUME ServiceInv, [ClockNext]_clockvars PROVE ServiceInv'
  OBVIOUS
<1> USE DEF ServiceInv, Held
<1>1. ASSUME UNCHANGED <<isr, handling, spurious>> PROVE ServiceInv'
  BY <1>1
<1>2. CASE Boot
  BY <1>1, <1>2 DEF Boot, enable_irq, pic
<1>3. CASE (\E t \in Terminals : Steps(t) \/ Calls(t)) \/ Raise(PIT_IRQ) \/ Raise(KEYBOARD_IRQ)
           \/ Rest \/ RtcTick \/ UNCHANGED clockvars
  BY <1>1, <1>3 DEF Steps, Calls, Raise, Rest, RtcTick, pic, control, clockvars
<1>4. ASSUME NEW i \in Devices, Accept(i) PROVE ServiceInv'
  BY <1>4 DEF Accept, Acknowledge, Interruptible, InterruptsOn, HandlerOf, MasterLine, Devices,
              PIT_IRQ, KEYBOARD_IRQ, RTC_IRQ, SLAVEIRQ, IRQs
<1>5. CASE AcceptSpurious
  BY <1>5 DEF AcceptSpurious, AcknowledgeSpurious, Interruptible, InterruptsOn, HandlerOf,
              PIT_IRQ, KEYBOARD_IRQ, RTC_IRQ
<1>6. CASE pit_handler
  BY <1>6 DEF pit_handler, Ended, MasterLine, PIT_IRQ, IRQs
<1>7. CASE (\E t \in Terminals : Launch(t)) \/ LaunchFails \/ KeyboardEnd
  BY <1>7 DEF Launch, LaunchFails, KeyboardEnd, Ended, MasterLine, KEYBOARD_IRQ, IRQs
<1>8. CASE ServeRtc
  BY <1>8 DEF ServeRtc, Ended, MasterLine, RTC_IRQ, SLAVEIRQ, IRQs, pic
<1>9. CASE OtherInterrupt
  BY <1>9 DEF OtherInterrupt, pic
<1>10. QED BY <1>2, <1>3, <1>4, <1>5, <1>6, <1>7, <1>8, <1>9 DEF ClockNext, Handlers

\* However handlers are left behind and taken up again, no interrupt stays in service
\* once its handler is done, but for one that has no handler.
THEOREM NothingLeftInServiceHolds == ClockSpec => []NothingLeftInService
<1>1. ServiceInv => NothingLeftInService
  BY DEF ServiceInv, Held, NothingLeftInService
<1>2. QED BY ServiceInit, ServiceStep, <1>1, PTL DEF ClockSpec
-------------------------------------------------------------------------------
(* With no interrupt between the selection of a register and the access to it *)

\* The select bits of a frequency of the table stand for that frequency.
LEMMA TableHertz ==
    ASSUME NEW freq \in {FrequencySet[k] : k \in 0 .. 10}
    PROVE  SelectBits(freq) \in 0 .. 15 /\ Hertz(SelectBits(freq)) = freq
<1> DEFINE k == CHOOSE j \in 0 .. 10 : FrequencySet[j] = freq
<1>1. k \in 0 .. 10 /\ FrequencySet[k] = freq
  OBVIOUS
<1>2. SelectBits(freq) = (16 - k) % 16
  BY DEF SelectBits
<1> HIDE DEF k
<1>3. CASE k = 0
  BY <1>1, <1>2, <1>3 DEF FrequencySet, Hertz
<1>4. CASE k # 0
  <2>1. k \in 1 .. 10 /\ freq = 2 ^ k
    BY <1>1, <1>4 DEF FrequencySet
  <2>2. (16 - k) % 16 = 16 - k /\ 16 - k # 0 /\ 16 - (16 - k) = k
    BY <2>1
  <2>3. QED BY <1>2, <2>1, <2>2 DEF Hertz
<1>5. QED BY <1>3, <1>4

\* A call that has selected register A has the CPU to itself until it has used it, so its
\* byte goes where it should: every byte loaded holds the time base, and the rate to
\* be stored is that of the frequency asked for.
AccessInv ==
    /\ pc \in [Terminals -> Places]
    /\ select_bits \in [Terminals -> 0 .. 15]
    /\ temp_good = [t \in Terminals |-> TRUE]
    /\ DOMAIN requested = Terminals
    /\ divider = TRUE
    /\ Hertz(rate) = frequency
    /\ \A t \in Terminals :
          /\ InAccess(t) => selected = "A" /\ running = t /\ handling = "none"
          /\ pc[t] \in {"select", "load", "reselect", "store"} => Hertz(select_bits[t]) = requested[t]

LEMMA AccessInit == ClockInit => AccessInv
BY DEF ClockInit, rtc_init, AccessInv, Places, InAccess

LEMMA AccessStep == ASSUME Windows = {} PROVE AccessInv /\ [ClockNext]_clockvars => AccessInv'
<1> SUFFICES ASSUME AccessInv, [ClockNext]_clockvars PROVE AccessInv'
  OBVIOUS
<1> USE DEF AccessInv, Places, InAccess
<1>1. ASSUME NEW t \in Terminals, Steps(t) PROVE AccessInv'
  <2>1. Runs(t) /\ running' = running /\ handling' = handling
    BY <1>1 DEF Steps, control
  <2>2. CASE Select(t)
    BY <2>1, <2>2 DEF Select, Goes, Runs, history
  <2>3. CASE Load(t)
    BY <2>1, <2>3 DEF Load, Goes, Runs, history
  <2>4. CASE Store(t)
    <3>1. selected = "A" /\ Hertz(select_bits[t]) = requested[t]
      BY <2>4 DEF Store, Goes
    <3>2. /\ rate' = select_bits[t] /\ divider' = TRUE /\ frequency' = requested[t]
          /\ selected' = selected
          /\ pc' = [pc EXCEPT ![t] = "user"]
          /\ select_bits' = [select_bits EXCEPT ![t] = 0]
          /\ temp_good' = [temp_good EXCEPT ![t] = TRUE]
          /\ requested' = [requested EXCEPT ![t] = 0]
      BY <2>4, <3>1 DEF Store, Goes
    <3>3. Hertz(rate') = frequency'
      BY <3>1, <3>2
    <3>4. temp_good' = [u \in Terminals |-> TRUE]
      BY <3>2
    <3>5. \A u \in Terminals : pc'[u] \in {"select", "load", "reselect", "store"}
                                => Hertz(select_bits'[u]) = requested'[u]
      BY <3>2
    <3>6. \A u \in Terminals : InAccess(u)' => selected' = "A" /\ running' = u /\ handling' = "none"
      BY <2>1, <3>2 DEF Runs
    <3>7. pc' \in [Terminals -> Places] /\ select_bits' \in [Terminals -> 0 .. 15]
          /\ DOMAIN requested' = Terminals
      BY <3>2
    <3>8. QED BY <3>2, <3>3, <3>4, <3>5, <3>6, <3>7
  <2>5. CASE ReadStart(t)
    BY <2>1, <2>5 DEF ReadStart, Goes, chip, history
  <2>6. CASE ReadWait(t)
    BY <2>1, <2>6 DEF ReadWait, Goes, chip, history
  <2>7. CASE ReadReset(t)
    BY <2>1, <2>7 DEF ReadReset, Goes, chip, history
  <2>8. QED BY <1>1, <2>2, <2>3, <2>4, <2>5, <2>6, <2>7 DEF Steps, Driver
<1>2. ASSUME NEW t \in Terminals, Calls(t) PROVE AccessInv'
  <2>1. running' = running /\ handling' = handling
    BY <1>2 DEF Calls, control
  <2>2. CASE ReadCall(t)
    BY <2>1, <2>2 DEF ReadCall, Goes, chip
  <2>3. CASE OpenCall(t)
    <3>1. Hertz(15) = 2
      BY DEF Hertz
    <3>2. QED BY <2>1, <2>3, <3>1 DEF OpenCall, Goes, chip
  <2>4. ASSUME NEW freq \in Frequencies, WriteCall(t, freq) PROVE AccessInv'
    <3>1. SelectBits(freq) \in 0 .. 15 /\ Hertz(SelectBits(freq)) = freq
      BY <2>4, TableHertz DEF WriteCall
    <3>2. QED BY <2>1, <2>4, <3>1 DEF WriteCall, Goes, chip
  <2>5. QED BY <1>2, <2>2, <2>3, <2>4 DEF Calls
<1>3. CASE Boot \/ Raise(PIT_IRQ) \/ Raise(KEYBOARD_IRQ) \/ Rest \/ UNCHANGED clockvars
  BY <1>3 DEF Boot, Raise, Rest, clockvars, control, rtc, chip, flags, calls, history
<1>4. CASE RtcTick
  BY <1>4 DEF RtcTick, Tick, control, flags, calls, history
<1>5. CASE AcceptSpurious \/ \E i \in Devices : Accept(i)
  <2>1. handling = "none" /\ ~InAccess(running) /\ running' = running /\ UNCHANGED rtc
    BY <1>5 DEF AcceptSpurious, Accept, Interruptible, InterruptsOn
  <2>2. QED BY <2>1 DEF rtc, chip, flags, calls, history
<1>6. CASE Handlers
  <2>1. handling # "none"
    BY <1>6 DEF Handlers, pit_handler, Launch, LaunchFails, KeyboardEnd, ServeRtc, OtherInterrupt
  <2>2. CASE UNCHANGED rtc
    BY <2>1, <2>2 DEF rtc, chip, flags, calls, history
  <2>3. CASE rtc_handler
    BY <2>1, <2>3 DEF rtc_handler, calls
  <2>4. QED BY <1>6, <2>2, <2>3 DEF Handlers, pit_handler, Launch, LaunchFails, KeyboardEnd, ServeRtc, OtherInterrupt
<1>7. QED BY <1>1, <1>2, <1>3, <1>4, <1>5, <1>6 DEF ClockNext

\* The clock runs at the frequency of the last call that claims to have set it, however
\* the calls of the terminals interleave, if no interrupt comes between the two halves
\* of an access to the chip.
THEOREM ClockAsRequestedHolds == ASSUME Windows = {} PROVE ClockSpec => []ClockAsRequested
<1>1. AccessInv => ClockAsRequested
  BY DEF AccessInv, ClockAsRequested
<1>2. QED BY AccessInit, AccessStep, <1>1, PTL DEF ClockSpec
===============================================================================
