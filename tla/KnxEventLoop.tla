----------------------------- MODULE KnxEventLoop -----------------------------
(***************************************************************************)
(* The light actuator's KNX task (knx_main) as an event loop over a clock, *)
(* and the OpenThread task that hands it incoming UDP messages.            *)
(*                                                                         *)
(*  - HandleUdpReceive (OT task) takes an oc message buffer, drops the     *)
(*    datagram when none is free, and otherwise passes it to               *)
(*    oc_network_event, which queues it for the stack and calls            *)
(*    signal_event_loop: OSA_EventSet(mKnxAppEvent).  Before               *)
(*    OSA_EventCreate has run the set is lost.                             *)
(*  - knx_main waits for the Thread role, checks oc_main_init's result,     *)
(*    creates the auto-clearing event and loops: next_event =              *)
(*    oc_main_poll(); then OSA_EventWait for ever when next_event is 0,    *)
(*    and for next_event - oc_clock_time() milliseconds otherwise.         *)
(*                                                                         *)
(* next_event is an absolute oc_clock_time_t (uint64_t, milliseconds);     *)
(* OSA_EventWait takes a uint32_t, so the difference is taken modulo       *)
(* 2^32, and 0xFFFFFFFF (osaWaitForever_c) waits for ever.  The clock is   *)
(* read again after the poll: time spent in between, or a preemption by    *)
(* the OT task, moves it on.                                               *)
(*                                                                         *)
(* oc_main_poll belongs to the stack, outside the repository.  Here it     *)
(* handles every queued message, frees its buffer and arms the one timer   *)
(* TIMER_DELAY later (a CoAP transaction or observe timer), fires the      *)
(* timer when it is due, and returns the timer's expiry, or 0 without one.  *)
(***************************************************************************)
EXTENDS Integers

CONSTANTS
  MAX_TIME,      \* bound on the clock, in milliseconds
  MAX_MSGS,      \* bound on the datagrams received
  MSG_BUFS,      \* oc message buffers for incoming datagrams
  TIMER_DELAY,   \* delay of the timer armed by a handled message
  UINT32_RANGE,  \* 2^32: the range of OSA_EventWait's timeout
  NoTimer        \* no timer pending

ASSUME BoundsAssumption ==
  /\ MAX_TIME \in Nat /\ MAX_MSGS \in Nat
  /\ MSG_BUFS \in Nat \ {0} /\ TIMER_DELAY \in Nat \ {0}
\* The model's clock never reaches the end of a wrapped wait: UINT32_RANGE
\* stands for 2^32 milliseconds (49.7 days) and only has to exceed the
\* clock's bound for the outcomes to be those of the firmware.
ASSUME RangeAssumption ==
  UINT32_RANGE \in Nat /\ UINT32_RANGE > 2 * (MAX_TIME + TIMER_DELAY)
ASSUME NoTimerAssumption == NoTimer \notin Nat

\* osaWaitForever_c.
osaWaitForever_c == UINT32_RANGE - 1

\* Where knx_main is.
LoopPc == {"role", "create", "poll", "clock", "wait", "exited"}

VARIABLES
  now,         \* oc_clock_time(): otPlatAlarmMilliGetNow
  pc,          \* where the KNX task is
  evCreated,   \* OSA_EventCreate(mKnxAppEvent) has run
  evFlag,      \* gAppEvtFromKnx is set
  inbox,       \* datagrams queued for the stack, each holding a buffer
  received,    \* datagrams that reached HandleUdpReceive
  timer,       \* expiry of the stack's timer, or NoTimer
  nextEvent,   \* the last value oc_main_poll returned
  waitFrom,    \* when the current OSA_EventWait started
  timeout      \* the timeout it was given

vars == <<now, pc, evCreated, evFlag, inbox, received, timer, nextEvent,
          waitFrom, timeout>>

-----------------------------------------------------------------------------
(* The OT task.                                                            *)

\* signal_event_loop: OSA_EventSet, which fails on an event not created.
signal_event_loop == evFlag' = (evFlag \/ evCreated)

\* Mutant: oc_network_event without the signal to the event loop.
HandleUdpReceiveNoSignal ==
  /\ received < MAX_MSGS
  /\ received' = received + 1
  /\ \/ /\ inbox < MSG_BUFS
        /\ inbox' = inbox + 1
     \/ /\ inbox = MSG_BUFS
        /\ UNCHANGED inbox
  /\ UNCHANGED <<now, pc, evCreated, evFlag, timer, nextEvent, waitFrom, timeout>>

\* Mutant: the NULL check of oc_allocate_message left out.
HandleUdpReceiveNoAllocCheck ==
  /\ received < MAX_MSGS
  /\ received' = received + 1
  /\ inbox' = inbox + 1
  /\ signal_event_loop
  /\ UNCHANGED <<now, pc, evCreated, timer, nextEvent, waitFrom, timeout>>

\* HandleUdpReceive: oc_allocate_message; on failure the datagram is
\* dropped; otherwise oc_network_event queues it and signals the loop.
HandleUdpReceive ==
  /\ received < MAX_MSGS
  /\ received' = received + 1
  /\ \/ /\ inbox < MSG_BUFS
        /\ inbox' = inbox + 1
        /\ signal_event_loop
     \/ /\ inbox = MSG_BUFS
        /\ UNCHANGED <<inbox, evFlag>>
  /\ UNCHANGED <<now, pc, evCreated, timer, nextEvent, waitFrom, timeout>>

\* The millisecond alarm advances.
Tick ==
  /\ now < MAX_TIME
  /\ now' = now + 1
  /\ UNCHANGED <<pc, evCreated, evFlag, inbox, received, timer, nextEvent,
                 waitFrom, timeout>>

-----------------------------------------------------------------------------
(* The KNX task.                                                           *)

\* After oc_main_init: with no OT instance the task shuts the stack down and
\* returns; otherwise, once the role is child or better, it sets
\* LSM_S_LOADED and returns when oc_main_init failed.
RoleReached ==
  /\ pc = "role"
  /\ \E initOk \in BOOLEAN : pc' = IF initOk THEN "create" ELSE "exited"
  /\ UNCHANGED <<now, evCreated, evFlag, inbox, received, timer, nextEvent,
                 waitFrom, timeout>>

\* OSA_EventCreate(mKnxAppEvent, autoClear = 1): flags start cleared.
CreateEvent ==
  /\ pc = "create"
  /\ evCreated' = TRUE
  /\ evFlag' = FALSE
  /\ pc' = "poll"
  /\ UNCHANGED <<now, inbox, received, timer, nextEvent, waitFrom, timeout>>

\* The stack's timer after oc_main_poll: a due timer fires, and handled
\* messages arm a new one when none is pending.
TimerAfterPoll ==
  LET left == IF timer # NoTimer /\ timer <= now THEN NoTimer ELSE timer
  IN  IF inbox > 0 /\ left = NoTimer THEN now + TIMER_DELAY ELSE left

\* next_event = oc_main_poll(), and the branch on next_event == 0: wait
\* for ever, or go on to read the clock for the timeout.
MainPoll ==
  /\ pc = "poll"
  /\ inbox' = 0
  /\ timer' = TimerAfterPoll
  /\ nextEvent' = IF timer' = NoTimer THEN 0 ELSE timer'
  /\ IF nextEvent' = 0
       THEN pc' = "wait" /\ waitFrom' = now /\ timeout' = osaWaitForever_c
       ELSE pc' = "clock" /\ UNCHANGED <<waitFrom, timeout>>
  /\ UNCHANGED <<now, evCreated, evFlag, received>>

\* The timeout OSA_EventWait gets: (next_event - oc_clock_time()) as a
\* uint64_t, converted to uint32_t.
WaitTimeout(next, t) == (next - t) % UINT32_RANGE

\* OSA_EventWait(mKnxAppEvent, ..., next_event - oc_clock_time(), &event):
\* the clock is read and the wait starts.
StartTimedWait ==
  /\ pc = "clock"
  /\ pc' = "wait"
  /\ waitFrom' = now
  /\ timeout' = WaitTimeout(nextEvent, now)
  /\ UNCHANGED <<now, evCreated, evFlag, inbox, received, timer, nextEvent>>

\* OSA_EventWait returns when the flag is set, clearing it, or when its
\* timeout has passed; osaWaitForever_c never passes.
EventWait ==
  /\ pc = "wait"
  /\ \/ evFlag
     \/ timeout # osaWaitForever_c /\ now >= waitFrom + timeout
  /\ evFlag' = FALSE
  /\ pc' = "poll"
  /\ UNCHANGED <<now, evCreated, inbox, received, timer, nextEvent,
                 waitFrom, timeout>>

Init ==
  /\ now = 0
  /\ pc = "role"
  /\ evCreated = FALSE
  /\ evFlag = FALSE
  /\ inbox = 0
  /\ received = 0
  /\ timer = NoTimer
  /\ nextEvent = 0
  /\ waitFrom = 0
  /\ timeout = 0

KnxTask == RoleReached \/ CreateEvent \/ MainPoll \/ StartTimedWait \/ EventWait

Next == HandleUdpReceive \/ Tick \/ KnxTask

\* The KNX task runs whenever it is ready: the OT task above it blocks on
\* its notification between bursts of work.
Spec == Init /\ [][Next]_vars /\ WF_vars(KnxTask)

-----------------------------------------------------------------------------
(* Properties.                                                             *)

TypeOK ==
  /\ now \in 0..MAX_TIME
  /\ pc \in LoopPc
  /\ evCreated \in BOOLEAN /\ evFlag \in BOOLEAN
  /\ inbox \in 0..MSG_BUFS
  /\ received \in 0..MAX_MSGS
  /\ timer \in (0..(MAX_TIME + TIMER_DELAY)) \cup {NoTimer}
  /\ nextEvent \in 0..(MAX_TIME + TIMER_DELAY)
  /\ waitFrom \in 0..MAX_TIME
  /\ timeout \in 0..(UINT32_RANGE - 1)

\* Every datagram the OT task queued for the stack is eventually handled by
\* oc_main_poll, unless oc_main_init failed and the task returned: a
\* message that arrives before the event exists, or while the task is
\* between its poll and its wait, is not left waiting.
MessageEventuallyPolled == (inbox > 0) ~> (inbox = 0 \/ pc = "exited")

\* No lost wakeup: a datagram queued while the KNX task is past its
\* oc_main_poll (reading the clock, or blocked in OSA_EventWait) has left
\* the event flag set, so the wait returns at once and polls again.  It
\* rests on signal_event_loop, on OSA_EventCreate coming before the first
\* poll, and on the flag being cleared only when OSA_EventWait returns.
WakeupPending == (pc \in {"clock", "wait"} /\ inbox > 0) => evFlag

\* While the task waits, the wait ends no later than the stack's next
\* timer expires: the timeout handed to OSA_EventWait reaches next_event.
WaitEndsByNextTimer ==
  (pc = "wait" /\ nextEvent # 0) =>
     timeout # osaWaitForever_c /\ waitFrom + timeout <= nextEvent
=============================================================================
