------------------------- MODULE KnxEventLoopProofs -------------------------
(***************************************************************************)
(* Proofs about the actuator's KNX task and UDP receive (KnxEventLoop),    *)
(* for every clock bound, datagram bound, buffer count, timer delay and    *)
(* timeout range the assumptions allow.                                    *)
(*                                                                         *)
(* WakeupPending is not inductive alone: a datagram that arrives while the *)
(* task reads the clock or waits sets the flag only if the event exists.   *)
(* EventReady adds that the event is created before the task first polls.  *)
(* The liveness property MessageEventuallyPolled stays with TLC; this      *)
(* invariant is its safety half: no queued datagram is left behind a wait  *)
(* that the flag does not end.                                             *)
(***************************************************************************)
EXTENDS KnxEventLoop, TLAPS

\* OSA_EventCreate has run whenever the task is in its loop.
EventReady == pc \in {"poll", "clock", "wait"} => evCreated

IInv == TypeOK /\ EventReady /\ WakeupPending

-----------------------------------------------------------------------------
(* Type correctness.                                                       *)

\* What the stack's timer can be after oc_main_poll.
LEMMA TimerAfterPollType ==
  ASSUME TypeOK
  PROVE  TimerAfterPoll \in (0..(MAX_TIME + TIMER_DELAY)) \cup {NoTimer}
BY BoundsAssumption DEF TypeOK, TimerAfterPoll

\* The uint32 timeout lies in the range of OSA_EventWait's parameter.
LEMMA WaitTimeoutType ==
  ASSUME NEW next \in Int, NEW t \in Int
  PROVE  WaitTimeout(next, t) \in 0..(UINT32_RANGE - 1)
<1>1. UINT32_RANGE \in Nat \ {0}
  BY BoundsAssumption, RangeAssumption
<1>. QED
  BY <1>1 DEF WaitTimeout

LEMMA InitTypeOK == Init => TypeOK
<1> SUFFICES ASSUME Init PROVE TypeOK
  OBVIOUS
<1>1. now \in 0..MAX_TIME /\ pc \in LoopPc /\ received \in 0..MAX_MSGS
  BY BoundsAssumption DEF Init, LoopPc
<1>2. evCreated \in BOOLEAN /\ evFlag \in BOOLEAN
  BY Zenon DEF Init
<1>5. inbox \in 0..MSG_BUFS
  BY BoundsAssumption DEF Init
<1>3. /\ timer \in (0..(MAX_TIME + TIMER_DELAY)) \cup {NoTimer}
      /\ nextEvent \in 0..(MAX_TIME + TIMER_DELAY)
      /\ waitFrom \in 0..MAX_TIME
  BY BoundsAssumption DEF Init
<1>4. timeout \in 0..(UINT32_RANGE - 1)
  BY BoundsAssumption, RangeAssumption DEF Init
<1>. QED
  BY <1>1, <1>2, <1>3, <1>4, <1>5 DEF TypeOK

LEMMA NextTypeOK == TypeOK /\ [Next]_vars => TypeOK'
<1> SUFFICES ASSUME TypeOK, [Next]_vars PROVE TypeOK'
  OBVIOUS
<1>1. CASE HandleUdpReceive
  <2>1. received' \in 0..MAX_MSGS
    BY <1>1, BoundsAssumption DEF HandleUdpReceive, TypeOK
  <2>2. inbox' \in 0..MSG_BUFS
    BY <1>1, BoundsAssumption DEF HandleUdpReceive, TypeOK
  <2>3. evFlag' \in BOOLEAN
    BY <1>1, Zenon DEF HandleUdpReceive, signal_event_loop, TypeOK
  <2>. QED
    BY <1>1, <2>1, <2>2, <2>3 DEF HandleUdpReceive, TypeOK
<1>2. CASE Tick
  BY <1>2, BoundsAssumption DEF Tick, TypeOK
<1>3. CASE RoleReached
  BY <1>3 DEF RoleReached, TypeOK, LoopPc
<1>4. CASE CreateEvent
  BY <1>4 DEF CreateEvent, TypeOK, LoopPc
<1>5. CASE MainPoll
  <2>1. timer' \in (0..(MAX_TIME + TIMER_DELAY)) \cup {NoTimer}
    BY <1>5, TimerAfterPollType DEF MainPoll
  <2>2. nextEvent' \in 0..(MAX_TIME + TIMER_DELAY)
    BY <1>5, <2>1, BoundsAssumption DEF MainPoll
  <2>3. osaWaitForever_c \in 0..(UINT32_RANGE - 1)
    BY BoundsAssumption, RangeAssumption DEF osaWaitForever_c
  <2>4. /\ pc' \in LoopPc
        /\ waitFrom' \in 0..MAX_TIME
        /\ timeout' \in 0..(UINT32_RANGE - 1)
    <3>1. CASE nextEvent' = 0
      <4>1. pc' = "wait" /\ waitFrom' = now /\ timeout' = osaWaitForever_c
        BY <1>5, <3>1 DEF MainPoll
      <4>. QED
        BY <4>1, <2>3 DEF TypeOK, LoopPc
    <3>2. CASE nextEvent' # 0
      <4>1. pc' = "clock" /\ waitFrom' = waitFrom /\ timeout' = timeout
        BY <1>5, <3>2 DEF MainPoll
      <4>. QED
        BY <4>1 DEF TypeOK, LoopPc
    <3>. QED
      BY <3>1, <3>2
  <2>. QED
    BY <1>5, <2>1, <2>2, <2>4, BoundsAssumption DEF MainPoll, TypeOK
<1>6. CASE StartTimedWait
  <2>1. timeout' \in 0..(UINT32_RANGE - 1)
    BY <1>6, WaitTimeoutType DEF StartTimedWait, TypeOK
  <2>. QED
    BY <1>6, <2>1 DEF StartTimedWait, TypeOK, LoopPc
<1>7. CASE EventWait
  BY <1>7 DEF EventWait, TypeOK, LoopPc
<1>8. CASE UNCHANGED vars
  BY <1>8 DEF vars, TypeOK
<1>. QED
  BY <1>1, <1>2, <1>3, <1>4, <1>5, <1>6, <1>7, <1>8 DEF Next, KnxTask

-----------------------------------------------------------------------------
(* No lost wakeup.                                                         *)

LEMMA InitIInv == Init => IInv
BY InitTypeOK DEF Init, IInv, EventReady, WakeupPending

\* The steps of the OT task and the clock: a queued datagram sets the flag
\* of an event that exists whenever the task is in its loop.
LEMMA OtStepsIInv ==
  ASSUME IInv, HandleUdpReceive \/ Tick
  PROVE  (EventReady /\ WakeupPending)'
<1>1. CASE HandleUdpReceive
  <2>1. CASE inbox < MSG_BUFS /\ inbox' = inbox + 1 /\ signal_event_loop
    <3>1. pc' \in {"clock", "wait"} => evFlag'
      BY <1>1, <2>1 DEF HandleUdpReceive, signal_event_loop, IInv, EventReady
    <3>. QED
      BY <1>1, <3>1 DEF HandleUdpReceive, IInv, EventReady, WakeupPending
  <2>2. CASE inbox = MSG_BUFS /\ UNCHANGED <<inbox, evFlag>>
    BY <1>1, <2>2 DEF HandleUdpReceive, IInv, EventReady, WakeupPending
  <2>. QED
    BY <1>1, <2>1, <2>2 DEF HandleUdpReceive
<1>2. CASE Tick
  BY <1>2 DEF Tick, IInv, EventReady, WakeupPending
<1>. QED
  BY <1>1, <1>2

\* The steps of the KNX task: the event is created before the first poll,
\* the poll empties the inbox, and only OSA_EventWait clears the flag, as
\* it leaves the wait.
LEMMA KnxTaskIInv ==
  ASSUME IInv, KnxTask
  PROVE  (EventReady /\ WakeupPending)'
<1>1. CASE RoleReached
  BY <1>1 DEF RoleReached, IInv, EventReady, WakeupPending
<1>2. CASE CreateEvent
  BY <1>2 DEF CreateEvent, EventReady, WakeupPending
<1>3. CASE MainPoll
  BY <1>3 DEF MainPoll, IInv, EventReady, WakeupPending
<1>4. CASE StartTimedWait
  BY <1>4 DEF StartTimedWait, IInv, EventReady, WakeupPending
<1>5. CASE EventWait
  BY <1>5 DEF EventWait, IInv, EventReady, WakeupPending
<1>. QED
  BY <1>1, <1>2, <1>3, <1>4, <1>5 DEF KnxTask

LEMMA NextIInv == IInv /\ [Next]_vars => IInv'
<1> SUFFICES ASSUME IInv, [Next]_vars PROVE IInv'
  OBVIOUS
<1>1. TypeOK'
  BY NextTypeOK DEF IInv
<1>2. CASE HandleUdpReceive \/ Tick
  BY <1>1, <1>2, OtStepsIInv DEF IInv
<1>3. CASE KnxTask
  BY <1>1, <1>3, KnxTaskIInv DEF IInv
<1>4. CASE UNCHANGED vars
  BY <1>1, <1>4 DEF vars, IInv, EventReady, WakeupPending
<1>. QED
  BY <1>2, <1>3, <1>4 DEF Next

-----------------------------------------------------------------------------
(* Theorems.                                                               *)

\* Type correctness of the event loop: the clock, the datagram and buffer
\* counts, the stack's timer and next_event stay in their bounds, and the
\* timeout handed to OSA_EventWait is always a uint32_t value.
THEOREM EventLoopTypeCorrect == Spec => []TypeOK
<1>1. Init => TypeOK
  BY InitTypeOK
<1>2. TypeOK /\ [Next]_vars => TypeOK'
  BY NextTypeOK
<1>. QED
  BY <1>1, <1>2, PTL DEF Spec

\* No lost wakeup in knx_main: whenever a datagram that HandleUdpReceive
\* queued is waiting and the KNX task is between its oc_main_poll and the
\* return of OSA_EventWait, the event flag is set; datagrams received
\* before OSA_EventCreate and during the clock read included.
THEOREM NoLostWakeup == Spec => []WakeupPending
<1>1. Init => IInv
  BY InitIInv
<1>2. IInv /\ [Next]_vars => IInv'
  BY NextIInv
<1>3. IInv => WakeupPending
  BY DEF IInv
<1>. QED
  BY <1>1, <1>2, <1>3, PTL DEF Spec
=============================================================================
