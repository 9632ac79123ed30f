------------------------------- MODULE KnxLight -------------------------------
(***************************************************************************)
(* The light switch path of the two example applications: a button press  *)
(* on the light sensor, its way through the sensor's application queue and *)
(* KNX task to an s-mode multicast, and the light actuator's PUT handler   *)
(* that drives the LED.                                                   *)
(*                                                                         *)
(*  - Button callbacks (light_sensor main.c, Btn_HandleKeys0/1 and         *)
(*    sendKnxActionMessage) toggle g_mystate, queue a message on           *)
(*    mKnxAppInputQueue and set the auto-clearing event mKnxAppEvent.      *)
(*  - The sensor's KNX task (knx_main) first polls the queue every 100 ms  *)
(*    until the Thread role is reached, marks the device loaded, creates   *)
(*    the event and then loops: one message from the queue, oc_main_poll,  *)
(*    OSA_EventWait (for ever when poll reports no timer).                 *)
(*  - A handled message sends the current g_mystate as an s-mode write     *)
(*    when the device is in runtime, and is dropped otherwise.             *)
(*  - The multicast may be lost; delivered messages reach the actuator's   *)
(*    put_handler, which stores the value and toggles the LED pin.         *)
(*                                                                         *)
(* The LED pins are configured with output logic 1 (knx_pin_mux.c), and    *)
(* both the LED and g_mystate start off.                                    *)
(***************************************************************************)
EXTENDS Integers, Sequences, FiniteSets

CONSTANTS
  Idx,            \* button / LED indices (gAppButtonCnt_c, gAppLedsCnt_c)
  Scopes,         \* s-mode scopes of a press the actuator receives
  MSG_POOL_SIZE,  \* messages the allocator can hold for the app queue
  MAX_PRESSES     \* bound on the number of button presses

ASSUME IdxAssumption == Idx # {}
ASSUME ScopesAssumption == Scopes \subseteq {2, 5} /\ Scopes # {}
ASSUME PoolAssumption == MSG_POOL_SIZE \in Nat \ {0}
ASSUME PressesAssumption == MAX_PRESSES \in Nat

\* Program counter of the sensor's KNX task.
KnxPc == {"boot", "create", "check", "poll", "wait"}

\* An s-mode write on the network: the index of the resource and the
\* boolean value read from g_mystate when the message was built.
SMode == [idx : Idx, val : BOOLEAN]

VARIABLES
  sState,        \* light sensor g_mystate
  queue,         \* mKnxAppInputQueue: the button indices of queued messages
  sLoaded,       \* sensor LSM state is LSM_S_LOADED
  provisioned,   \* sensor IA and IID are set (knx_ia, knx_iid)
  knxPc,         \* where the sensor's KNX task is
  evCreated,     \* OSA_EventCreate(mKnxAppEvent) has run
  evFlag,        \* gAppEvtFromKnx is set in mKnxAppEvent
  timerPending,  \* the last oc_main_poll returned next_event # 0
  net,           \* s-mode messages sent and not yet delivered
  aState,        \* light actuator g_mystate
  pin,           \* actuator LED GPIO output level (1: off)
  presses,       \* button presses so far
  missed         \* a press changed sState and the actuator never heard of it

sensorVars == <<sState, queue, sLoaded, provisioned, knxPc, evCreated,
                evFlag, timerPending>>
vars == <<sensorVars, net, aState, pin, presses, missed>>

LedOn(i) == pin[i] = 0

-----------------------------------------------------------------------------
(* The sensor: button callbacks.                                           *)

\* Mutant: the NULL check of MSG_Alloc left out.
ButtonPressNoAllocCheck(i) ==
  /\ presses < MAX_PRESSES
  /\ presses' = presses + 1
  /\ sState' = [sState EXCEPT ![i] = ~@]
  /\ queue' = Append(queue, i)
  /\ evFlag' = IF sLoaded /\ evCreated THEN TRUE ELSE evFlag
  /\ UNCHANGED <<sLoaded, provisioned, knxPc, evCreated, timerPending,
                 net, aState, pin, missed>>

\* Mutant: g_mystate toggled before the allocation is checked.
ButtonPressToggleFirst(i) ==
  /\ presses < MAX_PRESSES
  /\ presses' = presses + 1
  /\ sState' = [sState EXCEPT ![i] = ~@]
  /\ \/ /\ Len(queue) < MSG_POOL_SIZE
        /\ queue' = Append(queue, i)
        /\ evFlag' = IF sLoaded /\ evCreated THEN TRUE ELSE evFlag
     \/ UNCHANGED <<queue, evFlag>>
  /\ UNCHANGED <<sLoaded, provisioned, knxPc, evCreated, timerPending,
                 net, aState, pin, missed>>

\* Btn_HandleKeys<i> on a short press: sendKnxActionMessage(uri, i).  When
\* MSG_Alloc fails (always when the pool is used up, and possibly earlier,
\* for the pool is shared with the rest of the stack) the press is rejected
\* and nothing changes.  Otherwise g_mystate[i] is toggled, the message
\* queued, and the event set when the LSM state is loaded.  OSA_EventSet on
\* an event not yet created returns an error that is ignored: the set is
\* lost.
ButtonPress(i) ==
  /\ presses < MAX_PRESSES
  /\ presses' = presses + 1
  /\ \/ /\ Len(queue) < MSG_POOL_SIZE
        /\ sState' = [sState EXCEPT ![i] = ~@]
        /\ queue' = Append(queue, i)
        /\ evFlag' = IF sLoaded /\ evCreated THEN TRUE ELSE evFlag
     \/ UNCHANGED <<sState, queue, evFlag>>
  /\ UNCHANGED <<sLoaded, provisioned, knxPc, evCreated, timerPending,
                 net, aState, pin, missed>>

\* knx_ia / knx_iid on the sensor: oc_is_device_in_runtime needs both set;
\* setting either to 0 takes the device out of runtime again.
Provision ==
  /\ provisioned' = ~provisioned
  /\ UNCHANGED <<sState, queue, sLoaded, knxPc, evCreated, evFlag,
                 timerPending, net, aState, pin, presses, missed>>

-----------------------------------------------------------------------------
(* The sensor: the KNX task.                                               *)

Runtime == sLoaded /\ provisioned

\* knx_check_app_message_queue with a message at the head: remove it and
\* run knx_action_button_press, which sends g_mystate[i] to every scope
\* (oc_do_s_mode_with_scope_no_check 2 and 5) in runtime, and only prints
\* otherwise.
HandleHead ==
  LET i == Head(queue) IN
  /\ queue' = Tail(queue)
  /\ IF Runtime
       THEN /\ net' = net \o [k \in 1..Cardinality(Scopes) |->
                                [idx |-> i, val |-> sState[i]]]
            /\ UNCHANGED missed
       ELSE /\ missed' = TRUE
            /\ UNCHANGED net

\* knx_main before the Thread role is reached: check the queue, sleep 100 ms.
BootCheckQueue ==
  /\ knxPc = "boot"
  /\ queue # <<>>
  /\ HandleHead
  /\ UNCHANGED <<sState, sLoaded, provisioned, knxPc, evCreated, evFlag,
                 timerPending, aState, pin, presses>>

\* The role is child or better: oc_a_lsm_set_state(0, LSM_S_LOADED).
RoleReached ==
  /\ knxPc = "boot"
  /\ sLoaded' = TRUE
  /\ knxPc' = "create"
  /\ UNCHANGED <<sState, queue, provisioned, evCreated, evFlag, timerPending,
                 net, aState, pin, presses, missed>>

\* OSA_EventCreate(mKnxAppEvent, autoClear = 1): flags start cleared.
CreateEvent ==
  /\ knxPc = "create"
  /\ evCreated' = TRUE
  /\ evFlag' = FALSE
  /\ knxPc' = "check"
  /\ UNCHANGED <<sState, queue, sLoaded, provisioned, timerPending,
                 net, aState, pin, presses, missed>>

\* Top of the main loop: knx_check_app_message_queue handles at most one
\* message.
LoopCheckQueue ==
  /\ knxPc = "check"
  /\ knxPc' = "poll"
  /\ \/ /\ queue # <<>>
        /\ HandleHead
     \/ /\ queue = <<>>
        /\ UNCHANGED <<queue, net, missed>>
  /\ UNCHANGED <<sState, sLoaded, provisioned, evCreated, evFlag,
                 timerPending, aState, pin, presses>>

\* oc_main_poll runs the stack's processes and returns the time of its
\* next timer, or 0 when it has none.
MainPoll ==
  /\ knxPc = "poll"
  /\ knxPc' = "wait"
  /\ \E t \in BOOLEAN : timerPending' = t
  /\ UNCHANGED <<sState, queue, sLoaded, provisioned, evCreated, evFlag,
                 net, aState, pin, presses, missed>>

\* OSA_EventWait returns when gAppEvtFromKnx is set, clearing it, or when
\* the timeout of the next timer expires; with no timer it waits for ever.
EventWait ==
  /\ knxPc = "wait"
  /\ evFlag \/ timerPending
  /\ evFlag' = FALSE
  /\ knxPc' = "check"
  /\ UNCHANGED <<sState, queue, sLoaded, provisioned, evCreated,
                 timerPending, net, aState, pin, presses, missed>>

-----------------------------------------------------------------------------
(* The network and the actuator.                                           *)

\* A multicast datagram is lost on the Thread network.
LoseMessage ==
  /\ net # <<>>
  /\ \E k \in 1..Len(net) :
       net' = [j \in 1..(Len(net) - 1) |-> IF j < k THEN net[j] ELSE net[j + 1]]
  /\ missed' = TRUE
  /\ UNCHANGED <<sensorVars, aState, pin, presses>>

\* knx_led_toggle: GPIO_PortToggle on the LED of that index.
knx_led_toggle(p, i) == [p EXCEPT ![i] = 1 - @]

\* put_handler on the actuator, reached through its group object table for
\* the oldest datagram: g_mystate[index] = value, then knx_led_toggle(index).
PutHandler ==
  /\ net # <<>>
  /\ LET m == Head(net) IN
       /\ aState' = [aState EXCEPT ![m.idx] = m.val]
       /\ pin' = knx_led_toggle(pin, m.idx)
  /\ net' = Tail(net)
  /\ UNCHANGED <<sensorVars, presses, missed>>

Init ==
  /\ sState = [i \in Idx |-> FALSE]
  /\ queue = <<>>
  /\ sLoaded = FALSE
  /\ provisioned \in BOOLEAN
  /\ knxPc = "boot"
  /\ evCreated = FALSE
  /\ evFlag = FALSE
  /\ timerPending = FALSE
  /\ net = <<>>
  /\ aState = [i \in Idx |-> FALSE]
  /\ pin = [i \in Idx |-> 1]
  /\ presses = 0
  /\ missed = FALSE

\* The sensor's KNX task.
KnxTask ==
  \/ BootCheckQueue \/ RoleReached \/ CreateEvent
  \/ LoopCheckQueue \/ MainPoll \/ EventWait

Next ==
  \/ \E i \in Idx : ButtonPress(i)
  \/ Provision
  \/ KnxTask
  \/ LoseMessage
  \/ PutHandler

\* The KNX task runs whenever it is ready (nothing of higher priority runs
\* for ever), and a datagram that is not lost is delivered.
Fairness == WF_vars(KnxTask) /\ WF_vars(PutHandler)

Spec == Init /\ [][Next]_vars
FairSpec == Spec /\ Fairness
-----------------------------------------------------------------------------
(* Properties.                                                             *)

TypeOK ==
  /\ sState \in [Idx -> BOOLEAN]
  /\ queue \in Seq(Idx) /\ Len(queue) <= MSG_POOL_SIZE
  /\ sLoaded \in BOOLEAN /\ provisioned \in BOOLEAN
  /\ knxPc \in KnxPc
  /\ evCreated \in BOOLEAN /\ evFlag \in BOOLEAN /\ timerPending \in BOOLEAN
  /\ net \in Seq(SMode)
  /\ aState \in [Idx -> BOOLEAN]
  /\ pin \in [Idx -> {0, 1}]
  /\ presses \in 0..MAX_PRESSES
  /\ missed \in BOOLEAN

\* Once every queued button message has been handled and every s-mode
\* write delivered, the actuator's g_mystate equals the sensor's, unless
\* a press was dropped or a datagram lost on the way.  A failed MSG_Alloc
\* must therefore leave g_mystate alone, and every message must send the
\* state as it is when sent, whatever presses came in between.
QuiescentAgreement ==
  (queue = <<>> /\ net = <<>> /\ ~missed) => aState = sState

\* The actuator's LED is lit exactly when its g_mystate is TRUE: a GET of
\* the value (get_handler) reports what the LED shows.
LedShowsState == \A i \in Idx : LedOn(i) <=> aState[i]

\* A button message put on mKnxAppInputQueue is eventually taken off it by
\* the KNX task: a press is never left waiting in the queue.
PressEventuallyHandled == (queue # <<>>) ~> (queue = <<>>)
=============================================================================
