--------------------------- MODULE KnxLightProofs ---------------------------
(***************************************************************************)
(* Proofs about the light switch path (KnxLight), for every set of buttons, *)
(* every pool size and press bound and either set of scopes.               *)
(*                                                                         *)
(* QuiescentAgreement is not inductive: a state with a message in flight   *)
(* says nothing about the sensor and actuator agreeing.  What is kept from *)
(* step to step is, for every button i that has no message waiting in the  *)
(* sensor's queue: the last s-mode write for i still on the network        *)
(* carries the sensor's g_mystate[i], or, when none is, the actuator       *)
(* already holds it.  A press puts i in the queue; handling it sends the   *)
(* state as it is then; delivery moves the value to the actuator; a drop   *)
(* or a loss sets missed, which the property excludes.                     *)
(***************************************************************************)
EXTENDS KnxLight, FiniteSetTheorems, TLAPS

\* Button i has no message in mKnxAppInputQueue.
NotQueued(i) == \A q \in 1..Len(queue) : queue[q] # i

\* No s-mode write for button i after position k of the network.
NoMsgAfter(i, k) == \A j \in (k + 1)..Len(net) : net[j].idx # i

\* The actuator will end up with the sensor's value for i: the last write
\* for i in flight carries it, or none is in flight and the actuator has it.
Agree(i) ==
  \/ NoMsgAfter(i, 0) /\ aState[i] = sState[i]
  \/ \E k \in 1..Len(net) :
       net[k].idx = i /\ net[k].val = sState[i] /\ NoMsgAfter(i, k)

AgreeInv == ~missed => \A i \in Idx : NotQueued(i) => Agree(i)

IInv == TypeOK /\ AgreeInv

-----------------------------------------------------------------------------
(* Lemmas about the sequence operators the model uses.                     *)

\* Tail of a non-empty sequence.
LEMMA TailFacts ==
  ASSUME NEW T, NEW s \in Seq(T), s # <<>>
  PROVE  /\ Head(s) \in T /\ Tail(s) \in Seq(T)
         /\ Len(Tail(s)) = Len(s) - 1
         /\ \A q \in 1..Len(Tail(s)) : Tail(s)[q] = s[q + 1]
OBVIOUS

\* Concatenation: the first part keeps its positions, the second is shifted.
LEMMA ConcatFacts ==
  ASSUME NEW T, NEW s \in Seq(T), NEW t \in Seq(T)
  PROVE  /\ s \o t \in Seq(T)
         /\ Len(s \o t) = Len(s) + Len(t)
         /\ \A k \in 1..Len(s) : (s \o t)[k] = s[k]
         /\ \A k \in (Len(s) + 1)..(Len(s) + Len(t)) : (s \o t)[k] = t[k - Len(s)]
OBVIOUS

\* Append.
LEMMA AppendFacts ==
  ASSUME NEW T, NEW s \in Seq(T), NEW e \in T
  PROVE  /\ Append(s, e) \in Seq(T)
         /\ Len(Append(s, e)) = Len(s) + 1
         /\ \A k \in 1..Len(s) : Append(s, e)[k] = s[k]
         /\ Append(s, e)[Len(s) + 1] = e
OBVIOUS

\* Removing the element at position k (LoseMessage).
LEMMA RemoveAtFacts ==
  ASSUME NEW T, NEW s \in Seq(T), NEW k \in 1..Len(s)
  PROVE  [j \in 1..(Len(s) - 1) |-> IF j < k THEN s[j] ELSE s[j + 1]] \in Seq(T)
<1>1. Len(s) - 1 \in Nat OBVIOUS
<1>2. \A j \in 1..(Len(s) - 1) : (IF j < k THEN s[j] ELSE s[j + 1]) \in T OBVIOUS
<1>3. QED BY <1>1, <1>2

\* Each press handled in runtime puts at least one datagram on the network.
LEMMA CardScopes == Cardinality(Scopes) \in Nat \ {0}
<1>1. IsFiniteSet(2..5)
  <2>1. 2 \in Int /\ 5 \in Int OBVIOUS
  <2>2. QED BY <2>1, FS_Interval
<1>2. Scopes \subseteq 2..5 BY ScopesAssumption
<1>3. IsFiniteSet(Scopes) BY <1>1, <1>2, FS_Subset
<1>4. Cardinality(Scopes) \in Nat BY <1>3, FS_CardinalityType
<1>5. Cardinality(Scopes) # 0 BY <1>3, FS_EmptySet, ScopesAssumption
<1>6. QED BY <1>4, <1>5

-----------------------------------------------------------------------------
(* The inductive invariant, action by action.                              *)

LEMMA InitIInv == Init => IInv
<1> SUFFICES ASSUME Init PROVE IInv OBVIOUS
<1>1. sState \in [Idx -> BOOLEAN] /\ aState \in [Idx -> BOOLEAN]
      /\ pin \in [Idx -> {0, 1}]
  BY DEF Init
<1>2. queue \in Seq(Idx) /\ Len(queue) <= MSG_POOL_SIZE /\ net \in Seq(SMode)
  BY PoolAssumption DEF Init
<1>3. presses \in 0..MAX_PRESSES /\ knxPc \in KnxPc
  BY PressesAssumption DEF Init, KnxPc
<1>4. /\ sLoaded \in BOOLEAN /\ provisioned \in BOOLEAN
      /\ evCreated \in BOOLEAN /\ evFlag \in BOOLEAN /\ timerPending \in BOOLEAN
      /\ missed \in BOOLEAN
  BY DEF Init
<1>5. \A i \in Idx : Agree(i) BY DEF Init, Agree, NoMsgAfter
<1>6. QED BY <1>1, <1>2, <1>3, <1>4, <1>5 DEF IInv, TypeOK, AgreeInv

\* A step that leaves the queue, the network, both g_mystate arrays and the
\* missed flag alone keeps AgreeInv.
LEMMA AgreeUnchanged ==
  ASSUME AgreeInv, UNCHANGED <<queue, net, sState, aState, missed>>
  PROVE  AgreeInv'
BY DEF AgreeInv, NotQueued, Agree, NoMsgAfter

\* A step that sets missed keeps AgreeInv.
LEMMA AgreeMissed ==
  ASSUME missed' = TRUE
  PROVE  AgreeInv'
BY DEF AgreeInv

\* knx_action_button_press on the head of the queue.
LEMMA HandleHeadStep ==
  ASSUME TypeOK, AgreeInv, queue # <<>>, HandleHead,
         UNCHANGED <<sState, aState>>
  PROVE  /\ AgreeInv'
         /\ queue' \in Seq(Idx) /\ Len(queue') <= MSG_POOL_SIZE
         /\ net' \in Seq(SMode) /\ missed' \in BOOLEAN
<1> DEFINE i0 == Head(queue)
<1> DEFINE c == Cardinality(Scopes)
<1> DEFINE S == [k \in 1..c |-> [idx |-> i0, val |-> sState[i0]]]
<1>0. sState' = sState /\ aState' = aState OBVIOUS
<1>1. queue \in Seq(Idx) /\ Len(queue) <= MSG_POOL_SIZE /\ Len(queue) \in Nat
  BY DEF TypeOK
<1>2. queue' = Tail(queue) BY DEF HandleHead
<1>3. /\ i0 \in Idx /\ Tail(queue) \in Seq(Idx)
      /\ Len(Tail(queue)) = Len(queue) - 1
      /\ \A q \in 1..Len(Tail(queue)) : Tail(queue)[q] = queue[q + 1]
  BY <1>1, TailFacts
<1>4. queue' \in Seq(Idx) /\ Len(queue') <= MSG_POOL_SIZE
  BY <1>1, <1>2, <1>3, PoolAssumption
<1>5. ASSUME NEW j \in Idx, j # i0, NotQueued(j)' PROVE NotQueued(j)
  <2> SUFFICES ASSUME NEW q \in 1..Len(queue) PROVE queue[q] # j
    BY DEF NotQueued
  <2>1. CASE q = 1 BY <2>1, <1>5 DEF TypeOK
  <2>2. CASE q > 1
    <3>1. q - 1 \in 1..Len(queue') /\ queue'[q - 1] = queue[q]
      BY <2>2, <1>1, <1>2, <1>3
    <3>2. QED BY <3>1, <1>5 DEF NotQueued
  <2>3. QED BY <2>1, <2>2
<1>6. net \in Seq(SMode) /\ Len(net) \in Nat /\ missed \in BOOLEAN
  BY DEF TypeOK
<1>7. CASE Runtime
  <2>1. net' = net \o S /\ missed' = missed BY <1>7 DEF HandleHead
  <2>2. c \in Nat \ {0} BY CardScopes
  <2>3. sState[i0] \in BOOLEAN BY <1>3 DEF TypeOK
  <2>4. S \in Seq(SMode) /\ Len(S) = c
    <3>1. \A k \in 1..c : S[k] \in SMode BY <2>3, <1>3 DEF SMode
    <3>2. S \in [1..c -> SMode] BY <3>1
    <3>3. QED BY <3>2, <2>2
  <2>5. /\ net' \in Seq(SMode)
        /\ Len(net') = Len(net) + c
        /\ \A k \in 1..Len(net) : net'[k] = net[k]
        /\ \A k \in (Len(net) + 1)..Len(net') : net'[k] = S[k - Len(net)]
    <3>1. /\ net \o S \in Seq(SMode)
          /\ Len(net \o S) = Len(net) + Len(S)
          /\ \A k \in 1..Len(net) : (net \o S)[k] = net[k]
          /\ \A k \in (Len(net) + 1)..(Len(net) + Len(S)) :
                (net \o S)[k] = S[k - Len(net)]
      BY <2>4, <1>6, ConcatFacts
    <3>2. QED BY <3>1, <2>1, <2>4
  <2>6. \A k \in (Len(net) + 1)..Len(net') : net'[k].idx = i0
    BY <2>2, <2>5, <1>6
  <2>7. AgreeInv'
    <3> SUFFICES ASSUME ~missed', NEW j \in Idx, NotQueued(j)'
                 PROVE  Agree(j)'
      BY DEF AgreeInv
    <3>1. CASE j = i0
      <4> DEFINE last == Len(net) + c
      <4>1. last \in 1..Len(net') BY <2>2, <2>5, <1>6
      <4>2. net'[last] = [idx |-> i0, val |-> sState[i0]]
        BY <2>2, <2>5, <1>6
      <4>3. net'[last].idx = j /\ net'[last].val = sState'[j]
        BY <4>2, <3>1, <1>0
      <4>4. \A x \in (last + 1)..Len(net') : net'[x].idx # j
        BY <2>2, <2>5, <1>6
      <4>5. \E k \in 1..Len(net') :
              /\ net'[k].idx = j /\ net'[k].val = sState'[j]
              /\ \A x \in (k + 1)..Len(net') : net'[x].idx # j
        BY <4>1, <4>3, <4>4
      <4>6. QED BY <4>5 DEF Agree, NoMsgAfter
    <3>2. CASE j # i0
      <4>1. Agree(j) BY <3>2, <1>5, <2>1 DEF AgreeInv
      <4>2. ASSUME NEW k \in 0..Len(net), NoMsgAfter(j, k)
            PROVE  NoMsgAfter(j, k)'
        <5> SUFFICES ASSUME NEW x \in (k + 1)..Len(net') PROVE net'[x].idx # j
          BY DEF NoMsgAfter
        <5>1. CASE x <= Len(net)
          <6>1. x \in (k + 1)..Len(net) /\ net'[x] = net[x] BY <5>1, <2>5, <1>6
          <6>2. QED BY <6>1, <4>2 DEF NoMsgAfter
        <5>2. CASE x > Len(net)
          <6>1. x \in (Len(net) + 1)..Len(net') BY <5>2, <1>6
          <6>2. QED BY <6>1, <2>6, <3>2
        <5>3. QED BY <5>1, <5>2, <1>6
      <4>3. CASE NoMsgAfter(j, 0) /\ aState[j] = sState[j]
        <5>1. NoMsgAfter(j, 0)' BY <4>3, <4>2, <1>6
        <5>2. QED BY <5>1, <4>3 DEF Agree
      <4>4. CASE \E k \in 1..Len(net) :
                   net[k].idx = j /\ net[k].val = sState[j] /\ NoMsgAfter(j, k)
        <5>1. PICK k \in 1..Len(net) :
                net[k].idx = j /\ net[k].val = sState[j] /\ NoMsgAfter(j, k)
          BY <4>4
        <5>2. NoMsgAfter(j, k)' BY <5>1, <4>2, <1>6
        <5>3. k \in 1..Len(net') /\ net'[k] = net[k] BY <2>5, <2>2, <1>6
        <5>4. QED BY <5>1, <5>2, <5>3 DEF Agree
      <4>5. QED BY <4>1, <4>3, <4>4 DEF Agree
    <3>3. QED BY <3>1, <3>2
  <2>8. QED BY <1>4, <1>6, <2>1, <2>5, <2>7
<1>8. CASE ~Runtime
  <2>1. missed' = TRUE /\ net' = net BY <1>8 DEF HandleHead
  <2>2. QED BY <1>4, <1>6, <2>1, AgreeMissed
<1>9. QED BY <1>7, <1>8

\* A button callback.
LEMMA ButtonPressIInv ==
  ASSUME IInv, NEW i \in Idx, ButtonPress(i)
  PROVE  IInv'
<1>1. TypeOK /\ AgreeInv BY DEF IInv
<1>2. presses' \in 0..MAX_PRESSES BY <1>1, PressesAssumption DEF ButtonPress, TypeOK
<1>3. UNCHANGED <<sLoaded, provisioned, knxPc, evCreated, timerPending,
                  net, aState, pin, missed>>
  BY DEF ButtonPress
<1>4. CASE /\ Len(queue) < MSG_POOL_SIZE
           /\ sState' = [sState EXCEPT ![i] = ~@]
           /\ queue' = Append(queue, i)
           /\ evFlag' = IF sLoaded /\ evCreated THEN TRUE ELSE evFlag
  <2>1. queue \in Seq(Idx) /\ Len(queue) \in Nat BY <1>1 DEF TypeOK
  <2>2. /\ Append(queue, i) \in Seq(Idx)
        /\ Len(Append(queue, i)) = Len(queue) + 1
        /\ \A k \in 1..Len(queue) : Append(queue, i)[k] = queue[k]
        /\ Append(queue, i)[Len(queue) + 1] = i
    BY <2>1, AppendFacts
  <2>3. TypeOK'
    <3>1. sState' \in [Idx -> BOOLEAN] BY <1>4, <1>1 DEF TypeOK
    <3>2. queue' \in Seq(Idx) /\ Len(queue') <= MSG_POOL_SIZE
      BY <1>4, <2>1, <2>2, PoolAssumption
    <3>3. evFlag' \in BOOLEAN BY <1>4, <1>1 DEF TypeOK
    <3>4. QED BY <1>1, <1>2, <1>3, <3>1, <3>2, <3>3 DEF TypeOK
  <2>4. AgreeInv'
    <3> SUFFICES ASSUME ~missed', NEW j \in Idx, NotQueued(j)'
                 PROVE  Agree(j)'
      BY DEF AgreeInv
    <3>1. j # i BY <1>4, <2>1, <2>2 DEF NotQueued
    <3>2. NotQueued(j) BY <1>4, <2>1, <2>2 DEF NotQueued
    <3>3. Agree(j) BY <3>2, <1>1, <1>3 DEF AgreeInv
    <3>4. sState'[j] = sState[j] BY <3>1, <1>4, <1>1 DEF TypeOK
    <3>5. QED BY <3>3, <3>4, <1>3 DEF Agree, NoMsgAfter
  <2>5. QED BY <2>3, <2>4 DEF IInv
<1>5. CASE UNCHANGED <<sState, queue, evFlag>>
  <2>1. TypeOK' BY <1>1, <1>2, <1>3, <1>5 DEF TypeOK
  <2>2. AgreeInv' BY <1>1, <1>3, <1>5, AgreeUnchanged
  <2>3. QED BY <2>1, <2>2 DEF IInv
<1>6. QED BY <1>4, <1>5 DEF ButtonPress

\* The task steps that touch neither the queue nor the network.
LEMMA QuietStepsIInv ==
  ASSUME IInv, Provision \/ RoleReached \/ CreateEvent \/ MainPoll \/ EventWait
  PROVE  IInv'
<1>1. TypeOK /\ AgreeInv BY DEF IInv
<1>2. UNCHANGED <<queue, net, sState, aState, missed, pin, presses>>
  BY DEF Provision, RoleReached, CreateEvent, MainPoll, EventWait
<1>3. AgreeInv' BY <1>1, <1>2, AgreeUnchanged
<1>4. /\ sLoaded' \in BOOLEAN /\ provisioned' \in BOOLEAN
      /\ knxPc' \in KnxPc
      /\ evCreated' \in BOOLEAN /\ evFlag' \in BOOLEAN
      /\ timerPending' \in BOOLEAN
  BY <1>1 DEF TypeOK, KnxPc, Provision, RoleReached, CreateEvent, MainPoll,
             EventWait
<1>5. TypeOK' BY <1>1, <1>2, <1>4 DEF TypeOK
<1>6. QED BY <1>3, <1>5 DEF IInv

\* knx_check_app_message_queue, before and after the role is reached.
LEMMA CheckQueueIInv ==
  ASSUME IInv, BootCheckQueue \/ LoopCheckQueue
  PROVE  IInv'
<1>1. TypeOK /\ AgreeInv BY DEF IInv
<1>2. /\ UNCHANGED <<sState, aState, pin, presses, sLoaded, provisioned,
                     evCreated, evFlag, timerPending>>
      /\ knxPc' \in KnxPc
  BY DEF BootCheckQueue, LoopCheckQueue, KnxPc
<1>3. CASE queue # <<>> /\ HandleHead
  <2>1. /\ AgreeInv'
        /\ queue' \in Seq(Idx) /\ Len(queue') <= MSG_POOL_SIZE
        /\ net' \in Seq(SMode) /\ missed' \in BOOLEAN
    BY <1>1, <1>2, <1>3, HandleHeadStep
  <2>2. QED BY <1>1, <1>2, <2>1 DEF IInv, TypeOK
<1>4. CASE UNCHANGED <<queue, net, missed>>
  <2>1. AgreeInv' BY <1>1, <1>2, <1>4, AgreeUnchanged
  <2>2. QED BY <1>1, <1>2, <1>4, <2>1 DEF IInv, TypeOK
<1>5. QED BY <1>3, <1>4 DEF BootCheckQueue, LoopCheckQueue

\* A datagram lost on the network.
LEMMA LoseMessageIInv ==
  ASSUME IInv, LoseMessage
  PROVE  IInv'
<1>1. TypeOK BY DEF IInv
<1>2. net \in Seq(SMode) BY <1>1 DEF TypeOK
<1>3. net' \in Seq(SMode) BY <1>2, RemoveAtFacts DEF LoseMessage
<1>4. missed' = TRUE /\ UNCHANGED <<sensorVars, aState, pin, presses>>
  BY DEF LoseMessage
<1>5. TypeOK' BY <1>1, <1>3, <1>4 DEF TypeOK, sensorVars
<1>6. QED BY <1>4, <1>5, AgreeMissed DEF IInv

\* put_handler on the actuator for the oldest datagram.
LEMMA PutHandlerIInv ==
  ASSUME IInv, PutHandler
  PROVE  IInv'
<1> DEFINE m == Head(net)
<1>1. TypeOK /\ AgreeInv BY DEF IInv
<1>2. net \in Seq(SMode) /\ net # <<>> /\ Len(net) \in Nat
  BY <1>1 DEF TypeOK, PutHandler
<1>3. /\ m \in SMode /\ m = net[1] /\ Tail(net) \in Seq(SMode)
      /\ Len(Tail(net)) = Len(net) - 1
      /\ \A q \in 1..Len(Tail(net)) : Tail(net)[q] = net[q + 1]
  BY <1>2, TailFacts
<1>4. /\ net' = Tail(net)
      /\ aState' = [aState EXCEPT ![m.idx] = m.val]
      /\ pin' = knx_led_toggle(pin, m.idx)
      /\ UNCHANGED <<sensorVars, presses, missed>>
  BY DEF PutHandler
<1>5. m.idx \in Idx /\ m.val \in BOOLEAN BY <1>3 DEF SMode
<1>6. TypeOK'
  <2>1. aState' \in [Idx -> BOOLEAN] BY <1>1, <1>4, <1>5 DEF TypeOK
  <2>2. pin' \in [Idx -> {0, 1}]
    <3>1. pin \in [Idx -> {0, 1}] BY <1>1 DEF TypeOK
    <3>2. 1 - pin[m.idx] \in {0, 1} BY <3>1, <1>5
    <3>3. QED BY <3>1, <3>2, <1>4 DEF knx_led_toggle
  <2>3. QED BY <1>1, <1>3, <1>4, <2>1, <2>2 DEF TypeOK, sensorVars
<1>7. AgreeInv'
  <2> SUFFICES ASSUME ~missed', NEW j \in Idx, NotQueued(j)'
               PROVE  Agree(j)'
    BY DEF AgreeInv
  <2>1. NotQueued(j) /\ ~missed /\ sState' = sState
    BY <1>4 DEF NotQueued, sensorVars
  <2>2. Agree(j) BY <2>1, <1>1 DEF AgreeInv
  <2>3. aState'[j] = IF m.idx = j THEN m.val ELSE aState[j]
    BY <1>1, <1>4, <1>5 DEF TypeOK
  \* Positions shift down by one.
  <2>4. ASSUME NEW k \in Nat, NoMsgAfter(j, k + 1)
        PROVE  NoMsgAfter(j, k)'
    <3> SUFFICES ASSUME NEW x \in (k + 1)..Len(net') PROVE net'[x].idx # j
      BY DEF NoMsgAfter
    <3>1. x + 1 \in (k + 2)..Len(net) /\ net'[x] = net[x + 1]
      BY <1>2, <1>3, <1>4
    <3>2. QED BY <3>1, <2>4 DEF NoMsgAfter
  <2>5. CASE NoMsgAfter(j, 0) /\ aState[j] = sState[j]
    <3>1. m.idx # j BY <2>5, <1>2, <1>3 DEF NoMsgAfter
    <3>2. NoMsgAfter(j, 1) BY <2>5 DEF NoMsgAfter
    <3>3. NoMsgAfter(j, 0)' BY <3>2, <2>4
    <3>4. aState'[j] = sState'[j] BY <3>1, <2>3, <2>5, <2>1
    <3>5. QED BY <3>3, <3>4 DEF Agree
  <2>6. CASE \E k \in 1..Len(net) :
               net[k].idx = j /\ net[k].val = sState[j] /\ NoMsgAfter(j, k)
    <3>1. PICK k \in 1..Len(net) :
            net[k].idx = j /\ net[k].val = sState[j] /\ NoMsgAfter(j, k)
      BY <2>6
    <3>2. CASE k = 1
      <4>1. m.idx = j /\ m.val = sState[j] BY <3>1, <3>2, <1>3
      <4>2. aState'[j] = sState'[j] BY <4>1, <2>3, <2>1
      <4>3. NoMsgAfter(j, 0)' BY <3>1, <3>2, <2>4
      <4>4. QED BY <4>2, <4>3 DEF Agree
    <3>3. CASE k > 1
      <4>1. k - 1 \in 1..Len(net') /\ net'[k - 1] = net[k] BY <3>3, <1>2, <1>3, <1>4
      <4>2. NoMsgAfter(j, k - 1)' BY <3>1, <3>3, <2>4
      <4>3. QED BY <4>1, <4>2, <3>1, <2>1 DEF Agree
    <3>4. QED BY <3>2, <3>3
  <2>7. QED BY <2>2, <2>5, <2>6 DEF Agree
<1>8. QED BY <1>6, <1>7 DEF IInv

LEMMA NextIInv == IInv /\ [Next]_vars => IInv'
<1> SUFFICES ASSUME IInv, [Next]_vars PROVE IInv' OBVIOUS
<1>1. CASE \E i \in Idx : ButtonPress(i) BY <1>1, ButtonPressIInv
<1>2. CASE Provision \/ RoleReached \/ CreateEvent \/ MainPoll \/ EventWait
  BY <1>2, QuietStepsIInv
<1>3. CASE BootCheckQueue \/ LoopCheckQueue BY <1>3, CheckQueueIInv
<1>4. CASE LoseMessage BY <1>4, LoseMessageIInv
<1>5. CASE PutHandler BY <1>5, PutHandlerIInv
<1>6. CASE UNCHANGED vars
  <2>1. TypeOK' BY <1>6 DEF IInv, TypeOK, vars, sensorVars
  <2>2. AgreeInv' BY <1>6, AgreeUnchanged DEF IInv, vars, sensorVars
  <2>3. QED BY <2>1, <2>2 DEF IInv
<1>7. QED BY <1>1, <1>2, <1>3, <1>4, <1>5, <1>6 DEF Next, KnxTask

-----------------------------------------------------------------------------
(* Theorems.                                                               *)

\* Every reachable state of the light path is well typed; in particular
\* mKnxAppInputQueue never holds more messages than the pool allows.
THEOREM LightTypeCorrect == Spec => []TypeOK
<1>1. IInv => TypeOK BY DEF IInv
<1>2. QED BY InitIInv, NextIInv, <1>1, PTL DEF Spec

\* Whatever the interleaving of button callbacks, the sensor's KNX task and
\* the actuator's put_handler: once the queue and the network are empty and
\* no press was dropped or datagram lost, the actuator's g_mystate equals
\* the sensor's.
THEOREM Agreement == Spec => []QuiescentAgreement
<1>1. IInv => QuiescentAgreement
  <2> SUFFICES ASSUME IInv, queue = <<>>, net = <<>>, ~missed
               PROVE  aState = sState
    BY DEF QuiescentAgreement
  <2>1. \A i \in Idx : NotQueued(i) BY DEF NotQueued
  <2>2. \A i \in Idx : aState[i] = sState[i]
    BY <2>1 DEF IInv, AgreeInv, Agree
  <2>3. QED BY <2>2 DEF IInv, TypeOK
<1>2. QED BY InitIInv, NextIInv, <1>1, PTL DEF Spec
=============================================================================
