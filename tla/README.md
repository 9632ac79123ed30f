# TLA+ verification of the KNX IoT examples on MCXW71

This directory holds TLA+ models of the KNX IoT light sensor and light
actuator firmware in `src/`, the TLC configurations that check them, and
TLAPS proofs. Every module is written from the C source, except where
noted. The exception is code of the KNX-IoT stack that is not in this
repository: those parts are modelled from `spec.md` and are marked
`spec_modelled` in `PROJECT.json`.

## 1. The system

### Parts

| Part | Source | What it holds / does |
|---|---|---|
| Group Object Table (GOT) | KNX-IoT stack (not in `src/`), spec 4.1 | `g_got[GOT_MAX_ENTRIES]`, each slot `{id, href, cflags, ga, ga_len}`; find by id / empty slot / href, set, delete, register multicasts |
| Operator shell | `src/port/knx_shell.c` | `knx_got add/show/remove`, `knx_ia`, `knx_iid`, `knx_fid`, `knx_factoryreset`, `knx_pm`; `formated_print` (printf redirect) |
| GET handler | `main.c` of both apps, `get_handler` | answers metadata queries; the `ga` query reads a GOT entry |
| PUT handler / LED | `light_actuator/.../main.c`, `put_handler`, `knx_led_toggle` | stores the received boolean in `g_mystate` and toggles the LED |
| Buttons / app queue | `light_sensor/.../main.c`, `Btn_HandleKeys*`, `sendKnxActionMessage`, `knx_check_app_message_queue` | a button toggles `g_mystate`, queues a message and sets `mKnxAppEvent`; the KNX task sends an s-mode message per queued press |
| Boot / KNX task | `knx_main` of both apps | stack init; waits for Thread role >= child; `LSM_S_LOADED`; `oc_main_poll` / `OSA_EventWait` loop |
| Storage | `src/port/storage.c` | `oc_storage_read/write/erase` over the NVM key-value store; key `knx/<store>` |
| Thread connectivity | `src/port/thread_connectivity.c` | OT task `mainloop`, the recursive OT lock, UDP receive/send, multicast subscribe |
| Random, clock, pin mux, configs | `random.c`, `clock.c`, `knx_pin_mux.*`, headers | hardware access, constants |

### How the parts interact

Two FreeRTOS tasks share all of this memory:

- the OpenThread task (priority 5) runs the CLI, and with it every shell
  command, plus the UDP receive callback;
- the KNX task (priority 2) runs `oc_main_poll`, which calls the GET and
  PUT handlers and the sensor's queued button actions.

No lock covers the GOT. The OT lock (`appOtLockOtTask`) is taken only
around OpenThread calls. The MCU has a single core and the OT task has
the higher priority, so a shell command runs to completion relative to
the KNX task. The KNX task, however, can be preempted between any two of
its steps. Button callbacks run in the button/timer context.

### Hard behaviours

- Interleaving of a shell `remove` with the GET handler's read of the same
  entry: a use after free.
- Stale ids left in emptied slots: `delete` keeps the id, and
  `find_empty_slot` skips slots whose id equals the new one.
- A table with no qualifying slot: the `-1` sentinel is not checked.
- Buffer ownership between `knx_got` and `oc_core_set_group_object_table`.
- Multicast subscriptions that only ever grow.
- Event-flag coalescing against one queue message per wakeup in the
  sensor.
- Off-by-one and overflow at the storage key-name bounds.

## 2. What is modelled

### `KnxGot.tla` — the GOT, the shell and the GET `ga` reader

**State**

| Variable | Code |
|---|---|
| `got` | `g_got`, slot `i+1` = C index `i` |
| `heap`, `mem` | state and content of each `ga`/`href` allocation; addresses are never reused, so a stale pointer always shows as a freed one |
| `subscribed` | joined multicast groups |
| `lsmLoaded`, `ia`, `iid` | inputs of `oc_is_device_in_runtime` |
| `oobWrite` | an entry was written at index -1 |
| `result` | the `otError` returned by the last command |
| `rd` | the KNX task's progress through the `ga` branch of `get_handler` |

**Stack operations (spec 4.1).** `find_index_by_id`, `find_empty_slot`,
`find_url_index`, `number_group_entries`, `set_entry`, `delete_entry` and
`register_group_multicasts` are modelled from the spec. The port only ever
subscribes: `oc_connectivity_subscribe_mcast_ipv6` exists, and there is no
unsubscribe. That function calls `otIp6SubscribeMulticastAddress` and drops
its result. OpenThread keeps at most `MAX_EXT_MCAST` external groups and
answers NO_BUFS when the pool is full. So `register_group_multicasts` keeps
the groups already joined and adds as many wanted groups as the pool has
room for. Which ones get in depends on the stack's scan order, so the model
picks any of them.

**Shell actions.** There is one action per exit path of `knx_got`:

- `GotAddBadArgs`, `GotAddNotRuntime`, `GotAddIdInUse`: the rejecting exits
  of add.
- `GotAddStore`: find slot, set, dump, register, free. It has two
  disjuncts: the slot was found, or it was -1.
- `GotShow`, `GotRemoveBadArgs`, `GotRemove`, `GotOther` (no argument or
  unknown subcommand).

`KnxIa`, `KnxIid` and `KnxFactoryReset` model the other shell commands.
`KnxLoaded` is the switch to `LSM_S_LOADED` in `knx_main`.

**GET `ga` reader.** The lookup (`GetFindEntry`) comes first. Then the
loads of `ga` and `ga_len`, which C may do in either order (`GetLoadGa`,
`GetLoadGaLen`). Then the encoding (`GetEncodeGa`). Any shell command may
run between two of these steps.

**Ownership.** The constant `TableTakesOwnership` selects between the two
readings of the contract of `oc_core_set_group_object_table`:

- FALSE: the table copies, which is what the `free` calls in `knx_got`
  assume;
- TRUE: the table takes ownership, which is what spec 4.1 says.

The runs use FALSE. Under TRUE, `OccupiedEntriesLive` fails at the first
`add`: the entry points to buffers that `knx_got` has just freed.

**Properties.**

- `GotIdsUnique`: no two occupied slots carry the same id.
- `GroupsJoinedUnlessPoolFull`: every group address in the table has its
  multicast group joined, unless OpenThread's pool is full. The port drops
  NO_BUFS, so a full pool is the only way a group can be missing.
- `SubscriptionsCoverTable` (stated, not run): every referenced group is
  joined. The code breaks it in four commands: add id 1 with `gaA`,
  remove id 1, add id 1 with `gaB`, add id 2 with `gaC`. Remove never
  unsubscribes, so the stale `gaA` and `gaB` fill the 2-entry pool, and
  `gaC` is in the table but never joined.

**Abstracted away.** Strings become model values. `cflags` are opaque and
left out. The dump and print output is left out.

### `GotAbstract.tla` — what the table promises

An id-keyed map with at most `Capacity` entries:

- `Insert` only when the id is absent, there is room, and at least one
  group address is given;
- `Delete` of a present id;
- `Wipe` (factory reset).

`KnxGot` maps to it by `AbsTable`: each id carried by an occupied slot,
with that slot's href and addresses.

### `MC_KnxGot.tla` — the instance for TLC

- 2 slots;
- ids `{1, 2}`, two hrefs and three group addresses, as model values
  under symmetry;
- `MAX_EXT_MCAST = 2`. This is OpenThread's default pool size, and it is
  small enough that three addresses can fill it;
- argument counts 5..6, i.e. 0 or 1 group address;
- 3 heap addresses.

This is enough to fill the table, to leave a stale id in an emptied slot
and hit it again, to run out of slots, to add a malformed entry, and to
interleave every shell command with every reader step. Three allocations
cover two stored entries plus a replacement. Larger argument counts only
lengthen the `ga` lists, which no property distinguishes beyond empty or
non-empty.

### `KnxLight.tla` — a button press from the sensor to the actuator's LED

**State**

| Variable | Code |
|---|---|
| `sState`, `aState` | `g_mystate` of the sensor and of the actuator |
| `queue` | `mKnxAppInputQueue`, as the button indices of its messages |
| `knxPc` | where the sensor's `knx_main` is: `boot` (waiting for the Thread role, polling the queue every 100 ms), `create` (loaded, event not yet created), `check`, `poll`, `wait` (the main loop) |
| `evCreated`, `evFlag` | `mKnxAppEvent` created; its flag `gAppEvtFromKnx` set (auto-clear) |
| `timerPending` | what the last `oc_main_poll` returned |
| `net` | s-mode writes in flight |
| `pin` | the actuator's LED output level (1: off) |
| `sLoaded`, `provisioned` | the inputs of `oc_is_device_in_runtime` on the sensor |
| `missed` | a press changed `sState` and no message reached the actuator |
| `presses` | the number of presses, for the bound |

**Actions**

- `ButtonPress` is `sendKnxActionMessage` in full. `MSG_Alloc` may fail,
  and when it does nothing changes. Otherwise it toggles, queues, and
  sets the event if loaded; a set on an event not yet created is lost.
- `HandleHead` is `knx_action_button_press`: in runtime it sends the
  current `g_mystate`, one datagram per scope the actuator hears;
  otherwise the message is dropped.
- The steps of `knx_main`: `BootCheckQueue`, `RoleReached`,
  `CreateEvent`, `LoopCheckQueue`, `MainPoll`, `EventWait`.
- `LoseMessage` models UDP loss in `oc_send_buffer` and on the air.
- `PutHandler` stores the value and calls `knx_led_toggle`.

**Fairness** (`FairSpec`): weak fairness of the sensor's KNX task and of
delivery. The KNX task is the only application task besides the
OpenThread task, and the OpenThread task blocks between events, so a
ready KNX task runs. `EventWait` is enabled only when the flag is set or
a timer is pending. That is exactly the condition under which
`OSA_EventWait` returns.

**Abstracted.** `oc_main_poll` becomes its result: a timer pending or
not. A message carries only the index and the value.

**Bounds.**

- Two buttons, and the actuator hears one scope.
- A pool of 2 messages and 4 presses. This is enough to fill the pool, to
  coalesce two wakeups, to press between loaded and event creation, and
  to repeat a value.

### `KnxStorage.tla` — the persistent store port and `knx_fid`

`storage.c` maps every store name of the stack to the settings key
`knx/<store>`. The settings subsystem (NVS) is not in the repository. It
is an environment that saves or deletes a key as a whole, or fails and
says so.

| State | Code |
|---|---|
| `nvs` | the settings entries, store -> value or `NoKey` |
| `overflow` | some `sprintf` of a key name ran past its `key_name` buffer |
| `lastAck` | history: the value of the last write that returned non-zero, or `Unknown` after a failed write, an empty write or an erase |
| `rd` | the last `oc_storage_read`: store, buffer, size, the history at that time, return value and bytes copied |
| `fid`, `fidSet`, `boots` | the device's fabric id in RAM, what `knx_fid` last reported set, reboots |

Actions:

- `StorageRead`: `oc_storage_read` with its assert (`ReadKeyAsserted`).
  `LoadedRequests` gives every request `knxValueCallback` can leave:
  size-only queries, copies, empty keys and read errors. Any of them may
  come with an error from the load. `oc_storage_read_result` is the test
  at `storage.c:123`, which never looks at `KEY_BUFFER_TOO_SMAL`.
- `StorageWrite` and `StorageErase`: `oc_storage_write` and
  `oc_storage_erase`, with `settings_save_one` or `settings_delete`
  succeeding or failing.
- `KnxFid`: `knx_fid <fid>` sets the id in RAM and writes it without
  looking at the result. Only this branch of `knx_fid` changes state.
- `Reboot`: RAM is lost. The stack reads the fabric id back with
  `oc_storage_read` and keeps 0 when the read returns 0. That boot-time
  load is stack code and is `spec_modelled`.

Properties:

- `ReadSeesAckedWrite`: a successful read of a store returns the
  acknowledged value, and its size.
- `FidSurvivesReboot`: a fabric id `knx_fid` reported as set survives a
  reboot.

**Bounds.**

- A stack store and the fid store.
- Values of up to 2 symbols over 2 byte symbols.
- Read sizes {0, 2} in the passing run. These cover the size query and a
  buffer that fits. The `trunc` run uses {1, 2}, which adds a buffer too
  small.
- Two reboots.
- `MC_KnxStorage.tla` makes the stores model values, `st_a` and `st_fid`,
  and gives their name lengths.

Store-name lengths are constants. In the passing run they are 27 and 11,
so the keys fit. 28 is the first length that overruns `key_name[32]` in
the first write: the read assert lets it through, and so does a
29-character name, which overruns the read's `key_name[33]`. No property
checks this. The overrun depends only on the stack's store names, which
are constants outside the repository, so no behaviour of this code
changes it. The model keeps the `overflow` flag so that the writes and
erases stay faithful.

### `KnxEventLoop.tla` — the actuator's KNX task and UDP receive

This module covers two tasks and the clock:

- The OT task's `HandleUdpReceive` allocates an oc message. When none of
  the `MSG_BUFS` buffers is free, the datagram is dropped. Otherwise
  `oc_network_event` queues it (`inbox`) and calls `signal_event_loop`.
  `OSA_EventSet` on an event not yet created does nothing.
- `knx_main` has these steps:
  - `RoleReached`: exits when there is no instance or `oc_main_init`
    failed;
  - `CreateEvent`: the auto-clearing event;
  - `MainPoll`: the `oc_main_poll` loop;
  - `StartTimedWait`: reads the clock for the timeout;
  - `EventWait`: `OSA_EventWait` returns on the flag or on the timeout.
- `Tick` is `oc_clock_time`.

The timeout is `next_event - oc_clock_time()`, a `uint64_t` converted to
the `uint32_t` parameter. It is modelled as `(next - now) % UINT32_RANGE`,
and `UINT32_RANGE - 1` is `osaWaitForever_c`. `UINT32_RANGE` stands for
2^32, which TLC's integers cannot hold. Any value above twice the clock
bound gives the same outcomes: a wrapped wait never ends within the
bound, just as 49.7 days never end within a test. `RangeAssumption`
states exactly this: `UINT32_RANGE` is a natural above
`2 * (MAX_TIME + TIMER_DELAY)`.

`oc_main_poll` is stack code and is `spec_modelled` (`TimerAfterPoll`).
It handles the queued datagrams and fires a due timer. A handled
datagram arms one timer `TIMER_DELAY` ms later, standing for a CoAP
retransmission or an observe timer. The call returns the timer's expiry,
or 0.

**No lost wakeup.** `WakeupPending` is the safety property behind the
liveness one. While the task reads the clock or waits in `OSA_EventWait`
with a datagram queued, the event flag is set, so the wait returns at
once. Dropping `signal_event_loop` from `HandleUdpReceive` breaks it.

**Fairness.** `WF_vars(KnxTask)`. The KNX task runs whenever it is
ready: the higher-priority OT task blocks on its notification between
bursts of work. The OT task and the clock get no fairness, since
datagrams need not arrive.

**Deadlock.** Deadlock checking is off (`CHECK_DEADLOCK FALSE`) in this
module's runs. The firmware really stops in two cases:
- it waits for ever with no timer pending and no datagram coming;
- the task has returned after a failed `oc_main_init`.

**Bounds.**

- A clock of 6 ms and a timer delay of 2 ms.
- 3 datagrams and 1 message buffer, so the drop branch happens.
- `UINT32_RANGE = 100`.
- `MC_KnxEventLoop.tla` extends the module for TLC, which then evaluates
  its assumptions.

## 3. Runs

| Run | Expect | Property | What it shows |
|---|---|---|---|
| `knx_got_core` | pass | `TypeOK`, `GotIdsUnique`, `GroupsJoinedUnlessPoolFull` | With the reader interleaved, ids stay unique across add/remove/reset with stale ids. Every referenced group is joined unless the 2-entry multicast pool is full. |
| `knx_got_refine` | pass | `GotRefinesAbstract` | The shell plus the slot scans implement `GotAbstract` (copy semantics). Checked on `ShellSpec`, because the reader changes only `rd`. |
| `knx_got_full` | violation | `NoWriteOutsideTable` | add id 2 with no address, then add id 2 again: the scan skips the stale slot, finds none, and the entry is written at -1 with success. The other slot must also be unavailable, here holding id 1. |
| `knx_get_race` | violation | `GetNeverReadsFreedGa` | The GET handler finds the entry and loads `ga` and `ga_len`; a shell `remove` preempts it; the encoding then reads a freed array. |
| `knx_light_core` | pass | `TypeOK`, `QuiescentAgreement` | Once the queue and the network are empty and nothing was dropped or lost, the actuator's `g_mystate` equals the sensor's, whatever the interleaving of presses with the KNX task. |
| `knx_light_led` | violation | `LedShowsState` | Two quick presses make the first message carry FALSE; `put_handler` stores FALSE and toggles the LED on. |
| `knx_storage_core` | pass | `TypeOK`, `ReadSeesAckedWrite` | Writes, erases and reads interleave with settings failures, `knx_fid` and reboots. A read that succeeds into a buffer that fits returns the last acknowledged value. |
| `knx_storage_trunc` | violation | `ReadSeesAckedWrite` | Reading a 2-symbol value into a 1-symbol buffer returns 1 as success: the `KEY_BUFFER_TOO_SMAL` flag is set but never tested (storage.c:123). |
| `knx_storage_fid` | violation | `FidSurvivesReboot` | `settings_save_one` fails and `knx_fid` still succeeds. After a reboot the fabric id is 0. |
| `knx_event_loop` | pass | `TypeOK`, `WakeupPending`, `MessageEventuallyPolled` (under `Spec` with `WF(KnxTask)`) | A queued datagram is handled by `oc_main_poll` unless the task exited, and no wait sleeps over one. This holds when it arrives before the event exists, between poll and wait, or while the buffer is full. |
| `knx_event_wrap` | violation | `WaitEndsByNextTimer` | `oc_main_poll` at t=0 arms a timer at 2. The clock reaches 3 before `oc_clock_time()` is read, and `2 - 3` wraps to `osaWaitForever_c`: the timer is never served. |
| `knx_light_stuck` | violation | `PressEventuallyHandled` (under `FairSpec`) | Two presses (or one press before `OSA_EventCreate`) give a single wakeup; the loop handles one message, `oc_main_poll` reports no timer, and the other message waits for ever. |

Each finding is recorded in `PROJECT.json` with its line in the source.
Each property of a passing run has a mutant: a plausible bug in the
mapped code, which TLC must catch.

Fairness is assumed only in the liveness runs, `knx_light_stuck` and `knx_event_loop`.
Every other property is a safety property.

## 4. Proofs

### `KnxGotProofs.tla`

There are two theorems, and both hold for every value of the constants
allowed by the `ASSUME`s of `KnxGot`. Those assumptions are:
`GOT_MAX_ENTRIES >= 1`, `Ids` naturals, argument counts >= 5, heap
addresses non-zero, and `NoHref` not an href.

- `TypeCorrect`: `Spec => []TypeOK`.
- `IdsUnique`: `Spec => []GotIdsUnique`.

**The inductive invariant.** Both rest on the inductive invariant
`IInv == TypeOK /\ GaStored /\ GotIdsUnique`.

`TypeOK` alone is not inductive. An add joins the groups of every
occupied slot, read through that slot's pointer. So the step needs
`GaStored`: an occupied slot points to an allocation that was handed out
and holds exactly `ga_len` addresses. The "handed out" part matters
because it shows that the fresh allocation of the next add is never one
an occupied slot already uses.

**The steps for uniqueness.** `find_index_by_id(id) = NotFound` means no
occupied slot has the id (lemma `FirstOfSlot`), and the slot written was
unoccupied.

**Lemmas.**

- `MinExists`: least element of a set of naturals, from
  `WellFoundedInduction`.
- `FirstOfSlot`: what a slot scan returns.
- `ReferencedGAsType`.
- `RegisterJoinsWanted`: registration only joins groups already joined or
  in the table.
- One lemma per kind of step.

### `KnxLightProofs.tla`

There are two theorems. Both hold for every set of buttons, every pool size
and press bound, and either set of scopes allowed by the `ASSUME`s of
`KnxLight`:

- `LightTypeCorrect`: `Spec => []TypeOK`. Among other things, the app queue
  never holds more messages than the pool.
- `Agreement`: `Spec => []QuiescentAgreement`.

**The inductive invariant.** `QuiescentAgreement` is not inductive. It says
nothing while a message is queued or in flight, so the step that delivers
the last datagram cannot be shown from it. The strengthening is
`IInv == TypeOK /\ AgreeInv`. Unless `missed` is set, `AgreeInv` says this
about every button with no message in the sensor's queue:

- the last s-mode write for that button still on the network carries the
  sensor's `g_mystate`;
- or, when no such write is in flight, the actuator already holds that
  value.

TLC checked `IInv` as an invariant first, with one scope and with two.

**The argument, step by step.**

- A press queues the button, which makes the constraint on it vacuous.
- Handling the head of the queue appends `Cardinality(Scopes)` writes of
  the current value. The last of them is the new witness (lemma
  `CardScopes`: at least one write is sent).
- Delivery of the oldest write either moves the value into the actuator
  (witness at position 1) or shifts the witness down by one.
- A drop or a loss sets `missed`.

**Lemmas.** Facts about `Tail`, `\o`, `Append` and removal at a position,
stated once and cited where needed. One lemma per kind of step.

**Caution on primes.** `NoMsgAfter(i, k)'` primes `k` as well when `k` is
an expression over variables. The proof states such facts with explicit
primed `net'` instead.

### `KnxStorageProofs.tla`

`AckedWritesRead` is `ASSUME SizesFit PROVE Spec => []ReadSeesAckedWrite`.
It holds for every set of stores, every store-name length, every value
bound and every reboot bound.

`SizesFit` says that every read size is 0 (a size query) or at least
`MAX_LEN`. This is the condition `knx_storage_trunc` shows to be needed:
without it, a read returns a truncated value as a success. The passing
run's sizes {0, 2} with `MAX_LEN = 2` satisfy it.

`ReadSeesAckedWrite` is not inductive. A read copies what `nvs` holds,
while the property compares the read with the history `lastAck`. The
invariant `IInv` adds `AckedInNvs`: wherever the history is known, the
value is non-empty and is the one the settings hold. Each action
preserves `IInv`:

- A write or erase that may fail makes the history `Unknown` or sets it
  together with `nvs` (`WriteIInv`, `EraseIInv`).
- A reboot clears `rd`.
- A read (`ReadIInv`) goes through `ReadOfStored`:
  - a size query returns `Len(v)`;
  - a copy into a buffer that fits gets `read_cb`'s count `Len(v)`, and
    `SubSeqFull` makes the copy the whole value;
  - an error count of -1 sets `KEY_READ_FAILED`, which makes the result 0.
- `ValueFacts` places stored values in `Seq(Bytes)` with length at most
  `MAX_LEN`.

`StorageTypeCorrect` (`Spec => []TypeOK`) is proved directly: `TypeOK` is
inductive. The reboot step needs `LoadedType`: what `knx_value_cb` loads
into the fabric-id buffer is a byte or nothing.

### `KnxEventLoopProofs.tla`

There are two theorems. Both hold for every clock bound, datagram bound,
buffer count and timer delay, and every range above twice the clock
bound:

- `EventLoopTypeCorrect`: `Spec => []TypeOK`. In particular, the timeout
  handed to `OSA_EventWait` is always in `0..UINT32_RANGE-1`
  (`WaitTimeoutType`).
- `NoLostWakeup`: `Spec => []WakeupPending`.

**The inductive invariant.** `WakeupPending` is not inductive alone. A
datagram that arrives while the task waits sets the flag only if
`OSA_EventCreate` has already run. The invariant is
`IInv == TypeOK /\ EventReady /\ WakeupPending`, where `EventReady` says
that the event exists whenever the task is at its poll, its clock read or
its wait. TLC checked `IInv` as an invariant of the `knx_event_loop`
instance first.

**The argument, step by step.**

- The OT task's steps set the flag of an existing event (`OtStepsIInv`).
- `CreateEvent` clears the flag, but it comes before the first poll.
- `MainPoll` empties the inbox.
- `EventWait` clears the flag only as it leaves the wait (`KnxTaskIInv`).

### `KnxGotRefinement.tla`

This module extends `KnxGotProofs` and reuses its `IInv`. It proves
three theorems for every value of the constants:

- `GroupsJoined`: `Spec => []GroupsJoinedUnlessPoolFull`.
- `ShellImplementsAbstract`: `ShellSpec => GotRefinesAbstract`. This is
  the property of `knx_got_refine`.
- `GotImplementsAbstract`: `Spec => GotRefinesAbstract`. This is the same
  result with the GET handler's steps interleaved.

**Subscriptions.** `IInv /\ GroupsJoinedUnlessPoolFull` is inductive.

- An add joins every wanted group, or fills the pool (`RegisterCovers`).
  When everything wanted fits, the joined set has the size of the wanted
  set, so `FS_Subset` makes it equal. Otherwise its size is the pool
  size. `GAsAssumption` (a finite set of addresses) makes these counts
  meaningful.
- A remove only empties a slot (`ReferencedShrinks`).
- A reset empties the table.

**The refinement.** The proof follows the usual steps:

- `InitRefines`: `Init => Abs!Init`.
- `NextRefines`: `IInv /\ [Next]_vars => [Abs!Next]_AbsTable`.
- The temporal step combines the two with `[]IInv`.

`AbsTable` is rewritten as `AbsAt(got, mem, i)` over `IdSlots(got, i)`,
the occupied slots that carry id `i` (lemma `AbsTableAt`). The lemmas
about this map are:

- `AbsAtAbsent`: no such slot gives the absent entry.
- `AbsAtSlot`: exactly one slot gives its entry.
- `AbsAtFrame`: a step that keeps those slots and their addresses keeps
  the entry.
- `IdSlotsUnique`: by `GotIdsUnique`, there is at most one slot.
- `StoredNotAbsent`: by `GaStored`, a stored id never reads as absent.

Each kind of step then maps as follows:

- **Add with a free slot and at least one address** is an `Insert`
  (`StoreRefines`).
  - The id was absent, since the scan found no slot for it.
  - The map is below capacity (`StoredBelowCapacity`). Each stored id has
    its own occupied slot, and the free slot is not one of them, so
    `FS_Injection` and `FS_Subset` bound the count.
  - The fresh buffer is no other entry's, because `GaStored` says an
    occupied slot's buffer was handed out already.
- **Add with no address** writes a slot that stays unoccupied, so the map
  does not change.
- **Add into a full table** writes past `g_got` and leaves the map alone.
  This is the case `knx_got_full` shows.
- **Remove** is a `Delete` (`RemoveRefines`).
- **Factory reset** is a `Wipe`.
- **Every other step** changes neither `got` nor `mem`.

## 5. What is only model-checked, and what is not modelled

- Every invariant of a passing run is proved, and so is the refinement.
- `MessageEventuallyPolled` is checked by TLC only, because liveness
  under fairness and ENABLED are out of TLAPS's reach. Its safety half,
  `WakeupPending`, is proved.
- The violation runs' properties are refuted by TLC's counterexamples,
  so nothing about them is proved.
- Induction over recursive data is also out of reach.
- Storage values are sequences of byte symbols. The 8 bytes of the fabric
  id are one symbol. The `atol` conversion in `knx_fid`, which returns a
  32-bit `long` on this target, is not modelled; it is listed as a hazard.
- The actuator's s-mode reception through its own group object table is
  assumed provisioned. Message reordering on the network is not modelled.
- Thread connectivity: `HandleUdpReceive` is modelled in `KnxEventLoop`.
  The OT task loop and the OT lock only serialise calls into OpenThread
  and are not modelled.
- The contents of a datagram and the CoAP processing inside
  `oc_main_poll` are abstracted to one timer.
- `knx_pm`, random, clock, pin mux: hardware.
- Properties stated and not run, because a short sequence of shell
  commands violates them:
  - `SubscriptionsMatchTable` and `SubscriptionsCoverTable`: `remove`
    never unsubscribes. Stale groups then fill OpenThread's pool, and a
    later group is never joined.
  - `NoHalfEntry`: the `&&` at knx_shell.c:45.
  - `OccupiedEntriesLive` under the ownership reading.
  Their hazards are in `PROJECT.json`.
- Fewer than five arguments to `knx_got add` make the handler read
  `aArgs[4]` past the end of the argument vector. This is undefined
  behaviour and is listed as a hazard, not modelled.

## 6. Plan

1. Done: `KnxGot`, `GotAbstract`, `MC_KnxGot`, the two passing runs and
   five violation runs, and the type and uniqueness proofs.
2. Done: `KnxLight` (sensor buttons, queue and event loop; network; actuator
   PUT and LED) with one passing run and two violation runs.
3. Done: `KnxStorage` (storage port, `knx_fid`, reboot) and `KnxEventLoop`
   (the actuator's KNX task, UDP receive, the clock). `ReadSeesAckedWrite` is
   proved for every instance whose buffers fit (`KnxStorageProofs`). Next:
   an abstract event-loop specification (every handled datagram is polled)
   refined by `KnxEventLoop`, and the sensor's loop in the same terms.
4. Done: `QuiescentAgreement` and the KnxLight type invariant; storage
   type correctness; the event loop's type invariant
   and `NoLostWakeup`; `GroupsJoinedUnlessPoolFull` and the refinement of
   `GotAbstract`, step by step. Next: an abstract event-loop
   specification refined by `KnxEventLoop`, proved the same way.
