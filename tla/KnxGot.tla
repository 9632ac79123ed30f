------------------------------- MODULE KnxGot -------------------------------
(***************************************************************************)
(* The KNX Group Object Table (GOT) of one device and the operator shell   *)
(* command "knx_got" that edits it (src/port/knx_shell.c, knx_got).        *)
(*                                                                         *)
(* The table itself (g_got and its find/set/delete/register functions)     *)
(* belongs to the KNX-IoT stack, which is not part of this repository:     *)
(* those operators are modelled from spec.md, section 4.1.  The shell      *)
(* handler, which runs to completion in the OpenThread task, is modelled   *)
(* from the source: one action per exit path of the handler.              *)
(*                                                                         *)
(* Data is abstracted: an href is a member of Uris, a group address a      *)
(* member of GAs; cflags are opaque to the table and left out.  The href   *)
(* string and the ga array of an entry are one heap allocation "ga" whose  *)
(* state (unused, live, freed) is tracked in heap and whose content is in  *)
(* mem; an allocation is never handed out twice, so a read through a       *)
(* stale pointer always shows as a read of a freed buffer.                 *)
(***************************************************************************)
EXTENDS Integers, Sequences, FiniteSets

CONSTANTS
  GOT_MAX_ENTRIES,     \* number of slots of g_got
  Ids,                 \* ids a command may name: atoi(aArgs[1])
  Uris,                \* uri paths a command may name: aArgs[2]
  GAs,                 \* group addresses a command may list
  ArgCounts,           \* values of aArgsLength for "knx_got add"
  Bufs,                \* heap addresses the allocator may hand out
  NoHref,              \* the href of a slot that holds no string
  MAX_EXT_MCAST,       \* OpenThread's pool of external multicast addresses
  TableTakesOwnership  \* spec 4.1: set_entry keeps the caller's buffers

ASSUME SlotsAssumption == GOT_MAX_ENTRIES \in Nat \ {0}
ASSUME IdsAssumption == Ids \subseteq Nat
ASSUME HrefAssumption == NoHref \notin Uris
\* Below 5 arguments the handler reads aArgs[4] past the end of the
\* argument vector; those counts are outside the model (see README).
ASSUME ArgCountsAssumption == ArgCounts \subseteq Nat \ (0..4)
ASSUME BufsAssumption == Bufs \subseteq Nat \ {0}
ASSUME OwnershipAssumption == TableTakesOwnership \in BOOLEAN
ASSUME McastAssumption == MAX_EXT_MCAST \in Nat \ {0}
\* A group address is a number of bounded width.
ASSUME GAsAssumption == IsFiniteSet(GAs)

Slot == 1..GOT_MAX_ENTRIES    \* C index i of g_got is slot i + 1
NotFound == 0                 \* the -1 the find functions return
NoId == -1                    \* id of a slot never written
NoBuf == 0                    \* the NULL pointer

Entry == [id : Ids \cup {NoId}, href : Uris \cup {NoHref},
          ga_len : Nat, ga : Bufs \cup {NoBuf}]
EmptyEntry == [id |-> NoId, href |-> NoHref, ga_len |-> 0, ga |-> NoBuf]
BufState == {"unused", "live", "freed"}
Results == {"ok", "invalid_args", "invalid_state"}

VARIABLES
  got,          \* g_got: the table, Slot -> Entry
  heap,         \* state of every heap allocation
  mem,          \* the group addresses an allocation holds
  subscribed,   \* multicast groups joined on the Thread interface
  lsmLoaded,    \* the load state machine is in LSM_S_LOADED
  ia,           \* device individual address (0: not set)
  iid,          \* installation id (0: not set)
  oobWrite,     \* an entry was written at index -1, outside g_got
  result,       \* otError returned by the last shell command
  rd            \* the KNX task's GET handler answering a "ga" query

shellVars == <<got, heap, mem, subscribed, lsmLoaded, ia, iid, oobWrite, result>>
vars == <<shellVars, rd>>

-----------------------------------------------------------------------------
(* The table operations of the stack (spec.md 4.1).                        *)

\* The first slot of a linear scan that satisfies the scan's test.
FirstOf(S) == IF S = {} THEN NotFound ELSE CHOOSE s \in S : \A t \in S : s <= t

\* A slot with no group address counts as empty and may be reused.
Occupied(s) == got[s].ga_len > 0

find_index_by_id(id) == FirstOf({s \in Slot : Occupied(s) /\ got[s].id = id})

find_empty_slot(id) == FirstOf({s \in Slot : ~Occupied(s) /\ got[s].id # id})

find_url_index(uri) == FirstOf({s \in Slot : got[s].href = uri})

number_group_entries(index) ==
  IF index = NotFound THEN 0 ELSE got[index].ga_len

\* The group addresses slot s lists, read through its ga pointer.
GroupAddresses(t, m, s) == {m[t[s].ga][k] : k \in 1..t[s].ga_len}

\* Every group address an occupied slot of table t refers to.
ReferencedGAs(t, m) ==
  UNION {GroupAddresses(t, m, s) : s \in {s \in Slot : t[s].ga_len > 0}}

\* The multicast groups joined after oc_register_group_multicasts.  It
\* calls oc_connectivity_subscribe_mcast_ipv6 for every address the table
\* refers to (the port has no unsubscribe, so nothing is ever left), and
\* that calls otIp6SubscribeMulticastAddress and drops its result: a
\* group already joined stays, a new one is joined while OpenThread's pool
\* of MAX_EXT_MCAST external addresses has room and is otherwise lost to
\* NO_BUFS.  Which new groups get in depends on the stack's scan order, so
\* any of them may.
register_group_multicasts(t, m) ==
  LET wanted == subscribed \cup ReferencedGAs(t, m)
      joined == IF Cardinality(wanted) <= MAX_EXT_MCAST
                  THEN Cardinality(wanted) ELSE MAX_EXT_MCAST
  IN  {S \in SUBSET wanted : subscribed \subseteq S /\ Cardinality(S) = joined}

\* oc_core_set_group_object_table: the slot gets the entry's id, href and
\* ga_len and a fresh allocation b with the group addresses; the pointer
\* the slot held before is overwritten.  With TableTakesOwnership b is the caller's
\* buffer, which knx_got frees once the handler is done with it.
set_entry(index, id, uri, gas, b) ==
  /\ got' = [got EXCEPT ![index] =
               [id |-> id, href |-> uri, ga_len |-> Len(gas), ga |-> b]]
  /\ mem' = [mem EXCEPT ![b] = gas]

\* oc_delete_group_object_table_entry: release the allocation and mark the
\* slot empty; the id is left as it was.
delete_entry(index) ==
  /\ got' = [got EXCEPT ![index] =
               [@ EXCEPT !.href = NoHref, !.ga_len = 0, !.ga = NoBuf]]
  /\ heap' = IF got[index].ga = NoBuf THEN heap
             ELSE [heap EXCEPT ![got[index].ga] = "freed"]

\* oc_is_device_in_runtime: loaded, with individual address and
\* installation id set.
Runtime == lsmLoaded /\ ia # 0 /\ iid # 0

-----------------------------------------------------------------------------
(* The "knx_got" shell handler (knx_shell.c 27-149), one action per exit.  *)

\* The argument check of line 45: it rejects only when there are fewer than
\* six arguments AND aArgs[4] is not "ga".
AddArgsAccepted(argc, gaToken) == ~(argc < 6 /\ ~gaToken)

Reject(code) ==
  /\ result' = code
  /\ UNCHANGED <<got, heap, mem, subscribed, lsmLoaded, ia, iid, oobWrite, rd>>

GotAddBadArgs(argc, gaToken) ==
  /\ ~AddArgsAccepted(argc, gaToken)
  /\ Reject("invalid_args")

GotAddNotRuntime(argc, gaToken) ==
  /\ AddArgsAccepted(argc, gaToken)
  /\ ~Runtime
  /\ Reject("invalid_state")

GotAddIdInUse(argc, gaToken, id) ==
  /\ AddArgsAccepted(argc, gaToken)
  /\ Runtime
  /\ find_index_by_id(id) # NotFound
  /\ Reject("invalid_args")

\* Lines 69-108: find a slot, write the entry, dump it, register the
\* multicast groups, free the command's buffers.  The ga_len = aArgsLength-5
\* group addresses are gas.  When the scan finds no slot the handler does
\* not check for -1: number_group_entries(-1) is 0 and the entry is written
\* at index -1.
\* Mutant: the "ID already in use" check of lines 62-67 left out.
GotAddStoreNoIdCheck(argc, gaToken, id, uri, gas) ==
  LET index == find_empty_slot(id) IN
  /\ AddArgsAccepted(argc, gaToken)
  /\ Runtime
  /\ index # NotFound
  /\ result' = "ok"
  /\ UNCHANGED <<lsmLoaded, ia, iid, rd, oobWrite>>
  /\ \E b \in Bufs :
       /\ heap[b] = "unused"
       /\ set_entry(index, id, uri, gas, b)
       /\ subscribed' \in register_group_multicasts(got', mem')
       /\ heap' = [heap EXCEPT ![b] = "live"]

\* Mutant: oc_register_group_multicasts called before the entry is set.
GotAddStoreRegisterFirst(argc, gaToken, id, uri, gas) ==
  LET index == find_empty_slot(id) IN
  /\ AddArgsAccepted(argc, gaToken)
  /\ Runtime
  /\ find_index_by_id(id) = NotFound
  /\ index # NotFound
  /\ result' = "ok"
  /\ UNCHANGED <<lsmLoaded, ia, iid, rd, oobWrite>>
  /\ \E b \in Bufs :
       /\ heap[b] = "unused"
       /\ set_entry(index, id, uri, gas, b)
       /\ subscribed' \in register_group_multicasts(got, mem)
       /\ heap' = [heap EXCEPT ![b] = "live"]

GotAddStore(argc, gaToken, id, uri, gas) ==
  LET index == find_empty_slot(id) IN
  /\ AddArgsAccepted(argc, gaToken)
  /\ Runtime
  /\ find_index_by_id(id) = NotFound
  /\ number_group_entries(index) = 0
  /\ result' = "ok"
  /\ UNCHANGED <<lsmLoaded, ia, iid, rd>>
  /\ \/ /\ index = NotFound
        /\ oobWrite' = TRUE
        /\ subscribed' \in register_group_multicasts(got, mem)
        /\ UNCHANGED <<got, heap, mem>>
     \/ /\ index # NotFound
        /\ \E b \in Bufs :
             /\ heap[b] = "unused"
             /\ set_entry(index, id, uri, gas, b)
             /\ subscribed' \in register_group_multicasts(got', mem')
             /\ heap' = [heap EXCEPT ![b] =
                           IF TableTakesOwnership THEN "freed" ELSE "live"]
        /\ UNCHANGED oobWrite

\* "knx_got" with no argument or an unknown subcommand (lines 31-35, 142-145).
GotOther == Reject("invalid_args")

\* "knx_got show" (lines 110-117) prints every slot and changes nothing.
GotShow == Reject("ok")

\* "knx_got remove" without an id (lines 122-127).
GotRemoveBadArgs == Reject("invalid_args")

\* "knx_got remove id" (lines 129-140): no multicast resynchronisation.
GotRemove(id) ==
  LET index == find_index_by_id(id) IN
  \/ /\ index # NotFound
     /\ delete_entry(index)
     /\ result' = "ok"
     /\ UNCHANGED <<mem, subscribed, lsmLoaded, ia, iid, oobWrite, rd>>
  \/ /\ index = NotFound
     /\ Reject("invalid_args")

\* "knx_ia addr" and "knx_iid iid" (knx_shell.c 160-163, 181-184).
KnxIa(v) ==
  /\ ia' = v
  /\ result' = "ok"
  /\ UNCHANGED <<got, heap, mem, subscribed, lsmLoaded, iid, oobWrite, rd>>

KnxIid(v) ==
  /\ iid' = v
  /\ result' = "ok"
  /\ UNCHANGED <<got, heap, mem, subscribed, lsmLoaded, ia, oobWrite, rd>>

\* knx_main, once attached to the Thread network: oc_a_lsm_set_state to
\* LSM_S_LOADED (light_actuator main.c 705, light_sensor main.c 777).
KnxLoaded ==
  /\ ~lsmLoaded
  /\ lsmLoaded' = TRUE
  /\ UNCHANGED <<got, heap, mem, subscribed, ia, iid, oobWrite, result, rd>>

-----------------------------------------------------------------------------
(* The "ga" branch of get_handler (light_actuator main.c 249-260, the same *)
(* in light_sensor main.c 286-297), run by the KNX task inside             *)
(* oc_main_poll.  The KNX task (priority 2) takes no lock the shell takes, *)
(* and the OpenThread task (priority 5) that runs the shell preempts it    *)
(* whenever a command line arrives, so a whole shell command may fall      *)
(* between any two of its steps.  oc_rep_set_int_array loads ga and ga_len *)
(* from the entry, in an order C leaves open, then reads the array.        *)

RdIdle == [pc |-> "idle", slot |-> NotFound, ptr |-> NoBuf, len |-> 0,
           ptrRead |-> FALSE, lenRead |-> FALSE]
\* Between the lookup and the encoding the handler holds the index of a slot.
RdState == {RdIdle} \cup
           [pc : {"entry"}, slot : Slot, ptr : Bufs \cup {NoBuf}, len : Nat,
            ptrRead : BOOLEAN, lenRead : BOOLEAN]

\* A GET with query m=ga on resource uri: oc_core_find_group_object_table_url
\* and oc_core_get_group_object_table_entry.  When no slot has that href the
\* reply has no ga field and nothing of the model changes.
\* Mutant: the "index > -1" test of line 252 left out.
GetFindEntryNoIndexCheck(uri) ==
  /\ lsmLoaded
  /\ rd.pc = "idle"
  /\ rd' = [RdIdle EXCEPT !.pc = "entry", !.slot = find_url_index(uri)]
  /\ UNCHANGED shellVars

GetFindEntry(uri) ==
  /\ lsmLoaded
  /\ rd.pc = "idle"
  /\ find_url_index(uri) # NotFound
  /\ rd' = [RdIdle EXCEPT !.pc = "entry", !.slot = find_url_index(uri)]
  /\ UNCHANGED shellVars

GetLoadGa ==
  /\ rd.pc = "entry" /\ ~rd.ptrRead
  /\ rd' = [rd EXCEPT !.ptr = got[rd.slot].ga, !.ptrRead = TRUE]
  /\ UNCHANGED shellVars

GetLoadGaLen ==
  /\ rd.pc = "entry" /\ ~rd.lenRead
  /\ rd' = [rd EXCEPT !.len = got[rd.slot].ga_len, !.lenRead = TRUE]
  /\ UNCHANGED shellVars

\* Encode ga[0 .. ga_len - 1] into the CBOR reply.
GetEncodeGa ==
  /\ rd.pc = "entry" /\ rd.ptrRead /\ rd.lenRead
  /\ rd' = RdIdle
  /\ UNCHANGED shellVars

\* The array read by GetEncodeGa lies inside a live allocation.
GaReadSafe(r) ==
  r.len > 0 => /\ r.ptr \in Bufs
               /\ heap[r.ptr] = "live"
               /\ r.len <= Len(mem[r.ptr])

Init ==
  /\ got = [s \in Slot |-> EmptyEntry]
  /\ heap = [b \in Bufs |-> "unused"]
  /\ mem = [b \in Bufs |-> <<>>]
  /\ subscribed = {}
  /\ lsmLoaded = FALSE
  /\ ia = 0
  /\ iid = 0
  /\ oobWrite = FALSE
  /\ result = "ok"
  /\ rd = RdIdle

\* "knx_factoryreset" (knx_shell.c 218-227): the stack wipes the table,
\* IA and IID, then otInstanceFactoryReset resets the board, so the device
\* starts again from its initial state.
KnxFactoryReset ==
  /\ got' = [s \in Slot |-> EmptyEntry]
  /\ heap' = [b \in Bufs |-> "unused"]
  /\ mem' = [b \in Bufs |-> <<>>]
  /\ subscribed' = {}
  /\ lsmLoaded' = FALSE
  /\ ia' = 0
  /\ iid' = 0
  /\ oobWrite' = FALSE
  /\ result' = "ok"
  /\ rd' = RdIdle

\* The inputs of one command: ga values are atoi(aArgs[5 + i]).
AddInputs(argc) == [1..(argc - 5) -> GAs]

\* A command of the operator shell, run to completion by the OpenThread
\* task, or a step of the KNX task that changes the table's state.
ShellNext ==
  \/ \E argc \in ArgCounts, gaToken \in BOOLEAN :
       \/ GotAddBadArgs(argc, gaToken)
       \/ GotAddNotRuntime(argc, gaToken)
       \/ \E id \in Ids : GotAddIdInUse(argc, gaToken, id)
       \/ \E id \in Ids, uri \in Uris, gas \in AddInputs(argc) :
            GotAddStore(argc, gaToken, id, uri, gas)
  \/ GotOther
  \/ GotShow
  \/ GotRemoveBadArgs
  \/ \E id \in Ids : GotRemove(id)
  \/ \E v \in 0..1 : KnxIa(v) \/ KnxIid(v)
  \/ KnxLoaded
  \/ KnxFactoryReset

\* A step of the GET handler in the KNX task.
GetNext ==
  \/ \E uri \in Uris : GetFindEntry(uri)
  \/ GetLoadGa \/ GetLoadGaLen \/ GetEncodeGa

Next == ShellNext \/ GetNext

Spec == Init /\ [][Next]_vars

\* The shell alone, with no GET request in progress.  The GET handler
\* changes only rd, so the table's behaviours are those of Spec.
ShellSpec == Init /\ [][ShellNext]_vars

-----------------------------------------------------------------------------
(* Properties.                                                             *)

TypeOK ==
  /\ got \in [Slot -> Entry]
  /\ heap \in [Bufs -> BufState]
  /\ mem \in [Bufs -> Seq(GAs)]
  /\ subscribed \subseteq GAs
  /\ lsmLoaded \in BOOLEAN
  /\ ia \in Nat
  /\ iid \in Nat
  /\ oobWrite \in BOOLEAN
  /\ result \in Results
  /\ rd \in RdState

\* Spec 3: no two occupied slots carry the same id, whatever sequence of
\* knx_got add / remove commands (with stale ids left in emptied slots)
\* led here.
GotIdsUnique ==
  \A s, t \in Slot :
    (Occupied(s) /\ Occupied(t) /\ got[s].id = got[t].id) => s = t

\* Spec 3 and 8: every group address an occupied slot lists has its
\* multicast group joined, so S-mode messages to it reach the device.
SubscriptionsCoverTable == ReferencedGAs(got, mem) \subseteq subscribed

\* The same, except when OpenThread's pool of external multicast addresses
\* is full: a group the table lists goes unjoined only through the NO_BUFS
\* that oc_connectivity_subscribe_mcast_ipv6 drops, never because knx_got
\* add registered before writing its entry or skipped a group.
GroupsJoinedUnlessPoolFull ==
  \/ ReferencedGAs(got, mem) \subseteq subscribed
  \/ Cardinality(subscribed) = MAX_EXT_MCAST

\* Spec 3 and 8: after any sequence of inserts and deletes exactly the
\* referenced groups are joined: knx_got remove never resynchronises.
SubscriptionsMatchTable == subscribed = ReferencedGAs(got, mem)

\* Spec 3: href and ga are both present or both absent; an entry is never
\* stored with an href and no group address (knx_got add with aArgs[4] =
\* "ga" and nothing after it).
NoHalfEntry == \A s \in Slot : got[s].href # NoHref => got[s].ga_len > 0

\* Spec 4.1: an insert into a full table is rejected with no write; the
\* handler never writes an entry outside g_got.
NoWriteOutsideTable == ~oobWrite

\* Spec 4.1: the allocation an occupied slot points to is live, so show,
\* the GET handler and a later remove never touch freed memory.
OccupiedEntriesLive ==
  \A s \in Slot : Occupied(s) => heap[got[s].ga] = "live"

\* The table as the map of GotAbstract: each id an occupied slot carries,
\* with that slot's href and the group addresses its allocation holds.
AbsTable ==
  [i \in Ids |->
     IF find_index_by_id(i) = NotFound
       THEN [href |-> NoHref, gas |-> <<>>]
       ELSE [href |-> got[find_index_by_id(i)].href,
             gas |-> mem[got[find_index_by_id(i)].ga]]]

Abs == INSTANCE GotAbstract
         WITH table <- AbsTable, Capacity <- GOT_MAX_ENTRIES,
              GaLists <- UNION {AddInputs(a) : a \in ArgCounts}

\* Spec 4.1 and 8: the shell's add and remove commands, on top of the
\* stack's slot scans, implement the abstract table: an id is never
\* stored twice, a stored entry never changes, and a failed command
\* changes nothing.
GotRefinesAbstract == Abs!Spec

\* Spec 5: a lookup never reads memory a concurrent delete has released:
\* the group addresses the GET handler encodes lie in a live allocation.
GetNeverReadsFreedGa == [][GetEncodeGa => GaReadSafe(rd)]_vars
=============================================================================
