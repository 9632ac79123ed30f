------------------------------ MODULE KnxStorage ------------------------------
(***************************************************************************)
(* The persistent store port (src/port/storage.c) over the NVS settings    *)
(* subsystem, the shell command knx_fid that writes through it, and a      *)
(* reboot that reloads the device's fabric id from it.                     *)
(*                                                                         *)
(*  - Every store name is saved under the settings key "knx/<store>",      *)
(*    built with sprintf into key_name[33] when reading and key_name[32]   *)
(*    when writing or erasing.  Only the read checks the length, with an   *)
(*    assert that does not count the terminating NUL.                      *)
(*  - oc_storage_read runs settings_load_subtree_direct with the callback  *)
(*    knxValueCallback, which records in a ReadRequest the size read and   *)
(*    the flags KEY_NOT_FOUND, KEY_BUFFER_TOO_SMAL and KEY_READ_FAILED.    *)
(*    The read reports 0 on an error, a missing key or a failed read, and  *)
(*    the request's size otherwise.  KEY_BUFFER_TOO_SMAL is never looked   *)
(*    at.                                                                  *)
(*  - settings_save_one and settings_delete may fail, and report it.       *)
(*    oc_storage_write returns 0 then; oc_storage_erase always returns 0.  *)
(*                                                                         *)
(* A stored value is a sequence of byte symbols.  The settings subsystem   *)
(* is not in the repository: a key's value is replaced as a whole or not   *)
(* at all (NVS entries are written atomically).                            *)
(***************************************************************************)
EXTENDS Integers, Sequences, FiniteSets

CONSTANTS
  Stores,        \* store names the stack passes to oc_storage_*
  NameLen,       \* strlen of each store name
  FID_STORE,     \* KNX_STORAGE_FID, the store knx_fid writes
  Bytes,         \* byte symbols of stored values
  MAX_LEN,       \* bound on the length of a stored value
  Sizes,         \* buffer sizes callers pass to oc_storage_read
  MAX_BOOTS,     \* bound on the number of reboots
  NoKey,         \* no settings entry under the key
  Unknown,       \* a history entry with nothing acknowledged
  NoData,        \* the destination buffer was not written
  NoRead         \* no read since boot

ASSUME StoresAssumption ==
  /\ FID_STORE \in Stores
  /\ NameLen \in [Stores -> Nat]
ASSUME DataAssumption ==
  /\ Bytes # {} /\ 0 \notin Bytes
  /\ MAX_LEN \in Nat \ {0}
  /\ Sizes \subseteq Nat
  /\ MAX_BOOTS \in Nat

\* KNX_SETTINGS_MAX_NAME_LEN, and strlen(KNX_KEY_PREFIX) for "knx".
KNX_SETTINGS_MAX_NAME_LEN == 32
KNX_KEY_PREFIX_LEN == 3

\* Values a store can hold: byte strings of at most MAX_LEN symbols.
Value == UNION {[1..n -> Bytes] : n \in 0..MAX_LEN}

ASSUME SentinelAssumption ==
  /\ NoKey \notin Value /\ NoData \notin Value
  /\ Unknown \notin Value \cup Bytes \cup {0}

VARIABLES
  nvs,        \* the settings entries: store -> value or NoKey
  overflow,   \* a sprintf of a key name ran past the end of key_name
  lastAck,    \* per store: the value of the last write that returned its size
  rd,         \* the outcome of the last oc_storage_read
  fid,        \* the device's fabric id in RAM (pDevInfo->fid)
  fidSet,     \* the value the last knx_fid reported as set
  boots       \* reboots so far

vars == <<nvs, overflow, lastAck, rd, fid, fidSet, boots>>

-----------------------------------------------------------------------------
(* Key names.                                                              *)

\* Bytes sprintf(key_name, KNX_KEY_PREFIX "/%s", store) writes: the prefix,
\* the slash, the store name and the terminating NUL.
KeyBytes(s) == KNX_KEY_PREFIX_LEN + 1 + NameLen[s] + 1

\* key_name_len = strlen(store) + strlen(KNX_KEY_PREFIX) + 1, and the
\* assert that it is at most KNX_SETTINGS_MAX_NAME_LEN + 1.
ReadKeyAsserted(s) ==
  NameLen[s] + KNX_KEY_PREFIX_LEN + 1 <= KNX_SETTINGS_MAX_NAME_LEN + 1

\* The sprintf into a key_name buffer of the given size overruns it.
KeyOverruns(s, bufSize) == KeyBytes(s) > bufSize

-----------------------------------------------------------------------------
(* Reading.                                                                *)

\* Mutant: a negative read_cb result stored as the size read.
knxValueCallbackNoReadError(v, size, dest, cnt) ==
  IF dest = "null" \/ size = 0
    THEN [bufferSize |-> Len(v),
          flags |-> IF Len(v) = 0 THEN {"KEY_NOT_FOUND"} ELSE {},
          data |-> NoData]
    ELSE [bufferSize |-> cnt,
          flags |-> IF cnt = 0 THEN {"KEY_NOT_FOUND"} ELSE {},
          data |-> IF cnt > 0 THEN SubSeq(v, 1, cnt) ELSE NoData]

\* knxValueCallback for an entry of the given value.  dest is "buf" or
\* "null"; cnt is what read_cb returns: the bytes copied, or -1 on an error.
\* Result: the ReadRequest's bufferSize and flags, and what was copied.
knxValueCallback(v, size, dest, cnt) ==
  IF dest = "null" \/ size = 0
    THEN [bufferSize |-> Len(v),
          flags |-> IF Len(v) = 0 THEN {"KEY_NOT_FOUND"} ELSE {},
          data |-> NoData]
    ELSE LET tooSmall == IF Len(v) > size THEN {"KEY_BUFFER_TOO_SMAL"} ELSE {}
         IN  IF cnt > 0
               THEN [bufferSize |-> cnt, flags |-> tooSmall,
                     data |-> SubSeq(v, 1, cnt)]
             ELSE IF cnt = 0
               THEN [bufferSize |-> 0, flags |-> tooSmall \cup {"KEY_NOT_FOUND"},
                     data |-> NoData]
               ELSE [bufferSize |-> 0, flags |-> tooSmall \cup {"KEY_READ_FAILED"},
                     data |-> NoData]

\* What read_cb may return: the bytes that fit, or an error.
ReadCounts(v, size) == {IF Len(v) < size THEN Len(v) ELSE size, -1}

\* The request before settings_load_subtree_direct: the callback has not
\* run, so KEY_NOT_FOUND stays set.
InitialRequest(size) ==
  [bufferSize |-> size, flags |-> {"KEY_NOT_FOUND"}, data |-> NoData]

\* The requests settings_load_subtree_direct can leave for store s.
LoadedRequests(s, size, dest) ==
  IF nvs[s] = NoKey
    THEN {InitialRequest(size)}
    ELSE {knxValueCallback(nvs[s], size, dest, c) : c \in ReadCounts(nvs[s], size)}

\* oc_storage_read's verdict on a request and the load's error code.
oc_storage_read_result(req, error) ==
  IF error \/ "KEY_NOT_FOUND" \in req.flags \/ "KEY_READ_FAILED" \in req.flags
    THEN 0
    ELSE req.bufferSize

\* oc_storage_read(store, buf, size) from the stack.  The assert stops the
\* program when it fails, so a read with a longer name does not happen.
StorageRead(s, size, dest) ==
  /\ ReadKeyAsserted(s)
  /\ \E req \in LoadedRequests(s, size, dest), error \in BOOLEAN :
       rd' = [store |-> s, dest |-> dest, size |-> size, ack |-> lastAck[s],
              ret |-> oc_storage_read_result(req, error), data |-> req.data]
  /\ overflow' = (overflow \/ KeyOverruns(s, KNX_SETTINGS_MAX_NAME_LEN + 1))
  /\ UNCHANGED <<nvs, lastAck, fid, fidSet, boots>>

-----------------------------------------------------------------------------
(* Writing and erasing.                                                    *)

\* Mutant: the error of settings_save_one not checked.
oc_storage_write_NoErrCheck(s, v) ==
  /\ \E saved \in BOOLEAN :
       /\ nvs' = IF saved THEN [nvs EXCEPT ![s] = v] ELSE nvs
       /\ lastAck' = [lastAck EXCEPT ![s] = IF Len(v) # 0 THEN v ELSE Unknown]
  /\ overflow' = (overflow \/ KeyOverruns(s, KNX_SETTINGS_MAX_NAME_LEN))

\* oc_storage_write(store, buf, size): settings_save_one either saves the
\* value or fails, and the call returns size or 0.  The history records
\* the value when the return is non-zero, and nothing known otherwise.
oc_storage_write(s, v) ==
  /\ \E saved \in BOOLEAN :
       /\ nvs' = IF saved THEN [nvs EXCEPT ![s] = v] ELSE nvs
       /\ lastAck' = [lastAck EXCEPT ![s] =
                        IF saved /\ Len(v) # 0 THEN v ELSE Unknown]
  /\ overflow' = (overflow \/ KeyOverruns(s, KNX_SETTINGS_MAX_NAME_LEN))

\* oc_storage_erase(store): settings_delete either removes the entry or
\* fails; the call returns 0 either way.
oc_storage_erase(s) ==
  /\ \E deleted \in BOOLEAN :
       nvs' = IF deleted THEN [nvs EXCEPT ![s] = NoKey] ELSE nvs
  /\ lastAck' = [lastAck EXCEPT ![s] = Unknown]
  /\ overflow' = (overflow \/ KeyOverruns(s, KNX_SETTINGS_MAX_NAME_LEN))

\* The stack saves a value in one of its stores.
StorageWrite(s, v) ==
  /\ oc_storage_write(s, v)
  /\ UNCHANGED <<rd, fid, fidSet, boots>>

\* The stack erases one of its stores.
StorageErase(s) ==
  /\ oc_storage_erase(s)
  /\ UNCHANGED <<rd, fid, fidSet, boots>>

-----------------------------------------------------------------------------
(* knx_fid and reboot.                                                     *)

\* knx_fid <fid>: oc_core_set_device_fid, then oc_storage_write of the
\* value, whose return is not looked at; the command reports success.
\* The 8 bytes of the uint64_t are one symbol here.
KnxFid(v) ==
  /\ fid' = v
  /\ oc_storage_write(FID_STORE, <<v>>)
  /\ fidSet' = v
  /\ UNCHANGED <<rd, boots>>

\* The device restarts: RAM is lost, the settings stay.  The stack loads
\* the fabric id with oc_storage_read(KNX_STORAGE_FID, &fid, sizeof(fid))
\* and keeps 0 when that returns 0.
Reboot ==
  /\ boots < MAX_BOOTS
  /\ ReadKeyAsserted(FID_STORE)
  /\ boots' = boots + 1
  /\ \E req \in LoadedRequests(FID_STORE, 1, "buf"), error \in BOOLEAN :
       fid' = IF oc_storage_read_result(req, error) = 0 THEN 0 ELSE req.data[1]
  /\ rd' = NoRead
  /\ overflow' = (overflow \/ KeyOverruns(FID_STORE, KNX_SETTINGS_MAX_NAME_LEN + 1))
  /\ UNCHANGED <<nvs, lastAck, fidSet>>

Init ==
  /\ nvs = [s \in Stores |-> NoKey]
  /\ overflow = FALSE
  /\ lastAck = [s \in Stores |-> Unknown]
  /\ rd = NoRead
  /\ fid = 0
  /\ fidSet = Unknown
  /\ boots = 0

\* The stack's own stores, written, erased and read in any order.
StackStores == Stores \ {FID_STORE}

Next ==
  \/ \E s \in StackStores, v \in Value : StorageWrite(s, v)
  \/ \E s \in StackStores : StorageErase(s)
  \/ \E s \in Stores, size \in Sizes, dest \in {"buf", "null"} :
       StorageRead(s, size, dest)
  \/ \E v \in Bytes : KnxFid(v)
  \/ Reboot

Spec == Init /\ [][Next]_vars

-----------------------------------------------------------------------------
(* Properties.                                                             *)

TypeOK ==
  /\ nvs \in [Stores -> Value \cup {NoKey}]
  /\ overflow \in BOOLEAN
  /\ lastAck \in [Stores -> Value \cup {Unknown}]
  /\ rd \in {NoRead} \cup
       [store : Stores, dest : {"buf", "null"}, size : Sizes,
        ack : Value \cup {Unknown}, ret : Nat, data : Value \cup {NoData}]
  /\ fid \in Bytes \cup {0}
  /\ fidSet \in Bytes \cup {Unknown}
  /\ boots \in 0..MAX_BOOTS

\* Read your acknowledged writes: when oc_storage_read reports success for
\* a store whose last write returned its size (with no write or erase of
\* unknown outcome since, and whatever reboots in between), it returns
\* that value's size, and, into a buffer of non-zero size, that value.  A
\* NULL buffer or a size of 0 only asks for the size.
ReadSeesAckedWrite ==
  (rd # NoRead /\ rd.ret > 0 /\ rd.ack # Unknown) =>
     /\ rd.ret = Len(rd.ack)
     /\ (rd.dest = "buf" /\ rd.size > 0) => rd.data = rd.ack

\* A fabric id that knx_fid reported as set is the device's fabric id from
\* then on, across reboots, until the next knx_fid.
FidSurvivesReboot == fidSet # Unknown => fid = fidSet
=============================================================================
