-------------------------- MODULE KnxStorageProofs --------------------------
(***************************************************************************)
(* Proofs about the storage port (KnxStorage), for every set of stores,    *)
(* name lengths, byte symbols, value bound and reboot bound.               *)
(*                                                                         *)
(* ReadSeesAckedWrite holds when every buffer size a caller passes to      *)
(* oc_storage_read is 0 (a size query) or large enough for any value       *)
(* (SizesFit); run knx_storage_trunc shows that it fails otherwise.  The   *)
(* property speaks of rd alone, but a read copies what nvs holds while the *)
(* property compares it with lastAck: the invariant that carries it says   *)
(* that an acknowledged value is non-empty and is what the settings hold.  *)
(* A failed write or an erase makes the history Unknown, so the settings   *)
(* may then differ from it.                                                *)
(***************************************************************************)
EXTENDS KnxStorage, SequenceTheorems, TLAPS

\* Every buffer the stack reads a store into holds any value it may store.
SizesFit == \A sz \in Sizes : sz = 0 \/ sz >= MAX_LEN

\* The history agrees with the settings wherever it knows something.
AckedInNvs ==
  \A s \in Stores : lastAck[s] # Unknown =>
     /\ nvs[s] = lastAck[s]
     /\ Len(lastAck[s]) # 0

IInv ==
  /\ nvs \in [Stores -> Value \cup {NoKey}]
  /\ lastAck \in [Stores -> Value \cup {Unknown}]
  /\ AckedInNvs
  /\ ReadSeesAckedWrite

-----------------------------------------------------------------------------
(* Lemmas about values and reads.                                          *)

\* A stored value is a sequence of byte symbols of at most MAX_LEN.
LEMMA ValueFacts ==
  ASSUME NEW v \in Value
  PROVE  v \in Seq(Bytes) /\ Len(v) \in 0..MAX_LEN
<1>1. PICK n \in 0..MAX_LEN : v \in [1..n -> Bytes]
  BY DEF Value
<1>2. v \in Seq(Bytes)
  BY <1>1, DataAssumption, SeqDef
<1>3. Len(v) \in Nat /\ DOMAIN v = 1..Len(v)
  BY <1>2, LenProperties
<1>4. Len(v) = n
  BY <1>1, <1>3, DataAssumption
<1>. QED
  BY <1>1, <1>2, <1>4

\* A one-symbol value, as knx_fid writes it.
LEMMA SingletonValue ==
  ASSUME NEW b \in Bytes
  PROVE  <<b>> \in Value /\ Len(<<b>>) = 1
<1>1. <<b>> \in [1..1 -> Bytes] /\ 1 \in 0..MAX_LEN
  BY DataAssumption
<1>. QED
  BY <1>1 DEF Value

\* oc_storage_read of a non-empty value into a buffer that fits, or a
\* size query, succeeds only with the value's size, and copies the whole
\* value when it copies at all.
LEMMA ReadOfStored ==
  ASSUME SizesFit,
         NEW size \in Sizes, NEW dest \in {"buf", "null"},
         NEW v \in Value, Len(v) # 0,
         NEW c \in ReadCounts(v, size), NEW error \in BOOLEAN,
         oc_storage_read_result(knxValueCallback(v, size, dest, c), error) > 0
  PROVE  LET req == knxValueCallback(v, size, dest, c)
         IN  /\ oc_storage_read_result(req, error) = Len(v)
             /\ (dest = "buf" /\ size > 0) => req.data = v
<1> DEFINE req == knxValueCallback(v, size, dest, c)
<1>1. v \in Seq(Bytes) /\ Len(v) \in 1..MAX_LEN /\ size \in Nat
  BY ValueFacts, DataAssumption
<1>2. oc_storage_read_result(req, error) = req.bufferSize
  BY DEF oc_storage_read_result
<1>3. CASE dest = "null" \/ size = 0
  <2>1. req.bufferSize = Len(v)
    BY <1>3 DEF knxValueCallback
  <2>. QED
    BY <1>2, <1>3, <2>1
<1>4. CASE dest = "buf" /\ size # 0
  <2>1. size >= Len(v)
    BY <1>1, <1>4, DataAssumption DEF SizesFit
  <2>2. c = Len(v) \/ c = -1
    BY <1>1, <2>1 DEF ReadCounts
  <2>3. c # -1
    <3>1. SUFFICES ASSUME c = -1 PROVE FALSE
      OBVIOUS
    <3>2. "KEY_READ_FAILED" \in req.flags
      BY <1>1, <1>4, <3>1 DEF knxValueCallback
    <3>. QED
      BY <3>2 DEF oc_storage_read_result
  <2>4. req.bufferSize = Len(v) /\ req.data = SubSeq(v, 1, Len(v))
    BY <1>1, <1>4, <2>2, <2>3 DEF knxValueCallback
  <2>5. SubSeq(v, 1, Len(v)) = v
    BY <1>1, SubSeqFull
  <2>. QED
    BY <1>2, <2>4, <2>5
<1>. QED
  BY <1>3, <1>4

-----------------------------------------------------------------------------
(* The invariant.                                                          *)

LEMMA InitIInv == Init => IInv
<1> SUFFICES ASSUME Init PROVE IInv
  OBVIOUS
<1>1. nvs \in [Stores -> Value \cup {NoKey}]
  BY DEF Init
<1>2. lastAck \in [Stores -> Value \cup {Unknown}]
  BY DEF Init
<1>3. AckedInNvs
  BY DEF Init, AckedInNvs
<1>4. ReadSeesAckedWrite
  BY DEF Init, ReadSeesAckedWrite
<1>. QED
  BY <1>1, <1>2, <1>3, <1>4 DEF IInv

\* oc_storage_write of a value v to store s, with rd untouched.
LEMMA WriteIInv ==
  ASSUME IInv, NEW s \in Stores, NEW v \in Value,
         oc_storage_write(s, v), rd' = rd
  PROVE  IInv'
<1>1. PICK saved \in BOOLEAN :
        /\ nvs' = IF saved THEN [nvs EXCEPT ![s] = v] ELSE nvs
        /\ lastAck' = [lastAck EXCEPT ![s] = IF saved /\ Len(v) # 0 THEN v ELSE Unknown]
  BY DEF oc_storage_write
<1>2. nvs' \in [Stores -> Value \cup {NoKey}] /\ lastAck' \in [Stores -> Value \cup {Unknown}]
  BY <1>1 DEF IInv
<1>3. AckedInNvs'
  BY <1>1, <1>2 DEF IInv, AckedInNvs
<1>4. ReadSeesAckedWrite'
  BY DEF IInv, ReadSeesAckedWrite
<1>. QED
  BY <1>2, <1>3, <1>4 DEF IInv

\* oc_storage_erase of store s, with rd untouched.
LEMMA EraseIInv ==
  ASSUME IInv, NEW s \in Stores, oc_storage_erase(s), rd' = rd
  PROVE  IInv'
<1>1. PICK deleted \in BOOLEAN :
        nvs' = IF deleted THEN [nvs EXCEPT ![s] = NoKey] ELSE nvs
  BY DEF oc_storage_erase
<1>2. lastAck' = [lastAck EXCEPT ![s] = Unknown]
  BY DEF oc_storage_erase
<1>3. nvs' \in [Stores -> Value \cup {NoKey}] /\ lastAck' \in [Stores -> Value \cup {Unknown}]
  BY <1>1, <1>2 DEF IInv
<1>4. AckedInNvs'
  BY <1>1, <1>2, <1>3 DEF IInv, AckedInNvs
<1>5. ReadSeesAckedWrite'
  BY DEF IInv, ReadSeesAckedWrite
<1>. QED
  BY <1>3, <1>4, <1>5 DEF IInv

\* A read records what oc_storage_read returned for the acknowledged value.
LEMMA ReadIInv ==
  ASSUME SizesFit, IInv, NEW s \in Stores, NEW size \in Sizes,
         NEW dest \in {"buf", "null"}, StorageRead(s, size, dest)
  PROVE  IInv'
<1>1. PICK req \in LoadedRequests(s, size, dest), error \in BOOLEAN :
        rd' = [store |-> s, dest |-> dest, size |-> size, ack |-> lastAck[s],
               ret |-> oc_storage_read_result(req, error), data |-> req.data]
  BY DEF StorageRead
<1>2. UNCHANGED <<nvs, lastAck>>
  BY DEF StorageRead
<1>3. SUFFICES ASSUME rd'.ret > 0, rd'.ack # Unknown
               PROVE  /\ rd'.ret = Len(rd'.ack)
                      /\ (rd'.dest = "buf" /\ rd'.size > 0) => rd'.data = rd'.ack
  BY <1>1, <1>2 DEF IInv, AckedInNvs, ReadSeesAckedWrite
<1> DEFINE v == lastAck[s]
<1>4. v \in Value /\ v # Unknown /\ nvs[s] = v /\ Len(v) # 0
  BY <1>1, <1>3 DEF IInv, AckedInNvs
<1>5. nvs[s] # NoKey
  BY <1>4, SentinelAssumption
<1>6. PICK c \in ReadCounts(v, size) : req = knxValueCallback(v, size, dest, c)
  BY <1>4, <1>5 DEF LoadedRequests
<1>7. oc_storage_read_result(knxValueCallback(v, size, dest, c), error) > 0
  BY <1>1, <1>3, <1>6
<1>. QED
  BY <1>1, <1>4, <1>6, <1>7, ReadOfStored

\* knx_fid writes the id as a one-symbol value.
LEMMA KnxFidIInv ==
  ASSUME IInv, NEW b \in Bytes, KnxFid(b)
  PROVE  IInv'
<1>1. <<b>> \in Value
  BY SingletonValue
<1>2. oc_storage_write(FID_STORE, <<b>>) /\ rd' = rd
  BY DEF KnxFid
<1>3. FID_STORE \in Stores
  BY StoresAssumption
<1>. QED
  BY <1>1, <1>2, <1>3, WriteIInv

\* A reboot forgets the last read and touches neither store nor history.
LEMMA RebootIInv ==
  ASSUME IInv, Reboot
  PROVE  IInv'
<1>1. UNCHANGED <<nvs, lastAck>> /\ rd' = NoRead
  BY DEF Reboot
<1>. QED
  BY <1>1 DEF IInv, AckedInNvs, ReadSeesAckedWrite

LEMMA NextIInv ==
  ASSUME SizesFit
  PROVE  IInv /\ [Next]_vars => IInv'
<1> SUFFICES ASSUME IInv, [Next]_vars PROVE IInv'
  OBVIOUS
<1>1. CASE \E s \in StackStores, v \in Value : StorageWrite(s, v)
  BY <1>1, WriteIInv DEF StorageWrite, StackStores
<1>2. CASE \E s \in StackStores : StorageErase(s)
  BY <1>2, EraseIInv DEF StorageErase, StackStores
<1>3. CASE \E s \in Stores, size \in Sizes, dest \in {"buf", "null"} :
             StorageRead(s, size, dest)
  BY <1>3, ReadIInv
<1>4. CASE \E b \in Bytes : KnxFid(b)
  BY <1>4, KnxFidIInv
<1>5. CASE Reboot
  BY <1>5, RebootIInv
<1>6. CASE UNCHANGED vars
  BY <1>6 DEF vars, IInv, AckedInNvs, ReadSeesAckedWrite
<1>. QED
  BY <1>1, <1>2, <1>3, <1>4, <1>5, <1>6 DEF Next


-----------------------------------------------------------------------------
(* Type correctness.                                                       *)

\* A non-empty prefix of a stored value is a stored value, starting with
\* the same byte.
LEMMA PrefixValue ==
  ASSUME NEW v \in Value, NEW k \in 1..Len(v)
  PROVE  /\ SubSeq(v, 1, k) \in Value
         /\ SubSeq(v, 1, k)[1] = v[1]
         /\ v[1] \in Bytes
<1>1. v \in Seq(Bytes) /\ Len(v) \in 0..MAX_LEN
  BY ValueFacts
<1>2. \A i \in 1..k : v[i] \in Bytes
  BY <1>1, ElementOfSeq
<1>3. /\ SubSeq(v, 1, k) \in Seq(Bytes)
      /\ Len(SubSeq(v, 1, k)) = k
      /\ SubSeq(v, 1, k)[1] = v[1]
  BY <1>1, <1>2, SubSeqProperties
<1>4. SubSeq(v, 1, k) \in [1..k -> Bytes]
  BY <1>3, LenProperties
<1>5. k \in 0..MAX_LEN
  BY <1>1, DataAssumption
<1>. QED
  BY <1>2, <1>3, <1>4, <1>5 DEF Value

\* What knxValueCallback leaves in the request for a stored value.
LEMMA CallbackType ==
  ASSUME NEW v \in Value, NEW size \in Nat, NEW dest \in {"buf", "null"},
         NEW c \in ReadCounts(v, size)
  PROVE  LET req == knxValueCallback(v, size, dest, c)
         IN  /\ req.bufferSize \in Nat
             /\ req.data \in Value \cup {NoData}
             /\ (/\ dest = "buf" /\ size # 0
                 /\ "KEY_NOT_FOUND" \notin req.flags
                 /\ "KEY_READ_FAILED" \notin req.flags) => req.data[1] \in Bytes
<1> DEFINE req == knxValueCallback(v, size, dest, c)
<1>1. Len(v) \in Nat
  BY ValueFacts
<1>2. CASE dest = "null" \/ size = 0
  BY <1>1, <1>2 DEF knxValueCallback
<1>3. CASE dest = "buf" /\ size # 0 /\ c > 0
  <2>1. c \in 1..Len(v)
    BY <1>1, <1>3 DEF ReadCounts
  <2>2. req.bufferSize = c /\ req.data = SubSeq(v, 1, c)
    BY <1>3 DEF knxValueCallback
  <2>. QED
    BY <2>1, <2>2, PrefixValue
<1>4. CASE dest = "buf" /\ size # 0 /\ c <= 0
  <2>1. c \in Int
    BY <1>1 DEF ReadCounts
  <2>2. /\ req.bufferSize = 0 /\ req.data = NoData
        /\ ("KEY_NOT_FOUND" \in req.flags \/ "KEY_READ_FAILED" \in req.flags)
    BY <1>4, <2>1 DEF knxValueCallback
  <2>. QED
    BY <2>2
<1>. QED
  BY <1>1, <1>2, <1>3, <1>4 DEF ReadCounts

\* What oc_storage_read returns and copies, for any request the load
\* can leave.
LEMMA LoadedType ==
  ASSUME TypeOK, NEW s \in Stores, NEW size \in Nat,
         NEW dest \in {"buf", "null"},
         NEW req \in LoadedRequests(s, size, dest), NEW error \in BOOLEAN
  PROVE  /\ oc_storage_read_result(req, error) \in Nat
         /\ req.data \in Value \cup {NoData}
         /\ (dest = "buf" /\ size # 0 /\ oc_storage_read_result(req, error) # 0)
              => req.data[1] \in Bytes
<1>1. CASE nvs[s] = NoKey
  <2>1. req = InitialRequest(size)
    BY <1>1 DEF LoadedRequests
  <2>. QED
    BY <2>1 DEF InitialRequest, oc_storage_read_result
<1>2. CASE nvs[s] # NoKey
  <2>1. nvs[s] \in Value
    BY <1>2 DEF TypeOK
  <2>2. PICK c \in ReadCounts(nvs[s], size) :
          req = knxValueCallback(nvs[s], size, dest, c)
    BY <1>2 DEF LoadedRequests
  <2>3. /\ req.bufferSize \in Nat
        /\ req.data \in Value \cup {NoData}
        /\ (/\ dest = "buf" /\ size # 0
            /\ "KEY_NOT_FOUND" \notin req.flags
            /\ "KEY_READ_FAILED" \notin req.flags) => req.data[1] \in Bytes
    BY <2>1, <2>2, CallbackType
  <2>. QED
    BY <2>3 DEF oc_storage_read_result
<1>. QED
  BY <1>1, <1>2

LEMMA InitTypeOK == Init => TypeOK
<1> SUFFICES ASSUME Init PROVE TypeOK
  OBVIOUS
<1>1. nvs \in [Stores -> Value \cup {NoKey}] /\ lastAck \in [Stores -> Value \cup {Unknown}]
  BY DEF Init
<1>2. overflow \in BOOLEAN /\ rd = NoRead /\ fid = 0 /\ fidSet = Unknown
  BY DEF Init
<1>3. boots \in 0..MAX_BOOTS
  BY DataAssumption DEF Init
<1>. QED
  BY <1>1, <1>2, <1>3 DEF TypeOK

\* oc_storage_write and oc_storage_erase keep the settings and the history
\* typed, and leave overflow a Boolean.
LEMMA WriteEraseType ==
  ASSUME TypeOK, NEW s \in Stores, NEW v \in Value,
         oc_storage_write(s, v) \/ oc_storage_erase(s)
  PROVE  /\ nvs' \in [Stores -> Value \cup {NoKey}]
         /\ lastAck' \in [Stores -> Value \cup {Unknown}]
         /\ overflow' \in BOOLEAN
<1>1. CASE oc_storage_write(s, v)
  <2>1. PICK saved \in BOOLEAN :
          /\ nvs' = IF saved THEN [nvs EXCEPT ![s] = v] ELSE nvs
          /\ lastAck' = [lastAck EXCEPT ![s] =
                           IF saved /\ Len(v) # 0 THEN v ELSE Unknown]
    BY <1>1 DEF oc_storage_write
  <2>2. overflow' = (overflow \/ KeyOverruns(s, KNX_SETTINGS_MAX_NAME_LEN))
    BY <1>1 DEF oc_storage_write
  <2>. QED
    BY <2>1, <2>2 DEF TypeOK, KeyOverruns
<1>2. CASE oc_storage_erase(s)
  <2>1. PICK deleted \in BOOLEAN :
          nvs' = IF deleted THEN [nvs EXCEPT ![s] = NoKey] ELSE nvs
    BY <1>2 DEF oc_storage_erase
  <2>2. /\ lastAck' = [lastAck EXCEPT ![s] = Unknown]
        /\ overflow' = (overflow \/ KeyOverruns(s, KNX_SETTINGS_MAX_NAME_LEN))
    BY <1>2 DEF oc_storage_erase
  <2>. QED
    BY <2>1, <2>2 DEF TypeOK, KeyOverruns
<1>. QED
  BY <1>1, <1>2

LEMMA NextTypeOK == TypeOK /\ [Next]_vars => TypeOK'
<1> SUFFICES ASSUME TypeOK, [Next]_vars PROVE TypeOK'
  OBVIOUS
<1>1. ASSUME NEW s \in StackStores, NEW v \in Value, StorageWrite(s, v)
      PROVE  TypeOK'
  BY <1>1, WriteEraseType DEF StorageWrite, StackStores, TypeOK
<1>2. ASSUME NEW s \in StackStores, StorageErase(s)
      PROVE  TypeOK'
  <2>1. PICK v \in Value : TRUE
    BY SingletonValue, DataAssumption
  <2>. QED
    BY <1>2, <2>1, WriteEraseType DEF StorageErase, StackStores, TypeOK
<1>3. ASSUME NEW s \in Stores, NEW size \in Sizes, NEW dest \in {"buf", "null"},
             StorageRead(s, size, dest)
      PROVE  TypeOK'
  <2>1. PICK req \in LoadedRequests(s, size, dest), error \in BOOLEAN :
          rd' = [store |-> s, dest |-> dest, size |-> size, ack |-> lastAck[s],
                 ret |-> oc_storage_read_result(req, error), data |-> req.data]
    BY <1>3 DEF StorageRead
  <2>2. oc_storage_read_result(req, error) \in Nat /\ req.data \in Value \cup {NoData}
    BY DataAssumption, LoadedType
  <2>3. lastAck[s] \in Value \cup {Unknown}
    BY DEF TypeOK
  <2>. QED
    BY <1>3, <2>1, <2>2, <2>3 DEF StorageRead, TypeOK
<1>4. ASSUME NEW b \in Bytes, KnxFid(b)
      PROVE  TypeOK'
  <2>1. <<b>> \in Value /\ FID_STORE \in Stores
    BY SingletonValue, StoresAssumption
  <2>2. oc_storage_write(FID_STORE, <<b>>)
    BY <1>4 DEF KnxFid
  <2>. QED
    BY <1>4, <2>1, <2>2, WriteEraseType DEF KnxFid, TypeOK
<1>5. ASSUME Reboot
      PROVE  TypeOK'
  <2>1. PICK req \in LoadedRequests(FID_STORE, 1, "buf"), error \in BOOLEAN :
          fid' = IF oc_storage_read_result(req, error) = 0 THEN 0 ELSE req.data[1]
    BY <1>5 DEF Reboot
  <2>2. FID_STORE \in Stores /\ 1 \in Nat /\ 1 # 0 /\ "buf" \in {"buf", "null"}
    BY StoresAssumption
  <2>3. oc_storage_read_result(req, error) # 0 => req.data[1] \in Bytes
    BY <2>2, LoadedType
  <2>4. fid' \in Bytes \cup {0}
    BY <2>1, <2>3
  <2>. QED
    BY <1>5, <2>4, DataAssumption DEF Reboot, TypeOK, KeyOverruns
<1>6. CASE UNCHANGED vars
  BY <1>6 DEF vars, TypeOK
<1>. QED
  BY <1>1, <1>2, <1>3, <1>4, <1>5, <1>6 DEF Next

-----------------------------------------------------------------------------
(* Theorems.                                                               *)

\* Read your acknowledged writes, for every instance: when every buffer
\* the stack passes to oc_storage_read holds any stored value, a read that
\* oc_storage_read reports as successful returns the size of the value
\* whose oc_storage_write last returned non-zero, and copies that value;
\* settings_save_one and settings_delete failures, knx_fid and reboots
\* included.
THEOREM AckedWritesRead ==
  ASSUME SizesFit
  PROVE  Spec => []ReadSeesAckedWrite
<1>1. Init => IInv
  BY InitIInv
<1>2. IInv /\ [Next]_vars => IInv'
  BY NextIInv
<1>3. IInv => ReadSeesAckedWrite
  BY DEF IInv
<1>. QED
  BY <1>1, <1>2, <1>3, PTL DEF Spec

\* Type correctness of the storage port: the settings, the history, the
\* last read (its return value a natural number, its copy a stored value),
\* and the fabric id loaded at boot (a byte or 0) keep their types under
\* every interleaving of reads, writes, erases, knx_fid and reboots.
THEOREM StorageTypeCorrect == Spec => []TypeOK
<1>1. Init => TypeOK
  BY InitTypeOK
<1>2. TypeOK /\ [Next]_vars => TypeOK'
  BY NextTypeOK
<1>. QED
  BY <1>1, <1>2, PTL DEF Spec
=============================================================================
