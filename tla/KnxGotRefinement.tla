-------------------------- MODULE KnxGotRefinement --------------------------
(***************************************************************************)
(* Two results about the Group Object Table and the knx_got shell command  *)
(* (KnxGot), built on the inductive invariant IInv of KnxGotProofs:        *)
(*                                                                         *)
(*  - every group address the table refers to has its multicast group    *)
(*    joined unless OpenThread's pool of external multicast addresses is   *)
(*    full (GroupsJoinedUnlessPoolFull);                                  *)
(*  - the table, read as a map from id to entry (AbsTable), implements the *)
(*    abstract table GotAbstract: each shell step is an Insert, a Delete,  *)
(*    a Wipe or leaves the map alone.                                     *)
(*                                                                         *)
(* The refinement rests on three facts of IInv: ids of occupied slots are  *)
(* unique (so the id-to-slot map is a function and a removed id is gone),  *)
(* an occupied slot's allocation holds ga_len > 0 addresses (so a stored  *)
(* id never maps to the absent entry), and that allocation was handed out  *)
(* (so the fresh buffer of an add leaves every other entry's addresses).   *)
(***************************************************************************)
EXTENDS KnxGotProofs, FiniteSetTheorems

\* The occupied slots that carry id i in table t.
IdSlots(t, i) == {s \in Slot : t[s].ga_len > 0 /\ t[s].id = i}

\* The entry AbsTable gives id i, for table t and allocation contents m.
AbsAt(t, m, i) ==
  IF FirstOf(IdSlots(t, i)) = NotFound
    THEN [href |-> NoHref, gas |-> <<>>]
    ELSE [href |-> t[FirstOf(IdSlots(t, i))].href,
          gas |-> m[t[FirstOf(IdSlots(t, i))].ga]]

-----------------------------------------------------------------------------
(* Lemmas about the map from ids to entries.                               *)

LEMMA AbsTableAt ==
  /\ AbsTable = [i \in Ids |-> AbsAt(got, mem, i)]
  /\ AbsTable' = [i \in Ids |-> AbsAt(got', mem', i)]
BY DEF AbsTable, AbsAt, IdSlots, find_index_by_id, Occupied

\* An id no occupied slot carries maps to the absent entry.
LEMMA AbsAtAbsent ==
  ASSUME NEW t, NEW m, NEW i, IdSlots(t, i) = {}
  PROVE  AbsAt(t, m, i) = [href |-> NoHref, gas |-> <<>>]
BY DEF AbsAt, FirstOf

\* An id exactly one occupied slot carries maps to that slot's entry.
LEMMA AbsAtSlot ==
  ASSUME NEW t, NEW m, NEW i, NEW s \in Slot, IdSlots(t, i) = {s}
  PROVE  AbsAt(t, m, i) = [href |-> t[s].href, gas |-> m[t[s].ga]]
<1>1. FirstOf(IdSlots(t, i)) = s
  BY FirstOfSlot, Zenon
<1>2. s # NotFound BY DEF Slot, NotFound
<1>. QED BY <1>1, <1>2 DEF AbsAt

\* A step that keeps the slots carrying id i, their entries and the
\* addresses they point to keeps the entry of i.
LEMMA AbsAtFrame ==
  ASSUME NEW t, NEW t2, NEW m, NEW m2, NEW i,
         IdSlots(t2, i) = IdSlots(t, i),
         \A s \in IdSlots(t, i) : t2[s] = t[s] /\ m2[t[s].ga] = m[t[s].ga]
  PROVE  AbsAt(t2, m2, i) = AbsAt(t, m, i)
<1>1. CASE IdSlots(t, i) = {}
  BY <1>1, AbsAtAbsent
<1>2. CASE IdSlots(t, i) # {}
  <2>1. FirstOf(IdSlots(t, i)) \in IdSlots(t, i)
    BY <1>2, FirstOfSlot DEF IdSlots
  <2>2. FirstOf(IdSlots(t, i)) # NotFound
    BY <2>1 DEF IdSlots, Slot, NotFound
  <2>. QED BY <2>1, <2>2 DEF AbsAt
<1>. QED BY <1>1, <1>2

\* In a state of IInv the slots carrying an id are none or one.
LEMMA IdSlotsUnique ==
  ASSUME IInv, NEW i, NEW s \in IdSlots(got, i)
  PROVE  IdSlots(got, i) = {s}
BY DEF IInv, GotIdsUnique, IdSlots, Occupied

\* An id an occupied slot carries never maps to the absent entry: the
\* allocation holds ga_len > 0 group addresses.
LEMMA StoredNotAbsent ==
  ASSUME IInv, NEW i, NEW s \in IdSlots(got, i)
  PROVE  AbsAt(got, mem, i) # [href |-> NoHref, gas |-> <<>>]
<1>0. s \in Slot /\ IdSlots(got, i) = {s}
  BY IdSlotsUnique DEF IdSlots
<1>1. AbsAt(got, mem, i) = [href |-> got[s].href, gas |-> mem[got[s].ga]]
  BY <1>0, AbsAtSlot
<1>2. Len(mem[got[s].ga]) > 0 /\ mem[got[s].ga] \in Seq(GAs)
  BY DEF IInv, TypeOK, GaStored, IdSlots, Occupied
<1>3. mem[got[s].ga] # <<>> BY <1>2
<1>. QED BY <1>1, <1>3

\* The abstract table counts its ids with the same Cardinality.
LEMMA AbsCardinality == \A S : Abs!Cardinality(S) = Cardinality(S)
BY DEF Abs!Cardinality, Cardinality

\* When a slot is free the map holds fewer ids than g_got has slots: each
\* stored id has its own occupied slot, and the free one is not among them.
LEMMA StoredBelowCapacity ==
  ASSUME IInv, NEW free \in Slot, ~Occupied(free)
  PROVE  Cardinality(Abs!Stored) < GOT_MAX_ENTRIES
<1> DEFINE Occ == {s \in Slot : Occupied(s)}
<1> DEFINE St == {i \in Ids : IdSlots(got, i) # {}}
<1> DEFINE f == [i \in St |-> FirstOf(IdSlots(got, i))]
<1>1. Abs!Stored = St
  <2>1. ASSUME NEW i \in Ids
        PROVE  AbsTable[i] # Abs!Absent <=> IdSlots(got, i) # {}
    <3>1. AbsTable[i] = AbsAt(got, mem, i) BY AbsTableAt
    <3>2. Abs!Absent = [href |-> NoHref, gas |-> <<>>] BY DEF Abs!Absent
    <3>3. CASE IdSlots(got, i) = {} BY <3>1, <3>2, <3>3, AbsAtAbsent
    <3>4. CASE IdSlots(got, i) # {} BY <3>1, <3>2, <3>4, StoredNotAbsent
    <3>. QED BY <3>3, <3>4
  <2>. QED BY <2>1 DEF Abs!Stored
<1>2. IsFiniteSet(Slot) /\ Cardinality(Slot) = GOT_MAX_ENTRIES
  BY SlotsAssumption, FS_Interval DEF Slot
<1>3. /\ IsFiniteSet(Occ) /\ Cardinality(Occ) \in Nat
      /\ Cardinality(Occ) < GOT_MAX_ENTRIES
  <2>1. IsFiniteSet(Occ) /\ Cardinality(Occ) <= Cardinality(Slot)
        /\ (Cardinality(Slot) = Cardinality(Occ) => Slot = Occ)
    BY <1>2, FS_Subset
  <2>2. Cardinality(Occ) \in Nat BY <2>1, FS_CardinalityType
  <2>3. Slot # Occ BY DEF Occupied
  <2>. QED BY <1>2, <2>1, <2>2, <2>3, SlotsAssumption
<1>4. f \in Injection(St, Occ)
  <2>1. \A i \in St : f[i] \in IdSlots(got, i)
    BY FirstOfSlot DEF IdSlots
  <2>2. f \in [St -> Occ] BY <2>1 DEF IdSlots, Occupied
  <2>3. \A i, j \in St : f[i] = f[j] => i = j BY <2>1 DEF IdSlots
  <2>. QED BY <2>2, <2>3 DEF Injection, IsInjective
<1>5. Cardinality(St) <= Cardinality(Occ) /\ Cardinality(St) \in Nat
  BY <1>3, <1>4, FS_Injection, FS_CardinalityType
<1>6. Cardinality(Abs!Stored) = Cardinality(St) BY <1>1
<1>. QED BY <1>3, <1>5, <1>6, SlotsAssumption

-----------------------------------------------------------------------------
(* Each shell step maps to a step of the abstract table or a stutter.     *)

\* A step that leaves the table and the allocations alone is a stutter.
LEMMA TableUnchangedStutter ==
  ASSUME UNCHANGED <<got, mem>>
  PROVE  UNCHANGED AbsTable
BY AbsTableAt

\* knx_got add: with a free slot and at least one group address it is an
\* Insert; with no group address the slot stays empty and with no free
\* slot the write goes past g_got, and the map is left alone.
LEMMA StoreRefines ==
  ASSUME IInv, NEW argc \in ArgCounts, NEW gaToken \in BOOLEAN,
         NEW id \in Ids, NEW uri \in Uris, NEW gas \in AddInputs(argc),
         GotAddStore(argc, gaToken, id, uri, gas)
  PROVE  [Abs!Next]_AbsTable
<1> DEFINE index == find_empty_slot(id)
<1>0. gas \in Seq(GAs) BY AddInputsSeq
<1>1. IdSlots(got, id) = {}
  <2>1. find_index_by_id(id) = NotFound BY DEF GotAddStore
  <2>. QED BY <2>1, FirstOfSlot DEF find_index_by_id, IdSlots, Occupied
<1>2. CASE index = NotFound
  BY <1>2, TableUnchangedStutter DEF GotAddStore
<1>3. CASE index # NotFound
  <2>1. index \in Slot /\ ~Occupied(index)
    <3>1. {s \in Slot : ~Occupied(s) /\ got[s].id # id} # {}
      BY <1>3, FirstOfSlot DEF find_empty_slot
    <3>. QED BY <3>1, FirstOfSlot DEF find_empty_slot
  <2>2. PICK b \in Bufs :
          /\ heap[b] = "unused"
          /\ got' = [got EXCEPT ![index] =
                       [id |-> id, href |-> uri, ga_len |-> Len(gas), ga |-> b]]
          /\ mem' = [mem EXCEPT ![b] = gas]
    BY <1>3 DEF GotAddStore, set_entry
  <2>3. /\ \A s \in Slot : s # index => got'[s] = got[s]
        /\ got'[index] = [id |-> id, href |-> uri, ga_len |-> Len(gas), ga |-> b]
    BY <2>1, <2>2 DEF IInv, TypeOK
  <2>4. ASSUME NEW i \in Ids, i # id \/ gas = <<>>
        PROVE  AbsAt(got', mem', i) = AbsAt(got, mem, i)
    <3>1. index \notin IdSlots(got', i) /\ index \notin IdSlots(got, i)
      BY <2>1, <2>3, <2>4, <1>0 DEF IdSlots, Occupied
    <3>2. IdSlots(got', i) = IdSlots(got, i) BY <3>1, <2>3 DEF IdSlots
    <3>3. ASSUME NEW s \in IdSlots(got, i)
          PROVE  got'[s] = got[s] /\ mem'[got[s].ga] = mem[got[s].ga]
      <4>1. s # index /\ s \in Slot BY <3>1 DEF IdSlots
      <4>2. got[s].ga \in Bufs /\ got[s].ga # b
        BY <2>2 DEF IInv, GaStored, IdSlots, Occupied
      <4>. QED BY <4>1, <4>2, <2>2, <2>3 DEF IInv, TypeOK
    <3>. QED BY <3>2, <3>3, AbsAtFrame
  <2>5. CASE gas = <<>>
    BY <2>4, <2>5, AbsTableAt
  <2>6. CASE gas # <<>>
    <3>1. Len(gas) > 0 BY <1>0, <2>6
    <3>2. IdSlots(got', id) = {index}
      BY <1>1, <2>1, <2>3, <3>1 DEF IdSlots
    <3>3. AbsAt(got', mem', id) = [href |-> uri, gas |-> gas]
      <4>1. AbsAt(got', mem', id) =
              [href |-> got'[index].href, gas |-> mem'[got'[index].ga]]
        BY <2>1, <3>2, AbsAtSlot
      <4>2. got'[index].href = uri /\ got'[index].ga = b /\ mem'[b] = gas
        BY <2>2, <2>3 DEF IInv, TypeOK
      <4>. QED BY <4>1, <4>2
    <3>4. AbsTable[id] = Abs!Absent
      BY <1>1, AbsAtAbsent, AbsTableAt DEF Abs!Absent
    <3>5. Cardinality(Abs!Stored) < GOT_MAX_ENTRIES
      BY <2>1, StoredBelowCapacity
    <3>6. AbsTable' = [AbsTable EXCEPT ![id] = [href |-> uri, gas |-> gas]]
      BY <2>4, <3>3, AbsTableAt
    <3>7. Abs!Insert(id, uri, gas)
      BY <2>6, <3>4, <3>5, <3>6, AbsCardinality DEF Abs!Insert
    <3>8. gas \in UNION {AddInputs(a) : a \in ArgCounts} OBVIOUS
    <3>. QED BY <3>7, <3>8 DEF Abs!Next
  <2>. QED BY <2>5, <2>6
<1>. QED BY <1>2, <1>3

\* knx_got remove of an id the table holds is a Delete: the slot that
\* carried it is the only one, and it is emptied.
LEMMA RemoveRefines ==
  ASSUME IInv, NEW id \in Ids, GotRemove(id), find_index_by_id(id) # NotFound
  PROVE  [Abs!Next]_AbsTable
<1> DEFINE index == find_index_by_id(id)
<1>1. index \in IdSlots(got, id)
  <2>1. IdSlots(got, id) # {}
    BY FirstOfSlot DEF find_index_by_id, IdSlots, Occupied
  <2>. QED BY <2>1, FirstOfSlot DEF find_index_by_id, IdSlots, Occupied
<1>2. IdSlots(got, id) = {index} BY <1>1, IdSlotsUnique
<1>3. /\ got' = [got EXCEPT ![index] =
                   [@ EXCEPT !.href = NoHref, !.ga_len = 0, !.ga = NoBuf]]
      /\ mem' = mem
  BY DEF GotRemove, delete_entry
<1>4. /\ \A s \in Slot : s # index => got'[s] = got[s]
      /\ got'[index].ga_len = 0
  BY <1>1, <1>3 DEF IInv, TypeOK, IdSlots
<1>5. IdSlots(got', id) = {} BY <1>2, <1>4 DEF IdSlots
<1>6. ASSUME NEW i \in Ids, i # id
      PROVE  AbsAt(got', mem', i) = AbsAt(got, mem, i)
  <2>1. index \notin IdSlots(got', i) /\ index \notin IdSlots(got, i)
    BY <1>1, <1>4, <1>6 DEF IdSlots
  <2>2. IdSlots(got', i) = IdSlots(got, i) BY <2>1, <1>4 DEF IdSlots
  <2>3. \A s \in IdSlots(got, i) :
          got'[s] = got[s] /\ mem'[got[s].ga] = mem[got[s].ga]
    BY <2>1, <1>3, <1>4 DEF IdSlots
  <2>. QED BY <2>2, <2>3, AbsAtFrame
<1>7. AbsTable[id] # Abs!Absent
  BY <1>1, StoredNotAbsent, AbsTableAt DEF Abs!Absent
<1>8. AbsTable' = [AbsTable EXCEPT ![id] = Abs!Absent]
  BY <1>5, <1>6, AbsAtAbsent, AbsTableAt DEF Abs!Absent
<1>9. Abs!Delete(id) BY <1>7, <1>8 DEF Abs!Delete
<1>. QED BY <1>9 DEF Abs!Next

\* knx_factoryreset empties every slot: a Wipe.
LEMMA FactoryResetRefines ==
  ASSUME KnxFactoryReset
  PROVE  [Abs!Next]_AbsTable
<1>1. \A i \in Ids : IdSlots(got', i) = {}
  BY DEF KnxFactoryReset, IdSlots, EmptyEntry
<1>2. AbsTable' = [i \in Ids |-> Abs!Absent]
  BY <1>1, AbsAtAbsent, AbsTableAt DEF Abs!Absent
<1>. QED BY <1>2 DEF Abs!Next, Abs!Wipe

\* Every step of the shell and of the GET handler is a step of the
\* abstract table or leaves it alone.
LEMMA NextRefines == IInv /\ [Next]_vars => [Abs!Next]_AbsTable
<1> SUFFICES ASSUME IInv, [Next]_vars PROVE [Abs!Next]_AbsTable OBVIOUS
<1>1. CASE \E argc \in ArgCounts, gaToken \in BOOLEAN :
             \/ GotAddBadArgs(argc, gaToken)
             \/ GotAddNotRuntime(argc, gaToken)
             \/ \E id \in Ids : GotAddIdInUse(argc, gaToken, id)
             \/ \E id \in Ids, uri \in Uris, gas \in AddInputs(argc) :
                  GotAddStore(argc, gaToken, id, uri, gas)
  <2>1. PICK argc \in ArgCounts, gaToken \in BOOLEAN :
             \/ GotAddBadArgs(argc, gaToken)
             \/ GotAddNotRuntime(argc, gaToken)
             \/ \E id \in Ids : GotAddIdInUse(argc, gaToken, id)
             \/ \E id \in Ids, uri \in Uris, gas \in AddInputs(argc) :
                  GotAddStore(argc, gaToken, id, uri, gas)
    BY <1>1
  <2>2. CASE \/ GotAddBadArgs(argc, gaToken)
             \/ GotAddNotRuntime(argc, gaToken)
             \/ \E id \in Ids : GotAddIdInUse(argc, gaToken, id)
    BY <2>2, TableUnchangedStutter
       DEF GotAddBadArgs, GotAddNotRuntime, GotAddIdInUse, Reject
  <2>3. CASE \E id \in Ids, uri \in Uris, gas \in AddInputs(argc) :
               GotAddStore(argc, gaToken, id, uri, gas)
    BY <2>3, StoreRefines
  <2>. QED BY <2>1, <2>2, <2>3
<1>2. CASE GotOther \/ GotShow \/ GotRemoveBadArgs
  BY <1>2, TableUnchangedStutter DEF GotOther, GotShow, GotRemoveBadArgs, Reject
<1>3. CASE \E id \in Ids : GotRemove(id)
  <2>1. PICK id \in Ids : GotRemove(id) BY <1>3
  <2>2. CASE find_index_by_id(id) # NotFound BY <2>1, <2>2, RemoveRefines
  <2>3. CASE find_index_by_id(id) = NotFound
    BY <2>1, <2>3, TableUnchangedStutter DEF GotRemove, Reject
  <2>. QED BY <2>2, <2>3
<1>4. CASE \/ \E v \in 0..1 : KnxIa(v) \/ KnxIid(v)
           \/ KnxLoaded
  BY <1>4, TableUnchangedStutter DEF KnxIa, KnxIid, KnxLoaded
<1>5. CASE KnxFactoryReset BY <1>5, FactoryResetRefines
<1>6. CASE GetNext
  BY <1>6, TableUnchangedStutter
     DEF GetNext, GetFindEntry, GetLoadGa, GetLoadGaLen, GetEncodeGa, shellVars
<1>7. CASE UNCHANGED vars BY <1>7, TableUnchangedStutter DEF vars, shellVars
<1>. QED BY <1>1, <1>2, <1>3, <1>4, <1>5, <1>6, <1>7 DEF Next, ShellNext

\* The empty table of knx_main is the empty map.
LEMMA InitRefines == Init => Abs!Init
<1> SUFFICES ASSUME Init PROVE Abs!Init OBVIOUS
<1>1. \A i \in Ids : IdSlots(got, i) = {} BY DEF Init, IdSlots, EmptyEntry
<1>. QED BY <1>1, AbsAtAbsent, AbsTableAt DEF Abs!Init, Abs!Absent

-----------------------------------------------------------------------------
(* Subscriptions.  GroupsJoinedUnlessPoolFull is inductive together with  *)
(* IInv: an add joins the groups of the table it has just written until   *)
(* the pool is full, a remove only empties a slot and leaves the pool as  *)
(* it is, and a reset empties both.                                       *)

\* After oc_register_group_multicasts every group the table refers to is
\* joined, or the pool is full: the joins stop only at NO_BUFS.
LEMMA RegisterCovers ==
  ASSUME NEW t, NEW m, ReferencedGAs(t, m) \subseteq GAs, subscribed \subseteq GAs,
         NEW S \in register_group_multicasts(t, m)
  PROVE  ReferencedGAs(t, m) \subseteq S \/ Cardinality(S) = MAX_EXT_MCAST
<1> DEFINE W == subscribed \cup ReferencedGAs(t, m)
<1>1. S \subseteq W /\ IsFiniteSet(W)
  BY GAsAssumption, FS_Subset DEF register_group_multicasts
<1>2. CASE Cardinality(W) <= MAX_EXT_MCAST
  <2>1. Cardinality(S) = Cardinality(W)
    BY <1>2 DEF register_group_multicasts
  <2>2. S = W BY <1>1, <2>1, FS_Subset
  <2>. QED BY <2>2
<1>3. CASE ~(Cardinality(W) <= MAX_EXT_MCAST)
  BY <1>3 DEF register_group_multicasts
<1>. QED BY <1>2, <1>3

\* Emptying slots and leaving the others as they are adds no group address.
LEMMA ReferencedShrinks ==
  ASSUME NEW t, NEW t2, NEW m,
         \A s \in Slot : t2[s].ga_len > 0 => t2[s] = t[s]
  PROVE  ReferencedGAs(t2, m) \subseteq ReferencedGAs(t, m)
<1> SUFFICES ASSUME NEW x \in ReferencedGAs(t2, m) PROVE x \in ReferencedGAs(t, m)
  OBVIOUS
<1>1. PICK s \in Slot : t2[s].ga_len > 0 /\ x \in GroupAddresses(t2, m, s)
  BY DEF ReferencedGAs
<1>2. t2[s] = t[s] BY <1>1
<1>3. GroupAddresses(t2, m, s) = GroupAddresses(t, m, s)
  BY <1>2 DEF GroupAddresses
<1>. QED BY <1>1, <1>2, <1>3 DEF ReferencedGAs

LEMMA NextCover ==
  ASSUME IInv, IInv', GroupsJoinedUnlessPoolFull, [Next]_vars
  PROVE  GroupsJoinedUnlessPoolFull'
<1> USE DEF GroupsJoinedUnlessPoolFull
<1>0. ASSUME UNCHANGED <<got, mem, subscribed>> PROVE GroupsJoinedUnlessPoolFull'
  BY <1>0
<1>1. CASE \E argc \in ArgCounts, gaToken \in BOOLEAN :
             \/ GotAddBadArgs(argc, gaToken)
             \/ GotAddNotRuntime(argc, gaToken)
             \/ \E id \in Ids : GotAddIdInUse(argc, gaToken, id)
             \/ \E id \in Ids, uri \in Uris, gas \in AddInputs(argc) :
                  GotAddStore(argc, gaToken, id, uri, gas)
  <2>1. PICK argc \in ArgCounts, gaToken \in BOOLEAN :
             \/ GotAddBadArgs(argc, gaToken)
             \/ GotAddNotRuntime(argc, gaToken)
             \/ \E id \in Ids : GotAddIdInUse(argc, gaToken, id)
             \/ \E id \in Ids, uri \in Uris, gas \in AddInputs(argc) :
                  GotAddStore(argc, gaToken, id, uri, gas)
    BY <1>1
  <2>2. CASE \/ GotAddBadArgs(argc, gaToken)
             \/ GotAddNotRuntime(argc, gaToken)
             \/ \E id \in Ids : GotAddIdInUse(argc, gaToken, id)
    BY <2>2, <1>0 DEF GotAddBadArgs, GotAddNotRuntime, GotAddIdInUse, Reject
  <2>3. CASE \E id \in Ids, uri \in Uris, gas \in AddInputs(argc) :
               GotAddStore(argc, gaToken, id, uri, gas)
    \* Either branch registers the groups of the table as the step
    \* leaves it.
    <3>1. PICK id \in Ids, uri \in Uris, gas \in AddInputs(argc) :
            GotAddStore(argc, gaToken, id, uri, gas)
      BY <2>3
    <3>2. subscribed' \in register_group_multicasts(got', mem')
      BY <3>1 DEF GotAddStore
    <3>3. ReferencedGAs(got', mem') \subseteq GAs /\ subscribed \subseteq GAs
      BY ReferencedGAsType DEF IInv, TypeOK, GaStored, Occupied
    <3>. QED BY <3>2, <3>3, RegisterCovers
  <2>. QED BY <2>1, <2>2, <2>3
<1>2. CASE GotOther \/ GotShow \/ GotRemoveBadArgs
  BY <1>2, <1>0 DEF GotOther, GotShow, GotRemoveBadArgs, Reject
<1>3. CASE \E id \in Ids : GotRemove(id)
  <2>1. PICK id \in Ids : GotRemove(id) BY <1>3
  <2>2. CASE find_index_by_id(id) # NotFound
    <3> DEFINE index == find_index_by_id(id)
    <3>1. index \in Slot
      <4>1. {s \in Slot : Occupied(s) /\ got[s].id = id} # {}
        BY <2>2, FirstOfSlot DEF find_index_by_id
      <4>. QED BY <4>1, FirstOfSlot DEF find_index_by_id
    <3>2. /\ got' = [got EXCEPT ![index] =
                       [@ EXCEPT !.href = NoHref, !.ga_len = 0, !.ga = NoBuf]]
          /\ UNCHANGED <<mem, subscribed>>
      BY <2>1, <2>2 DEF GotRemove, delete_entry
    <3>3. \A s \in Slot : got'[s].ga_len > 0 => got'[s] = got[s]
      BY <3>1, <3>2 DEF IInv, TypeOK
    <3>4. ReferencedGAs(got', mem') \subseteq ReferencedGAs(got, mem)
      BY <3>2, <3>3, ReferencedShrinks
    <3>. QED BY <3>2, <3>4
  <2>3. CASE find_index_by_id(id) = NotFound
    BY <2>1, <2>3, <1>0 DEF GotRemove, Reject
  <2>. QED BY <2>2, <2>3
<1>4. CASE \/ \E v \in 0..1 : KnxIa(v) \/ KnxIid(v)
           \/ KnxLoaded
  BY <1>4, <1>0 DEF KnxIa, KnxIid, KnxLoaded
<1>5. CASE KnxFactoryReset
  <2>1. {s \in Slot : got'[s].ga_len > 0} = {}
    BY <1>5 DEF KnxFactoryReset, EmptyEntry
  <2>. QED BY <2>1 DEF ReferencedGAs
<1>6. CASE GetNext
  BY <1>6, <1>0
     DEF GetNext, GetFindEntry, GetLoadGa, GetLoadGaLen, GetEncodeGa, shellVars
<1>7. CASE UNCHANGED vars BY <1>7, <1>0 DEF vars, shellVars
<1>. QED BY <1>1, <1>2, <1>3, <1>4, <1>5, <1>6, <1>7 DEF Next, ShellNext

-----------------------------------------------------------------------------
(* The theorems.                                                            *)

\* The knx_got add and remove commands and knx_factoryreset, on top of the
\* stack's linear slot scans and with the stale ids remove leaves behind,
\* implement the abstract Group Object Table: an id is stored only when
\* absent and the table has room, an entry is only removed whole, and a
\* rejected command, a command with no group address, a write past a full
\* g_got or a GET request leaves the map of ids to entries alone.
THEOREM GotImplementsAbstract == Spec => GotRefinesAbstract
<1>1. IInv /\ [Next]_vars => [Abs!Next]_AbsTable BY NextRefines
<1>. QED BY <1>1, InitRefines, InitIInv, NextIInv, PTL
         DEF Spec, GotRefinesAbstract, Abs!Spec

\* The same for the shell alone, the specification the refinement run
\* checks.
THEOREM ShellImplementsAbstract == ShellSpec => GotRefinesAbstract
<1>1. [ShellNext]_vars => [Next]_vars BY DEF Next
<1>2. IInv /\ [ShellNext]_vars => IInv' BY <1>1, NextIInv
<1>3. IInv /\ [ShellNext]_vars => [Abs!Next]_AbsTable BY <1>1, NextRefines
<1>. QED BY <1>2, <1>3, InitRefines, InitIInv, PTL
         DEF ShellSpec, GotRefinesAbstract, Abs!Spec

\* Whatever sequence of knx_got add and remove commands, factory resets and
\* GET requests runs, and in whatever order oc_register_group_multicasts
\* subscribes, a group address an occupied slot of g_got lists is left
\* unjoined only when OpenThread's external multicast pool is full, the
\* NO_BUFS that oc_connectivity_subscribe_mcast_ipv6 drops.
THEOREM GroupsJoined == Spec => []GroupsJoinedUnlessPoolFull
<1>1. Init => IInv /\ GroupsJoinedUnlessPoolFull
  <2>1. {s \in Slot : got[s].ga_len > 0} = {} \/ ~Init
    BY DEF Init, EmptyEntry
  <2>. QED BY <2>1, InitIInv DEF GroupsJoinedUnlessPoolFull, ReferencedGAs
<1>2. IInv /\ GroupsJoinedUnlessPoolFull /\ [Next]_vars
        => (IInv /\ GroupsJoinedUnlessPoolFull)'
  BY NextIInv, NextCover
<1>. QED BY <1>1, <1>2, PTL DEF Spec
=============================================================================
