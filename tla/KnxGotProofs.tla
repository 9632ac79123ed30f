---------------------------- MODULE KnxGotProofs ----------------------------
(***************************************************************************)
(* Proofs about the Group Object Table and its shell handler (KnxGot), for *)
(* every number of slots, every set of ids, hrefs, group addresses,        *)
(* argument counts and heap addresses, and both readings of the ownership  *)
(* contract of oc_core_set_group_object_table.                            *)
(*                                                                         *)
(* The type invariant is not inductive by itself: a knx_got add computes   *)
(* the multicast groups to join from the group addresses every occupied    *)
(* slot lists, read through the slot's ga pointer, so the step needs to    *)
(* know that an occupied slot points to an allocation that holds ga_len    *)
(* addresses (GaStored).  That in turn needs the allocation to have been   *)
(* handed out (heap # "unused"), so that the fresh allocation of a later   *)
(* add is never one an occupied slot points to.                           *)
(***************************************************************************)
EXTENDS KnxGot, WellFoundedInduction, TLAPS

\* An occupied slot points to an allocation that was handed out and holds
\* exactly ga_len group addresses.
GaStored ==
  \A s \in Slot :
    Occupied(s) => /\ got[s].ga \in Bufs
                   /\ heap[got[s].ga] \in {"live", "freed"}
                   /\ got[s].ga_len = Len(mem[got[s].ga])

IInv == TypeOK /\ GaStored /\ GotIdsUnique

-----------------------------------------------------------------------------
(* Lemmas about the operators the table is built from.                     *)

\* Every non-empty set of naturals has a least element.
LEMMA MinExists ==
  ASSUME NEW T \in SUBSET Nat, T # {}
  PROVE  \E x \in T : \A y \in T : x <= y
<1>1. PICK x \in T : \A y \in T : ~(<<y, x>> \in OpToRel(<, Nat))
  BY NatLessThanWellFounded, WFMin
<1>2. ASSUME NEW y \in T PROVE x <= y
  <2>1. ~(<<y, x>> \in OpToRel(<, Nat)) BY <1>1
  <2>2. <<y, x>> \in Nat \X Nat OBVIOUS
  <2>3. ~(y < x) BY <2>1, <2>2 DEF OpToRel
  <2>4. QED BY <2>3
<1>3. QED BY <1>2

\* A linear scan of the table finds a slot exactly when some slot passes
\* its test, and the slot it returns passes it.
LEMMA FirstOfSlot ==
  ASSUME NEW S \in SUBSET Slot
  PROVE  /\ FirstOf(S) = NotFound <=> S = {}
         /\ S # {} => FirstOf(S) \in S
<1>1. CASE S = {} BY <1>1 DEF FirstOf
<1>2. CASE S # {}
  <2>1. S \subseteq Nat BY SlotsAssumption DEF Slot
  <2>2. \E x \in S : \A y \in S : x <= y BY <2>1, <1>2, MinExists
  <2>3. FirstOf(S) \in S BY <2>2, <1>2, Zenon DEF FirstOf
  <2>4. NotFound \notin S BY DEF NotFound, Slot
  <2>5. QED BY <1>2, <2>3, <2>4
<1>3. QED BY <1>1, <1>2

\* The group addresses a table refers to are group addresses, when every
\* occupied slot points to an allocation holding at least ga_len of them.
LEMMA ReferencedGAsType ==
  ASSUME NEW t \in [Slot -> Entry], NEW m \in [Bufs -> Seq(GAs)],
         \A s \in Slot : t[s].ga_len > 0 =>
                           t[s].ga \in Bufs /\ t[s].ga_len = Len(m[t[s].ga])
  PROVE  ReferencedGAs(t, m) \subseteq GAs
<1> SUFFICES ASSUME NEW x \in ReferencedGAs(t, m) PROVE x \in GAs OBVIOUS
<1>1. PICK s \in Slot : t[s].ga_len > 0 /\ x \in GroupAddresses(t, m, s)
  BY DEF ReferencedGAs
<1>2. PICK k \in 1..t[s].ga_len : x = m[t[s].ga][k] BY <1>1 DEF GroupAddresses
<1>3. t[s].ga \in Bufs /\ t[s].ga_len = Len(m[t[s].ga]) BY <1>1
<1>4. QED BY <1>2, <1>3

\* oc_register_group_multicasts joins only groups already joined or
\* referenced by the table.
LEMMA RegisterJoinsWanted ==
  ASSUME NEW t, NEW m, NEW S \in register_group_multicasts(t, m)
  PROVE  S \subseteq subscribed \cup ReferencedGAs(t, m)
BY DEF register_group_multicasts

\* The group addresses of one knx_got add form a finite sequence.
LEMMA AddInputsSeq ==
  ASSUME NEW argc \in ArgCounts, NEW gas \in AddInputs(argc)
  PROVE  gas \in Seq(GAs)
<1>1. argc - 5 \in Nat BY ArgCountsAssumption
<1>2. QED BY <1>1 DEF AddInputs

-----------------------------------------------------------------------------
(* The invariant holds initially and every step keeps it.                  *)

\* The empty table, as knx_main and a factory reset leave it.
LEMMA EmptyTableType ==
  /\ [s \in Slot |-> EmptyEntry] \in [Slot -> Entry]
  /\ [b \in Bufs |-> "unused"] \in [Bufs -> BufState]
  /\ [b \in Bufs |-> <<>>] \in [Bufs -> Seq(GAs)]
  /\ RdIdle \in RdState
<1>1. EmptyEntry \in Entry BY DEF EmptyEntry, Entry, NoId, NoBuf
<1>2. QED BY <1>1 DEF BufState, RdState

LEMMA InitIInv == Init => IInv
<1> SUFFICES ASSUME Init PROVE IInv OBVIOUS
<1>1. TypeOK BY EmptyTableType DEF Init, TypeOK, Results
<1>2. \A s \in Slot : ~Occupied(s) BY DEF Init, Occupied, EmptyEntry
<1>3. QED BY <1>1, <1>2 DEF IInv, GaStored, GotIdsUnique

\* A command that only sets its return code keeps the invariant.
LEMMA RejectIInv ==
  ASSUME IInv, NEW code \in Results, Reject(code)
  PROVE  IInv'
BY DEF Reject, IInv, TypeOK, GaStored, GotIdsUnique, Occupied

\* A step that leaves the table, the heap and the subscriptions alone and
\* keeps the reader's state well typed keeps the invariant.
LEMMA TableUnchangedIInv ==
  ASSUME IInv, UNCHANGED <<got, heap, mem, subscribed, oobWrite>>,
         lsmLoaded' \in BOOLEAN, ia' \in Nat, iid' \in Nat,
         result' \in Results, rd' \in RdState
  PROVE  IInv'
BY DEF IInv, TypeOK, GaStored, GotIdsUnique, Occupied

\* knx_got add that finds a free slot, or writes past the table.
LEMMA StoreIInv ==
  ASSUME IInv, NEW argc \in ArgCounts, NEW gaToken \in BOOLEAN,
         NEW id \in Ids, NEW uri \in Uris, NEW gas \in AddInputs(argc),
         GotAddStore(argc, gaToken, id, uri, gas)
  PROVE  IInv'
<1> DEFINE index == find_empty_slot(id)
<1>1. gas \in Seq(GAs) BY AddInputsSeq
<1>2. find_index_by_id(id) = NotFound BY DEF GotAddStore
<1>3. \A s \in Slot : Occupied(s) => got[s].id # id
  <2>1. {s \in Slot : Occupied(s) /\ got[s].id = id} = {}
    BY <1>2, FirstOfSlot DEF find_index_by_id
  <2>2. QED BY <2>1
<1>4. ReferencedGAs(got, mem) \subseteq GAs
  BY ReferencedGAsType DEF IInv, TypeOK, GaStored, Occupied
<1>5. CASE index = NotFound
  <2>1. /\ subscribed' \in register_group_multicasts(got, mem)
        /\ UNCHANGED <<got, heap, mem, lsmLoaded, ia, iid, rd>>
        /\ oobWrite' = TRUE /\ result' = "ok"
    BY <1>5 DEF GotAddStore
  <2>2. subscribed' \subseteq GAs
    BY <2>1, <1>4, RegisterJoinsWanted DEF IInv, TypeOK
  <2>3. QED BY <2>1, <2>2 DEF IInv, TypeOK, GaStored, GotIdsUnique,
                              Occupied, Results
<1>6. CASE index # NotFound
  <2>1. index \in Slot /\ ~Occupied(index)
    <3>1. {s \in Slot : ~Occupied(s) /\ got[s].id # id} # {}
      BY <1>6, FirstOfSlot DEF find_empty_slot
    <3>2. QED BY <3>1, FirstOfSlot DEF find_empty_slot
  <2>2. PICK b \in Bufs :
          /\ heap[b] = "unused"
          /\ set_entry(index, id, uri, gas, b)
          /\ subscribed' \in register_group_multicasts(got', mem')
          /\ heap' = [heap EXCEPT ![b] =
                        IF TableTakesOwnership THEN "freed" ELSE "live"]
    BY <1>6 DEF GotAddStore
  <2>3. /\ UNCHANGED <<lsmLoaded, ia, iid, rd, oobWrite>>
        /\ result' = "ok"
    BY <1>6 DEF GotAddStore
  <2>4. got' = [got EXCEPT ![index] =
                  [id |-> id, href |-> uri, ga_len |-> Len(gas), ga |-> b]]
        /\ mem' = [mem EXCEPT ![b] = gas]
    BY <2>2 DEF set_entry
  <2>5. got' \in [Slot -> Entry]
    BY <2>1, <2>4, <1>1 DEF IInv, TypeOK, Entry
  <2>6. mem' \in [Bufs -> Seq(GAs)] BY <2>4, <1>1 DEF IInv, TypeOK
  <2>7. heap' \in [Bufs -> BufState] BY <2>2 DEF IInv, TypeOK, BufState
  <2>8. GaStored'
    <3> SUFFICES ASSUME NEW s \in Slot, got'[s].ga_len > 0
                 PROVE  /\ got'[s].ga \in Bufs
                        /\ heap'[got'[s].ga] \in {"live", "freed"}
                        /\ got'[s].ga_len = Len(mem'[got'[s].ga])
      BY DEF GaStored, Occupied
    <3>1. CASE s = index BY <3>1, <2>1, <2>2, <2>4, <1>1 DEF IInv, TypeOK
    <3>2. CASE s # index
      <4>1. got'[s] = got[s] /\ Occupied(s) BY <3>2, <2>4 DEF IInv, TypeOK, Occupied
      <4>2. got[s].ga # b BY <4>1, <2>2 DEF IInv, GaStored
      <4>3. QED BY <4>1, <4>2, <2>2, <2>4 DEF IInv, GaStored, TypeOK
    <3>3. QED BY <3>1, <3>2
  <2>9. subscribed' \subseteq GAs
    <3>1. ReferencedGAs(got', mem') \subseteq GAs
      BY <2>5, <2>6, <2>8, ReferencedGAsType DEF GaStored, Occupied
    <3>2. QED BY <3>1, <2>2, RegisterJoinsWanted DEF IInv, TypeOK
  <2>10. GotIdsUnique'
    <3> SUFFICES ASSUME NEW s \in Slot, NEW t \in Slot,
                        got'[s].ga_len > 0, got'[t].ga_len > 0,
                        got'[s].id = got'[t].id
                 PROVE  s = t
      BY DEF GotIdsUnique, Occupied
    <3>1. \A u \in Slot : u # index => got'[u] = got[u]
      BY <2>4 DEF IInv, TypeOK
    <3>2. got'[index].id = id BY <2>1, <2>4 DEF IInv, TypeOK
    <3>3. CASE s # index /\ t # index
      BY <3>1, <3>3 DEF IInv, GotIdsUnique, Occupied
    <3>4. CASE s = index /\ t # index BY <3>1, <3>2, <3>4, <1>3 DEF Occupied
    <3>5. CASE s # index /\ t = index BY <3>1, <3>2, <3>5, <1>3 DEF Occupied
    <3>6. QED BY <3>3, <3>4, <3>5
  <2>11. QED BY <2>3, <2>5, <2>6, <2>7, <2>8, <2>9, <2>10
               DEF IInv, TypeOK, Results
<1>7. QED BY <1>5, <1>6

\* knx_got remove of an id the table holds.
LEMMA RemoveIInv ==
  ASSUME IInv, NEW id \in Ids, GotRemove(id),
         find_index_by_id(id) # NotFound
  PROVE  IInv'
<1> DEFINE index == find_index_by_id(id)
<1>1. index \in Slot
  <2>1. {s \in Slot : Occupied(s) /\ got[s].id = id} # {}
    BY FirstOfSlot DEF find_index_by_id
  <2>2. QED BY <2>1, FirstOfSlot DEF find_index_by_id
<1>2. /\ delete_entry(index)
      /\ result' = "ok"
      /\ UNCHANGED <<mem, subscribed, lsmLoaded, ia, iid, oobWrite, rd>>
  BY DEF GotRemove
<1>3. got' = [got EXCEPT ![index] =
               [@ EXCEPT !.href = NoHref, !.ga_len = 0, !.ga = NoBuf]]
  BY <1>2 DEF delete_entry
<1>4. \A s \in Slot : s # index => got'[s] = got[s] BY <1>1, <1>3 DEF IInv, TypeOK
<1>5. got'[index].ga_len = 0 BY <1>1, <1>3 DEF IInv, TypeOK
<1>6. got' \in [Slot -> Entry] BY <1>1, <1>3 DEF IInv, TypeOK, Entry
<1>7. heap' \in [Bufs -> BufState] /\ \A c \in Bufs : heap[c] # "unused" => heap'[c] # "unused"
  BY <1>2 DEF delete_entry, IInv, TypeOK, BufState
<1>8. GaStored' BY <1>2, <1>4, <1>5, <1>7 DEF IInv, GaStored, Occupied, TypeOK, BufState
<1>9. GotIdsUnique' BY <1>4, <1>5 DEF IInv, GotIdsUnique, Occupied
<1>10. QED BY <1>2, <1>6, <1>7, <1>8, <1>9 DEF IInv, TypeOK, Results

LEMMA FactoryResetIInv == KnxFactoryReset => IInv'
<1> SUFFICES ASSUME KnxFactoryReset PROVE IInv' OBVIOUS
<1>1. TypeOK' BY EmptyTableType DEF KnxFactoryReset, TypeOK, Results
<1>2. \A s \in Slot : ~Occupied(s)' BY DEF KnxFactoryReset, Occupied, EmptyEntry
<1>3. QED BY <1>1, <1>2 DEF IInv, GaStored, GotIdsUnique

\* A step of the GET handler keeps the reader's state well typed.
LEMMA GetIInv == IInv /\ GetNext => IInv'
<1> SUFFICES ASSUME IInv, GetNext PROVE IInv' OBVIOUS
<1>1. UNCHANGED shellVars BY DEF GetNext, GetFindEntry, GetLoadGa,
                                 GetLoadGaLen, GetEncodeGa
<1>2. rd' \in RdState
  <2>1. CASE \E uri \in Uris : GetFindEntry(uri)
    <3>1. PICK uri \in Uris : GetFindEntry(uri) BY <2>1
    <3>2. find_url_index(uri) \in Slot
      BY <3>1, FirstOfSlot DEF GetFindEntry, find_url_index
    <3>3. QED BY <3>1, <3>2 DEF GetFindEntry, RdState, RdIdle
  <2>2. CASE GetLoadGa
    <3>1. rd \in [pc : {"entry"}, slot : Slot, ptr : Bufs \cup {NoBuf},
                len : Nat, ptrRead : BOOLEAN, lenRead : BOOLEAN]
      BY <2>2 DEF GetLoadGa, IInv, TypeOK, RdState, RdIdle
    <3>2. got[rd.slot] \in Entry BY <3>1 DEF IInv, TypeOK
    <3>3. QED BY <2>2, <3>1, <3>2 DEF GetLoadGa, RdState, Entry
  <2>3. CASE GetLoadGaLen
    <3>1. rd \in [pc : {"entry"}, slot : Slot, ptr : Bufs \cup {NoBuf},
                len : Nat, ptrRead : BOOLEAN, lenRead : BOOLEAN]
      BY <2>3 DEF GetLoadGaLen, IInv, TypeOK, RdState, RdIdle
    <3>2. got[rd.slot] \in Entry BY <3>1 DEF IInv, TypeOK
    <3>3. QED BY <2>3, <3>1, <3>2 DEF GetLoadGaLen, RdState, Entry
  <2>4. CASE GetEncodeGa BY <2>4 DEF GetEncodeGa, RdState
  <2>5. QED BY <2>1, <2>2, <2>3, <2>4 DEF GetNext
<1>3. QED BY <1>1, <1>2, TableUnchangedIInv DEF shellVars, IInv, TypeOK

LEMMA NextIInv == IInv /\ [Next]_vars => IInv'
<1> SUFFICES ASSUME IInv, [Next]_vars PROVE IInv' OBVIOUS
<1>1. CASE \E argc \in ArgCounts, gaToken \in BOOLEAN :
             \/ GotAddBadArgs(argc, gaToken)
             \/ GotAddNotRuntime(argc, gaToken)
             \/ \E id \in Ids : GotAddIdInUse(argc, gaToken, id)
             \/ \E id \in Ids, uri \in Uris, gas \in AddInputs(argc) :
                  GotAddStore(argc, gaToken, id, uri, gas)
  <2>1. PICK argc \in ArgCounts, gaToken \in BOOLEAN :
             \/ GotAddBadArgs(argc, gaToken)
             \/ GotAddNotRuntime(argc, gaToken)
             \/ \E id \in Ids : GotAddIdInUse(argc, gaToken, id)
             \/ \E id \in Ids, uri \in Uris, gas \in AddInputs(argc) :
                  GotAddStore(argc, gaToken, id, uri, gas)
    BY <1>1
  <2>2. CASE GotAddBadArgs(argc, gaToken)
    BY <2>2, RejectIInv DEF GotAddBadArgs, Results
  <2>3. CASE GotAddNotRuntime(argc, gaToken)
    BY <2>3, RejectIInv DEF GotAddNotRuntime, Results
  <2>4. CASE \E id \in Ids : GotAddIdInUse(argc, gaToken, id)
    BY <2>4, RejectIInv DEF GotAddIdInUse, Results
  <2>5. CASE \E id \in Ids, uri \in Uris, gas \in AddInputs(argc) :
               GotAddStore(argc, gaToken, id, uri, gas)
    BY <2>5, StoreIInv
  <2>6. QED BY <2>1, <2>2, <2>3, <2>4, <2>5
<1>2. CASE GotOther \/ GotShow \/ GotRemoveBadArgs
  BY <1>2, RejectIInv DEF GotOther, GotShow, GotRemoveBadArgs, Results
<1>3. CASE \E id \in Ids : GotRemove(id)
  <2>1. PICK id \in Ids : GotRemove(id) BY <1>3
  <2>2. CASE find_index_by_id(id) # NotFound BY <2>1, <2>2, RemoveIInv
  <2>3. CASE find_index_by_id(id) = NotFound
    BY <2>1, <2>3, RejectIInv DEF GotRemove, Results
  <2>4. QED BY <2>2, <2>3
<1>4. CASE \E v \in 0..1 : KnxIa(v) \/ KnxIid(v)
  BY <1>4, TableUnchangedIInv DEF KnxIa, KnxIid, IInv, TypeOK, Results
<1>5. CASE KnxLoaded
  BY <1>5, TableUnchangedIInv DEF KnxLoaded, IInv, TypeOK
<1>6. CASE KnxFactoryReset BY <1>6, FactoryResetIInv
<1>7. CASE GetNext BY <1>7, GetIInv
<1>8. CASE UNCHANGED vars
  BY <1>8 DEF vars, shellVars, IInv, TypeOK, GaStored, GotIdsUnique, Occupied
<1>9. QED BY <1>1, <1>2, <1>3, <1>4, <1>5, <1>6, <1>7, <1>8
          DEF Next, ShellNext

-----------------------------------------------------------------------------
(* The theorems.                                                            *)

\* Every state the shell commands and the GET handler reach is well typed:
\* in particular a "ga" reply is only ever built from a slot index of g_got.
THEOREM TypeCorrect == Spec => []TypeOK
<1>1. IInv => TypeOK BY DEF IInv
<1>2. QED BY InitIInv, NextIInv, <1>1, PTL DEF Spec

\* Whatever sequence of knx_got add and remove commands (with the stale
\* ids remove leaves behind) and factory resets is run, no two occupied
\* slots of g_got carry the same group object id.
THEOREM IdsUnique == Spec => []GotIdsUnique
<1>1. IInv => GotIdsUnique BY DEF IInv
<1>2. QED BY InitIInv, NextIInv, <1>1, PTL DEF Spec
=============================================================================
