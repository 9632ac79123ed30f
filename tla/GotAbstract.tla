----------------------------- MODULE GotAbstract -----------------------------
(***************************************************************************)
(* What the Group Object Table promises its users (spec.md 3, 4.1, 8): a   *)
(* bounded map from group object id to an entry (href and group address    *)
(* list).  An id is inserted only when it is absent and there is room,    *)
(* with at least one group address; an entry is only ever removed whole;  *)
(* a factory reset wipes the map.  Nothing else ever changes an entry.     *)
(***************************************************************************)
EXTENDS Integers, Sequences, FiniteSets

CONSTANTS
  Capacity,   \* GOT_MAX_ENTRIES
  Ids,        \* group object ids
  Uris,       \* hrefs
  GaLists,    \* the group address lists an insert may carry
  NoHref      \* marks an absent id

VARIABLE table

Absent == [href |-> NoHref, gas |-> <<>>]

Stored == {i \in Ids : table[i] # Absent}

Init == table = [i \in Ids |-> Absent]

Insert(i, uri, gas) ==
  /\ table[i] = Absent
  /\ Cardinality(Stored) < Capacity
  /\ gas # <<>>
  /\ table' = [table EXCEPT ![i] = [href |-> uri, gas |-> gas]]

Delete(i) ==
  /\ table[i] # Absent
  /\ table' = [table EXCEPT ![i] = Absent]

Wipe == table' = [i \in Ids |-> Absent]

Next ==
  \/ \E i \in Ids, uri \in Uris, gas \in GaLists : Insert(i, uri, gas)
  \/ \E i \in Ids : Delete(i)
  \/ Wipe

Spec == Init /\ [][Next]_table
=============================================================================
