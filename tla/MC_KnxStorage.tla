---------------------------- MODULE MC_KnxStorage ----------------------------
(* TLC instance of KnxStorage: one store of the stack and the fabric id   *)
(* store, two byte symbols, values of up to two symbols.                   *)
EXTENDS KnxStorage

CONSTANTS st_a, st_fid

MCStores == {st_a, st_fid}

\* Store names that fit every key_name buffer.
MCNameLen == [s \in MCStores |-> IF s = st_fid THEN 11 ELSE 27]

=============================================================================
