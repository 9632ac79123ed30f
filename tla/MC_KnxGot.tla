----------------------------- MODULE MC_KnxGot -----------------------------
(***************************************************************************)
(* Model-checking instance of KnxGot: a table of two slots, two ids, two   *)
(* uri paths, two group addresses and commands carrying up to two of them. *)
(***************************************************************************)
EXTENDS KnxGot, TLC

CONSTANTS u1, u2, gaA, gaB, gaC

MCUris == {u1, u2}
\* Three group addresses against OpenThread's default pool of two
\* (OPENTHREAD_CONFIG_IP6_MAX_EXT_MCAST_ADDRS), so the pool fills.
MCGAs == {gaA, gaB, gaC}
\* Commands with no and with one group address after the "ga" token.
MCArgCounts == 5..6
\* One allocation per stored entry; three let a slot be emptied and
\* refilled while the other slot stays occupied.
MCBufs == 1..3

MCSymmetry == Permutations(MCUris) \cup Permutations(MCGAs)
=============================================================================
