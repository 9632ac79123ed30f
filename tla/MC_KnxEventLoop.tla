--------------------------- MODULE MC_KnxEventLoop ---------------------------
(***************************************************************************)
(* The instance of KnxEventLoop that TLC checks.  The bounds are in the    *)
(* .cfg files: a clock of 6 ms, a timer 2 ms after a handled datagram,     *)
(* 3 datagrams over 1 message buffer (so one can be dropped), and 100      *)
(* standing for 2^32 in the uint32 timeout.                                *)
(***************************************************************************)
EXTENDS KnxEventLoop
=============================================================================
