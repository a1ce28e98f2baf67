----------------------------- MODULE MCTransport -----------------------------
(***************************************************************************)
(* One peer and the broadcast queue, two flushes and two sends at once:    *)
(* every pair of calls meets on a queue.                                   *)
(***************************************************************************)
EXTENDS DelayTolerantTransport
=============================================================================
