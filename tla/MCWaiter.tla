------------------------------ MODULE MCWaiter ------------------------------
(***************************************************************************)
(* Waiter for TLC.  Two wakers are enough to tell the latest from a stale  *)
(* one; nothing else in the protocol counts.                               *)
(***************************************************************************)
EXTENDS Waiter

CONSTANTS w1, w2

TwoWakers == {w1, w2}
=============================================================================
