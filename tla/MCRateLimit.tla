----------------------------- MODULE MCRateLimit -----------------------------
(***************************************************************************)
(* Instances of RateLimit for TLC.  An in-memory limiter is asked by two   *)
(* addresses, each of which prunes the other's bucket.  Addresses have     *)
(* nothing in common in Redis but the connections: one is enough there.    *)
(***************************************************************************)
EXTENDS RateLimit

CONSTANTS a1, a2

TwoAndOne == [memory |-> {a1, a2}, redis |-> {a1}]
=============================================================================
