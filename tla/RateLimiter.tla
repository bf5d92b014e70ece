---------------------------- MODULE RateLimiter ----------------------------
(***************************************************************************)
(* IRateLimiter (src/rest/server.cpp): what the two limiters have in       *)
(* common.  A limit of 0 switches either of them off.                      *)
(***************************************************************************)
EXTENDS Integers

CONSTANTS
    Addrs,   \* client addresses
    Limit,   \* requests a minute
    Minute   \* ticks of the clock in a minute

ASSUME LimiterAssumption ==
    /\ Limit \in Nat \ {0}
    /\ Minute \in Nat \ {0}
=============================================================================
