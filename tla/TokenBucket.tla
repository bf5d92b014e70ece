----------------------------- MODULE TokenBucket -----------------------------
(***************************************************************************)
(* What a client may rely on in a limiter of Limit requests a minute: an   *)
(* ideal bucket per address.  Credit is counted in units of which a        *)
(* request costs Minute and a tick of the clock earns Limit, so nothing is *)
(* rounded.  A request is let through exactly when a whole request's worth *)
(* of credit is there, and loses the client less than one more.            *)
(***************************************************************************)
EXTENDS Integers

CONSTANTS Addrs, Limit, Minute

VARIABLES
    credit,  \* address -> units of credit
    answer   \* the last decision: the address, and whether it was let through

vars == <<credit, answer>>

Full == Limit * Minute

Init ==
    /\ credit = [a \in Addrs |-> Full]
    /\ answer \in [addr : Addrs, allowed : {TRUE}]

Allow(a) ==
    /\ \E spilt \in 0..Minute - 1 :
          /\ credit[a] >= Minute + spilt
          /\ credit' = [credit EXCEPT ![a] = @ - Minute - spilt]
    /\ answer' = [addr |-> a, allowed |-> TRUE]

Refuse(a) ==
    /\ credit[a] < Minute
    /\ answer' = [addr |-> a, allowed |-> FALSE]
    /\ UNCHANGED credit

Earned(c) == IF c + Limit >= Full THEN Full ELSE c + Limit

Tick ==
    /\ credit' = [a \in Addrs |-> Earned(credit[a])]
    /\ UNCHANGED answer

\* The process ends and its successor knows no address.
Forget ==
    /\ credit' = [a \in Addrs |-> Full]
    /\ UNCHANGED answer

Next ==
    \/ \E a \in Addrs : Allow(a) \/ Refuse(a)
    \/ Tick \/ Forget

Spec == Init /\ [][Next]_vars
=============================================================================
