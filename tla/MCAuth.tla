------------------------------- MODULE MCAuth -------------------------------
(***************************************************************************)
(* Instances of Auth for TLC.                                              *)
(***************************************************************************)
EXTENDS AuthProperties, TLC

CONSTANTS Keys, t1, t2, n1, n2, u1, u2, u3, e1, e2, e3, d1, d2, d3

OtpDevices == [u \in Users |-> <<"otp", u>>]
AllDevices == Keys \cup {OtpDevices[u] : u \in Users}

\* A server started on a database that holds two accounts with a device each.
TwoUsers ==
    [u \in Users |-> IF u = u1 THEN [email |-> e1, active |-> TRUE]
                     ELSE IF u = u2 THEN [email |-> e2, active |-> TRUE]
                     ELSE [email |-> None, active |-> FALSE]]
TwoDevices ==
    [d \in Devices |-> IF d = d1 THEN [owner |-> u1, revoked |-> FALSE]
                       ELSE IF d = d2 THEN [owner |-> u2, revoked |-> FALSE]
                       ELSE [owner |-> None, revoked |-> FALSE]]

\* One account with a device; the other keys are not yet registered.
OneUser ==
    [u \in Users |-> IF u = u1 THEN [email |-> e1, active |-> TRUE]
                     ELSE [email |-> None, active |-> FALSE]]
OneDevice ==
    [d \in Devices |-> [owner |-> IF d = d1 THEN u1 ELSE None,
                        revoked |-> FALSE]]

ThreadsAndNonces == Permutations(Threads) \cup Permutations(Nonces)
=============================================================================
