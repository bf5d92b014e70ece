--------------------------- MODULE DeviceSessions ---------------------------
(***************************************************************************)
(* What a way to log in promises of the sessions it opens, every step      *)
(* atomic: a device is enrolled once, for one user and for good; a         *)
(* revocation is for good; a session is opened for the user of a device    *)
(* that is enrolled and not revoked at that moment, whenever and by        *)
(* whichever request the login began.  The biometric, push and WebAuthn    *)
(* logins, whose requests read and write the device table in calls of      *)
(* their own, are shown to implement this.                                 *)
(***************************************************************************)
CONSTANTS
    Users, Devices,
    Exchanges,  \* the challenges or requests by which a login is made
    None

VARIABLES
    devices,    \* device -> owner, None when it is not enrolled, and revoked
    sessions    \* <<user, device, exchange>>: sessions opened

Init ==
    /\ devices = [d \in Devices |-> [owner |-> None, revoked |-> FALSE]]
    /\ sessions = {}

Enrol(d, u) ==
    /\ devices[d].owner = None
    /\ devices' = [devices EXCEPT ![d] = [owner |-> u, revoked |-> FALSE]]
    /\ UNCHANGED sessions

Revoke(d) ==
    /\ devices[d].owner # None
    /\ devices' = [devices EXCEPT ![d].revoked = TRUE]
    /\ UNCHANGED sessions

Login(u, d, x) ==
    /\ devices[d] = [owner |-> u, revoked |-> FALSE]
    /\ sessions' = sessions \cup {<<u, d, x>>}
    /\ UNCHANGED devices

Next ==
    \E d \in Devices :
        \/ Revoke(d)
        \/ \E u \in Users : Enrol(d, u) \/ \E x \in Exchanges : Login(u, d, x)

Spec == Init /\ [][Next]_<<devices, sessions>>
=============================================================================
