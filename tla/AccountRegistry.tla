-------------------------- MODULE AccountRegistry --------------------------
(***************************************************************************)
(* What the user and device tables promise, with every change atomic: one  *)
(* account per address, accounts that are only switched on and off, and    *)
(* devices that are bound to one existing account for ever and revoked for *)
(* ever.  Auth, whose operations take several storage calls each, is shown *)
(* to implement this.                                                      *)
(***************************************************************************)
CONSTANTS Users, Emails, Devices, None, InitialUsers, InitialDevices

VARIABLES users, devices

HasAccount(u) == users[u].email # None

Init == users = InitialUsers /\ devices = InitialDevices

CreateAccount(u, e) ==
    /\ ~HasAccount(u)
    /\ \A v \in Users : users[v].email # e
    /\ users' = [users EXCEPT ![u] = [email |-> e, active |-> FALSE]]
    /\ UNCHANGED devices

SetActive(u, on) ==
    /\ HasAccount(u)
    /\ users' = [users EXCEPT ![u] = [email |-> @.email, active |-> on]]
    /\ UNCHANGED devices

BindDevice(d, u) ==
    /\ devices[d].owner = None
    /\ HasAccount(u)
    /\ devices' = [devices EXCEPT ![d] = [owner |-> u, revoked |-> FALSE]]
    /\ UNCHANGED users

RevokeDevice(d) ==
    /\ devices[d].owner # None
    /\ devices' = [devices EXCEPT ![d].revoked = TRUE]
    /\ UNCHANGED users

Next ==
    \/ \E u \in Users :
          \/ \E e \in Emails : CreateAccount(u, e)
          \/ \E on \in BOOLEAN : SetActive(u, on)
          \/ \E d \in Devices : BindDevice(d, u)
    \/ \E d \in Devices : RevokeDevice(d)

Spec == Init /\ [][Next]_<<users, devices>>
=============================================================================
