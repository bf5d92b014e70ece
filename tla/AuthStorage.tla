---------------------------- MODULE AuthStorage ----------------------------
(***************************************************************************)
(* The user and device tables behind StorageAdapter, as Auth calls them.   *)
(* Every call is one atomic step: MemoryStorageAdapter holds its mutex for *)
(* the whole call, PostgresStorageAdapter issues one SQL statement.  The   *)
(* two adapters differ on a key that is already present: the memory        *)
(* adapter refuses it, the Postgres one says ON CONFLICT DO NOTHING and    *)
(* reports success.                                                        *)
(***************************************************************************)

CONSTANTS
    Users,      \* user ids generate_uuid can return
    Emails,     \* email addresses
    Devices,    \* device ids; make_device_id maps each public key to one
    None,       \* "no such value" for any of the above
    Adapter     \* which implementation of StorageAdapter is deployed

ASSUME StorageAssumption ==
    /\ None \notin Users /\ None \notin Emails /\ None \notin Devices
    /\ Adapter \in {"memory", "postgres"}

VARIABLES
    users,      \* user id -> record; email = None while there is no row
    devices     \* device id -> record; owner = None while there is no row

UserRecord == [email : Emails \cup {None}, active : BOOLEAN]
DeviceRecord == [owner : Users \cup {None}, revoked : BOOLEAN]

StorageTypeOK ==
    /\ users \in [Users -> UserRecord]
    /\ devices \in [Devices -> DeviceRecord]

----------------------------------------------------------------------------
(* Reads. *)

get_user_by_id(u) == u # None /\ users[u].email # None

get_user_by_email(e) == {u \in Users : users[u].email = e}

get_device(d) == devices[d].owner # None

get_devices(u) == {d \in Devices : devices[d].owner = u}

----------------------------------------------------------------------------
(* Writes: the table after the call, and whether the call reports success. *)

\* Mutant: the row is written whether or not the address is taken.
create_user_unchecked(u, e) == [users EXCEPT ![u] = [email |-> e, active |-> FALSE]]

\* Mutant: the row takes the schema's DEFAULT TRUE for active.
create_user_active(u, e) == [users EXCEPT ![u] = [email |-> e, active |-> TRUE]]

\* Neither the id nor the address has a row.
CanCreate(u, e) == ~get_user_by_id(u) /\ get_user_by_email(e) = {}

create_user(u, e) ==
    IF CanCreate(u, e)
      THEN [users EXCEPT ![u] = [email |-> e, active |-> FALSE]]
      ELSE users

create_user_ok(u, e) == Adapter = "postgres" \/ CanCreate(u, e)

\* The whole row is overwritten with the caller's copy.
update_user(u, row) ==
    IF get_user_by_id(u) THEN [users EXCEPT ![u] = row] ELSE users

deactivate_user(u) == [users EXCEPT ![u] = [email |-> @.email, active |-> FALSE]]

\* Mutant: ON CONFLICT DO UPDATE.
add_device_overwrites(d, u) ==
    [devices EXCEPT ![d] = [owner |-> u, revoked |-> FALSE]]

add_device(d, u) ==
    IF get_device(d)
      THEN devices
      ELSE [devices EXCEPT ![d] = [owner |-> u, revoked |-> FALSE]]

\* Mutant: a taken device id is not reported.
add_device_ok_always(d) == TRUE

add_device_ok(d) == Adapter = "postgres" \/ ~get_device(d)

revoke_device(d) ==
    IF get_device(d) THEN [devices EXCEPT ![d].revoked = TRUE] ELSE devices
=============================================================================
