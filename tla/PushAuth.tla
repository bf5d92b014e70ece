------------------------------ MODULE PushAuth ------------------------------
(***************************************************************************)
(* Push login: PushAuthServer (src/src/push_auth.cpp), the push devices of *)
(* the storage adapters, and the REST handlers that use them               *)
(* (src/rest/server.cpp).  The methods that touch requests_ run under its  *)
(* mutex and are one step: their only storage call is a read, and no step  *)
(* outside the mutex changes a request.  register_device and the handler   *)
(* of /auth/push/complete make several storage calls outside the mutex.    *)
(* A key is the device id derived from it; a signature over a challenge is *)
(* made by a device that was sent the challenge.                           *)
(***************************************************************************)
EXTENDS Integers

CONSTANTS
    Reqs,           \* bounds the requests begun
    Users, Keys, Threads,
    Adapter,        \* "memory" or "postgres"
    StorageMayFail, \* whether a call may report an error
    PushTtl,        \* AuthConfig::push_ttl
    MaxTime,        \* bounds the clock
    None

ASSUME PushAssumption ==
    /\ PushTtl \in Nat /\ MaxTime \in Nat
    /\ Adapter \in {"memory", "postgres"}
    /\ StorageMayFail \in BOOLEAN
    /\ None \notin Users /\ None \notin Reqs
    /\ None \notin Keys /\ "deny" \notin Keys

VARIABLES
    now,        \* now_sec()
    req,        \* requests_; an erased entry has status "gone"
    push,       \* key -> ez_push_devices row; owner None when there is none
    devices,    \* key -> ez_devices row
    known,      \* <<request, key>>: the device was sent the challenge
    pc, loc,    \* request threads between two storage calls
    tokens,     \* <<request, user, key>> -> session tokens, counted to 2
    registered, \* history: <<user, key>> register_device succeeded for
    decision    \* history: request -> the key that approved it, "deny", None

vars == <<now, req, push, devices, known, pc, loc, tokens, registered, decision>>

Request == [status : {"none", "Pending", "Approved", "Denied", "Expired", "gone"},
            user   : Users \cup {None},
            exp    : Nat,
            device : Keys \cup {None}]

PushRecord == [owner : Users \cup {None}, active : BOOLEAN]
DeviceRecord == [owner : Users \cup {None}, revoked : BOOLEAN]

Labels == {"idle", "add_push_device", "get_device", "add_device",
           "create_session"}

Local == [req : Reqs \cup {None}, user : Users \cup {None},
          key : Keys \cup {None}]

NoLocal == [req |-> None, user |-> None, key |-> None]

TypeOK ==
    /\ now \in 0..MaxTime
    /\ req \in [Reqs -> Request]
    /\ push \in [Keys -> PushRecord]
    /\ devices \in [Keys -> DeviceRecord]
    /\ known \subseteq Reqs \X Keys
    /\ pc \in [Threads -> Labels]
    /\ loc \in [Threads -> Local]
    /\ \A t \in Threads :
          /\ pc[t] # "idle" => loc[t].user \in Users /\ loc[t].key \in Keys
          /\ pc[t] \in {"get_device", "add_device", "create_session"} =>
                loc[t].req \in Reqs
    /\ tokens \in [Reqs \X Users \X Keys -> 0..2]
    /\ registered \subseteq Users \X Keys
    /\ decision \in [Reqs -> Keys \cup {None, "deny"}]

Init ==
    /\ now = 0
    /\ req = [r \in Reqs |-> [status |-> "none", user |-> None, exp |-> 0,
                              device |-> None]]
    /\ push = [k \in Keys |-> [owner |-> None, active |-> FALSE]]
    /\ devices = [k \in Keys |-> [owner |-> None, revoked |-> FALSE]]
    /\ known = {}
    /\ pc = [t \in Threads |-> "idle"]
    /\ loc = [t \in Threads |-> NoLocal]
    /\ tokens = [login \in Reqs \X Users \X Keys |-> 0]
    /\ registered = {}
    /\ decision = [r \in Reqs |-> None]

Goto(t, label, locals) ==
    /\ pc' = [pc EXCEPT ![t] = label]
    /\ loc' = [loc EXCEPT ![t] = locals]

Return(t) ==
    /\ pc' = [pc EXCEPT ![t] = "idle"]
    /\ loc' = [loc EXCEPT ![t] = NoLocal]

----------------------------------------------------------------------------
(* The push devices of an account. *)

get_push_device(k) == push[k].owner # None

\* First step, for a user who is logged in; an error counts as "not found".
register_device(t, u, k) ==
    /\ pc[t] = "idle"
    /\ ~get_push_device(k) \/ StorageMayFail
    /\ Goto(t, "add_push_device", [req |-> None, user |-> u, key |-> k])
    /\ UNCHANGED <<now, req, push, devices, known, tokens, registered, decision>>

\* Mutant: an existing row is overwritten.
add_push_device_upserts(u, k) ==
    [push EXCEPT ![k] = [owner |-> u, active |-> TRUE]]

\* ON CONFLICT DO NOTHING, or an error of the memory adapter.
add_push_device(u, k) ==
    IF get_push_device(k)
      THEN push
      ELSE [push EXCEPT ![k] = [owner |-> u, active |-> TRUE]]

\* Mutant: a conflict is not reported by any adapter.
add_push_device_ok_always(k) == k \in Keys

\* Postgres reports success for a row that was there already.
add_push_device_ok(k) == Adapter = "postgres" \/ ~get_push_device(k)

\* Second step.
AddPushDevice(t) ==
    /\ pc[t] = "add_push_device"
    /\ LET u == loc[t].user
           k == loc[t].key
       IN  \/ /\ push' = add_push_device(u, k)
              /\ registered' = IF add_push_device_ok(k)
                                 THEN registered \cup {<<u, k>>}
                                 ELSE registered
           \/ StorageMayFail /\ UNCHANGED <<push, registered>>
    /\ Return(t)
    /\ UNCHANGED <<now, req, devices, known, tokens, decision>>

deactivate_push_device(k) ==
    /\ get_push_device(k)
    /\ push' = [push EXCEPT ![k].active = FALSE]
    /\ UNCHANGED <<now, req, devices, known, pc, loc, tokens, registered, decision>>

----------------------------------------------------------------------------
(* The desktop. *)

Found(r) == req[r].status \notin {"none", "gone"}
is_expired(r) == now > req[r].exp
Open(r) == Found(r) /\ ~is_expired(r)

cleanup_expired ==
    [r \in Reqs |-> IF Found(r) /\ is_expired(r)
                      THEN [req[r] EXCEPT !.status = "gone"]
                      ELSE req[r]]

\* Pushes go to some of the account's active devices: a target was named, or
\* a sender fails.  Without a request when the generator fails.
begin_push_auth(u) ==
    /\ \/ \E r \in Reqs, sent \in SUBSET Keys :
             /\ now + PushTtl < MaxTime
             /\ req[r].status = "none"
             /\ \A k \in sent : push[k].owner = u /\ push[k].active
             /\ req' = [cleanup_expired EXCEPT ![r] =
                           [status |-> "Pending", user |-> u,
                            exp |-> now + PushTtl, device |-> None]]
             /\ known' = known \cup ({r} \X sent)
       \/ req' = cleanup_expired /\ UNCHANGED known
    /\ UNCHANGED <<now, push, devices, pc, loc, tokens, registered, decision>>

Expire(r) ==
    /\ Found(r) /\ is_expired(r)
    /\ req' = [req EXCEPT ![r].status = "Expired"]

poll_push_status(r) ==
    /\ Expire(r)
    /\ UNCHANGED <<now, push, devices, known, pc, loc, tokens, registered, decision>>

Completable(r) == req[r].status = "Approved"

\* The push device is read once more: its owner is logged in, and whether it
\* is still active is not looked at.
complete_push_auth(t, r) ==
    /\ pc[t] = "idle"
    /\ \/ Expire(r) /\ UNCHANGED <<pc, loc>>
       \/ /\ Open(r) /\ Completable(r)
          /\ get_push_device(req[r].device)
          /\ Goto(t, "get_device", [req |-> r, user |-> push[req[r].device].owner,
                                    key |-> req[r].device])
          /\ UNCHANGED req
    /\ UNCHANGED <<now, push, devices, known, tokens, registered, decision>>

\* An error counts as "not found".
GetDevice(t) ==
    /\ pc[t] = "get_device"
    /\ \/ /\ devices[loc[t].key].owner # None
          /\ pc' = [pc EXCEPT ![t] = "create_session"]
       \/ /\ devices[loc[t].key].owner = None \/ StorageMayFail
          /\ pc' = [pc EXCEPT ![t] = "add_device"]
    /\ UNCHANGED <<now, req, push, devices, known, loc, tokens, registered, decision>>

\* The result is not looked at.
AddDevice(t) ==
    /\ pc[t] = "add_device"
    /\ LET k == loc[t].key
       IN  \/ devices' = IF devices[k].owner = None
                           THEN [devices EXCEPT ![k] =
                                    [owner |-> loc[t].user, revoked |-> FALSE]]
                           ELSE devices
           \/ StorageMayFail /\ UNCHANGED devices
    /\ pc' = [pc EXCEPT ![t] = "create_session"]
    /\ UNCHANGED <<now, req, push, known, loc, tokens, registered, decision>>

\* Mutant: the owner of the device is not compared.
MayHaveSessionAnyOwner(u, k) == u \in Users /\ ~devices[k].revoked

MayHaveSession(u, k) == devices[k].owner = u /\ ~devices[k].revoked

CreateSession(t) ==
    /\ pc[t] = "create_session"
    /\ LET u == loc[t].user
           k == loc[t].key
           login == <<loc[t].req, u, k>>
       IN  \/ /\ MayHaveSession(u, k)
              /\ tokens' = [tokens EXCEPT ![login] = IF @ = 2 THEN 2 ELSE @ + 1]
           \/ UNCHANGED tokens
    /\ Return(t)
    /\ UNCHANGED <<now, req, push, devices, known, registered, decision>>

----------------------------------------------------------------------------
(* The phone. *)

MayApprove(k, r) == push[k].active /\ push[k].owner = req[r].user

approve_push(k, r) ==
    /\ <<r, k>> \in known
    /\ \/ Expire(r) /\ UNCHANGED decision
       \/ /\ Open(r)
          /\ req[r].status \notin {"Approved", "Denied"}
          /\ MayApprove(k, r)
          /\ req' = [req EXCEPT ![r].status = "Approved", ![r].device = k]
          /\ decision' = [decision EXCEPT ![r] = k]
    /\ UNCHANGED <<now, push, devices, known, pc, loc, tokens, registered>>

\* Mutant: an approved request may still be denied.
DeniableAlways(r) == req[r].status # "none"

Deniable(r) == req[r].status # "Approved"

deny_push(r) ==
    /\ \/ Expire(r) /\ UNCHANGED decision
       \/ /\ Open(r) /\ Deniable(r)
          /\ req' = [req EXCEPT ![r].status = "Denied"]
          /\ decision' = [decision EXCEPT ![r] = "deny"]
    /\ UNCHANGED <<now, push, devices, known, pc, loc, tokens, registered>>

----------------------------------------------------------------------------
(* The rest of the system. *)

\* The key is enrolled for challenge-response login, or revoked there.
EnrolDevice(u, k) ==
    /\ devices[k].owner = None
    /\ devices' = [devices EXCEPT ![k] = [owner |-> u, revoked |-> FALSE]]
    /\ UNCHANGED <<now, req, push, known, pc, loc, tokens, registered, decision>>

RevokeDevice(k) ==
    /\ devices[k].owner # None
    /\ devices' = [devices EXCEPT ![k].revoked = TRUE]
    /\ UNCHANGED <<now, req, push, known, pc, loc, tokens, registered, decision>>

Tick ==
    /\ now < MaxTime
    /\ now' = now + 1
    /\ UNCHANGED <<req, push, devices, known, pc, loc, tokens, registered, decision>>

\* Requests are in memory only; the tables survive.
Restart ==
    /\ req' = [r \in Reqs |-> IF Found(r) THEN [req[r] EXCEPT !.status = "gone"]
                                          ELSE req[r]]
    /\ pc' = [t \in Threads |-> "idle"]
    /\ loc' = [t \in Threads |-> NoLocal]
    /\ UNCHANGED <<now, push, devices, known, tokens, registered, decision>>

\* The REST routes.  A handler that needs a session resolves it first; all
\* that matters of it here is the user it names.
RegisterRoute(t) == \E u \in Users, k \in Keys : register_device(t, u, k)

DesktopRoutes(t) ==
    \/ \E u \in Users : begin_push_auth(u)
    \/ \E r \in Reqs : poll_push_status(r) \/ complete_push_auth(t, r)

PhoneRoutes ==
    \/ \E r \in Reqs : deny_push(r) \/ \E k \in Keys : approve_push(k, r)
    \/ \E k \in Keys : deactivate_push_device(k)

Next ==
    \/ \E t \in Threads :
          \/ RegisterRoute(t) \/ DesktopRoutes(t)
          \/ AddPushDevice(t) \/ GetDevice(t) \/ AddDevice(t) \/ CreateSession(t)
    \/ PhoneRoutes
    \/ \E k \in Keys : RevokeDevice(k) \/ \E u \in Users : EnrolDevice(u, k)
    \/ Tick \/ Restart

Spec == Init /\ [][Next]_vars

----------------------------------------------------------------------------

\* A token obtained by push is for the account the request was made for, and
\* for a device that approved it and is enrolled for that account in both
\* tables, even when the same key is enrolled for another account meanwhile.
TokenMatchesRequest ==
    \A r \in Reqs, u \in Users, k \in Keys :
        tokens[<<r, u, k>>] > 0 =>
            /\ req[r].user = u
            /\ decision[r] = k
            /\ push[k].owner = u
            /\ devices[k].owner = u

\* Whatever else enrols or revokes the key meanwhile, a login by push opens a
\* session only for the owner of the device row, while it is not revoked, and
\* never passes the row to another user or brings it back.
Sessions ==
    INSTANCE DeviceSessions WITH
        Devices <- Keys, Exchanges <- Reqs,
        sessions <- {s \in Users \X Keys \X Reqs : tokens[<<s[3], s[1], s[2]>>] > 0}

ImplementsDeviceSessions == Sessions!Spec

\* What a user said of a request stands until the request expires.
DecisionStands ==
    [][\A r \in Reqs :
          req[r].status \in {"Approved", "Denied"} /\ Found(r)' =>
              req'[r].status \in {req[r].status, "Expired"}]_vars

\* A key registered as a push device of one user never passes to another,
\* though the duplicate check and the insertion are two storage calls.
PushKeyKeepsOwner ==
    [][\A k \in Keys :
          push[k].owner # None => push'[k].owner = push[k].owner]_vars

----------------------------------------------------------------------------
(* What the repository says and the code does not do. *)

\* overview.md: challenges are single-use, push included.
OneLoginPerRequest ==
    \A login \in Reqs \X Users \X Keys : tokens[login] <= 1

\* push_auth.cpp, register_device: "Check for duplicate", which is reported as
\* "device already registered".
DuplicateIsReported ==
    \A u, v \in Users, k \in Keys :
        <<u, k>> \in registered /\ <<v, k>> \in registered => u = v
=============================================================================
