-------------------------------- MODULE Auth --------------------------------
(***************************************************************************)
(* The Auth facade (src/src/auth.cpp): registration, login, sessions,      *)
(* account reset and device management, called by concurrent request       *)
(* threads that share one Auth and one StorageAdapter.                     *)
(*                                                                         *)
(* Auth itself holds no lock and keeps no state: between two storage calls *)
(* of one operation any other thread may run.  A thread's step is          *)
(* therefore one storage call together with the local computation that     *)
(* follows it; the first step of an operation checks its arguments, which  *)
(* for an HMAC'ed or signed token includes the check of its expiry.        *)
(***************************************************************************)
EXTENDS AuthStorage, Integers, FiniteSets

CONSTANTS
    Threads,            \* request threads of the server
    Nonces,             \* bounds the magic tokens and challenges issued
    Ops,                \* the operations clients call in this instance
    NilUser,            \* the id generate_uuid returns when its generator fails
    OtpDevice,          \* user -> the device id derive_device_id gives its id
    RevokeAllOnReset,   \* AuthConfig::revoke_all_on_reset
    StorageMayFail,     \* whether a storage call may throw
    MagicTtl, SessionTtl, ChallengeTtl,
    MaxTime,            \* bounds the clock
    InitialUsers, InitialDevices    \* the tables when the server starts

OpNames ==
    {"begin_registration", "complete_registration", "begin_login",
     "complete_login", "verify_session", "logout", "begin_reset",
     "complete_reset", "begin_add_device", "complete_add_device",
     "revoke_device", "create_session", "otp_login"}

\* Device ids of public keys: a hash collides with no other.
KeyDevices == Devices \ {OtpDevice[u] : u \in Users}

ASSUME AuthAssumption ==
    /\ None \notin Nonces
    /\ Ops \subseteq OpNames \cup {"deactivate_user", "restart"}
    /\ RevokeAllOnReset \in BOOLEAN
    /\ StorageMayFail \in BOOLEAN
    /\ {MagicTtl, SessionTtl, ChallengeTtl, MaxTime} \subseteq Nat
    /\ InitialUsers \in [Users -> UserRecord]
    /\ InitialDevices \in [Devices -> DeviceRecord]
    /\ \A u, v \in Users : InitialUsers[u].email = InitialUsers[v].email =>
                             u = v \/ InitialUsers[u].email = None
    /\ \A d \in Devices : InitialDevices[d].owner \in Users =>
                             InitialUsers[InitialDevices[d].owner].email # None
    /\ NilUser \in Users
    /\ OtpDevice \in [Users -> Devices]
    /\ \A u, v \in Users : OtpDevice[u] = OtpDevice[v] => u = v
    /\ \A u \in Users : InitialDevices[OtpDevice[u]].owner \in {u, None}

VARIABLES
    now,        \* the server's clock
    grants,     \* nonce -> magic token or login challenge issued with it
    sessions,   \* session tokens issued
    pc,         \* thread -> the storage call it makes next
    loc,        \* thread -> the locals of the operation it runs
    redeemed    \* history: nonce -> sessions obtained with it, counted to 2

vars == <<users, devices, now, grants, sessions, pc, loc, redeemed>>

Grant == [kind : {"none", "Register", "Reset", "AddDevice", "Challenge"},
          user : Users \cup {None},
          exp  : Nat]

Session == [user : Users, device : Devices, exp : Nat]

Labels == {"idle", "find_new_email", "create_user", "get_user", "update_user",
           "add_device", "find_login_email", "login_devices", "login_device",
           "login_user", "resolve_user", "resolve_device", "own_device",
           "revoke", "find_reset_email", "list_devices", "find_otp_email",
           "get_otp_device", "add_otp_device"}

Local == [op     : OpNames \cup {"none"},
          email  : Emails \cup {None},
          user   : Users \cup {None},
          device : Devices \cup {None},   \* the key presented, or the session's
          grant  : Nonces \cup {None},
          todo   : SUBSET Devices,        \* devices still to be revoked
          listed : SUBSET Devices,        \* complete_reset's get_devices result
          live   : BOOLEAN]               \* history: see resolve_user

NoLocal == [op |-> "none", email |-> None, user |-> None, device |-> None,
            grant |-> None, todo |-> {}, listed |-> {}, live |-> FALSE]

TypeOK ==
    /\ StorageTypeOK
    /\ now \in 0..MaxTime
    /\ grants \in [Nonces -> Grant]
    /\ sessions \subseteq Session
    /\ pc \in [Threads -> Labels]
    /\ loc \in [Threads -> Local]
    /\ redeemed \in [Nonces -> 0..2]

Init ==
    /\ users = InitialUsers
    /\ devices = InitialDevices
    /\ now = 0
    /\ grants = [n \in Nonces |-> [kind |-> "none", user |-> None, exp |-> 0]]
    /\ sessions = {}
    /\ pc = [t \in Threads |-> "idle"]
    /\ loc = [t \in Threads |-> NoLocal]
    /\ redeemed = [n \in Nonces |-> 0]

----------------------------------------------------------------------------
(* Control flow, and the tokens the server hands out. *)

Begin(t, first, locals) ==
    /\ locals.op \in Ops
    /\ pc[t] = "idle"
    /\ pc' = [pc EXCEPT ![t] = first]
    /\ loc' = [loc EXCEPT ![t] = locals]
    /\ UNCHANGED <<users, devices, now, grants, sessions, redeemed>>

Goto(t, label) == pc' = [pc EXCEPT ![t] = label] /\ UNCHANGED loc

Return(t) ==
    /\ pc' = [pc EXCEPT ![t] = "idle"]
    /\ loc' = [loc EXCEPT ![t] = NoLocal]

\* create_magic_token and generate_challenge draw a fresh nonce, or fail.
Issue(kind, u, ttl) ==
    \/ \E n \in Nonces :
          /\ grants[n].kind = "none"
          /\ grants' = [grants EXCEPT ![n] =
                           [kind |-> kind, user |-> u, exp |-> now + ttl]]
    \/ UNCHANGED grants

\* verify_magic_token, verify_challenge: kind, MAC and expiry.  Nothing
\* records that the token was used.
ValidGrant(n, kind) == grants[n].kind = kind /\ now <= grants[n].exp

\* make_session signs a token for u and d, or fails.
make_session(t, u, d) ==
    \/ /\ sessions' = sessions \cup
                        {[user |-> u, device |-> d, exp |-> now + SessionTtl]}
       /\ redeemed' = IF loc[t].grant = None \/ redeemed[loc[t].grant] = 2
                        THEN redeemed
                        ELSE [redeemed EXCEPT ![loc[t].grant] = @ + 1]
    \/ UNCHANGED <<sessions, redeemed>>

\* verify_token: signature and expiry of a session token.
ValidSession(s) == now <= s.exp

----------------------------------------------------------------------------
(* Registration. *)

begin_registration(t, e) ==
    Begin(t, "find_new_email",
          [NoLocal EXCEPT !.op = "begin_registration", !.email = e])

FindNewEmail(t) ==
    /\ pc[t] = "find_new_email"
    /\ IF get_user_by_email(loc[t].email) = {}
         THEN Goto(t, "create_user")
         ELSE Return(t)
    /\ UNCHANGED <<users, devices, now, grants, sessions, redeemed>>

\* An id that was not returned before, or the nil UUID, again and again, when
\* no random bytes are to be had: its callers go on with it.
generate_uuid ==
    {NilUser} \cup
    {u \in Users : ~get_user_by_id(u) /\ \A n \in Nonces : grants[n].user # u}

CreateUser(t) ==
    /\ pc[t] = "create_user"
    /\ \E u \in generate_uuid :
          /\ users' = create_user(u, loc[t].email)
          /\ IF create_user_ok(u, loc[t].email)
               THEN Issue("Register", u, MagicTtl)
               ELSE UNCHANGED grants
    /\ Return(t)
    /\ UNCHANGED <<devices, now, sessions, redeemed>>

\* The three operations that end in add_device start alike: the magic token
\* names the user, who must exist.
CompleteWithLink(t, op, kind, n, d) ==
    /\ ValidGrant(n, kind)
    /\ Begin(t, "get_user",
             [NoLocal EXCEPT !.op = op, !.user = grants[n].user,
                             !.device = d, !.grant = n])

complete_registration(t, n, d) ==
    CompleteWithLink(t, "complete_registration", "Register", n, d)

complete_reset(t, n, d) == CompleteWithLink(t, "complete_reset", "Reset", n, d)

complete_add_device(t, n, d) ==
    CompleteWithLink(t, "complete_add_device", "AddDevice", n, d)

AfterGetUser(op) ==
    IF op = "complete_registration" THEN "update_user"
    ELSE IF op = "complete_reset" /\ RevokeAllOnReset THEN "list_devices"
    ELSE "add_device"

GetUser(t) ==
    /\ pc[t] = "get_user"
    /\ IF get_user_by_id(loc[t].user)
         THEN /\ pc' = [pc EXCEPT ![t] = AfterGetUser(loc[t].op)]
              /\ loc' = [loc EXCEPT ![t].email = users[loc[t].user].email]
         ELSE Return(t)
    /\ UNCHANGED <<users, devices, now, grants, sessions, redeemed>>

\* Writes back the row GetUser copied, with active set.
UpdateUser(t) ==
    /\ pc[t] = "update_user"
    /\ users' = update_user(loc[t].user,
                            [email |-> loc[t].email, active |-> TRUE])
    /\ Goto(t, "add_device")
    /\ UNCHANGED <<devices, now, grants, sessions, redeemed>>

AddDevice(t) ==
    /\ pc[t] = "add_device"
    /\ devices' = add_device(loc[t].device, loc[t].user)
    /\ IF add_device_ok(loc[t].device)
         THEN make_session(t, loc[t].user, loc[t].device)
         ELSE UNCHANGED <<sessions, redeemed>>
    /\ Return(t)
    /\ UNCHANGED <<users, now, grants>>

----------------------------------------------------------------------------
(* Login. *)

begin_login(t, e) ==
    Begin(t, "find_login_email",
          [NoLocal EXCEPT !.op = "begin_login", !.email = e])

FindLoginEmail(t) ==
    /\ pc[t] = "find_login_email"
    /\ \/ /\ get_user_by_email(loc[t].email) = {}
          /\ Return(t)
       \/ \E u \in get_user_by_email(loc[t].email) :
             /\ pc' = [pc EXCEPT ![t] = "login_devices"]
             /\ loc' = [loc EXCEPT ![t].user = u]
    /\ UNCHANGED <<users, devices, now, grants, sessions, redeemed>>

\* A challenge is bound to nobody; it is issued if some device could use it.
LoginDevices(t) ==
    /\ pc[t] = "login_devices"
    /\ IF \E d \in get_devices(loc[t].user) : ~devices[d].revoked
         THEN Issue("Challenge", None, ChallengeTtl)
         ELSE UNCHANGED grants
    /\ Return(t)
    /\ UNCHANGED <<users, devices, now, sessions, redeemed>>

\* The caller holds d's private key and has signed challenge n.
complete_login(t, n, d) ==
    /\ ValidGrant(n, "Challenge")
    /\ Begin(t, "login_device",
             [NoLocal EXCEPT !.op = "complete_login", !.device = d, !.grant = n])

LoginDevice(t) ==
    /\ pc[t] = "login_device"
    /\ IF get_device(loc[t].device) /\ ~devices[loc[t].device].revoked
         THEN /\ pc' = [pc EXCEPT ![t] = "login_user"]
              /\ loc' = [loc EXCEPT ![t].user = devices[loc[t].device].owner]
         ELSE Return(t)
    /\ UNCHANGED <<users, devices, now, grants, sessions, redeemed>>

LoginUser(t) ==
    /\ pc[t] = "login_user"
    /\ IF get_user_by_id(loc[t].user) /\ users[loc[t].user].active
         THEN make_session(t, loc[t].user, loc[t].device)
         ELSE UNCHANGED <<sessions, redeemed>>
    /\ Return(t)
    /\ UNCHANGED <<users, devices, now, grants>>

----------------------------------------------------------------------------
(* Sessions.  resolve_session makes two reads; create_session makes the    *)
(* same two with the same checks, for ids another auth method verified.    *)

WithSession(t, op, first, s, targets) ==
    /\ ValidSession(s)
    /\ Begin(t, first, [NoLocal EXCEPT !.op = op, !.user = s.user,
                                       !.device = s.device, !.todo = targets])

\* refresh_session has the same body.
verify_session(t, s) == WithSession(t, "verify_session", "resolve_user", s, {})

begin_add_device(t, s) ==
    WithSession(t, "begin_add_device", "resolve_user", s, {})

revoke_device_of(t, s, d) ==
    WithSession(t, "revoke_device", "resolve_user", s, {d})

\* logout(token, true): the token is verified, the session is not resolved.
logout(t, s) == WithSession(t, "logout", "own_device", s, {s.device})

create_session(t, u, d) ==
    Begin(t, "resolve_user", [NoLocal EXCEPT !.op = "create_session",
                                             !.user = u, !.device = d])

\* d is registered to u and not revoked.
DeviceLive(u, d) == devices[d].owner = u /\ ~devices[d].revoked

UserActive(u) == get_user_by_id(u) /\ users[u].active

\* live records whether the device, too, would have passed at this moment.
ResolveUser(t) ==
    /\ pc[t] = "resolve_user"
    /\ IF UserActive(loc[t].user)
         THEN /\ pc' = [pc EXCEPT ![t] = "resolve_device"]
              /\ loc' = [loc EXCEPT ![t].live =
                            DeviceLive(loc[t].user, loc[t].device)]
         ELSE Return(t)
    /\ UNCHANGED <<users, devices, now, grants, sessions, redeemed>>

ResolveDevice(t) ==
    /\ pc[t] = "resolve_device"
    /\ UNCHANGED <<users, devices, now>>
    /\ \/ /\ ~DeviceLive(loc[t].user, loc[t].device)
          /\ Return(t)
          /\ UNCHANGED <<grants, sessions, redeemed>>
       \/ /\ DeviceLive(loc[t].user, loc[t].device)
          /\ \/ /\ loc[t].op \in {"verify_session", "create_session", "otp_login"}
                /\ make_session(t, loc[t].user, loc[t].device)
                /\ Return(t)
                /\ UNCHANGED grants
             \/ /\ loc[t].op = "begin_add_device"
                /\ Issue("AddDevice", loc[t].user, MagicTtl)
                /\ Return(t)
                /\ UNCHANGED <<sessions, redeemed>>
             \/ /\ loc[t].op = "revoke_device"
                /\ Goto(t, "own_device")
                /\ UNCHANGED <<grants, sessions, redeemed>>

\* Mutant: the owner is not compared.
OwnDeviceUnchecked(t) ==
    /\ pc[t] = "own_device"
    /\ Goto(t, "revoke")
    /\ UNCHANGED <<users, devices, now, grants, sessions, redeemed>>

\* The device about to be revoked must belong to the caller's account.
OwnDevice(t) ==
    /\ pc[t] = "own_device"
    /\ IF \A d \in loc[t].todo : devices[d].owner = loc[t].user
         THEN Goto(t, "revoke")
         ELSE Return(t)
    /\ UNCHANGED <<users, devices, now, grants, sessions, redeemed>>

\* Mutant: the loop ends after its first device.
AfterRevokeFirst(t, d) ==
    IF loc[t].op = "complete_reset"
      THEN /\ loc' = [loc EXCEPT ![t].todo = {}]
           /\ pc' = [pc EXCEPT ![t] = "add_device"]
      ELSE Return(t)

AfterRevoke(t, d) ==
    IF loc[t].todo # {d}
      THEN /\ loc' = [loc EXCEPT ![t].todo = @ \ {d}]
           /\ UNCHANGED pc
      ELSE IF loc[t].op = "complete_reset"
             THEN /\ loc' = [loc EXCEPT ![t].todo = {}]
                  /\ pc' = [pc EXCEPT ![t] = "add_device"]
             ELSE Return(t)

Revoke(t) ==
    /\ pc[t] = "revoke"
    /\ \E d \in loc[t].todo :
          /\ devices' = revoke_device(d)
          /\ AfterRevoke(t, d)
    /\ UNCHANGED <<users, now, grants, sessions, redeemed>>

----------------------------------------------------------------------------
(* Account reset. *)

begin_reset(t, e) ==
    Begin(t, "find_reset_email",
          [NoLocal EXCEPT !.op = "begin_reset", !.email = e])

\* An unknown address gets a link for a generated id: one nobody has or ever
\* gets (None), or the nil UUID, which may have an account.
IssueDummyReset ==
    \E u \in {None, NilUser} : Issue("Reset", u, MagicTtl)

FindResetEmail(t) ==
    /\ pc[t] = "find_reset_email"
    /\ \/ get_user_by_email(loc[t].email) = {} /\ IssueDummyReset
       \/ \E u \in get_user_by_email(loc[t].email) : Issue("Reset", u, MagicTtl)
    /\ Return(t)
    /\ UNCHANGED <<users, devices, now, sessions, redeemed>>

ListDevices(t) ==
    /\ pc[t] = "list_devices"
    /\ LET mine == get_devices(loc[t].user)
       IN  /\ pc' = [pc EXCEPT ![t] =
                        IF mine = {} THEN "add_device" ELSE "revoke"]
           /\ loc' = [loc EXCEPT ![t].todo = mine, ![t].listed = mine]
    /\ UNCHANGED <<users, devices, now, grants, sessions, redeemed>>

----------------------------------------------------------------------------
(* The login of /auth/otp/verify, once OTPServer::verify has accepted a code *)
(* sent to address e: the account gets a device of its own for such logins. *)

otp_login(t, e) ==
    Begin(t, "find_otp_email", [NoLocal EXCEPT !.op = "otp_login", !.email = e])

FindOtpEmail(t) ==
    /\ pc[t] = "find_otp_email"
    /\ \/ Return(t)     \* no active account, or derive_device_id fails
       \/ \E u \in get_user_by_email(loc[t].email) :
             /\ users[u].active
             /\ pc' = [pc EXCEPT ![t] = "get_otp_device"]
             /\ loc' = [loc EXCEPT ![t].user = u, ![t].device = OtpDevice[u]]
    /\ UNCHANGED <<users, devices, now, grants, sessions, redeemed>>

\* From here on it is create_session.
GetOtpDevice(t) ==
    /\ pc[t] = "get_otp_device"
    /\ Goto(t, IF get_device(loc[t].device) THEN "resolve_user"
                                           ELSE "add_otp_device")
    /\ UNCHANGED <<users, devices, now, grants, sessions, redeemed>>

\* Mutant: a login whose add_device is refused ends there.
AfterAddOtpDevice_checked(t) ==
    IF add_device_ok(loc[t].device) THEN Goto(t, "resolve_user") ELSE Return(t)

\* The result of add_device is dropped.
AfterAddOtpDevice(t) == Goto(t, "resolve_user")

AddOtpDevice(t) ==
    /\ pc[t] = "add_otp_device"
    /\ devices' = add_device(loc[t].device, loc[t].user)
    /\ AfterAddOtpDevice(t)
    /\ UNCHANGED <<users, now, grants, sessions, redeemed>>

----------------------------------------------------------------------------
(* The environment. *)

\* The application deactivates an account through the adapter.
DeactivateUser(u) ==
    /\ "deactivate_user" \in Ops
    /\ get_user_by_id(u)
    /\ users' = deactivate_user(u)
    /\ UNCHANGED <<devices, now, grants, sessions, pc, loc, redeemed>>

Tick ==
    /\ now < MaxTime
    /\ now' = now + 1
    /\ UNCHANGED <<users, devices, grants, sessions, pc, loc, redeemed>>

\* A Postgres call throws and reports failure without effect.  The operation
\* returns the error, except where the code ignores it: begin_registration
\* and begin_reset take it for an unknown address, complete_reset and the
\* login by OTP go on.
\* (A statement that was applied although its reply was lost is the same as
\* the applied call followed by a failure of the next call or signature.)
StorageError(t) ==
    /\ StorageMayFail
    /\ pc[t] # "idle"
    /\ UNCHANGED <<users, devices, now, sessions, redeemed>>
    /\ \/ /\ pc[t] = "find_new_email"
          /\ Goto(t, "create_user")
          /\ UNCHANGED grants
       \/ /\ pc[t] = "find_reset_email"
          /\ IssueDummyReset
          /\ Return(t)
       \/ /\ pc[t] = "list_devices"
          /\ Goto(t, "add_device")
          /\ UNCHANGED grants
       \/ /\ pc[t] = "revoke" /\ loc[t].op = "complete_reset"
          /\ \E d \in loc[t].todo : AfterRevoke(t, d)
          /\ UNCHANGED grants
       \/ /\ pc[t] = "get_otp_device"
          /\ Goto(t, "add_otp_device")
          /\ UNCHANGED grants
       \/ /\ pc[t] = "add_otp_device"
          /\ Goto(t, "resolve_user")
          /\ UNCHANGED grants
       \/ /\ pc[t] \notin {"find_new_email", "find_reset_email", "list_devices",
                           "get_otp_device", "add_otp_device"}
          /\ loc[t].op # "complete_reset" \/ pc[t] # "revoke"
          /\ Return(t)
          /\ UNCHANGED grants

\* The server process dies and comes back with the same keys: requests in
\* flight are gone, the database and the tokens in clients' hands are not.
Restart ==
    /\ "restart" \in Ops
    /\ Adapter = "postgres"
    /\ pc' = [t \in Threads |-> "idle"]
    /\ loc' = [t \in Threads |-> NoLocal]
    /\ UNCHANGED <<users, devices, now, grants, sessions, redeemed>>

----------------------------------------------------------------------------

\* The REST routes (src/rest/server.cpp): a handler refuses malformed fields
\* and makes one call of the facade.  Every other route that asks for a session
\* verifies it the same way.
RegisterRoutes(t) ==
    \/ \E e \in Emails : begin_registration(t, e)
    \/ \E n \in Nonces, d \in KeyDevices : complete_registration(t, n, d)

LoginRoutes(t) ==
    \/ \E e \in Emails : begin_login(t, e)
    \/ \E n \in Nonces, d \in KeyDevices : complete_login(t, n, d)

SessionRoutes(t) == \E s \in sessions : verify_session(t, s) \/ logout(t, s)

ResetRoutes(t) ==
    \/ \E e \in Emails : begin_reset(t, e)
    \/ \E n \in Nonces, d \in KeyDevices : complete_reset(t, n, d)

DeviceRoutes(t) ==
    \/ \E n \in Nonces, d \in KeyDevices : complete_add_device(t, n, d)
    \/ \E s \in sessions :
          \/ begin_add_device(t, s)
          \/ \E d \in Devices : revoke_device_of(t, s, d)

\* The routes of the other auth methods end in create_session.
Receive(t) ==
    \/ RegisterRoutes(t) \/ LoginRoutes(t) \/ SessionRoutes(t)
    \/ ResetRoutes(t) \/ DeviceRoutes(t)
    \/ \E u \in Users, d \in Devices : create_session(t, u, d)
    \/ \E e \in Emails : otp_login(t, e)

Proceed(t) ==
    \/ FindNewEmail(t) \/ CreateUser(t) \/ GetUser(t) \/ UpdateUser(t)
    \/ AddDevice(t) \/ FindLoginEmail(t) \/ LoginDevices(t) \/ LoginDevice(t)
    \/ LoginUser(t) \/ ResolveUser(t) \/ ResolveDevice(t) \/ OwnDevice(t)
    \/ Revoke(t) \/ FindResetEmail(t) \/ ListDevices(t)
    \/ FindOtpEmail(t) \/ GetOtpDevice(t) \/ AddOtpDevice(t)

Next ==
    \/ \E t \in Threads : Receive(t) \/ Proceed(t) \/ StorageError(t)
    \/ \E u \in Users : DeactivateUser(u)
    \/ Tick
    \/ Restart

Spec == Init /\ [][Next]_vars
=============================================================================
