----------------------------- MODULE AuthProofs -----------------------------
(***************************************************************************)
(* Theorems about the Auth facade, for any number of threads, users and    *)
(* devices, for either adapter, with or without storage errors.            *)
(***************************************************************************)
EXTENDS AuthProperties, TLAPS

(***************************************************************************)
(* The inductive invariant: what each thread may rely on at each label.    *)
(***************************************************************************)

\* Labels behind the get_user_by_id of a link-completing operation.
KnowsUser(t) ==
    \/ pc[t] \in {"update_user", "list_devices", "add_device"}
    \/ pc[t] = "revoke" /\ loc[t].op = "complete_reset"

Resolving(t) == pc[t] \in {"resolve_user", "resolve_device"}

AddsOtpDevice(t) == pc[t] \in {"get_otp_device", "add_otp_device"}

\* Operations that resolve a device which no session names.
GivenDevice == {"create_session", "otp_login"}

ThreadInv(t) ==
    /\ pc[t] \in {"find_new_email", "create_user", "find_otp_email"} =>
          loc[t].email \in Emails
    /\ pc[t] = "find_otp_email" => loc[t].op = "otp_login"
    /\ pc[t] \in {"get_user", "login_device"} => loc[t].device \in Devices
    /\ KnowsUser(t) =>
          /\ loc[t].user \in Users /\ get_user_by_id(loc[t].user)
          /\ loc[t].device \in Devices
    /\ pc[t] = "update_user" => loc[t].email = users[loc[t].user].email
    /\ pc[t] = "own_device" => loc[t].op # "complete_reset"
    /\ pc[t] = "login_user" =>
          loc[t].user \in Users /\ loc[t].device \in Devices
                                /\ get_device(loc[t].device)
    /\ Resolving(t) =>
          /\ loc[t].user \in Users /\ loc[t].device \in Devices
          /\ loc[t].op \notin GivenDevice => get_device(loc[t].device)
          /\ loc[t].op = "otp_login" => loc[t].device = OtpDevice[loc[t].user]
    /\ AddsOtpDevice(t) =>
          /\ loc[t].op = "otp_login"
          /\ loc[t].user \in Users /\ get_user_by_id(loc[t].user)
          /\ loc[t].device = OtpDevice[loc[t].user]
    /\ /\ pc[t] = "resolve_device" /\ loc[t].op \notin GivenDevice
       /\ DeviceLive(loc[t].user, loc[t].device)
       => loc[t].live

SessionDevices == \A s \in sessions : get_device(s.device)

IInv == TypeOK /\ EmailUnique /\ SessionDevices /\ \A t \in Threads : ThreadInv(t)

\* What no step takes back: a stored user keeps its address, a registered
\* device its account, a revoked device its mark.
TablesGrow ==
    /\ \A u \in Users : get_user_by_id(u) => users'[u].email = users[u].email
    /\ \A d \in Devices :
          get_device(d) => /\ devices'[d].owner = devices[d].owner
                           /\ devices[d].revoked => devices'[d].revoked

\* A thread that does not move keeps its assertion while the tables grow.
LEMMA Frame ==
    ASSUME TypeOK, TablesGrow, NEW t \in Threads, ThreadInv(t),
           pc'[t] = pc[t], loc'[t] = loc[t]
    PROVE  ThreadInv(t)'
  <1> USE StorageAssumption DEF TypeOK, StorageTypeOK, UserRecord, DeviceRecord
  <1>1. loc[t].user \in Users /\ get_user_by_id(loc[t].user) =>
            /\ get_user_by_id(loc[t].user)'
            /\ users'[loc[t].user].email = users[loc[t].user].email
    BY DEF TablesGrow, get_user_by_id
  <1>2. loc[t].device \in Devices /\ get_device(loc[t].device) =>
            /\ get_device(loc[t].device)'
            /\ DeviceLive(loc[t].user, loc[t].device)' =>
                  DeviceLive(loc[t].user, loc[t].device)
    BY DEF TablesGrow, get_device, DeviceLive
  <1> QED
    BY <1>1, <1>2 DEF ThreadInv, KnowsUser, Resolving, AddsOtpDevice, GivenDevice

----------------------------------------------------------------------------
(* The two tables. *)

LEMMA RegistryTypes ==
    ASSUME StorageTypeOK, [Registry!Next]_<<users, devices>>
    PROVE  StorageTypeOK'
  <1> USE DEF StorageTypeOK, UserRecord, DeviceRecord
  <1>1. ASSUME NEW u \in Users, NEW e \in Emails, Registry!CreateAccount(u, e)
        PROVE  StorageTypeOK'
    BY <1>1 DEF Registry!CreateAccount
  <1>2. ASSUME NEW u \in Users, NEW on \in BOOLEAN, Registry!SetActive(u, on)
        PROVE  StorageTypeOK'
    BY <1>2 DEF Registry!SetActive
  <1>3. ASSUME NEW u \in Users, NEW d \in Devices, Registry!BindDevice(d, u)
        PROVE  StorageTypeOK'
    BY <1>3 DEF Registry!BindDevice
  <1>4. ASSUME NEW d \in Devices, Registry!RevokeDevice(d)
        PROVE  StorageTypeOK'
    <2>1. devices[d] \in DeviceRecord
      OBVIOUS
    <2>2. devices' = [devices EXCEPT ![d].revoked = TRUE] /\ users' = users
      BY <1>4 DEF Registry!RevokeDevice
    <2> QED
      BY <2>1, <2>2
  <1> QED
    BY <1>1, <1>2, <1>3, <1>4 DEF Registry!Next

LEMMA RegistryGrows ==
    ASSUME StorageTypeOK, [Registry!Next]_<<users, devices>>
    PROVE  TablesGrow
  BY StorageAssumption
  DEF StorageTypeOK, UserRecord, DeviceRecord, TablesGrow, get_user_by_id,
      get_device, Registry!Next, Registry!CreateAccount, Registry!SetActive,
      Registry!BindDevice, Registry!RevokeDevice, Registry!HasAccount

LEMMA RegistryUnique ==
    ASSUME StorageTypeOK, EmailUnique, [Registry!Next]_<<users, devices>>
    PROVE  EmailUnique'
  BY StorageAssumption
  DEF StorageTypeOK, UserRecord, DeviceRecord, EmailUnique, get_user_by_id,
      Registry!Next, Registry!CreateAccount, Registry!SetActive,
      Registry!BindDevice, Registry!RevokeDevice, Registry!HasAccount

\* Each step of a thread changes the tables as one atomic operation does.
LEMMA ThreadRegistry ==
    ASSUME IInv, NEW t \in Threads, Receive(t) \/ Proceed(t) \/ StorageError(t)
    PROVE  [Registry!Next]_<<users, devices>>
  <1> USE StorageAssumption
  <1>1. CASE CreateUser(t)
    <2>1. PICK u \in Users : users' = create_user(u, loc[t].email)
      BY <1>1, AuthAssumption DEF CreateUser, generate_uuid
    <2>2. loc[t].email \in Emails
      BY <1>1 DEF CreateUser, IInv, ThreadInv
    <2>3. CASE CanCreate(u, loc[t].email)
      <3>1. Registry!CreateAccount(u, loc[t].email)
        BY <1>1, <2>1, <2>2, <2>3
        DEF CreateUser, create_user, CanCreate, get_user_by_email, get_user_by_id,
            Registry!CreateAccount, Registry!HasAccount
      <3> QED
        BY <3>1, <2>2 DEF Registry!Next
    <2>4. CASE ~CanCreate(u, loc[t].email)
      BY <1>1, <2>1, <2>4 DEF CreateUser, create_user
    <2> QED
      BY <2>3, <2>4
  <1>2. CASE UpdateUser(t)
    <2> DEFINE u == loc[t].user
    <2>1. /\ u \in Users /\ get_user_by_id(u)
          /\ loc[t].email = users[u].email
          /\ users \in [Users -> UserRecord]
      BY <1>2 DEF UpdateUser, IInv, ThreadInv, KnowsUser, TypeOK, StorageTypeOK
    <2>2. users' = [users EXCEPT ![u] = [email |-> users[u].email, active |-> TRUE]]
      BY <1>2, <2>1 DEF UpdateUser, update_user
    <2>3. Registry!SetActive(u, TRUE)
      BY <1>2, <2>1, <2>2
      DEF UpdateUser, get_user_by_id, Registry!SetActive, Registry!HasAccount
    <2> QED
      BY <2>1, <2>3 DEF Registry!Next
  <1>3. CASE AddDevice(t)
    <2> DEFINE u == loc[t].user  d == loc[t].device
    <2>1. u \in Users /\ d \in Devices /\ get_user_by_id(u)
      BY <1>3 DEF AddDevice, IInv, ThreadInv, KnowsUser
    <2>2. CASE get_device(d)
      BY <1>3, <2>2 DEF AddDevice, add_device
    <2>3. CASE ~get_device(d)
      <3>1. Registry!BindDevice(d, u)
        BY <1>3, <2>1, <2>3
        DEF AddDevice, add_device, get_device, get_user_by_id,
            Registry!BindDevice, Registry!HasAccount
      <3> QED
        BY <2>1, <3>1 DEF Registry!Next
    <2> QED
      BY <2>2, <2>3
  <1>4. CASE Revoke(t)
    <2>1. PICK d \in loc[t].todo : devices' = revoke_device(d)
      BY <1>4 DEF Revoke
    <2>2. d \in Devices
      BY <2>1 DEF IInv, TypeOK, Local
    <2>3. get_device(d) => Registry!RevokeDevice(d)
      BY <1>4, <2>1 DEF Revoke, revoke_device, get_device, Registry!RevokeDevice
    <2> QED
      BY <1>4, <2>1, <2>2, <2>3 DEF Revoke, revoke_device, Registry!Next
  <1>5. CASE Receive(t)
    BY <1>5
    DEF Receive, RegisterRoutes, LoginRoutes, SessionRoutes, ResetRoutes,
        DeviceRoutes, begin_registration, begin_login, begin_reset,
        complete_registration, complete_login, complete_reset,
        complete_add_device, CompleteWithLink, verify_session,
        begin_add_device, logout, revoke_device_of, WithSession,
        create_session, otp_login, Begin
  <1>6. CASE StorageError(t)
    BY <1>6 DEF StorageError
  <1>7. CASE FindNewEmail(t) \/ GetUser(t) \/ FindLoginEmail(t)
                \/ LoginDevices(t) \/ LoginDevice(t)
    BY <1>7 DEF FindNewEmail, GetUser, FindLoginEmail, LoginDevices, LoginDevice
  <1>8. CASE LoginUser(t) \/ ResolveUser(t) \/ ResolveDevice(t) \/ OwnDevice(t)
                \/ FindResetEmail(t) \/ ListDevices(t)
    BY <1>8 DEF LoginUser, ResolveUser, ResolveDevice, OwnDevice,
                FindResetEmail, ListDevices
  <1>9. CASE FindOtpEmail(t) \/ GetOtpDevice(t)
    BY <1>9 DEF FindOtpEmail, GetOtpDevice
  <1>10. CASE AddOtpDevice(t)
    <2> DEFINE u == loc[t].user  d == loc[t].device
    <2>1. u \in Users /\ d \in Devices /\ get_user_by_id(u)
      BY <1>10, AuthAssumption
      DEF AddOtpDevice, IInv, ThreadInv, AddsOtpDevice
    <2>2. CASE get_device(d)
      BY <1>10, <2>2 DEF AddOtpDevice, add_device
    <2>3. CASE ~get_device(d)
      <3>1. Registry!BindDevice(d, u)
        BY <1>10, <2>1, <2>3
        DEF AddOtpDevice, add_device, get_device, get_user_by_id,
            Registry!BindDevice, Registry!HasAccount
      <3> QED
        BY <2>1, <3>1 DEF Registry!Next
    <2> QED
      BY <2>2, <2>3
  <1> QED
    BY <1>1, <1>2, <1>3, <1>4, <1>5, <1>6, <1>7, <1>8, <1>9, <1>10 DEF Proceed

LEMMA StepRegistry ==
    ASSUME IInv, [Next]_vars
    PROVE  [Registry!Next]_<<users, devices>>
  <1>1. CASE \E t \in Threads : Receive(t) \/ Proceed(t) \/ StorageError(t)
    BY <1>1, ThreadRegistry
  <1>2. ASSUME NEW u \in Users, DeactivateUser(u)
        PROVE  [Registry!Next]_<<users, devices>>
    <2>1. Registry!SetActive(u, FALSE)
      BY <1>2 DEF DeactivateUser, deactivate_user, get_user_by_id,
                  Registry!SetActive, Registry!HasAccount
    <2> QED
      BY <2>1 DEF Registry!Next
  <1>3. CASE Tick \/ Restart \/ UNCHANGED vars
    BY <1>3 DEF Tick, Restart, vars
  <1> QED
    BY <1>1, <1>2, <1>3 DEF Next

----------------------------------------------------------------------------
(* The rest of the state.  RestOK is TypeOK without the tables. *)

RestOK ==
    /\ now \in 0..MaxTime
    /\ grants \in [Nonces -> Grant]
    /\ sessions \subseteq Session
    /\ pc \in [Threads -> Labels]
    /\ loc \in [Threads -> Local]
    /\ redeemed \in [Nonces -> 0..2]

\* The sessions a step adds are for registered devices.
NewSessionsOK == \A s \in sessions' \ sessions : get_device(s.device)'

\* Moves t and no other thread.
MovesOnly(t) ==
    \A s \in Threads \ {t} : pc'[s] = pc[s] /\ loc'[s] = loc[s]

\* A step keeps the invariant if it does so for the thread it moves.
LEMMA ThreadStep ==
    ASSUME IInv, [Registry!Next]_<<users, devices>>, RestOK',
           NEW t \in Threads, MovesOnly(t), ThreadInv(t)', NewSessionsOK
    PROVE  IInv'
  <1>1. TablesGrow /\ EmailUnique' /\ TypeOK'
    BY RegistryTypes, RegistryGrows, RegistryUnique DEF IInv, TypeOK, RestOK
  <1>2. SessionDevices'
    <2>1. \A s \in sessions : get_device(s.device)'
      BY <1>1 DEF IInv, TypeOK, SessionDevices, TablesGrow, get_device, Session
    <2> QED
      BY <2>1 DEF SessionDevices, NewSessionsOK
  <1>3. \A s \in Threads : ThreadInv(s)'
    BY <1>1, Frame DEF IInv, MovesOnly
  <1> QED
    BY <1>1, <1>2, <1>3 DEF IInv

LEMMA IssueOK ==
    ASSUME IInv, NEW u \in Users \cup {None}, NEW ttl \in Nat,
           NEW kind \in {"Register", "Reset", "AddDevice", "Challenge"},
           Issue(kind, u, ttl)
    PROVE  grants' \in [Nonces -> Grant]
  <1>1. now + ttl \in Nat /\ grants \in [Nonces -> Grant]
    BY AuthAssumption DEF IInv, TypeOK
  <1>2. [kind |-> kind, user |-> u, exp |-> now + ttl] \in Grant
    BY <1>1 DEF Grant
  <1> QED
    BY <1>1, <1>2 DEF Issue

LEMMA MakeSessionOK ==
    ASSUME IInv, NEW t \in Threads, NEW u \in Users, NEW d \in Devices,
           make_session(t, u, d), get_device(d)'
    PROVE  /\ sessions' \subseteq Session
           /\ redeemed' \in [Nonces -> 0..2]
           /\ NewSessionsOK
  <1> DEFINE new == [user |-> u, device |-> d, exp |-> now + SessionTtl]
  <1>1. /\ new \in Session /\ sessions \subseteq Session
        /\ loc[t].grant \in Nonces \cup {None}
        /\ redeemed \in [Nonces -> 0..2]
    BY AuthAssumption DEF IInv, TypeOK, Session, Local
  <1>2. sessions' \subseteq sessions \cup {new}
    BY DEF make_session
  <1>3. redeemed' \in [Nonces -> 0..2]
    BY <1>1 DEF make_session
  <1> QED
    BY <1>1, <1>2, <1>3 DEF NewSessionsOK

LEMMA NoLocalType == NoLocal \in Local
  BY DEF NoLocal, Local

\* A request that is received.
LEMMA BeginOK ==
    ASSUME IInv, NEW t \in Threads, NEW locals \in Local,
           NEW first \in {"find_new_email", "get_user", "find_login_email",
                          "login_device", "resolve_user", "own_device",
                          "find_reset_email", "find_otp_email"},
           Begin(t, first, locals),
           first \in {"find_new_email", "find_otp_email"} =>
              locals.email \in Emails,
           first = "find_otp_email" => locals.op = "otp_login",
           first \in {"get_user", "login_device"} => locals.device \in Devices,
           first = "resolve_user" =>
              /\ locals.user \in Users /\ locals.device \in Devices
              /\ locals.op # "otp_login"
              /\ locals.op # "create_session" => get_device(locals.device),
           first = "own_device" => locals.op # "complete_reset"
    PROVE  IInv'
  <1>1. /\ pc \in [Threads -> Labels] /\ loc \in [Threads -> Local]
        /\ pc' = [pc EXCEPT ![t] = first] /\ loc' = [loc EXCEPT ![t] = locals]
        /\ UNCHANGED <<users, devices, now, grants, sessions, redeemed>>
    BY DEF IInv, TypeOK, Begin
  <1>2. RestOK' /\ MovesOnly(t) /\ NewSessionsOK
    BY <1>1 DEF IInv, TypeOK, RestOK, MovesOnly, NewSessionsOK, Labels
  <1>3. pc'[t] = first /\ loc'[t] = locals
    BY <1>1
  <1>4. ThreadInv(t)'
    BY <1>1, <1>3
    DEF ThreadInv, KnowsUser, Resolving, AddsOtpDevice, GivenDevice, get_device
  <1> QED
    BY <1>1, <1>2, <1>4, ThreadStep

LEMMA ReceiveStep ==
    ASSUME IInv, NEW t \in Threads, Receive(t)
    PROVE  IInv'
  <1> USE DEF Local, NoLocal, OpNames
  <1>1. ASSUME NEW e \in Emails,
               begin_registration(t, e) \/ begin_login(t, e) \/ begin_reset(t, e)
        PROVE  IInv'
    BY <1>1, BeginOK DEF begin_registration, begin_login, begin_reset
  <1>2. ASSUME NEW n \in Nonces, NEW d \in Devices,
               \/ complete_registration(t, n, d)
               \/ complete_login(t, n, d)
               \/ complete_reset(t, n, d)
               \/ complete_add_device(t, n, d)
        PROVE  IInv'
    <2>1. grants[n].user \in Users \cup {None}
      BY DEF IInv, TypeOK, Grant
    <2>2. CASE complete_login(t, n, d)
      BY <2>2, BeginOK DEF complete_login
    <2>3. ASSUME NEW op \in OpNames, NEW kind, CompleteWithLink(t, op, kind, n, d)
          PROVE  IInv'
      BY <2>1, <2>3, BeginOK DEF CompleteWithLink
    <2> QED
      BY <1>2, <2>2, <2>3
      DEF complete_registration, complete_reset, complete_add_device
  <1>3. ASSUME NEW s \in sessions,
               \/ verify_session(t, s)
               \/ begin_add_device(t, s)
               \/ logout(t, s)
               \/ \E d \in Devices : revoke_device_of(t, s, d)
        PROVE  IInv'
    <2>1. s.user \in Users /\ s.device \in Devices /\ get_device(s.device)
      BY DEF IInv, TypeOK, Session, SessionDevices
    <2>2. ASSUME NEW op \in OpNames \ {"complete_reset", "otp_login"},
                 NEW first \in {"resolve_user", "own_device"},
                 NEW targets \in SUBSET Devices, WithSession(t, op, first, s, targets)
          PROVE  IInv'
      <3> DEFINE locals == [NoLocal EXCEPT !.op = op, !.user = s.user,
                                           !.device = s.device, !.todo = targets]
      <3>1. /\ locals \in Local
            /\ locals.user = s.user /\ locals.device = s.device
            /\ locals.op = op
        BY <2>1
      <3>2. Begin(t, first, locals)
        BY <2>2 DEF WithSession
      <3> HIDE DEF locals, Local, NoLocal, OpNames
      <3>3. first \in {"find_new_email", "get_user", "find_login_email",
                       "login_device", "resolve_user", "own_device",
                       "find_reset_email", "find_otp_email"}
        OBVIOUS
      <3>4. first \notin {"find_new_email", "find_otp_email", "get_user",
                           "login_device"}
        OBVIOUS
      <3> QED
        BY <2>1, <3>1, <3>2, <3>3, <3>4, BeginOK
    <2>3. {} \in SUBSET Devices /\ {s.device} \in SUBSET Devices
      BY <2>1
    <2>4. CASE verify_session(t, s) \/ begin_add_device(t, s)
      BY <2>2, <2>3, <2>4 DEF verify_session, begin_add_device
    <2>5. CASE logout(t, s)
      BY <2>2, <2>3, <2>5 DEF logout
    <2>6. ASSUME NEW d \in Devices, revoke_device_of(t, s, d)
          PROVE  IInv'
      <3>1. {d} \in SUBSET Devices
        OBVIOUS
      <3> QED
        BY <2>2, <2>6, <3>1 DEF revoke_device_of
    <2> QED
      BY <1>3, <2>4, <2>5, <2>6
  <1>4. ASSUME NEW u \in Users, NEW d \in Devices, create_session(t, u, d)
        PROVE  IInv'
    BY <1>4, BeginOK DEF create_session
  <1>5. ASSUME NEW e \in Emails, otp_login(t, e)
        PROVE  IInv'
    BY <1>5, BeginOK DEF otp_login
  <1> QED
    BY <1>1, <1>2, <1>3, <1>4, <1>5
    DEF Receive, RegisterRoutes, LoginRoutes, SessionRoutes, ResetRoutes,
        DeviceRoutes, KeyDevices

----------------------------------------------------------------------------
(* One lemma per group of storage calls. *)

\* Calls that only read, and move the thread or end its operation.
LEMMA ReadStep ==
    ASSUME IInv, NEW t \in Threads,
           \/ FindNewEmail(t) \/ GetUser(t) \/ FindLoginEmail(t)
           \/ LoginDevice(t) \/ ResolveUser(t) \/ OwnDevice(t) \/ ListDevices(t)
    PROVE  IInv'
  <1> USE StorageAssumption
  <1> USE DEF TypeOK, StorageTypeOK, Return, Goto
  <1>0. /\ pc \in [Threads -> Labels] /\ loc \in [Threads -> Local]
        /\ loc[t] \in Local /\ NoLocal \in Local
        /\ ThreadInv(t)
    BY NoLocalType DEF IInv
  <1>1. UNCHANGED <<users, devices, now, grants, sessions, redeemed>>
    BY DEF FindNewEmail, GetUser, FindLoginEmail, LoginDevice, ResolveUser,
           OwnDevice, ListDevices
  <1>2. MovesOnly(t) /\ pc' \in [Threads -> Labels] /\ loc' \in [Threads -> Local]
        /\ ThreadInv(t)'
    <2> USE DEF MovesOnly, Labels, ThreadInv, KnowsUser, Resolving,
                AddsOtpDevice, GivenDevice
    <2>1. CASE pc'[t] = "idle" /\ Return(t)
      BY <1>0, <2>1
    <2>2. CASE FindNewEmail(t)
      BY <1>0, <2>1, <2>2 DEF FindNewEmail
    <2>3. CASE GetUser(t)
      <3>1. users \in [Users -> UserRecord] /\ loc[t].user \in Users \cup {None}
        BY <1>0 DEF IInv, Local
      <3>2. CASE get_user_by_id(loc[t].user)
        <4>1. loc[t].user \in Users /\ users[loc[t].user].email \in Emails
          BY <3>1, <3>2 DEF get_user_by_id, UserRecord
        <4>2. /\ pc' = [pc EXCEPT ![t] = AfterGetUser(loc[t].op)]
              /\ loc' = [loc EXCEPT ![t].email = users[loc[t].user].email]
          BY <2>3, <3>2 DEF GetUser
        <4>3. AfterGetUser(loc[t].op) \in {"update_user", "list_devices", "add_device"}
          BY DEF AfterGetUser
        <4>4. [loc[t] EXCEPT !.email = users[loc[t].user].email] \in Local
          BY <1>0, <4>1 DEF Local
        <4>5. /\ loc'[t].user = loc[t].user /\ loc'[t].device = loc[t].device
              /\ loc'[t].email = users[loc[t].user].email
          BY <1>0, <4>2 DEF Local
        <4>6. MovesOnly(t) /\ pc' \in [Threads -> Labels] /\ loc' \in [Threads -> Local]
          BY <1>0, <4>2, <4>3, <4>4
        <4>7. pc[t] = "get_user" /\ loc[t].device \in Devices
          BY <1>0, <2>3 DEF GetUser
        <4> QED
          BY <1>0, <1>1, <3>2, <4>1, <4>2, <4>3, <4>5, <4>6, <4>7
          DEF get_user_by_id
      <3> QED
        BY <1>0, <2>1, <2>3, <3>2 DEF GetUser
    <2>4. CASE FindLoginEmail(t)
      BY <1>0, <2>1, <2>4 DEF FindLoginEmail, Local, get_user_by_email
    <2>5. CASE LoginDevice(t)
      <3>1. CASE get_device(loc[t].device) /\ ~devices[loc[t].device].revoked
        <4> DEFINE u == devices[loc[t].device].owner
        <4>1. pc[t] = "login_device" /\ loc[t].device \in Devices
          BY <1>0, <2>5 DEF LoginDevice
        <4>2. u \in Users
          BY <3>1, <4>1 DEF IInv, get_device, DeviceRecord
        <4>3. /\ pc' = [pc EXCEPT ![t] = "login_user"]
              /\ loc' = [loc EXCEPT ![t].user = u]
          BY <2>5, <3>1 DEF LoginDevice
        <4> QED
          BY <1>0, <1>1, <3>1, <4>1, <4>2, <4>3 DEF Local, get_device
      <3> QED
        BY <1>0, <2>1, <2>5, <3>1 DEF LoginDevice
    <2>6. CASE ResolveUser(t)
      <3>1. CASE UserActive(loc[t].user)
        <4> DEFINE ok == DeviceLive(loc[t].user, loc[t].device)
        <4>1. pc[t] = "resolve_user" /\ ok \in BOOLEAN
          BY <2>6 DEF ResolveUser, DeviceLive
        <4>2. /\ pc' = [pc EXCEPT ![t] = "resolve_device"]
              /\ loc' = [loc EXCEPT ![t].live = ok]
          BY <2>6, <3>1 DEF ResolveUser
        <4>3. loc'[t] = [loc[t] EXCEPT !.live = ok] /\ pc'[t] = "resolve_device"
          BY <1>0, <4>2
        <4>4. /\ loc'[t] \in Local /\ loc'[t].live = ok
              /\ loc'[t].user = loc[t].user /\ loc'[t].device = loc[t].device
              /\ loc'[t].op = loc[t].op
          BY <1>0, <4>1, <4>3 DEF Local
        <4>5. MovesOnly(t) /\ pc' \in [Threads -> Labels] /\ loc' \in [Threads -> Local]
          BY <1>0, <4>2, <4>3, <4>4
        <4>6. ok' = ok
          BY <1>1, <4>4 DEF DeviceLive
        <4> QED
          BY <1>0, <1>1, <4>1, <4>3, <4>4, <4>5, <4>6 DEF get_device, DeviceLive
      <3> QED
        BY <1>0, <2>1, <2>6, <3>1 DEF ResolveUser
    <2>7. CASE OwnDevice(t)
      <3>1. CASE Goto(t, "revoke")
        BY <1>0, <1>1, <2>7, <3>1 DEF OwnDevice
      <3> QED
        BY <1>0, <2>1, <2>7, <3>1 DEF OwnDevice
    <2>8. CASE ListDevices(t)
      BY <1>0, <1>1, <2>8 DEF ListDevices, Local, get_devices, get_user_by_id
    <2> QED
      BY <2>2, <2>3, <2>4, <2>5, <2>6, <2>7, <2>8
  <1>3. RestOK' /\ NewSessionsOK
    BY <1>1, <1>2 DEF IInv, RestOK, NewSessionsOK
  <1> QED
    BY <1>1, <1>2, <1>3, ThreadStep

\* A step that ends the operation of t.
LEMMA EndStep ==
    ASSUME IInv, [Registry!Next]_<<users, devices>>, NEW t \in Threads, Return(t),
           now' \in 0..MaxTime, grants' \in [Nonces -> Grant],
           sessions' \subseteq Session, redeemed' \in [Nonces -> 0..2],
           NewSessionsOK
    PROVE  IInv'
  <1>1. /\ pc' \in [Threads -> Labels] /\ loc' \in [Threads -> Local]
        /\ MovesOnly(t) /\ pc'[t] = "idle"
    BY NoLocalType DEF IInv, TypeOK, Return, Labels, MovesOnly
  <1>2. ThreadInv(t)'
    BY <1>1 DEF ThreadInv, KnowsUser, Resolving, AddsOtpDevice, GivenDevice
  <1> QED
    BY <1>1, <1>2, ThreadStep DEF RestOK

\* Calls that may hand out a link or a challenge.
LEMMA IssueStep ==
    ASSUME IInv, NEW t \in Threads,
           CreateUser(t) \/ LoginDevices(t) \/ FindResetEmail(t)
    PROVE  IInv'
  <1>1. [Registry!Next]_<<users, devices>>
    BY ThreadRegistry DEF Proceed
  <1>2. grants' \in [Nonces -> Grant]
    <2>1. {MagicTtl, ChallengeTtl} \subseteq Nat /\ grants \in [Nonces -> Grant]
      BY AuthAssumption DEF IInv, TypeOK
    <2>2. CASE CreateUser(t)
      BY <2>1, <2>2, IssueOK, AuthAssumption DEF CreateUser, generate_uuid
    <2>3. CASE LoginDevices(t)
      BY <2>1, <2>3, IssueOK DEF LoginDevices
    <2>4. CASE FindResetEmail(t)
      BY <2>1, <2>4, IssueOK, AuthAssumption
      DEF FindResetEmail, IssueDummyReset, get_user_by_email
    <2> QED
      BY <2>2, <2>3, <2>4
  <1>3. UNCHANGED <<now, sessions, redeemed>> /\ Return(t)
    BY DEF CreateUser, LoginDevices, FindResetEmail
  <1>4. NewSessionsOK
    BY <1>3 DEF NewSessionsOK
  <1> QED
    BY <1>1, <1>2, <1>3, <1>4, EndStep DEF IInv, TypeOK

\* Calls that may hand out a session.
LEMMA SessionStep ==
    ASSUME IInv, NEW t \in Threads, AddDevice(t) \/ LoginUser(t)
    PROVE  IInv'
  <1>1. [Registry!Next]_<<users, devices>>
    BY ThreadRegistry DEF Proceed
  <1>2. PICK u \in Users, d \in Devices : u = loc[t].user /\ d = loc[t].device
    BY DEF AddDevice, LoginUser, IInv, ThreadInv, KnowsUser
  <1>3. get_device(d)'
    <2>1. CASE AddDevice(t)
      <3>1. devices \in [Devices -> DeviceRecord]
        BY DEF IInv, TypeOK, StorageTypeOK
      <3>2. devices'[d].owner # None
        BY <1>2, <2>1, <3>1, StorageAssumption
        DEF AddDevice, add_device, get_device
      <3> QED
        BY <3>2 DEF get_device
    <2>2. CASE LoginUser(t)
      BY <1>2, <2>2 DEF LoginUser, IInv, ThreadInv, get_device
    <2> QED
      BY <2>1, <2>2
  <1>4. /\ make_session(t, u, d) \/ UNCHANGED <<sessions, redeemed>>
        /\ UNCHANGED <<now, grants>> /\ Return(t)
    BY <1>2 DEF AddDevice, LoginUser
  <1>5. /\ sessions' \subseteq Session /\ redeemed' \in [Nonces -> 0..2]
        /\ NewSessionsOK
    <2>1. CASE make_session(t, u, d)
      BY <1>2, <1>3, <2>1, MakeSessionOK
    <2>2. CASE UNCHANGED <<sessions, redeemed>>
      BY <2>2 DEF IInv, TypeOK, NewSessionsOK
    <2> QED
      BY <1>4, <2>1, <2>2
  <1> QED
    BY <1>1, <1>4, <1>5, EndStep DEF IInv, TypeOK

\* A step after which t continues at another label.
LEMMA GoOnStep ==
    ASSUME IInv, [Registry!Next]_<<users, devices>>, NEW t \in Threads,
           NEW label \in Labels, NEW locals \in Local,
           pc' = [pc EXCEPT ![t] = label], loc' = [loc EXCEPT ![t] = locals],
           UNCHANGED <<now, grants, sessions, redeemed>>,
           ThreadInv(t)'
    PROVE  IInv'
  <1>1. pc \in [Threads -> Labels] /\ loc \in [Threads -> Local]
    BY DEF IInv, TypeOK
  <1>2. MovesOnly(t) /\ RestOK' /\ NewSessionsOK
    BY <1>1 DEF IInv, TypeOK, RestOK, MovesOnly, NewSessionsOK
  <1> QED
    BY <1>2, ThreadStep

LEMMA UpdateUserStep ==
    ASSUME IInv, NEW t \in Threads, UpdateUser(t)
    PROVE  IInv'
  <1>1. [Registry!Next]_<<users, devices>> /\ StorageTypeOK
    BY ThreadRegistry DEF Proceed, IInv, TypeOK
  <1>2. /\ loc[t].user \in Users /\ get_user_by_id(loc[t].user)
        /\ loc[t].device \in Devices /\ loc[t] \in Local
        /\ pc \in [Threads -> Labels] /\ loc \in [Threads -> Local]
    BY DEF UpdateUser, IInv, ThreadInv, KnowsUser, TypeOK
  <1>3. /\ pc' = [pc EXCEPT ![t] = "add_device"]
        /\ loc' = [loc EXCEPT ![t] = loc[t]]
        /\ UNCHANGED <<loc, now, grants, sessions, redeemed>>
    BY <1>2 DEF UpdateUser, Goto
  <1>4. get_user_by_id(loc[t].user)'
    BY <1>1, <1>2, <1>3, RegistryGrows DEF TablesGrow, get_user_by_id
  <1>5. ThreadInv(t)'
    BY <1>2, <1>3, <1>4
    DEF ThreadInv, KnowsUser, Resolving, AddsOtpDevice, GivenDevice
  <1> QED
    BY <1>1, <1>2, <1>3, <1>5, GoOnStep DEF Labels

\* The login by OTP up to create_session, whether its add_device worked or not.
LEMMA OtpGoOn ==
    ASSUME IInv, [Registry!Next]_<<users, devices>>, NEW t \in Threads,
           AddsOtpDevice(t), NEW label \in {"add_otp_device", "resolve_user"},
           Goto(t, label), UNCHANGED <<now, grants, sessions, redeemed>>
    PROVE  IInv'
  <1>1. /\ loc[t] \in Local /\ pc \in [Threads -> Labels]
        /\ loc \in [Threads -> Local] /\ StorageTypeOK
        /\ loc[t].op = "otp_login"
        /\ loc[t].user \in Users /\ get_user_by_id(loc[t].user)
        /\ loc[t].device = OtpDevice[loc[t].user] /\ loc[t].device \in Devices
    BY AuthAssumption DEF IInv, TypeOK, ThreadInv
  <1>2. /\ pc' = [pc EXCEPT ![t] = label] /\ loc' = loc
        /\ loc' = [loc EXCEPT ![t] = loc[t]] /\ label \in Labels
    BY <1>1 DEF Goto, Labels
  <1>3. get_user_by_id(loc[t].user)'
    BY <1>1, <1>2, RegistryGrows DEF TablesGrow, get_user_by_id
  <1>4. ThreadInv(t)'
    BY <1>1, <1>2, <1>3
    DEF ThreadInv, KnowsUser, Resolving, AddsOtpDevice, GivenDevice
  <1> QED
    BY <1>1, <1>2, <1>4, GoOnStep

LEMMA OtpStep ==
    ASSUME IInv, NEW t \in Threads,
           FindOtpEmail(t) \/ GetOtpDevice(t) \/ AddOtpDevice(t)
    PROVE  IInv'
  <1>1. [Registry!Next]_<<users, devices>>
    BY ThreadRegistry DEF Proceed
  <1>2. UNCHANGED <<users, now, grants, sessions, redeemed>>
    BY DEF FindOtpEmail, GetOtpDevice, AddOtpDevice
  <1>3. CASE Return(t)
    BY <1>1, <1>2, <1>3, EndStep DEF IInv, TypeOK, NewSessionsOK
  <1>4. CASE FindOtpEmail(t) /\ ~Return(t)
    <2>1. PICK u \in get_user_by_email(loc[t].email) :
             /\ pc' = [pc EXCEPT ![t] = "get_otp_device"]
             /\ loc' = [loc EXCEPT ![t].user = u, ![t].device = OtpDevice[u]]
      BY <1>4 DEF FindOtpEmail
    <2> DEFINE locals == [loc[t] EXCEPT !.user = u, !.device = OtpDevice[u]]
    <2>2. u \in Users /\ OtpDevice[u] \in Devices
      BY AuthAssumption DEF get_user_by_email
    <2>3. /\ loc[t] \in Local /\ loc \in [Threads -> Local]
          /\ pc \in [Threads -> Labels]
          /\ loc[t].email \in Emails /\ loc[t].op = "otp_login"
      BY <1>4 DEF IInv, TypeOK, ThreadInv, FindOtpEmail
    <2>4. /\ locals \in Local /\ locals.op = "otp_login"
          /\ locals.user = u /\ locals.device = OtpDevice[u]
          /\ loc' = [loc EXCEPT ![t] = locals]
      BY <2>1, <2>2, <2>3 DEF Local
    <2>5. get_user_by_id(u)'
      BY <1>2, <2>2, <2>3, StorageAssumption DEF get_user_by_id, get_user_by_email
    <2> HIDE DEF locals
    <2>6. pc'[t] = "get_otp_device" /\ loc'[t] = locals
      BY <2>1, <2>3, <2>4
    <2>7. ThreadInv(t)'
      BY <2>2, <2>4, <2>5, <2>6
      DEF ThreadInv, KnowsUser, Resolving, AddsOtpDevice, GivenDevice
    <2> QED
      BY <1>1, <1>2, <2>1, <2>4, <2>7, GoOnStep DEF Labels
  <1>5. CASE GetOtpDevice(t) \/ AddOtpDevice(t)
    BY <1>1, <1>2, <1>5, OtpGoOn
    DEF GetOtpDevice, AddOtpDevice, AfterAddOtpDevice, AddsOtpDevice
  <1> QED
    BY <1>3, <1>4, <1>5

LEMMA ResolveDeviceStep ==
    ASSUME IInv, NEW t \in Threads, ResolveDevice(t)
    PROVE  IInv'
  <1>1. [Registry!Next]_<<users, devices>> /\ UNCHANGED <<now, devices>>
    BY ThreadRegistry DEF Proceed, ResolveDevice
  <1>2. PICK u \in Users, d \in Devices : u = loc[t].user /\ d = loc[t].device
    BY DEF ResolveDevice, IInv, ThreadInv, Resolving
  <1>3. CASE ~DeviceLive(u, d)
    <2>1. Return(t) /\ UNCHANGED <<grants, sessions, redeemed>>
      BY <1>2, <1>3 DEF ResolveDevice
    <2> QED
      BY <1>1, <2>1, EndStep DEF IInv, TypeOK, NewSessionsOK
  <1>4. CASE make_session(t, u, d) /\ Return(t) /\ UNCHANGED grants /\ DeviceLive(u, d)
    <2>1. get_device(d)'
      BY <1>1, <1>4, StorageAssumption DEF DeviceLive, get_device
    <2> QED
      BY <1>1, <1>4, <2>1, MakeSessionOK, EndStep DEF IInv, TypeOK
  <1>5. CASE /\ Issue("AddDevice", u, MagicTtl) /\ Return(t)
             /\ UNCHANGED <<sessions, redeemed>>
    <2>1. grants' \in [Nonces -> Grant]
      BY <1>5, IssueOK, AuthAssumption
    <2> QED
      BY <1>1, <1>5, <2>1, EndStep DEF IInv, TypeOK, NewSessionsOK
  <1>6. CASE /\ loc[t].op = "revoke_device" /\ Goto(t, "own_device")
             /\ UNCHANGED <<grants, sessions, redeemed>>
    <2>1. /\ pc \in [Threads -> Labels] /\ loc \in [Threads -> Local]
          /\ pc' = [pc EXCEPT ![t] = "own_device"] /\ loc' = loc
      BY <1>6 DEF Goto, IInv, TypeOK
    <2>2. ThreadInv(t)'
      BY <1>6, <2>1 DEF ThreadInv, KnowsUser, Resolving, AddsOtpDevice, GivenDevice
    <2>3. loc' = [loc EXCEPT ![t] = loc[t]] /\ loc[t] \in Local
      BY <2>1
    <2> QED
      BY <1>1, <1>6, <2>1, <2>2, <2>3, GoOnStep DEF Labels
  <1> QED
    BY <1>2, <1>3, <1>4, <1>5, <1>6 DEF ResolveDevice

\* The loop over the devices to revoke, whether or not the call succeeded.
LEMMA AfterRevokeStep ==
    ASSUME IInv, [Registry!Next]_<<users, devices>>, NEW t \in Threads,
           pc[t] = "revoke", NEW d \in loc[t].todo, AfterRevoke(t, d),
           UNCHANGED <<users, now, grants, sessions, redeemed>>
    PROVE  IInv'
  <1>1. /\ pc \in [Threads -> Labels] /\ loc \in [Threads -> Local]
        /\ loc[t] \in Local /\ ThreadInv(t)
    BY DEF IInv, TypeOK
  <1>2. CASE Return(t)
    BY <1>2, EndStep DEF IInv, TypeOK, NewSessionsOK
  <1>3. ASSUME NEW label \in {"revoke", "add_device"}, NEW rest \in SUBSET Devices,
               label = "add_device" => loc[t].op = "complete_reset",
               pc' = [pc EXCEPT ![t] = label],
               loc' = [loc EXCEPT ![t].todo = rest]
        PROVE  IInv'
    <2> DEFINE locals == [loc[t] EXCEPT !.todo = rest]
    <2>1. /\ locals \in Local
          /\ locals.user = loc[t].user /\ locals.device = loc[t].device
          /\ locals.op = loc[t].op
      BY <1>1 DEF Local
    <2>2. loc' = [loc EXCEPT ![t] = locals] /\ label \in Labels
      BY <1>1, <1>3 DEF Labels
    <2> HIDE DEF locals
    <2>3. pc'[t] = label /\ loc'[t] = locals
      BY <1>1, <1>3, <2>2
    <2>4. ThreadInv(t)'
      BY <1>1, <1>3, <2>1, <2>3
      DEF ThreadInv, KnowsUser, Resolving, AddsOtpDevice, GivenDevice, get_user_by_id
    <2> QED
      BY <1>3, <2>1, <2>2, <2>4, GoOnStep
  <1>4. CASE loc[t].todo # {d}
    <2>1. loc[t].todo \ {d} \in SUBSET Devices
      BY <1>1 DEF Local
    <2>2. loc' = [loc EXCEPT ![t].todo = loc[t].todo \ {d}]
      BY <1>1, <1>4 DEF AfterRevoke
    <2>3. pc' = [pc EXCEPT ![t] = "revoke"]
      BY <1>1, <1>4 DEF AfterRevoke
    <2> QED
      BY <1>3, <2>1, <2>2, <2>3
  <1>5. CASE loc[t].todo = {d} /\ loc[t].op = "complete_reset"
    <2>1. /\ loc' = [loc EXCEPT ![t].todo = {}]
          /\ pc' = [pc EXCEPT ![t] = "add_device"]
      BY <1>5 DEF AfterRevoke
    <2>2. {} \in SUBSET Devices
      OBVIOUS
    <2> QED
      BY <1>3, <1>5, <2>1, <2>2
  <1> QED
    BY <1>2, <1>4, <1>5 DEF AfterRevoke

LEMMA RevokeStep ==
    ASSUME IInv, NEW t \in Threads, Revoke(t)
    PROVE  IInv'
  BY ThreadRegistry, AfterRevokeStep DEF Proceed, Revoke

LEMMA StorageErrorStep ==
    ASSUME IInv, NEW t \in Threads, StorageError(t)
    PROVE  IInv'
  <1>1. /\ [Registry!Next]_<<users, devices>>
        /\ UNCHANGED <<users, devices, now, sessions, redeemed>>
    BY ThreadRegistry DEF StorageError
  <1>2. /\ pc \in [Threads -> Labels] /\ loc \in [Threads -> Local]
        /\ loc[t] \in Local /\ ThreadInv(t) /\ NewSessionsOK
    BY <1>1 DEF IInv, TypeOK, NewSessionsOK
  <1>3. ASSUME NEW label \in {"create_user", "add_device"},
               label = "create_user" => pc[t] = "find_new_email",
               label = "add_device" => pc[t] = "list_devices",
               Goto(t, label), UNCHANGED grants
        PROVE  IInv'
    <2>1. /\ loc' = [loc EXCEPT ![t] = loc[t]] /\ loc' = loc
          /\ pc' = [pc EXCEPT ![t] = label] /\ label \in Labels
      BY <1>2, <1>3 DEF Goto, Labels
    <2>2. ThreadInv(t)'
      BY <1>1, <1>2, <1>3, <2>1
      DEF ThreadInv, KnowsUser, Resolving, AddsOtpDevice, GivenDevice, get_user_by_id
    <2> QED
      BY <1>1, <1>2, <1>3, <2>1, <2>2, GoOnStep
  <1>4. CASE IssueDummyReset /\ Return(t)
    <2>1. grants' \in [Nonces -> Grant]
      BY <1>4, IssueOK, AuthAssumption DEF IssueDummyReset
    <2> QED
      BY <1>1, <1>2, <1>4, <2>1, EndStep DEF IInv, TypeOK
  <1>5. ASSUME NEW d \in loc[t].todo, pc[t] = "revoke", AfterRevoke(t, d),
               UNCHANGED grants
        PROVE  IInv'
    BY <1>1, <1>5, AfterRevokeStep
  <1>6. CASE Return(t) /\ UNCHANGED grants
    BY <1>1, <1>2, <1>6, EndStep DEF IInv, TypeOK
  <1>7. CASE AddsOtpDevice(t) /\ UNCHANGED grants
             /\ (Goto(t, "add_otp_device") \/ Goto(t, "resolve_user"))
    BY <1>1, <1>7, OtpGoOn
  <1> QED
    BY <1>3, <1>4, <1>5, <1>6, <1>7 DEF StorageError, AddsOtpDevice

LEMMA ServerStep ==
    ASSUME IInv, (\E u \in Users : DeactivateUser(u)) \/ Tick \/ Restart
    PROVE  IInv'
  <1>1. [Registry!Next]_<<users, devices>>
    BY StepRegistry DEF Next
  <1>2. TablesGrow /\ EmailUnique' /\ StorageTypeOK'
    BY <1>1, RegistryTypes, RegistryGrows, RegistryUnique DEF IInv, TypeOK
  <1>3. UNCHANGED <<grants, sessions, redeemed>> /\ now' \in 0..MaxTime
    BY AuthAssumption DEF DeactivateUser, Tick, Restart, IInv, TypeOK
  <1>4. SessionDevices'
    BY <1>2, <1>3 DEF IInv, TypeOK, SessionDevices, TablesGrow, get_device, Session
  <1>5. CASE Restart
    <2>1. /\ pc' \in [Threads -> Labels] /\ loc' \in [Threads -> Local]
          /\ \A t \in Threads : pc'[t] = "idle"
      BY <1>5, NoLocalType DEF Restart, Labels
    <2>2. \A t \in Threads : ThreadInv(t)'
      BY <2>1 DEF ThreadInv, KnowsUser, Resolving, AddsOtpDevice, GivenDevice
    <2> QED
      BY <1>2, <1>3, <1>4, <2>1, <2>2 DEF IInv, TypeOK
  <1>6. CASE UNCHANGED <<pc, loc>>
    <2>1. \A t \in Threads : ThreadInv(t)'
      BY <1>2, <1>6, Frame DEF IInv
    <2> QED
      BY <1>2, <1>3, <1>4, <1>6, <2>1 DEF IInv, TypeOK
  <1> QED
    BY <1>5, <1>6 DEF DeactivateUser, Tick

----------------------------------------------------------------------------

LEMMA InitOK == ASSUME Init PROVE IInv
  <1>1. TypeOK
    BY AuthAssumption, NoLocalType
    DEF Init, TypeOK, StorageTypeOK, Grant, Labels
  <1>2. EmailUnique
    BY AuthAssumption DEF Init, EmailUnique, get_user_by_id
  <1>3. ASSUME NEW t \in Threads
        PROVE  ThreadInv(t)
    <2>1. pc[t] = "idle"
      BY DEF Init
    <2> QED
      BY <2>1 DEF ThreadInv, KnowsUser, Resolving, AddsOtpDevice, GivenDevice
  <1> QED
    BY <1>1, <1>2, <1>3 DEF Init, IInv, SessionDevices

LEMMA NextOK == ASSUME IInv, [Next]_vars PROVE IInv'
  <1>1. ASSUME NEW t \in Threads, Proceed(t)
        PROVE  IInv'
    BY <1>1, ReadStep, IssueStep, SessionStep, UpdateUserStep,
       ResolveDeviceStep, RevokeStep, OtpStep DEF Proceed
  <1>2. CASE UNCHANGED vars
    <2>1. \A t \in Threads : ThreadInv(t)'
      <3>1. TablesGrow
        BY <1>2 DEF vars, TablesGrow
      <3> QED
        BY <1>2, <3>1, Frame DEF vars, IInv
    <2> QED
      BY <1>2, <2>1
      DEF vars, IInv, TypeOK, StorageTypeOK, EmailUnique, SessionDevices,
          get_user_by_id, get_device
  <1> QED
    BY <1>1, <1>2, ReceiveStep, StorageErrorStep, ServerStep DEF Next

LEMMA Invariance == Spec => []IInv
  BY InitOK, NextOK, PTL DEF Spec

\* Every variable keeps the type the code gives it.
THEOREM TypeCorrect == Spec => []TypeOK
  <1>1. IInv => TypeOK
    BY DEF IInv
  <1> QED
    BY <1>1, Invariance, PTL

\* No interleaving of begin_registration calls, on either adapter, creates two
\* accounts with one address.
THEOREM NoDuplicateAccounts == Spec => []EmailUnique
  <1>1. IInv => EmailUnique
    BY DEF IInv
  <1> QED
    BY <1>1, Invariance, PTL

\* The multi-call operations of any number of threads, cut short by storage
\* errors and restarts, change the tables as atomic operations would.
THEOREM RefinesRegistry == Spec => ImplementsRegistry
  <1>1. Init => Registry!Init
    BY DEF Init, Registry!Init
  <1> QED
    BY <1>1, Invariance, StepRegistry, PTL
    DEF Spec, ImplementsRegistry, Registry!Spec

\* A bearer token that resolve_session accepts was good at one moment of the
\* request, although the user and the device are read in two calls.
THEOREM AcceptanceIsConsistent == Spec => AcceptedSessionWasLive
  <1>1. IInv /\ [Next]_vars => [\A t \in Threads : Accepts(t) => loc[t].live]_vars
    BY DEF IInv, ThreadInv, GivenDevice, Accepts, ResolveDevice
  <1> QED
    BY <1>1, Invariance, PTL DEF Spec, AcceptedSessionWasLive

----------------------------------------------------------------------------
(* Logins by OTP.  Only they register OTP devices, each for its own account. *)

OtpLabels == {"get_otp_device", "add_otp_device", "resolve_user", "resolve_device"}

ByLink(t) == pc[t] = "get_user" \/ KnowsUser(t)

OtpThread(t) ==
    /\ ByLink(t) => loc[t].device \in KeyDevices
    /\ loc[t].op = "otp_login" =>
          \/ pc[t] = "find_otp_email" /\ loc[t].user = None
          \/ /\ pc[t] \in OtpLabels
             /\ loc[t].user \in Users /\ get_user_by_id(loc[t].user)
    /\ loc[t].op = "otp_login" /\ Resolving(t) =>
          StorageMayFail \/ devices[loc[t].device].owner = loc[t].user

OtpDevicesOwn == \A u \in Users : devices[OtpDevice[u]].owner \in {u, None}

OInv == IInv /\ OtpDevicesOwn /\ \A t \in Threads : OtpThread(t)

LEMMA OtpFrame ==
    ASSUME IInv, TablesGrow, NEW t \in Threads, OtpThread(t),
           pc'[t] = pc[t], loc'[t] = loc[t]
    PROVE  OtpThread(t)'
  <1>1. loc[t].user \in Users /\ get_user_by_id(loc[t].user) =>
           get_user_by_id(loc[t].user)'
    BY DEF TablesGrow, get_user_by_id
  <1>2. loc[t].op = "otp_login" /\ Resolving(t) =>
           /\ loc[t].device \in Devices /\ loc[t].user \in Users
           /\ devices[loc[t].device].owner = loc[t].user =>
                 devices'[loc[t].device].owner = loc[t].user
    BY StorageAssumption DEF IInv, ThreadInv, TablesGrow, get_device
  <1> QED
    BY <1>1, <1>2 DEF OtpThread, ByLink, KnowsUser, Resolving

\* A thread that has ended, or goes on in an operation other than a login by OTP.
LEMMA OtpElsewhere ==
    ASSUME NEW t \in Threads, OtpThread(t),
           \/ pc'[t] = "idle" /\ loc'[t] = NoLocal
           \/ /\ loc[t].op # "otp_login" /\ loc'[t].op = loc[t].op
              /\ loc'[t].device = loc[t].device
              /\ ByLink(t)' => ByLink(t)
    PROVE  OtpThread(t)'
  <1>1. NoLocal.op # "otp_login"
    BY DEF NoLocal
  <1> QED
    BY <1>1 DEF OtpThread, ByLink, KnowsUser, Resolving

LEMMA OtpBegin ==
    ASSUME IInv, NEW t \in Threads, NEW locals,
           NEW first \in {"find_new_email", "find_login_email", "login_device",
                          "resolve_user", "own_device", "find_reset_email",
                          "get_user"},
           Begin(t, first, locals), locals.op # "otp_login",
           first = "get_user" => locals.device \in KeyDevices
    PROVE  MovesOnly(t) /\ OtpThread(t)' /\ UNCHANGED <<users, devices>>
  <1>1. /\ pc' = [pc EXCEPT ![t] = first] /\ loc' = [loc EXCEPT ![t] = locals]
        /\ pc \in [Threads -> Labels] /\ loc \in [Threads -> Local]
    BY DEF Begin, IInv, TypeOK
  <1>2. pc'[t] = first /\ loc'[t] = locals /\ MovesOnly(t)
    BY <1>1 DEF MovesOnly
  <1> QED
    BY <1>2 DEF Begin, OtpThread, ByLink, KnowsUser, Resolving

LEMMA OtpReceive ==
    ASSUME OInv, NEW t \in Threads, Receive(t)
    PROVE  MovesOnly(t) /\ OtpThread(t)' /\ UNCHANGED <<users, devices>>
  <1> DEFINE Goal == MovesOnly(t) /\ OtpThread(t)' /\ UNCHANGED <<users, devices>>
  <1>0. IInv
    BY DEF OInv
  <1> USE DEF NoLocal
  <1>1. ASSUME NEW e \in Emails,
               begin_registration(t, e) \/ begin_login(t, e) \/ begin_reset(t, e)
        PROVE  Goal
    <2>1. ASSUME NEW op \in OpNames \ {"otp_login"},
                 NEW first \in {"find_new_email", "find_login_email",
                                "find_reset_email"},
                 Begin(t, first, [NoLocal EXCEPT !.op = op, !.email = e])
          PROVE  Goal
      <3> DEFINE locals == [NoLocal EXCEPT !.op = op, !.email = e]
      <3>1. locals.op = op
        OBVIOUS
      <3>2. Begin(t, first, locals)
        BY <2>1
      <3> HIDE DEF locals
      <3> QED
        BY <1>0, <3>1, <3>2, OtpBegin
    <2> HIDE DEF Goal, NoLocal
    <2> QED
      BY <1>1, <2>1 DEF OpNames, begin_registration, begin_login, begin_reset
  <1>2. ASSUME NEW n \in Nonces, NEW d \in KeyDevices,
               \/ complete_registration(t, n, d)
               \/ complete_reset(t, n, d)
               \/ complete_add_device(t, n, d)
        PROVE  Goal
    <2>1. ASSUME NEW op \in OpNames \ {"otp_login"}, NEW kind,
                 CompleteWithLink(t, op, kind, n, d)
          PROVE  Goal
      <3> DEFINE locals == [NoLocal EXCEPT !.op = op, !.user = grants[n].user,
                                           !.device = d, !.grant = n]
      <3>1. locals.op = op /\ locals.device = d
        OBVIOUS
      <3>2. Begin(t, "get_user", locals)
        BY <2>1 DEF CompleteWithLink
      <3> HIDE DEF locals
      <3> QED
        BY <1>0, <3>1, <3>2, OtpBegin
    <2> HIDE DEF Goal, NoLocal
    <2> QED
      BY <1>2, <2>1
      DEF OpNames, complete_registration, complete_reset, complete_add_device
  <1>3. ASSUME NEW n \in Nonces, NEW d \in KeyDevices, complete_login(t, n, d)
        PROVE  Goal
    <2> DEFINE locals == [NoLocal EXCEPT !.op = "complete_login", !.device = d,
                                         !.grant = n]
    <2>1. Begin(t, "login_device", locals) /\ locals.op # "otp_login"
      BY <1>3 DEF complete_login
    <2> HIDE DEF locals
    <2> QED
      BY <1>0, <2>1, OtpBegin
  <1>4. ASSUME NEW s \in sessions,
               \/ verify_session(t, s)
               \/ begin_add_device(t, s)
               \/ logout(t, s)
               \/ \E d \in Devices : revoke_device_of(t, s, d)
        PROVE  Goal
    <2>1. ASSUME NEW op \in OpNames \ {"otp_login"},
                 NEW first \in {"resolve_user", "own_device"}, NEW targets,
                 WithSession(t, op, first, s, targets)
          PROVE  Goal
      <3> DEFINE locals == [NoLocal EXCEPT !.op = op, !.user = s.user,
                                           !.device = s.device, !.todo = targets]
      <3>1. locals.op = op
        OBVIOUS
      <3>2. Begin(t, first, locals)
        BY <2>1 DEF WithSession
      <3> HIDE DEF locals
      <3> QED
        BY <1>0, <3>1, <3>2, OtpBegin
    <2> HIDE DEF Goal, NoLocal
    <2> QED
      BY <1>4, <2>1
      DEF OpNames, verify_session, begin_add_device, logout, revoke_device_of
  <1>5. ASSUME NEW u \in Users, NEW d \in Devices, create_session(t, u, d)
        PROVE  Goal
    <2> DEFINE locals == [NoLocal EXCEPT !.op = "create_session", !.user = u,
                                         !.device = d]
    <2>1. Begin(t, "resolve_user", locals) /\ locals.op # "otp_login"
      BY <1>5 DEF create_session
    <2> HIDE DEF locals
    <2> QED
      BY <1>0, <2>1, OtpBegin
  <1>6. ASSUME NEW e \in Emails, otp_login(t, e)
        PROVE  Goal
    <2> DEFINE locals == [NoLocal EXCEPT !.op = "otp_login", !.email = e]
    <2>1. /\ pc' = [pc EXCEPT ![t] = "find_otp_email"]
          /\ loc' = [loc EXCEPT ![t] = locals]
          /\ pc \in [Threads -> Labels] /\ loc \in [Threads -> Local]
          /\ UNCHANGED <<users, devices>>
      BY <1>0, <1>6 DEF otp_login, Begin, IInv, TypeOK
    <2>2. locals.user = None
      OBVIOUS
    <2> HIDE DEF locals
    <2>3. pc'[t] = "find_otp_email" /\ loc'[t] = locals /\ MovesOnly(t)
      BY <2>1 DEF MovesOnly
    <2> QED
      BY <2>1, <2>2, <2>3 DEF OtpThread, ByLink, KnowsUser, Resolving
  <1> QED
    BY <1>1, <1>2, <1>3, <1>4, <1>5, <1>6
    DEF Receive, RegisterRoutes, LoginRoutes, SessionRoutes, ResetRoutes,
        DeviceRoutes

\* What a step of t may do to the tables and to t outside logins by OTP.
Elsewhere(t) ==
    /\ MovesOnly(t)
    /\ loc[t].op # "otp_login"
    /\ \/ pc'[t] = "idle" /\ loc'[t] = NoLocal
       \/ /\ loc'[t].op = loc[t].op /\ loc'[t].device = loc[t].device
          /\ ByLink(t)' => ByLink(t)

LEMMA OtpReads ==
    ASSUME OInv, NEW t \in Threads,
           \/ FindNewEmail(t) \/ CreateUser(t) \/ GetUser(t) \/ UpdateUser(t)
           \/ AddDevice(t) \/ FindLoginEmail(t) \/ LoginDevices(t)
           \/ LoginDevice(t) \/ LoginUser(t) \/ OwnDevice(t) \/ Revoke(t)
           \/ FindResetEmail(t) \/ ListDevices(t)
    PROVE  Elsewhere(t)
  <1>1. /\ pc \in [Threads -> Labels] /\ loc \in [Threads -> Local]
        /\ loc[t] \in Local /\ OtpThread(t) /\ ThreadInv(t)
    BY DEF OInv, IInv, TypeOK
  <1>2. pc[t] \notin OtpLabels \cup {"find_otp_email"}
    BY DEF OtpLabels, FindNewEmail, CreateUser, GetUser, UpdateUser, AddDevice,
       FindLoginEmail, LoginDevices, LoginDevice, LoginUser, OwnDevice, Revoke,
       FindResetEmail, ListDevices
  <1>3. loc[t].op # "otp_login"
    BY <1>1, <1>2 DEF OtpThread
  <1>4. CASE Return(t)
    BY <1>1, <1>3, <1>4 DEF Return, Elsewhere, MovesOnly
  <1>5. ASSUME NEW label \in {"create_user", "add_device", "revoke"},
               Goto(t, label),
               label = "add_device" => ByLink(t),
               label = "revoke" => pc[t] = "own_device"
        PROVE  Elsewhere(t)
    BY <1>1, <1>3, <1>5
    DEF Goto, Elsewhere, MovesOnly, ByLink, KnowsUser, ThreadInv
  <1>6. CASE FindNewEmail(t) \/ CreateUser(t) \/ UpdateUser(t) \/ OwnDevice(t)
    BY <1>4, <1>5, <1>6
    DEF FindNewEmail, CreateUser, UpdateUser, OwnDevice, ByLink, KnowsUser
  <1>7. CASE AddDevice(t) \/ LoginDevices(t) \/ LoginUser(t) \/ FindResetEmail(t)
    BY <1>4, <1>7 DEF AddDevice, LoginDevices, LoginUser, FindResetEmail
  <1>8. CASE GetUser(t)
    BY <1>1, <1>3, <1>4, <1>8
    DEF GetUser, Elsewhere, MovesOnly, ByLink, Local
  <1>9. CASE FindLoginEmail(t)
    BY <1>1, <1>3, <1>4, <1>9
    DEF FindLoginEmail, Elsewhere, MovesOnly, ByLink, KnowsUser, Local
  <1>10. CASE LoginDevice(t)
    BY <1>1, <1>3, <1>4, <1>10
    DEF LoginDevice, Elsewhere, MovesOnly, ByLink, KnowsUser, Local
  <1>11. CASE Revoke(t)
    BY <1>1, <1>3, <1>4, <1>11
    DEF Revoke, AfterRevoke, Elsewhere, MovesOnly, ByLink, KnowsUser, Local
  <1>12. CASE ListDevices(t)
    BY <1>1, <1>3, <1>12
    DEF ListDevices, Elsewhere, MovesOnly, ByLink, KnowsUser, Local
  <1> QED
    BY <1>6, <1>7, <1>8, <1>9, <1>10, <1>11, <1>12

\* The steps behind which a login by OTP may be.
LEMMA OtpMoves ==
    ASSUME OInv, NEW t \in Threads,
           \/ FindOtpEmail(t) \/ GetOtpDevice(t) \/ AddOtpDevice(t)
           \/ ResolveUser(t) \/ ResolveDevice(t)
    PROVE  MovesOnly(t) /\ OtpThread(t)'
  <1>1. /\ pc \in [Threads -> Labels] /\ loc \in [Threads -> Local]
        /\ loc[t] \in Local /\ OtpThread(t) /\ ThreadInv(t) /\ StorageTypeOK
    BY DEF OInv, IInv, TypeOK
  <1>2. CASE Return(t)
    <2>1. pc'[t] = "idle" /\ loc'[t] = NoLocal /\ MovesOnly(t)
      BY <1>1, <1>2 DEF Return, MovesOnly
    <2> QED
      BY <1>1, <2>1, OtpElsewhere
  <1>3. CASE FindOtpEmail(t) /\ ~Return(t)
    <2>1. PICK u \in get_user_by_email(loc[t].email) :
             /\ pc' = [pc EXCEPT ![t] = "get_otp_device"]
             /\ loc' = [loc EXCEPT ![t].user = u, ![t].device = OtpDevice[u]]
             /\ UNCHANGED users
      BY <1>3 DEF FindOtpEmail
    <2>2. u \in Users /\ get_user_by_id(u)' /\ loc[t].op = "otp_login"
      BY <1>1, <1>3, <2>1, StorageAssumption
      DEF FindOtpEmail, ThreadInv, get_user_by_email, get_user_by_id
    <2>3. /\ pc'[t] = "get_otp_device" /\ MovesOnly(t)
          /\ loc'[t].user = u
      BY <1>1, <2>1 DEF MovesOnly, Local
    <2> QED
      BY <2>2, <2>3 DEF OtpThread, ByLink, KnowsUser, Resolving, OtpLabels
  <1>4. CASE GetOtpDevice(t)
    <2>1. AddsOtpDevice(t)
      BY <1>4 DEF GetOtpDevice, AddsOtpDevice
    <2>2. /\ loc' = loc /\ MovesOnly(t) /\ UNCHANGED <<users, devices>>
          /\ pc'[t] \in {"resolve_user", "add_otp_device"}
          /\ pc'[t] = "resolve_user" => get_device(loc[t].device)
      BY <1>1, <1>4 DEF GetOtpDevice, Goto, MovesOnly
    <2>3. /\ loc[t].user \in Users /\ get_user_by_id(loc[t].user)'
          /\ loc[t].device = OtpDevice[loc[t].user]
      BY <1>1, <2>1, <2>2 DEF ThreadInv, get_user_by_id
    <2>4. get_device(loc[t].device) => devices[loc[t].device].owner = loc[t].user
      BY <2>3 DEF OInv, OtpDevicesOwn, get_device
    <2> QED
      BY <2>2, <2>3, <2>4 DEF OtpThread, ByLink, KnowsUser, Resolving, OtpLabels
  <1>5. CASE AddOtpDevice(t)
    <2>1. AddsOtpDevice(t)
      BY <1>5 DEF AddOtpDevice, AddsOtpDevice
    <2>2. /\ loc' = loc /\ MovesOnly(t) /\ UNCHANGED users
          /\ pc'[t] = "resolve_user"
          /\ devices' = add_device(loc[t].device, loc[t].user)
      BY <1>1, <1>5 DEF AddOtpDevice, AfterAddOtpDevice, Goto, MovesOnly
    <2>3. /\ loc[t].user \in Users /\ get_user_by_id(loc[t].user)'
          /\ loc[t].device = OtpDevice[loc[t].user] /\ loc[t].device \in Devices
      BY <1>1, <2>1, <2>2, AuthAssumption DEF ThreadInv, get_user_by_id
    <2>4. devices'[loc[t].device].owner = loc[t].user
      BY <1>1, <2>2, <2>3
      DEF OInv, OtpDevicesOwn, add_device, get_device, StorageTypeOK
    <2> QED
      BY <2>2, <2>3, <2>4 DEF OtpThread, ByLink, KnowsUser, Resolving, OtpLabels
  <1>6. CASE ResolveUser(t) /\ ~Return(t)
    <2>1. /\ pc[t] = "resolve_user" /\ pc'[t] = "resolve_device" /\ MovesOnly(t)
          /\ loc'[t].op = loc[t].op /\ loc'[t].user = loc[t].user
          /\ loc'[t].device = loc[t].device /\ UNCHANGED <<users, devices>>
      BY <1>1, <1>6 DEF ResolveUser, MovesOnly, Local
    <2> QED
      BY <1>1, <2>1
      DEF OtpThread, ByLink, KnowsUser, Resolving, OtpLabels, get_user_by_id
  <1>7. CASE ResolveDevice(t) /\ ~Return(t)
    <2>1. /\ loc[t].op = "revoke_device" /\ pc'[t] = "own_device"
          /\ loc' = loc /\ MovesOnly(t)
      BY <1>1, <1>7 DEF ResolveDevice, Goto, MovesOnly
    <2> QED
      BY <1>1, <2>1 DEF OtpThread, ByLink, KnowsUser, Resolving
  <1> QED
    BY <1>2, <1>3, <1>4, <1>5, <1>6, <1>7

LEMMA OtpErrors ==
    ASSUME OInv, NEW t \in Threads, StorageError(t)
    PROVE  MovesOnly(t) /\ OtpThread(t)' /\ UNCHANGED devices
  <1>1. /\ pc \in [Threads -> Labels] /\ loc \in [Threads -> Local]
        /\ loc[t] \in Local /\ OtpThread(t) /\ ThreadInv(t)
        /\ UNCHANGED <<users, devices>> /\ StorageMayFail
    BY DEF OInv, IInv, TypeOK, StorageError
  <1>2. CASE Return(t)
    <2>1. pc'[t] = "idle" /\ loc'[t] = NoLocal /\ MovesOnly(t)
      BY <1>1, <1>2 DEF Return, MovesOnly
    <2> QED
      BY <1>1, <2>1, OtpElsewhere
  <1>3. ASSUME NEW label \in {"create_user", "add_device"}, Goto(t, label),
               pc[t] \in {"find_new_email", "list_devices"},
               label = "add_device" => pc[t] = "list_devices"
        PROVE  MovesOnly(t) /\ OtpThread(t)'
    <2>1. loc[t].op # "otp_login"
      BY <1>1, <1>3 DEF OtpThread, OtpLabels
    <2>2. pc'[t] = label /\ loc'[t] = loc[t] /\ MovesOnly(t)
      BY <1>1, <1>3 DEF Goto, MovesOnly
    <2>3. ByLink(t)' => ByLink(t)
      BY <1>3, <2>2 DEF ByLink, KnowsUser
    <2> QED
      BY <1>1, <2>1, <2>2, <2>3, OtpElsewhere
  <1>4. ASSUME NEW d \in loc[t].todo, pc[t] = "revoke",
               loc[t].op = "complete_reset", AfterRevoke(t, d), ~Return(t)
        PROVE  MovesOnly(t) /\ OtpThread(t)'
    <2>1. /\ loc'[t].op = loc[t].op /\ loc'[t].device = loc[t].device
          /\ MovesOnly(t)
      BY <1>1, <1>4 DEF AfterRevoke, MovesOnly, Local
    <2>2. ByLink(t)
      BY <1>4 DEF ByLink, KnowsUser
    <2> QED
      BY <1>1, <1>4, <2>1, <2>2, OtpElsewhere
  <1>5. ASSUME NEW label \in {"add_otp_device", "resolve_user"}, Goto(t, label),
               AddsOtpDevice(t)
        PROVE  MovesOnly(t) /\ OtpThread(t)'
    <2>1. pc'[t] = label /\ loc' = loc /\ MovesOnly(t)
      BY <1>1, <1>5 DEF Goto, MovesOnly
    <2>2. loc[t].user \in Users /\ get_user_by_id(loc[t].user)'
      BY <1>1, <1>5, <2>1 DEF ThreadInv, get_user_by_id
    <2> QED
      BY <1>1, <2>1, <2>2 DEF OtpThread, ByLink, KnowsUser, OtpLabels
  <1> QED
    BY <1>1, <1>2, <1>3, <1>4, <1>5 DEF StorageError, AddsOtpDevice

\* Keys are registered beside the OTP devices, and these for their own accounts.
LEMMA OtpOwn ==
    ASSUME OInv, NEW t \in Threads, Proceed(t)
    PROVE  OtpDevicesOwn'
  <1>1. /\ devices \in [Devices -> DeviceRecord] /\ OtpDevicesOwn
        /\ OtpThread(t) /\ ThreadInv(t)
    BY DEF OInv, IInv, TypeOK, StorageTypeOK
  <1>2. CASE AddDevice(t)
    <2>1. loc[t].device \in KeyDevices
      BY <1>1, <1>2 DEF AddDevice, OtpThread, ByLink, KnowsUser
    <2>2. \A u \in Users : devices'[OtpDevice[u]] = devices[OtpDevice[u]]
      BY <1>1, <1>2, <2>1, AuthAssumption DEF AddDevice, add_device, KeyDevices
    <2> QED
      BY <1>1, <2>2 DEF OtpDevicesOwn
  <1>3. CASE AddOtpDevice(t)
    <2>1. loc[t].user \in Users /\ loc[t].device = OtpDevice[loc[t].user]
      BY <1>1, <1>3 DEF AddOtpDevice, ThreadInv, AddsOtpDevice
    <2>2. devices' = add_device(loc[t].device, loc[t].user)
      BY <1>3 DEF AddOtpDevice
    <2> QED
      BY <1>1, <2>1, <2>2, AuthAssumption DEF OtpDevicesOwn, add_device
  <1>4. CASE Revoke(t)
    <2>1. PICK d \in loc[t].todo : devices' = revoke_device(d)
      BY <1>4 DEF Revoke
    <2>2. \A e \in Devices : devices'[e].owner = devices[e].owner
      BY <1>1, <2>1 DEF revoke_device, DeviceRecord
    <2> QED
      BY <1>1, <2>2, AuthAssumption DEF OtpDevicesOwn
  <1>5. CASE UNCHANGED devices
    BY <1>1, <1>5 DEF OtpDevicesOwn
  <1> QED
    BY <1>2, <1>3, <1>4, <1>5
    DEF Proceed, FindNewEmail, CreateUser, GetUser, UpdateUser, FindLoginEmail,
        LoginDevices, LoginDevice, LoginUser, ResolveUser, ResolveDevice,
        OwnDevice, FindResetEmail, ListDevices, FindOtpEmail, GetOtpDevice

LEMMA OtpNext == ASSUME OInv, [Next]_vars PROVE OInv'
  <1>1. IInv' /\ TablesGrow
    BY NextOK, StepRegistry, RegistryGrows DEF OInv, IInv, TypeOK
  <1>2. ASSUME NEW t \in Threads, MovesOnly(t), OtpThread(t)'
        PROVE  \A s \in Threads : OtpThread(s)'
    BY <1>1, <1>2, OtpFrame DEF OInv, MovesOnly
  <1>3. ASSUME NEW t \in Threads, Receive(t) \/ StorageError(t)
        PROVE  OInv'
    <2>1. MovesOnly(t) /\ OtpThread(t)' /\ UNCHANGED devices
      BY <1>3, OtpReceive, OtpErrors
    <2> QED
      BY <1>1, <1>2, <2>1 DEF OInv, OtpDevicesOwn
  <1>4. ASSUME NEW t \in Threads, Proceed(t)
        PROVE  OInv'
    <2>1. MovesOnly(t) /\ OtpThread(t)'
      <3>1. CASE Elsewhere(t)
        BY <3>1, OtpElsewhere DEF Elsewhere, OInv
      <3> QED
        BY <1>4, <3>1, OtpReads, OtpMoves DEF Proceed
    <2> QED
      BY <1>1, <1>2, <1>4, <2>1, OtpOwn DEF OInv
  <1>5. CASE Restart
    <2>1. \A t \in Threads : pc'[t] = "idle" /\ loc'[t] = NoLocal
      BY <1>5 DEF Restart
    <2> QED
      BY <1>1, <1>5, <2>1, OtpElsewhere DEF OInv, OtpDevicesOwn, Restart
  <1>6. CASE UNCHANGED <<devices, pc, loc>>
    <2>1. \A t \in Threads : OtpThread(t)'
      BY <1>1, <1>6, OtpFrame DEF OInv
    <2> QED
      BY <1>1, <1>6, <2>1 DEF OInv, OtpDevicesOwn
  <1> QED
    BY <1>3, <1>4, <1>5, <1>6 DEF Next, DeactivateUser, Tick, vars

LEMMA OtpInit == ASSUME Init PROVE OInv
  <1>1. OtpDevicesOwn
    BY AuthAssumption DEF Init, OtpDevicesOwn
  <1>2. ASSUME NEW t \in Threads
        PROVE  OtpThread(t)
    <2>1. pc[t] = "idle" /\ loc[t].op = "none"
      BY DEF Init, NoLocal
    <2> QED
      BY <2>1 DEF OtpThread, ByLink, KnowsUser
  <1> QED
    BY <1>1, <1>2, InitOK DEF OInv

\* A login by OTP whose account was found ends without a session only for a
\* storage error, a restart, an inactive account, a revoked OTP device or a
\* signature that fails, for any number of racing first logins on either adapter.
THEOREM SpentCodesLogIn == Spec => SpentCodeLogsIn
  <1> USE DEF EndsOtpLogin, HasCause
  <1>1. ASSUME OInv, [Next]_vars, NEW t \in Threads, EndsOtpLogin(t)
        PROVE  HasCause(t)
    <2>1. /\ pc[t] \in OtpLabels
          /\ loc[t].user \in Users /\ get_user_by_id(loc[t].user)
          /\ Resolving(t) => StorageMayFail
                             \/ devices[loc[t].device].owner = loc[t].user
      BY <1>1 DEF OInv, OtpThread
    <2>2. pc'[t] # pc[t] /\ pc \in [Threads -> Labels]
      BY <1>1, <2>1 DEF OtpLabels, OInv, IInv, TypeOK
    <2>3. CASE Proceed(t)
      <3>1. ResolveUser(t) \/ ResolveDevice(t)
        BY <1>1, <2>1, <2>2, <2>3
        DEF Proceed, OtpLabels, FindNewEmail, CreateUser, GetUser, UpdateUser,
            AddDevice, FindLoginEmail, LoginDevices, LoginDevice, LoginUser,
            OwnDevice, Revoke, FindResetEmail, ListDevices, FindOtpEmail,
            GetOtpDevice, AddOtpDevice, AfterAddOtpDevice, Goto
      <3>2. CASE ResolveUser(t)
        BY <1>1, <2>1, <2>2, <3>2 DEF ResolveUser, UserActive
      <3>3. CASE ResolveDevice(t)
        BY <2>1, <3>3 DEF ResolveDevice, Resolving, DeviceLive
      <3> QED
        BY <3>1, <3>2, <3>3
    <2>4. CASE Receive(t)
      <3>1. pc[t] = "idle"
        BY <2>4
        DEF Receive, RegisterRoutes, LoginRoutes, SessionRoutes, ResetRoutes,
            DeviceRoutes, begin_registration, begin_login, begin_reset,
            complete_registration, complete_login, complete_reset,
            complete_add_device, CompleteWithLink, verify_session,
            begin_add_device, logout, revoke_device_of, WithSession,
            create_session, otp_login, Begin
      <3> QED
        BY <2>1, <3>1 DEF OtpLabels
    <2>5. CASE StorageError(t)
      BY <2>5 DEF StorageError
    <2>6. ASSUME NEW s \in Threads \ {t},
                 Receive(s) \/ Proceed(s) \/ StorageError(s)
          PROVE  FALSE
      <3>1. MovesOnly(s)
        BY <1>1, <2>6, OtpReceive, OtpErrors, OtpReads, OtpMoves
        DEF Proceed, Elsewhere
      <3> QED
        BY <2>2, <3>1 DEF MovesOnly
    <2>7. CASE UNCHANGED pc
      BY <2>2, <2>7
    <2> QED
      BY <1>1, <2>3, <2>4, <2>5, <2>6, <2>7
      DEF Next, DeactivateUser, Tick, vars
  <1> HIDE DEF EndsOtpLogin, HasCause
  <1>2. OInv /\ [Next]_vars => [\A t \in Threads : EndsOtpLogin(t) => HasCause(t)]_vars
    BY <1>1
  <1>3. OInv /\ [Next]_vars => OInv'
    BY OtpNext
  <1>4. Init => OInv
    BY OtpInit
  <1> QED
    BY <1>2, <1>3, <1>4, PTL DEF Spec, SpentCodeLogsIn

----------------------------------------------------------------------------
(* On whose authority a thread acts: the link it presented, the account of *)
(* the devices it revokes, the owner of the device it logs in.             *)

LinkKinds == {"Register", "Reset", "AddDevice"}

HoldsLink(t) ==
    /\ loc[t].grant \in Nonces
    /\ grants[loc[t].grant].kind \in LinkKinds
    /\ grants[loc[t].grant].user = loc[t].user
    /\ loc[t].op = "complete_registration" \/ pc[t] = "update_user" =>
          grants[loc[t].grant].kind = "Register"

\* The devices to revoke, and those complete_reset listed, are the account's;
\* without storage errors the listed ones are revoked or still to be revoked.
OwnTargets(t) ==
    /\ pc[t] \in {"own_device", "revoke"} => loc[t].user \in Users
    /\ pc[t] = "revoke" => \A d \in loc[t].todo : devices[d].owner = loc[t].user
    /\ pc[t] \notin {"revoke", "add_device"} => loc[t].listed = {}
    /\ \A d \in loc[t].listed :
          /\ devices[d].owner = loc[t].user
          /\ \/ StorageMayFail
             \/ devices[d].revoked
             \/ pc[t] = "revoke" /\ d \in loc[t].todo

Authority(t) ==
    /\ ByLink(t) => HoldsLink(t)
    /\ OwnTargets(t)
    /\ pc[t] = "login_user" => devices[loc[t].device].owner = loc[t].user
    /\ pc[t] = "resolve_device" => get_user_by_id(loc[t].user)

AInv == OInv /\ \A t \in Threads : Authority(t)

\* A link or challenge, once issued, is never changed.
GrantsKept == \A n \in Nonces : grants[n].kind # "none" => grants'[n] = grants[n]

LEMMA GrantsStep == ASSUME IInv, [Next]_vars PROVE GrantsKept
  <1>1. CASE UNCHANGED grants
    BY <1>1 DEF GrantsKept
  <1>2. ASSUME NEW kind, NEW u, NEW ttl, Issue(kind, u, ttl)
        PROVE  GrantsKept
    BY <1>2 DEF Issue, GrantsKept, IInv, TypeOK
  <1>3. ASSUME NEW t \in Threads, Receive(t)
        PROVE  UNCHANGED grants
    BY <1>3
    DEF Receive, RegisterRoutes, LoginRoutes, SessionRoutes, ResetRoutes,
        DeviceRoutes, begin_registration, begin_login, begin_reset,
        complete_registration, complete_login, complete_reset,
        complete_add_device, CompleteWithLink, verify_session,
        begin_add_device, logout, revoke_device_of, WithSession,
        create_session, otp_login, Begin
  <1>4. ASSUME NEW t \in Threads, Proceed(t)
        PROVE  GrantsKept
    BY <1>1, <1>2, <1>4
    DEF Proceed, FindNewEmail, CreateUser, GetUser, UpdateUser, AddDevice,
        FindLoginEmail, LoginDevices, LoginDevice, LoginUser, ResolveUser,
        ResolveDevice, OwnDevice, Revoke, FindResetEmail, IssueDummyReset,
        ListDevices, FindOtpEmail, GetOtpDevice, AddOtpDevice
  <1>5. ASSUME NEW t \in Threads, StorageError(t)
        PROVE  GrantsKept
    BY <1>1, <1>2, <1>5 DEF StorageError, IssueDummyReset
  <1> QED
    BY <1>1, <1>3, <1>4, <1>5 DEF Next, DeactivateUser, Tick, Restart, vars

LEMMA AuthorityFrame ==
    ASSUME IInv, TablesGrow, GrantsKept, NEW t \in Threads, Authority(t),
           pc'[t] = pc[t], loc'[t] = loc[t]
    PROVE  Authority(t)'
  <1> USE StorageAssumption
  <1>1. ThreadInv(t) /\ loc[t] \in Local
    BY DEF IInv, TypeOK
  <1>2. HoldsLink(t) => HoldsLink(t)'
    BY DEF HoldsLink, GrantsKept, LinkKinds
  <1>3. ByLink(t)' => ByLink(t)
    BY DEF ByLink, KnowsUser
  <1>4. \A d \in Devices :
           loc[t].user \in Users /\ devices[d].owner = loc[t].user =>
              /\ devices'[d].owner = loc[t].user
              /\ devices[d].revoked => devices'[d].revoked
    BY DEF TablesGrow, get_device
  <1>5. pc[t] \in {"revoke", "add_device", "login_user"} => loc[t].user \in Users
    BY <1>1 DEF Authority, OwnTargets, ThreadInv, KnowsUser
  <1>6. loc[t].todo \subseteq Devices /\ loc[t].listed \subseteq Devices
    BY <1>1 DEF Local
  <1>7. OwnTargets(t)'
    BY <1>4, <1>5, <1>6 DEF Authority, OwnTargets
  <1>8. pc[t] = "login_user" => devices'[loc[t].device].owner = loc[t].user
    BY <1>1, <1>4, <1>5 DEF Authority, ThreadInv
  <1>9. pc[t] = "resolve_device" => get_user_by_id(loc[t].user)'
    BY <1>1 DEF Authority, ThreadInv, Resolving, TablesGrow, get_user_by_id
  <1> QED
    BY <1>2, <1>3, <1>7, <1>8, <1>9 DEF Authority

\* Labels at which a thread relies on nothing of this.
LEMMA NoAuthority ==
    ASSUME NEW t \in Threads, loc'[t].listed = {},
           pc'[t] \notin {"get_user", "update_user", "list_devices", "add_device",
                          "own_device", "revoke", "login_user", "resolve_device"}
    PROVE  Authority(t)'
  BY DEF Authority, OwnTargets, ByLink, KnowsUser

LEMMA EndAuthority ==
    ASSUME IInv, NEW t \in Threads, Return(t)
    PROVE  Authority(t)'
  <1>1. pc'[t] = "idle" /\ loc'[t].listed = {}
    BY DEF IInv, TypeOK, Return, NoLocal
  <1> QED
    BY <1>1, NoAuthority

LEMMA BeginAuthority ==
    ASSUME AInv, NEW t \in Threads, Receive(t)
    PROVE  Authority(t)'
  <1>0. pc \in [Threads -> Labels] /\ loc \in [Threads -> Local]
    BY DEF AInv, OInv, IInv, TypeOK
  <1>1. ASSUME NEW locals, locals.listed = {},
               NEW first \in {"find_new_email", "find_login_email", "login_device",
                              "resolve_user", "find_reset_email", "find_otp_email"},
               Begin(t, first, locals)
        PROVE  Authority(t)'
    <2>1. pc'[t] = first /\ loc'[t].listed = {}
      BY <1>0, <1>1 DEF Begin
    <2> QED
      BY <2>1, NoAuthority
  <1>2. ASSUME NEW n \in Nonces, NEW d \in KeyDevices, NEW kind \in LinkKinds,
               NEW op, op = "complete_registration" => kind = "Register",
               CompleteWithLink(t, op, kind, n, d)
        PROVE  Authority(t)'
    <2> DEFINE locals == [NoLocal EXCEPT !.op = op, !.user = grants[n].user,
                                         !.device = d, !.grant = n]
    <2>1. /\ locals.op = op /\ locals.user = grants[n].user
          /\ locals.grant = n /\ locals.listed = {}
      BY DEF NoLocal
    <2>2. Begin(t, "get_user", locals) /\ grants[n].kind = kind
      BY <1>2 DEF CompleteWithLink, ValidGrant
    <2> HIDE DEF locals
    <2>3. pc'[t] = "get_user" /\ loc'[t] = locals /\ UNCHANGED grants
      BY <1>0, <2>2 DEF Begin
    <2>4. HoldsLink(t)'
      BY <1>2, <2>1, <2>2, <2>3 DEF HoldsLink
    <2>5. OwnTargets(t)'
      BY <2>1, <2>3 DEF OwnTargets
    <2> QED
      BY <2>3, <2>4, <2>5 DEF Authority
  <1>3. ASSUME NEW s \in sessions, logout(t, s)
        PROVE  Authority(t)'
    <2> DEFINE locals == [NoLocal EXCEPT !.op = "logout", !.user = s.user,
                                         !.device = s.device, !.todo = {s.device}]
    <2>1. locals.user \in Users /\ locals.listed = {}
      BY DEF NoLocal, AInv, OInv, IInv, TypeOK, Session
    <2>2. Begin(t, "own_device", locals)
      BY <1>3 DEF logout, WithSession
    <2> HIDE DEF locals
    <2>3. pc'[t] = "own_device" /\ loc'[t] = locals
      BY <1>0, <2>2 DEF Begin
    <2> QED
      BY <2>1, <2>3 DEF Authority, OwnTargets, ByLink, KnowsUser
  <1>4. ASSUME NEW s, NEW op, NEW targets,
               WithSession(t, op, "resolve_user", s, targets)
        PROVE  Authority(t)'
    <2> DEFINE locals == [NoLocal EXCEPT !.op = op, !.user = s.user,
                                         !.device = s.device, !.todo = targets]
    <2>1. locals.listed = {} /\ Begin(t, "resolve_user", locals)
      BY <1>4 DEF NoLocal, WithSession
    <2> HIDE DEF locals
    <2> QED
      BY <1>1, <2>1
  <1>5. ASSUME NEW e \in Emails, NEW op,
               NEW first \in {"find_new_email", "find_login_email",
                              "find_reset_email", "find_otp_email"},
               Begin(t, first, [NoLocal EXCEPT !.op = op, !.email = e])
        PROVE  Authority(t)'
    <2> DEFINE locals == [NoLocal EXCEPT !.op = op, !.email = e]
    <2>1. locals.listed = {} /\ Begin(t, first, locals)
      BY <1>5 DEF NoLocal
    <2> HIDE DEF locals
    <2> QED
      BY <1>1, <2>1
  <1>6. ASSUME NEW n \in Nonces, NEW d \in KeyDevices, complete_login(t, n, d)
        PROVE  Authority(t)'
    <2> DEFINE locals == [NoLocal EXCEPT !.op = "complete_login", !.device = d,
                                         !.grant = n]
    <2>1. locals.listed = {} /\ Begin(t, "login_device", locals)
      BY <1>6 DEF NoLocal, complete_login
    <2> HIDE DEF locals
    <2> QED
      BY <1>1, <2>1
  <1>7. ASSUME NEW u \in Users, NEW d \in Devices, create_session(t, u, d)
        PROVE  Authority(t)'
    <2> DEFINE locals == [NoLocal EXCEPT !.op = "create_session", !.user = u,
                                         !.device = d]
    <2>1. locals.listed = {} /\ Begin(t, "resolve_user", locals)
      BY <1>7 DEF NoLocal, create_session
    <2> HIDE DEF locals
    <2> QED
      BY <1>1, <2>1
  <1>8. RegisterRoutes(t) => Authority(t)'
    BY <1>2, <1>5 DEF RegisterRoutes, begin_registration, complete_registration,
       LinkKinds
  <1>9. LoginRoutes(t) => Authority(t)'
    BY <1>5, <1>6 DEF LoginRoutes, begin_login
  <1>10. SessionRoutes(t) => Authority(t)'
    BY <1>3, <1>4 DEF SessionRoutes, verify_session
  <1>11. ResetRoutes(t) => Authority(t)'
    BY <1>2, <1>5 DEF ResetRoutes, begin_reset, complete_reset, LinkKinds
  <1>12. DeviceRoutes(t) => Authority(t)'
    BY <1>2, <1>4
    DEF DeviceRoutes, complete_add_device, begin_add_device, revoke_device_of,
        LinkKinds
  <1>13. (\E e \in Emails : otp_login(t, e)) => Authority(t)'
    BY <1>5 DEF otp_login
  <1> QED
    BY <1>7, <1>8, <1>9, <1>10, <1>11, <1>12, <1>13 DEF Receive

\* The loop over the devices to revoke: marked says that the call succeeded.
LEMMA LoopAuthority ==
    ASSUME AInv, TablesGrow, GrantsKept, NEW t \in Threads, pc[t] = "revoke",
           NEW d \in loc[t].todo, AfterRevoke(t, d),
           StorageMayFail \/ devices'[d].revoked
    PROVE  Authority(t)'
  <1>1. /\ pc \in [Threads -> Labels] /\ loc \in [Threads -> Local]
        /\ loc[t] \in Local /\ Authority(t) /\ IInv
    BY DEF AInv, OInv, IInv, TypeOK
  <1>2. loc[t].todo \subseteq Devices /\ loc[t].listed \subseteq Devices
    BY <1>1 DEF Local
  <1>3. loc[t].user \in Users
    BY <1>1 DEF Authority, OwnTargets
  <1>4. \A e \in Devices :
           devices[e].owner = loc[t].user =>
              /\ devices'[e].owner = loc[t].user
              /\ devices[e].revoked => devices'[e].revoked
    BY <1>3, StorageAssumption DEF TablesGrow, get_device
  <1>5. \A e \in loc[t].listed :
           /\ devices'[e].owner = loc[t].user
           /\ StorageMayFail \/ devices'[e].revoked \/ e \in loc[t].todo \ {d}
    BY <1>1, <1>2, <1>4 DEF Authority, OwnTargets
  <1>6. CASE Return(t)
    BY <1>1, <1>6, EndAuthority
  <1>7. CASE loc[t].todo # {d}
    <2>1. /\ loc'[t] = [loc[t] EXCEPT !.todo = loc[t].todo \ {d}]
          /\ pc'[t] = "revoke"
      BY <1>1, <1>7 DEF AfterRevoke
    <2>2. /\ loc'[t].todo = loc[t].todo \ {d} /\ loc'[t].listed = loc[t].listed
          /\ loc'[t].user = loc[t].user /\ loc'[t].op = loc[t].op
          /\ loc'[t].grant = loc[t].grant
      BY <1>1, <2>1 DEF Local
    <2>3. \A e \in loc'[t].todo : devices'[e].owner = loc'[t].user
      BY <1>1, <1>2, <1>4, <2>2 DEF Authority, OwnTargets
    <2>4. OwnTargets(t)'
      BY <1>3, <1>5, <2>1, <2>2, <2>3 DEF OwnTargets
    <2>5. ByLink(t)' => HoldsLink(t)'
      BY <1>1, <2>1, <2>2
      DEF Authority, ByLink, KnowsUser, HoldsLink, GrantsKept, LinkKinds
    <2> QED
      BY <2>1, <2>4, <2>5 DEF Authority
  <1>8. CASE loc[t].todo = {d} /\ loc[t].op = "complete_reset"
    <2>1. loc'[t] = [loc[t] EXCEPT !.todo = {}] /\ pc'[t] = "add_device"
      BY <1>1, <1>8 DEF AfterRevoke
    <2>2. /\ loc'[t].listed = loc[t].listed
          /\ loc'[t].user = loc[t].user /\ loc'[t].op = loc[t].op
          /\ loc'[t].grant = loc[t].grant
      BY <1>1, <2>1 DEF Local
    <2>3. OwnTargets(t)'
      BY <1>5, <1>8, <2>1, <2>2 DEF OwnTargets
    <2>4. HoldsLink(t)'
      BY <1>1, <1>8, <2>1, <2>2
      DEF Authority, ByLink, KnowsUser, HoldsLink, GrantsKept, LinkKinds
    <2> QED
      BY <2>1, <2>3, <2>4 DEF Authority
  <1> QED
    BY <1>6, <1>7, <1>8 DEF AfterRevoke

LEMMA ProceedAuthority ==
    ASSUME AInv, TablesGrow, GrantsKept, NEW t \in Threads, Proceed(t)
    PROVE  Authority(t)'
  <1>1. /\ pc \in [Threads -> Labels] /\ loc \in [Threads -> Local]
        /\ loc[t] \in Local /\ Authority(t) /\ ThreadInv(t) /\ IInv
    BY DEF AInv, OInv, IInv, TypeOK
  <1>2. CASE Return(t)
    BY <1>1, <1>2, EndAuthority
  <1>3. ASSUME NEW label \in {"create_user", "login_devices", "get_otp_device",
                              "add_otp_device", "resolve_user"},
               pc' = [pc EXCEPT ![t] = label],
               loc'[t].listed = loc[t].listed,
               pc[t] \notin {"revoke", "add_device"}
        PROVE  Authority(t)'
    <2>1. loc'[t].listed = {} /\ pc'[t] = label
      BY <1>1, <1>3 DEF Authority, OwnTargets
    <2> QED
      BY <2>1, NoAuthority
  <1>4. CASE FindNewEmail(t) \/ CreateUser(t) \/ AddDevice(t) \/ LoginDevices(t)
                \/ LoginUser(t) \/ FindResetEmail(t) \/ GetOtpDevice(t)
                \/ AddOtpDevice(t)
    BY <1>1, <1>2, <1>3, <1>4
    DEF FindNewEmail, CreateUser, AddDevice, LoginDevices, LoginUser,
        FindResetEmail, GetOtpDevice, AddOtpDevice, AfterAddOtpDevice, Goto
  <1>5. CASE FindLoginEmail(t) /\ ~Return(t)
    <2>1. loc'[t].listed = loc[t].listed
      BY <1>1, <1>5 DEF FindLoginEmail, Local
    <2> QED
      BY <1>3, <1>5, <2>1 DEF FindLoginEmail
  <1>6. CASE FindOtpEmail(t) /\ ~Return(t)
    <2>1. loc'[t].listed = loc[t].listed
      BY <1>1, <1>6 DEF FindOtpEmail, Local
    <2> QED
      BY <1>3, <1>6, <2>1 DEF FindOtpEmail
  <1>7. CASE GetUser(t) /\ ~Return(t)
    <2>1. /\ pc[t] = "get_user" /\ pc'[t] = AfterGetUser(loc[t].op)
          /\ loc'[t] = [loc[t] EXCEPT !.email = users[loc[t].user].email]
          /\ UNCHANGED grants
      BY <1>1, <1>7 DEF GetUser
    <2>2. /\ loc'[t].listed = {} /\ loc'[t].user = loc[t].user
          /\ loc'[t].op = loc[t].op /\ loc'[t].grant = loc[t].grant
      BY <1>1, <2>1 DEF Local, Authority, OwnTargets
    <2>3. /\ pc'[t] \in {"update_user", "list_devices", "add_device"}
          /\ pc'[t] = "update_user" => loc[t].op = "complete_registration"
      BY <2>1 DEF AfterGetUser
    <2>4. HoldsLink(t)'
      BY <1>1, <2>1, <2>2, <2>3 DEF Authority, ByLink, HoldsLink
    <2> QED
      BY <2>2, <2>3, <2>4 DEF Authority, OwnTargets
  <1>8. CASE UpdateUser(t)
    <2>1. /\ pc[t] = "update_user" /\ pc'[t] = "add_device"
          /\ loc' = loc /\ UNCHANGED <<grants, devices>>
      BY <1>1, <1>8 DEF UpdateUser, Goto
    <2> QED
      BY <1>1, <2>1
      DEF Authority, OwnTargets, ByLink, KnowsUser, HoldsLink
  <1>9. CASE LoginDevice(t) /\ ~Return(t)
    <2>1. /\ pc'[t] = "login_user" /\ UNCHANGED devices
          /\ loc'[t] = [loc[t] EXCEPT !.user = devices[loc[t].device].owner]
          /\ pc[t] = "login_device"
      BY <1>1, <1>9 DEF LoginDevice
    <2>2. /\ loc'[t].listed = {} /\ loc'[t].device = loc[t].device
          /\ loc'[t].user = devices[loc[t].device].owner
      BY <1>1, <2>1 DEF Local, Authority, OwnTargets
    <2> QED
      BY <2>1, <2>2 DEF Authority, OwnTargets, ByLink, KnowsUser
  <1>10. CASE ResolveUser(t) /\ ~Return(t)
    <2>1. /\ pc[t] = "resolve_user" /\ pc'[t] = "resolve_device"
          /\ UNCHANGED users /\ get_user_by_id(loc[t].user)
          /\ loc'[t] = [loc[t] EXCEPT !.live =
                           DeviceLive(loc[t].user, loc[t].device)]
      BY <1>1, <1>10 DEF ResolveUser, UserActive
    <2>2. loc'[t].listed = {} /\ loc'[t].user = loc[t].user
      BY <1>1, <2>1 DEF Local, Authority, OwnTargets
    <2> QED
      BY <2>1, <2>2
      DEF Authority, OwnTargets, ByLink, KnowsUser, get_user_by_id
  <1>11. CASE ResolveDevice(t) /\ ~Return(t)
    <2>1. /\ pc[t] = "resolve_device" /\ pc'[t] = "own_device" /\ loc' = loc
      BY <1>1, <1>11 DEF ResolveDevice, Goto
    <2> QED
      BY <1>1, <2>1
      DEF ThreadInv, Resolving, Authority, OwnTargets, ByLink, KnowsUser
  <1>12. CASE OwnDevice(t) /\ ~Return(t)
    <2>1. /\ pc[t] = "own_device" /\ pc'[t] = "revoke" /\ loc' = loc
          /\ UNCHANGED devices /\ loc[t].op # "complete_reset"
          /\ \A d \in loc[t].todo : devices[d].owner = loc[t].user
      BY <1>1, <1>12 DEF OwnDevice, Goto, ThreadInv
    <2> QED
      BY <1>1, <2>1 DEF Authority, OwnTargets, ByLink, KnowsUser
  <1>13. CASE ListDevices(t)
    <2> DEFINE mine == get_devices(loc[t].user)
               locals == [loc[t] EXCEPT !.todo = mine, !.listed = mine]
    <2>1. /\ pc[t] = "list_devices" /\ UNCHANGED <<grants, devices>>
          /\ pc'[t] = IF mine = {} THEN "add_device" ELSE "revoke"
          /\ loc'[t] = locals
      BY <1>1, <1>13 DEF ListDevices
    <2>2. /\ locals.todo = mine /\ locals.listed = mine
          /\ locals.user = loc[t].user /\ locals.grant = loc[t].grant
          /\ locals.op = loc[t].op
      BY <1>1 DEF Local
    <2>3. loc[t].user \in Users
      BY <1>1, <2>1 DEF ThreadInv, KnowsUser
    <2>4. \A d \in mine : devices[d].owner = loc[t].user
      BY DEF get_devices
    <2> HIDE DEF mine, locals
    <2>5. HoldsLink(t)'
      BY <1>1, <2>1, <2>2 DEF Authority, ByLink, KnowsUser, HoldsLink
    <2>6. OwnTargets(t)'
      BY <2>1, <2>2, <2>3, <2>4 DEF OwnTargets
    <2> QED
      BY <2>1, <2>5, <2>6 DEF Authority
  <1>14. CASE Revoke(t)
    <2>1. PICK d \in loc[t].todo : devices' = revoke_device(d) /\ AfterRevoke(t, d)
      BY <1>14 DEF Revoke
    <2>2. d \in Devices /\ devices[d].owner = loc[t].user /\ loc[t].user \in Users
      BY <1>1, <1>14, <2>1 DEF Revoke, Local, Authority, OwnTargets
    <2>3. devices'[d].revoked
      BY <1>1, <2>1, <2>2, StorageAssumption
      DEF IInv, TypeOK, StorageTypeOK, DeviceRecord, revoke_device, get_device
    <2> QED
      BY <1>14, <2>1, <2>3, LoopAuthority DEF Revoke
  <1> QED
    BY <1>2, <1>4, <1>5, <1>6, <1>7, <1>8, <1>9, <1>10, <1>11, <1>12, <1>13,
       <1>14 DEF Proceed

LEMMA ErrorAuthority ==
    ASSUME AInv, TablesGrow, GrantsKept, NEW t \in Threads, StorageError(t)
    PROVE  Authority(t)'
  <1>1. /\ pc \in [Threads -> Labels] /\ Authority(t) /\ IInv /\ StorageMayFail
    BY DEF AInv, OInv, IInv, TypeOK, StorageError
  <1>2. CASE Return(t)
    BY <1>1, <1>2, EndAuthority
  <1>3. ASSUME NEW label \in {"create_user", "add_otp_device", "resolve_user"},
               Goto(t, label), pc[t] \notin {"revoke", "add_device"}
        PROVE  Authority(t)'
    <2>1. pc'[t] = label /\ loc'[t].listed = {}
      BY <1>1, <1>3 DEF Goto, Authority, OwnTargets
    <2> QED
      BY <2>1, NoAuthority
  <1>4. CASE pc[t] = "list_devices" /\ Goto(t, "add_device") /\ UNCHANGED grants
    <2>1. pc'[t] = "add_device" /\ loc' = loc
      BY <1>1, <1>4 DEF Goto
    <2> QED
      BY <1>1, <1>4, <2>1
      DEF Authority, OwnTargets, ByLink, KnowsUser, HoldsLink
  <1>5. ASSUME NEW d \in loc[t].todo, pc[t] = "revoke", AfterRevoke(t, d)
        PROVE  Authority(t)'
    BY <1>1, <1>5, LoopAuthority
  <1> QED
    BY <1>2, <1>3, <1>4, <1>5 DEF StorageError

LEMMA AuthorityNext == ASSUME AInv, [Next]_vars PROVE AInv'
  <1>1. OInv' /\ TablesGrow /\ GrantsKept /\ IInv
    BY OtpNext, StepRegistry, RegistryGrows, GrantsStep
    DEF AInv, OInv, IInv, TypeOK
  <1>2. ASSUME NEW t \in Threads, MovesOnly(t), Authority(t)'
        PROVE  AInv'
    BY <1>1, <1>2, AuthorityFrame DEF AInv, MovesOnly
  <1>3. ASSUME NEW t \in Threads, Receive(t) \/ Proceed(t) \/ StorageError(t)
        PROVE  AInv'
    <2>1. MovesOnly(t)
      BY <1>3, OtpReceive, OtpErrors, OtpReads, OtpMoves
      DEF AInv, Proceed, Elsewhere
    <2>2. Authority(t)'
      BY <1>1, <1>3, BeginAuthority, ProceedAuthority, ErrorAuthority
    <2> QED
      BY <1>2, <2>1, <2>2
  <1>4. CASE Restart
    <2>1. \A t \in Threads : pc'[t] = "idle" /\ loc'[t].listed = {}
      BY <1>4 DEF Restart, NoLocal
    <2> QED
      BY <1>1, <2>1, NoAuthority DEF AInv
  <1>5. CASE UNCHANGED <<pc, loc>>
    BY <1>1, <1>5, AuthorityFrame DEF AInv
  <1> QED
    BY <1>3, <1>4, <1>5 DEF Next, DeactivateUser, Tick, vars

LEMMA AuthorityInvariant == Spec => []AInv
  <1>1. ASSUME Init
        PROVE  AInv
    <2>1. ASSUME NEW t \in Threads
          PROVE  Authority(t)
      <3>1. pc[t] = "idle" /\ loc[t].listed = {}
        BY <1>1 DEF Init, NoLocal
      <3> QED
        BY <3>1 DEF Authority, OwnTargets, ByLink, KnowsUser
    <2> QED
      BY <1>1, <2>1, OtpInit DEF AInv
  <1>2. AInv /\ [Next]_vars => AInv'
    BY AuthorityNext
  <1> QED
    BY <1>1, <1>2, PTL DEF Spec

\* The steps that write to the tables.
LEMMA Writers ==
    ASSUME [Next]_vars
    PROVE  \/ UNCHANGED <<users, devices>>
           \/ \E u \in Users : DeactivateUser(u)
           \/ \E t \in Threads :
                 CreateUser(t) \/ UpdateUser(t) \/ AddDevice(t)
                    \/ AddOtpDevice(t) \/ Revoke(t)
  <1>1. ASSUME NEW t \in Threads, Receive(t)
        PROVE  UNCHANGED <<users, devices>>
    BY <1>1
    DEF Receive, RegisterRoutes, LoginRoutes, SessionRoutes, ResetRoutes,
        DeviceRoutes, begin_registration, begin_login, begin_reset,
        complete_registration, complete_login, complete_reset,
        complete_add_device, CompleteWithLink, verify_session,
        begin_add_device, logout, revoke_device_of, WithSession,
        create_session, otp_login, Begin
  <1>2. ASSUME NEW t \in Threads, Proceed(t)
        PROVE  \/ UNCHANGED <<users, devices>>
               \/ CreateUser(t) \/ UpdateUser(t) \/ AddDevice(t)
               \/ AddOtpDevice(t) \/ Revoke(t)
    BY <1>2
    DEF Proceed, FindNewEmail, GetUser, FindLoginEmail, LoginDevices,
        LoginDevice, LoginUser, ResolveUser, ResolveDevice, OwnDevice,
        FindResetEmail, ListDevices, FindOtpEmail, GetOtpDevice
  <1> QED
    BY <1>1, <1>2 DEF Next, StorageError, Tick, Restart, vars

\* A thread revokes only devices of the account it authenticated as: its
\* session's, or its reset link's.
THEOREM OwnersRevoke == Spec => OnlyOwnerRevokes
  <1> DEFINE Owned(d) ==
                devices[d].revoked' /\ ~devices[d].revoked =>
                    \E t \in Threads :
                        d \in loc[t].todo /\ loc[t].user = devices[d].owner
  <1>1. ASSUME AInv, [Next]_vars, NEW d \in Devices
        PROVE  Owned(d)
    <2>0. devices \in [Devices -> DeviceRecord]
      BY <1>1 DEF AInv, OInv, IInv, TypeOK, StorageTypeOK
    <2> SUFFICES ASSUME devices'[d].revoked, ~devices[d].revoked
                 PROVE  \E t \in Threads :
                           d \in loc[t].todo /\ loc[t].user = devices[d].owner
      OBVIOUS
    <2>1. PICK t \in Threads : AddDevice(t) \/ AddOtpDevice(t) \/ Revoke(t)
      BY <1>1, Writers DEF CreateUser, UpdateUser, DeactivateUser
    <2>2. ~AddDevice(t) /\ ~AddOtpDevice(t)
      BY <2>0 DEF AddDevice, AddOtpDevice, add_device
    <2>3. PICK e \in loc[t].todo : devices' = revoke_device(e)
      BY <2>1, <2>2 DEF Revoke
    <2>4. e = d
      BY <2>0, <2>3 DEF revoke_device
    <2>5. pc[t] = "revoke"
      BY <2>1, <2>2 DEF Revoke
    <2> QED
      BY <1>1, <2>3, <2>4, <2>5 DEF AInv, Authority, OwnTargets
  <1>2. AInv /\ [Next]_vars => \A d \in Devices : Owned(d)
    BY <1>1
  <1> QED
    BY <1>2, AuthorityInvariant, PTL DEF Spec, OnlyOwnerRevokes

\* Without storage errors a reset that revokes gets to registering its key
\* only after every device it had listed is revoked.
THEOREM ListedAreRevoked ==
    ASSUME StorageMayFail = FALSE
    PROVE  Spec => []ResetRevokedListed
  <1>1. AInv => ResetRevokedListed
    BY DEF AInv, Authority, OwnTargets, ResetRevokedListed
  <1> QED
    BY <1>1, AuthorityInvariant, PTL

\* Accounts become active, and keys theirs, only through a thread that holds a
\* link issued for that account and for that purpose.
THEOREM LinksChangeAccounts == Spec => AccountChangesNeedLink
  <1> DEFINE Activated(u) ==
                users[u].active' /\ ~users[u].active =>
                    \E t \in Threads :
                        /\ loc[t].grant # None
                        /\ grants[loc[t].grant].kind = "Register"
                        /\ grants[loc[t].grant].user = u
             Bound(d) ==
                devices[d].owner' # devices[d].owner =>
                    \E t \in Threads :
                        /\ loc[t].grant # None
                        /\ grants[loc[t].grant].kind \in LinkKinds
                        /\ grants[loc[t].grant].user = devices[d].owner'
  <1>1. ASSUME AInv, [Next]_vars, NEW u \in Users
        PROVE  Activated(u)
    <2>0. users \in [Users -> UserRecord]
      BY <1>1 DEF AInv, OInv, IInv, TypeOK, StorageTypeOK
    <2> SUFFICES ASSUME users'[u].active, ~users[u].active
                 PROVE  \E t \in Threads :
                           /\ loc[t].grant # None
                           /\ grants[loc[t].grant].kind = "Register"
                           /\ grants[loc[t].grant].user = u
      OBVIOUS
    <2>1. ~(\E v \in Users : DeactivateUser(v))
      BY <2>0 DEF DeactivateUser, deactivate_user
    <2>2. ASSUME NEW t \in Threads
          PROVE  ~CreateUser(t)
      BY <2>0 DEF CreateUser, create_user
    <2>3. PICK t \in Threads : UpdateUser(t)
      BY <1>1, <2>1, <2>2, Writers DEF AddDevice, AddOtpDevice, Revoke
    <2>4. loc[t].user = u
      BY <2>0, <2>3 DEF UpdateUser, update_user
    <2>5. HoldsLink(t) /\ grants[loc[t].grant].kind = "Register"
      BY <1>1, <2>3
      DEF AInv, Authority, UpdateUser, ByLink, KnowsUser, HoldsLink
    <2> QED
      BY <2>4, <2>5, AuthAssumption DEF HoldsLink
  <1>2. ASSUME AInv, [Next]_vars, NEW d \in KeyDevices
        PROVE  Bound(d)
    <2>0. devices \in [Devices -> DeviceRecord] /\ d \in Devices
      BY <1>2 DEF AInv, OInv, IInv, TypeOK, StorageTypeOK, KeyDevices
    <2> SUFFICES ASSUME devices'[d].owner # devices[d].owner
                 PROVE  \E t \in Threads :
                           /\ loc[t].grant # None
                           /\ grants[loc[t].grant].kind \in LinkKinds
                           /\ grants[loc[t].grant].user = devices'[d].owner
      OBVIOUS
    <2>1. ASSUME NEW t \in Threads
          PROVE  ~Revoke(t)
      BY <2>0 DEF Revoke, revoke_device, DeviceRecord
    <2>2. ASSUME NEW t \in Threads
          PROVE  ~AddOtpDevice(t)
      <3> SUFFICES ASSUME AddOtpDevice(t)
                   PROVE  FALSE
        OBVIOUS
      <3>1. loc[t].user \in Users /\ loc[t].device = OtpDevice[loc[t].user]
        BY <1>2 DEF AInv, OInv, IInv, ThreadInv, AddsOtpDevice, AddOtpDevice
      <3>2. loc[t].device # d
        BY <3>1 DEF KeyDevices
      <3> QED
        BY <2>0, <3>2 DEF AddOtpDevice, add_device
    <2>3. PICK t \in Threads : AddDevice(t)
      BY <1>2, <2>1, <2>2, Writers DEF CreateUser, UpdateUser, DeactivateUser
    <2>4. devices'[d].owner = loc[t].user
      BY <2>0, <2>3 DEF AddDevice, add_device
    <2>5. HoldsLink(t)
      BY <1>2, <2>3 DEF AInv, Authority, AddDevice, ByLink, KnowsUser
    <2> QED
      BY <2>4, <2>5, AuthAssumption DEF HoldsLink
  <1>3. AInv /\ [Next]_vars =>
            /\ \A u \in Users : Activated(u)
            /\ \A d \in KeyDevices : Bound(d)
    BY <1>1, <1>2
  <1> QED
    BY <1>3, AuthorityInvariant, PTL
    DEF Spec, AccountChangesNeedLink, LinkKinds

\* With the memory adapter, which refuses a key that is registered already, a
\* session names a stored account and a device of that account, whichever
\* operation issued it.
THEOREM SessionsAreOwn ==
    ASSUME Adapter = "memory"
    PROVE  Spec => []SessionNamesOwnDevice
  <1>1. ASSUME AInv, [Next]_vars, SessionNamesOwnDevice
        PROVE  SessionNamesOwnDevice'
    <2>1. IInv /\ TypeOK /\ TablesGrow
      BY <1>1, StepRegistry, RegistryGrows DEF AInv, OInv, IInv, TypeOK
    <2>2. ASSUME NEW s \in sessions
          PROVE  get_user_by_id(s.user)' /\ devices'[s.device].owner = s.user
      BY <1>1, <2>1, <2>2, StorageAssumption
      DEF SessionNamesOwnDevice, TablesGrow, get_user_by_id, get_device, TypeOK,
          Session
    <2>3. CASE UNCHANGED sessions
      BY <2>2, <2>3 DEF SessionNamesOwnDevice, get_user_by_id
    <2>4. ASSUME NEW t \in Threads, NEW u \in Users, NEW d \in Devices,
                 make_session(t, u, d),
                 get_user_by_id(u)', devices'[d].owner = u
          PROVE  SessionNamesOwnDevice'
      BY <2>2, <2>4 DEF make_session, SessionNamesOwnDevice, get_user_by_id
    <2>5. ASSUME NEW t \in Threads
          PROVE  ThreadInv(t) /\ Authority(t)
      BY <1>1, <2>1 DEF AInv, IInv
    <2>6. ASSUME NEW t \in Threads, AddDevice(t)
          PROVE  SessionNamesOwnDevice'
      <3>1. /\ loc[t].user \in Users /\ loc[t].device \in Devices
            /\ get_user_by_id(loc[t].user)
        BY <2>5, <2>6 DEF AddDevice, ThreadInv, KnowsUser
      <3>2. PICK u \in Users, d \in Devices :
               /\ u = loc[t].user /\ d = loc[t].device
               /\ get_user_by_id(u)'
        BY <2>6, <3>1 DEF AddDevice, get_user_by_id
      <3>3. CASE get_device(loc[t].device)
        BY <2>3, <2>6, <3>3 DEF AddDevice, add_device_ok
      <3>4. CASE ~get_device(loc[t].device)
        <4>1. devices'[d].owner = u
          BY <2>1, <2>6, <3>2, <3>4
          DEF AddDevice, add_device, TypeOK, StorageTypeOK
        <4>2. make_session(t, u, d) \/ UNCHANGED sessions
          BY <2>6, <3>2 DEF AddDevice
        <4> QED
          BY <2>3, <2>4, <3>2, <4>1, <4>2
      <3> QED
        BY <3>3, <3>4
    <2>7. ASSUME NEW t \in Threads, LoginUser(t)
          PROVE  SessionNamesOwnDevice'
      <3>1. /\ loc[t].user \in Users /\ loc[t].device \in Devices
            /\ devices[loc[t].device].owner = loc[t].user
            /\ UNCHANGED <<users, devices>>
        BY <2>5, <2>7 DEF LoginUser, ThreadInv, Authority
      <3> QED
        BY <2>3, <2>4, <2>7, <3>1 DEF LoginUser, get_user_by_id
    <2>8. ASSUME NEW t \in Threads, ResolveDevice(t)
          PROVE  SessionNamesOwnDevice'
      <3>1. /\ loc[t].user \in Users /\ loc[t].device \in Devices
            /\ get_user_by_id(loc[t].user) /\ UNCHANGED <<users, devices>>
        BY <2>5, <2>8 DEF ResolveDevice, ThreadInv, Resolving, Authority
      <3> QED
        BY <2>3, <2>4, <2>8, <3>1
        DEF ResolveDevice, DeviceLive, get_user_by_id
    <2>9. ASSUME NEW t \in Threads, Receive(t)
          PROVE  UNCHANGED sessions
      BY <2>9
      DEF Receive, RegisterRoutes, LoginRoutes, SessionRoutes, ResetRoutes,
          DeviceRoutes, begin_registration, begin_login, begin_reset,
          complete_registration, complete_login, complete_reset,
          complete_add_device, CompleteWithLink, verify_session,
          begin_add_device, logout, revoke_device_of, WithSession,
          create_session, otp_login, Begin
    <2>10. ASSUME NEW t \in Threads, Proceed(t)
           PROVE  SessionNamesOwnDevice'
      BY <2>3, <2>6, <2>7, <2>8, <2>10
      DEF Proceed, FindNewEmail, CreateUser, GetUser, UpdateUser,
          FindLoginEmail, LoginDevices, LoginDevice, ResolveUser, OwnDevice,
          Revoke, FindResetEmail, ListDevices, FindOtpEmail, GetOtpDevice,
          AddOtpDevice
    <2> QED
      BY <1>1, <2>3, <2>9, <2>10
      DEF Next, StorageError, DeactivateUser, Tick, Restart, vars
  <1>2. Init => SessionNamesOwnDevice
    BY DEF Init, SessionNamesOwnDevice
  <1> QED
    BY <1>1, <1>2, AuthorityInvariant, PTL DEF Spec

----------------------------------------------------------------------------
(* What the tables and the links promise, whatever interleaves.            *)

\* No operation of any thread, and no failure between two of its calls, takes
\* back what the tables say: an account keeps its address, a device its
\* account, and a revoked device stays revoked, also when its key is registered
\* once more or its account is reset.
THEOREM TablesOnlyGrow == Spec => [][TablesGrow]_vars
  <1>1. IInv /\ [Next]_vars => TablesGrow
    BY StepRegistry, RegistryGrows DEF IInv, TypeOK
  <1> QED
    BY <1>1, Invariance, PTL DEF Spec

\* The account a link was issued for stays, so only the link a step issues
\* needs a reason.
LEMMA NewLinkHasUser ==
    ASSUME IInv, TablesGrow, RegistrationLinkHasUser,
           NEW kind, NEW u, NEW ttl, Issue(kind, u, ttl),
           kind = "Register" => get_user_by_id(u)'
    PROVE  RegistrationLinkHasUser'
  <1>1. \A n \in Nonces : grants[n].user \in Users \cup {None}
    BY DEF IInv, TypeOK, Grant
  <1>2. \A n \in Nonces :
           grants'[n] = grants[n] /\ grants[n].kind = "Register" =>
               grants[n].user \in Users /\ get_user_by_id(grants[n].user)'
    BY <1>1, StorageAssumption
    DEF RegistrationLinkHasUser, TablesGrow, get_user_by_id
  <1>3. \A n \in Nonces :
           \/ grants'[n] = grants[n]
           \/ grants'[n].kind = kind /\ grants'[n].user = u
    BY DEF Issue, IInv, TypeOK
  <1>4. ASSUME NEW n \in Nonces, grants'[n].kind = "Register"
        PROVE  get_user_by_id(grants[n].user)'
    <2>1. CASE grants'[n] = grants[n]
      BY <1>2, <1>4, <2>1 DEF get_user_by_id
    <2>2. CASE grants'[n].kind = kind /\ grants'[n].user = u
      BY <1>4, <2>2 DEF get_user_by_id
    <2> QED
      BY <1>3, <2>1, <2>2
  <1> QED
    BY <1>4 DEF RegistrationLinkHasUser, get_user_by_id

\* With the memory adapter, which refuses a second account with one address,
\* the loser of two racing registrations gets no link: every registration link
\* is for a stored account.  On Postgres this is false.
THEOREM RegistrationLinksHaveUsers ==
    ASSUME Adapter = "memory"
    PROVE  Spec => []RegistrationLinkHasUser
  <1>1. ASSUME IInv, [Next]_vars, RegistrationLinkHasUser
        PROVE  RegistrationLinkHasUser'
    <2>1. TypeOK /\ TablesGrow
      BY <1>1, StepRegistry, RegistryGrows DEF IInv, TypeOK
    <2>2. ASSUME NEW kind, NEW u, NEW ttl, Issue(kind, u, ttl),
                 kind # "Register"
          PROVE  RegistrationLinkHasUser'
      BY <1>1, <2>1, <2>2, NewLinkHasUser
    <2>3. CASE UNCHANGED grants
      <3>1. Issue("Reset", None, 0)
        BY <2>3 DEF Issue
      <3> QED
        BY <2>2, <3>1
    <2>4. ASSUME NEW t \in Threads, CreateUser(t)
          PROVE  RegistrationLinkHasUser'
      <3>1. loc[t].email \in Emails
        BY <1>1, <2>4 DEF CreateUser, IInv, ThreadInv
      <3>2. PICK u \in Users :
               /\ users' = create_user(u, loc[t].email)
               /\ IF create_user_ok(u, loc[t].email)
                    THEN Issue("Register", u, MagicTtl)
                    ELSE UNCHANGED grants
        BY <2>4, AuthAssumption DEF CreateUser, generate_uuid
      <3>3. CASE CanCreate(u, loc[t].email)
        <4>1. users'[u].email = loc[t].email
          BY <2>1, <3>2, <3>3 DEF create_user, TypeOK, StorageTypeOK
        <4>2. get_user_by_id(u)'
          BY <3>1, <4>1, StorageAssumption DEF get_user_by_id
        <4>3. Issue("Register", u, MagicTtl)
          BY <3>2, <3>3 DEF create_user_ok
        <4> QED
          BY <1>1, <2>1, <4>2, <4>3, NewLinkHasUser
      <3>4. CASE ~CanCreate(u, loc[t].email)
        BY <2>3, <3>2, <3>4 DEF create_user_ok
      <3> QED
        BY <3>3, <3>4
    <2>5. ASSUME NEW t \in Threads, Proceed(t)
          PROVE  RegistrationLinkHasUser'
      BY <2>2, <2>3, <2>4, <2>5
      DEF Proceed, FindNewEmail, GetUser, UpdateUser, AddDevice,
          FindLoginEmail, LoginDevices, LoginDevice, LoginUser, ResolveUser,
          ResolveDevice, OwnDevice, Revoke, FindResetEmail, IssueDummyReset,
          ListDevices, FindOtpEmail, GetOtpDevice, AddOtpDevice
    <2>6. ASSUME NEW t \in Threads, StorageError(t)
          PROVE  RegistrationLinkHasUser'
      BY <2>2, <2>3, <2>6 DEF StorageError, IssueDummyReset
    <2>7. ASSUME NEW t \in Threads, Receive(t)
          PROVE  UNCHANGED grants
      BY <2>7
      DEF Receive, RegisterRoutes, LoginRoutes, SessionRoutes, ResetRoutes,
          DeviceRoutes, begin_registration, begin_login, begin_reset,
          complete_registration, complete_login, complete_reset,
          complete_add_device, CompleteWithLink, verify_session,
          begin_add_device, logout, revoke_device_of, WithSession,
          create_session, otp_login, Begin
    <2> QED
      BY <1>1, <2>3, <2>5, <2>6, <2>7
      DEF Next, DeactivateUser, Tick, Restart, vars
  <1>2. Init => RegistrationLinkHasUser
    BY DEF Init, RegistrationLinkHasUser
  <1> QED
    BY <1>1, <1>2, Invariance, PTL DEF Spec
=============================================================================
