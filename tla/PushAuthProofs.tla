--------------------------- MODULE PushAuthProofs ---------------------------
(***************************************************************************)
(* Theorems about push login, for any number of requests, users, keys and  *)
(* threads, on either adapter.                                             *)
(***************************************************************************)
EXTENDS PushAuth, TLAPS

\* What the requests table says of a request: who it is for, that an expired
\* one is past its time, and that a device's approval is the last word.
Requests ==
    \A r \in Reqs :
        /\ req[r].status = "none" => decision[r] = None
        /\ req[r].status # "none" => req[r].user \in Users
        /\ req[r].status = "Expired" => is_expired(r)
        /\ req[r].status = "Approved" =>
              req[r].device \in Keys /\ decision[r] = req[r].device
        /\ decision[r] \in Keys =>
              /\ req[r].status \in {"Approved", "Expired", "gone"}
              /\ push[decision[r]].owner = req[r].user

\* A login under way, and a login that took place, is one that the device
\* approved for its own account.
Approval(r, u, k) ==
    req[r].status # "none" /\ req[r].user = u /\ decision[r] = k

Completing ==
    \A t \in Threads :
        pc[t] \in {"get_device", "add_device", "create_session"} =>
            Approval(loc[t].req, loc[t].user, loc[t].key)

Issued ==
    \A r \in Reqs, u \in Users, k \in Keys :
        tokens[<<r, u, k>>] > 0 => Approval(r, u, k) /\ devices[k].owner = u

IInv == TypeOK /\ Requests /\ Completing /\ Issued

LEMMA InitOK == ASSUME Init PROVE IInv
  <1>1. TypeOK
    BY PushAssumption DEF Init, TypeOK, Request, PushRecord, DeviceRecord,
       Labels, Local, NoLocal
  <1>2. Requests /\ Completing /\ Issued
    BY PushAssumption DEF Init, Requests, Completing, Issued
  <1> QED
    BY <1>1, <1>2 DEF IInv

\* Properties of what a step leaves alone.
Preserved ==
    /\ \A k \in Keys : push[k].owner # None => push'[k].owner = push[k].owner
    /\ \A k \in Keys :
          devices[k].owner # None => devices'[k].owner = devices[k].owner
    /\ \A r \in Reqs :
          /\ req[r].status # "none" =>
                req'[r].status # "none" /\ req'[r].user = req[r].user
          /\ decision[r] \in Keys => decision'[r] = decision[r]

\* Where a thread can be after it took no step, returned, or began nothing.
Settled ==
    \A t \in Threads :
        \/ pc'[t] = pc[t] /\ loc'[t] = loc[t]
        \/ pc'[t] \in {"idle", "add_push_device"}
        \/ /\ pc[t] \in {"get_device", "add_device", "create_session"}
           /\ loc'[t] = loc[t]

LEMMA CompletingKept ==
    ASSUME IInv, Preserved, Settled
    PROVE  Completing'
  BY DEF IInv, TypeOK, Completing, Approval, Preserved, Settled

LEMMA IssuedKept ==
    ASSUME IInv, Preserved, UNCHANGED tokens
    PROVE  Issued'
  <1> SUFFICES ASSUME NEW r \in Reqs, NEW u \in Users, NEW k \in Keys,
                      tokens[<<r, u, k>>] > 0
               PROVE  (Approval(r, u, k) /\ devices[k].owner = u)'
    BY DEF Issued
  <1>1. Approval(r, u, k) /\ devices[k].owner = u
    BY DEF IInv, Issued
  <1>2. u # None /\ k \in Keys
    BY PushAssumption
  <1> QED
    BY <1>1, <1>2 DEF Approval, Preserved

LEMMA ReturnOK ==
    ASSUME TypeOK, NEW t \in Threads, Return(t)
    PROVE  /\ pc' \in [Threads -> Labels] /\ loc' \in [Threads -> Local]
           /\ \A s \in Threads :
                 \/ s # t /\ pc'[s] = pc[s] /\ loc'[s] = loc[s]
                 \/ pc'[s] = "idle"
  BY DEF TypeOK, Return, NoLocal, Local, Labels

----------------------------------------------------------------------------
(* The table of push devices. *)

LEMMA RegisterStep ==
    ASSUME IInv, NEW t \in Threads, NEW u \in Users, NEW k \in Keys,
           register_device(t, u, k)
    PROVE  IInv'
  <1>2. [req |-> None, user |-> u, key |-> k] \in Local
    BY DEF Local
  <1>3. TypeOK' /\ Settled
    BY <1>2 DEF IInv, TypeOK, Settled, register_device, Goto, Labels
  <1>4. Preserved /\ Requests'
    BY DEF IInv, Requests, Preserved, register_device, is_expired
  <1> QED
    BY <1>3, <1>4, CompletingKept, IssuedKept DEF IInv, register_device

LEMMA AddPushDeviceStep ==
    ASSUME IInv, NEW t \in Threads, AddPushDevice(t)
    PROVE  IInv'
  <1> DEFINE u == loc[t].user
             k == loc[t].key
  <1>1. u \in Users /\ k \in Keys
    BY DEF IInv, TypeOK, AddPushDevice
  <1>2. /\ push' \in [Keys -> PushRecord]
        /\ \A j \in Keys : push[j].owner # None => push'[j] = push[j]
    <2>1. push \in [Keys -> PushRecord]
      BY DEF IInv, TypeOK
    <2>2. CASE push' = add_push_device(u, k)
      BY <1>1, <2>1, <2>2 DEF add_push_device, get_push_device, PushRecord
    <2>3. CASE UNCHANGED push
      BY <2>1, <2>3
    <2> QED
      BY <2>2, <2>3 DEF AddPushDevice
  <1>3. TypeOK' /\ Settled
    BY <1>1, <1>2, ReturnOK DEF IInv, TypeOK, Settled, AddPushDevice
  <1>4. Preserved
    BY <1>2 DEF Preserved, AddPushDevice
  <1>5. Requests'
    <2>1. \A r \in Reqs : decision[r] \in Keys => push[decision[r]].owner # None
      BY PushAssumption DEF IInv, Requests
    <2> QED
      BY <1>2, <2>1 DEF IInv, Requests, AddPushDevice, is_expired
  <1> QED
    BY <1>3, <1>4, <1>5, CompletingKept, IssuedKept DEF IInv, AddPushDevice

LEMMA DeactivateStep ==
    ASSUME IInv, NEW k \in Keys, deactivate_push_device(k)
    PROVE  IInv'
  <1>1. /\ push' \in [Keys -> PushRecord]
        /\ \A j \in Keys : push'[j].owner = push[j].owner
    BY DEF IInv, TypeOK, deactivate_push_device, PushRecord
  <1>2. TypeOK' /\ Settled /\ Preserved /\ Requests'
    BY <1>1 DEF IInv, TypeOK, Settled, Preserved, Requests,
       deactivate_push_device, is_expired
  <1> QED
    BY <1>2, CompletingKept, IssuedKept DEF IInv, deactivate_push_device

----------------------------------------------------------------------------
(* Requests. *)

LEMMA CleanupOK ==
    ASSUME IInv
    PROVE  /\ cleanup_expired \in [Reqs -> Request]
           /\ \A r \in Reqs :
                 \/ cleanup_expired[r] = req[r]
                 \/ /\ cleanup_expired[r].status = "gone"
                    /\ cleanup_expired[r].user = req[r].user
                    /\ req[r].status # "none"
  BY DEF IInv, TypeOK, cleanup_expired, Found, Request

LEMMA BeginStep ==
    ASSUME IInv, NEW u \in Users, begin_push_auth(u)
    PROVE  IInv'
  <1>1. ASSUME NEW q \in Reqs, NEW sent \in SUBSET Keys,
               req[q].status = "none",
               req' = [cleanup_expired EXCEPT ![q] =
                          [status |-> "Pending", user |-> u,
                           exp |-> now + PushTtl, device |-> None]],
               known' = known \cup ({q} \X sent)
        PROVE  TypeOK' /\ Preserved /\ Requests'
    <2>1. [status |-> "Pending", user |-> u, exp |-> now + PushTtl,
           device |-> None] \in Request
      BY PushAssumption DEF IInv, TypeOK, Request
    <2>2. req' \in [Reqs -> Request]
      BY <1>1, <2>1, CleanupOK
    <2>3. known' \subseteq Reqs \X Keys
      BY <1>1 DEF IInv, TypeOK
    <2>4. TypeOK'
      BY <2>2, <2>3 DEF IInv, TypeOK, begin_push_auth
    <2>5. decision[q] = None
      BY <1>1 DEF IInv, Requests
    <2>6. \A r \in Reqs : r # q => req'[r] = cleanup_expired[r]
      BY <1>1, CleanupOK
    <2>7. req'[q].status = "Pending" /\ req'[q].user = u
      BY <1>1, CleanupOK
    <2>8. Preserved
      BY <1>1, <2>6, CleanupOK DEF Preserved, begin_push_auth
    <2>9. Requests'
      BY <2>5, <2>6, <2>7, CleanupOK, PushAssumption
         DEF IInv, Requests, begin_push_auth, is_expired
    <2> QED
      BY <2>4, <2>8, <2>9
  <1>2. ASSUME req' = cleanup_expired, UNCHANGED known
        PROVE  TypeOK' /\ Preserved /\ Requests'
    <2>1. TypeOK' /\ Preserved
      BY <1>2, CleanupOK DEF IInv, TypeOK, Preserved, begin_push_auth
    <2>2. Requests'
      BY <1>2, CleanupOK DEF IInv, Requests, begin_push_auth, is_expired
    <2> QED
      BY <2>1, <2>2
  <1>3. TypeOK' /\ Preserved /\ Requests'
    BY <1>1, <1>2 DEF begin_push_auth
  <1>4. Settled
    BY DEF Settled, begin_push_auth
  <1> QED
    BY <1>3, <1>4, CompletingKept, IssuedKept DEF IInv, begin_push_auth

LEMMA ExpireOK ==
    ASSUME IInv, NEW r \in Reqs, Expire(r), UNCHANGED <<now, push, devices, decision>>
    PROVE  req' \in [Reqs -> Request] /\ Preserved /\ Requests'
  <1>1. /\ req' \in [Reqs -> Request]
        /\ \A q \in Reqs : q # r => req'[q] = req[q]
        /\ req'[r].status = "Expired" /\ req'[r].user = req[r].user
        /\ req'[r].exp = req[r].exp
        /\ req[r].status # "none"
    BY DEF IInv, TypeOK, Expire, Request, Found
  <1>2. Preserved
    BY <1>1 DEF Preserved
  <1>3. Requests'
    BY <1>1 DEF IInv, Requests, Expire, is_expired
  <1> QED
    BY <1>1, <1>2, <1>3

LEMMA PollStep ==
    ASSUME IInv, NEW r \in Reqs, poll_push_status(r)
    PROVE  IInv'
  <1>1. req' \in [Reqs -> Request] /\ Preserved /\ Requests'
    BY ExpireOK DEF poll_push_status
  <1>2. TypeOK' /\ Settled
    BY <1>1 DEF IInv, TypeOK, Settled, poll_push_status
  <1> QED
    BY <1>1, <1>2, CompletingKept, IssuedKept DEF IInv, poll_push_status

LEMMA ApproveStep ==
    ASSUME IInv, NEW r \in Reqs, NEW k \in Keys, approve_push(k, r)
    PROVE  IInv'
  <1>1. CASE Expire(r) /\ UNCHANGED decision
    <2>1. req' \in [Reqs -> Request] /\ Preserved /\ Requests'
      BY <1>1, ExpireOK DEF approve_push
    <2>2. TypeOK' /\ Settled
      BY <1>1, <2>1 DEF IInv, TypeOK, Settled, approve_push
    <2> QED
      BY <2>1, <2>2, CompletingKept, IssuedKept DEF IInv, approve_push
  <1>2. CASE /\ Open(r)
             /\ req[r].status \notin {"Approved", "Denied"}
             /\ MayApprove(k, r)
             /\ req' = [req EXCEPT ![r].status = "Approved", ![r].device = k]
             /\ decision' = [decision EXCEPT ![r] = k]
    <2>1. req[r] \in Request
      BY DEF IInv, TypeOK
    <2>2. req'[r] = [req[r] EXCEPT !.status = "Approved", !.device = k]
      BY <1>2, <2>1 DEF IInv, TypeOK, Request
    <2>3. /\ req'[r] \in Request
          /\ req'[r].status = "Approved" /\ req'[r].device = k
          /\ req'[r].user = req[r].user
      BY <2>1, <2>2 DEF Request
    <2>4. \A q \in Reqs : q # r => req'[q] = req[q] /\ decision'[q] = decision[q]
      BY <1>2 DEF IInv, TypeOK
    <2>5. decision'[r] = k
      BY <1>2 DEF IInv, TypeOK
    <2>6. req' \in [Reqs -> Request]
      BY <1>2, <2>3, <2>4 DEF IInv, TypeOK
    <2>7. decision[r] \notin Keys
      BY <1>2 DEF IInv, Requests, Open, Found
    <2>8. TypeOK' /\ Settled
      BY <1>2, <2>6 DEF IInv, TypeOK, Settled, approve_push
    <2>9. Preserved
      BY <2>3, <2>4, <2>7 DEF Preserved, approve_push
    <2>10. Requests'
      <3>1. UNCHANGED <<now, push>>
        BY DEF approve_push
      <3>2. req[r].user \in Users /\ push[k].owner = req[r].user
        BY <1>2 DEF IInv, Requests, Open, Found, MayApprove
      <3>3. \A q \in Reqs : q # r => is_expired(q)' = is_expired(q)
        BY <2>4, <3>1 DEF is_expired
      <3> QED
        BY <2>3, <2>4, <2>5, <3>1, <3>2, <3>3, PushAssumption DEF IInv, Requests
    <2> QED
      BY <2>8, <2>9, <2>10, CompletingKept, IssuedKept DEF IInv, approve_push
  <1> QED
    BY <1>1, <1>2 DEF approve_push

LEMMA DenyStep ==
    ASSUME IInv, NEW r \in Reqs, deny_push(r)
    PROVE  IInv'
  <1>1. CASE Expire(r) /\ UNCHANGED decision
    <2>1. req' \in [Reqs -> Request] /\ Preserved /\ Requests'
      BY <1>1, ExpireOK DEF deny_push
    <2>2. TypeOK' /\ Settled
      BY <1>1, <2>1 DEF IInv, TypeOK, Settled, deny_push
    <2> QED
      BY <2>1, <2>2, CompletingKept, IssuedKept DEF IInv, deny_push
  <1>2. CASE /\ Open(r) /\ Deniable(r)
             /\ req' = [req EXCEPT ![r].status = "Denied"]
             /\ decision' = [decision EXCEPT ![r] = "deny"]
    <2>1. /\ req' \in [Reqs -> Request]
          /\ req'[r].status = "Denied" /\ req'[r].user = req[r].user
      BY <1>2 DEF IInv, TypeOK, Request
    <2>2. \A q \in Reqs : q # r => req'[q] = req[q] /\ decision'[q] = decision[q]
      BY <1>2 DEF IInv, TypeOK
    <2>3. decision'[r] = "deny"
      BY <1>2 DEF IInv, TypeOK
    <2>4. decision[r] \notin Keys
      BY <1>2 DEF IInv, Requests, Open, Found, Deniable
    <2>5. TypeOK' /\ Settled
      BY <1>2, <2>1 DEF IInv, TypeOK, Settled, deny_push
    <2>6. Preserved
      BY <1>2, <2>1, <2>2, <2>4 DEF Preserved, deny_push, Open, Found
    <2>7. Requests'
      <3>1. req[r].status # "none"
        BY <1>2 DEF Open, Found
      <3>2. "deny" \notin Keys
        BY PushAssumption
      <3> QED
        BY <2>1, <2>2, <2>3, <3>1, <3>2 DEF IInv, Requests, deny_push, is_expired
    <2> QED
      BY <2>5, <2>6, <2>7, CompletingKept, IssuedKept DEF IInv, deny_push
  <1> QED
    BY <1>1, <1>2 DEF deny_push

----------------------------------------------------------------------------
(* Completing a request. *)

LEMMA CompleteStep ==
    ASSUME IInv, NEW t \in Threads, NEW r \in Reqs, complete_push_auth(t, r)
    PROVE  IInv'
  <1>1. CASE Expire(r) /\ UNCHANGED <<pc, loc>>
    <2>1. req' \in [Reqs -> Request] /\ Preserved /\ Requests'
      BY <1>1, ExpireOK DEF complete_push_auth
    <2>2. TypeOK' /\ Settled
      BY <1>1, <2>1 DEF IInv, TypeOK, Settled, complete_push_auth
    <2> QED
      BY <2>1, <2>2, CompletingKept, IssuedKept DEF IInv, complete_push_auth
  <1>2. CASE /\ Open(r) /\ Completable(r)
             /\ Goto(t, "get_device",
                     [req |-> r, user |-> push[req[r].device].owner,
                      key |-> req[r].device])
             /\ UNCHANGED req
    <2>1. /\ req[r].user \in Users /\ req[r].device \in Keys
          /\ decision[r] = req[r].device /\ req[r].status # "none"
          /\ push[req[r].device].owner = req[r].user
      BY <1>2 DEF IInv, Requests, Open, Found, Completable
    <2>2. [req |-> r, user |-> push[req[r].device].owner, key |-> req[r].device] \in Local
      BY <2>1 DEF Local
    <2>3. TypeOK'
      BY <1>2, <2>1, <2>2 DEF IInv, TypeOK, Goto, Labels, complete_push_auth
    <2>4. Completing'
      BY <1>2, <2>1
         DEF IInv, TypeOK, Completing, Approval, Goto, complete_push_auth
    <2>5. Preserved /\ Requests'
      BY <1>2 DEF IInv, Preserved, Requests, complete_push_auth, is_expired
    <2> QED
      BY <2>3, <2>4, <2>5, IssuedKept DEF IInv, complete_push_auth
  <1> QED
    BY <1>1, <1>2 DEF complete_push_auth

LEMMA GetDeviceStep ==
    ASSUME IInv, NEW t \in Threads, GetDevice(t)
    PROVE  IInv'
  <1>1. \E label \in {"create_session", "add_device"} :
           pc' = [pc EXCEPT ![t] = label]
    BY DEF GetDevice
  <1>2. TypeOK' /\ Settled
    BY <1>1 DEF IInv, TypeOK, Settled, GetDevice, Labels
  <1>3. Preserved /\ Requests'
    BY DEF IInv, Preserved, Requests, GetDevice, is_expired
  <1> QED
    BY <1>2, <1>3, CompletingKept, IssuedKept DEF IInv, GetDevice

LEMMA AddDeviceStep ==
    ASSUME IInv, NEW t \in Threads, AddDevice(t)
    PROVE  IInv'
  <1>1. loc[t].user \in Users /\ loc[t].key \in Keys
    BY DEF IInv, TypeOK, AddDevice
  <1>2. /\ devices' \in [Keys -> DeviceRecord]
        /\ \A k \in Keys :
              devices[k].owner # None => devices'[k].owner = devices[k].owner
    <2>1. devices \in [Keys -> DeviceRecord]
      BY DEF IInv, TypeOK
    <2>2. CASE /\ devices[loc[t].key].owner = None
               /\ devices' = [devices EXCEPT ![loc[t].key] =
                                [owner |-> loc[t].user, revoked |-> FALSE]]
      BY <1>1, <2>1, <2>2 DEF DeviceRecord
    <2>3. CASE UNCHANGED devices
      BY <2>1, <2>3
    <2> QED
      BY <2>2, <2>3 DEF AddDevice
  <1>3. TypeOK' /\ Settled
    BY <1>2 DEF IInv, TypeOK, Settled, AddDevice, Labels
  <1>4. Preserved /\ Requests'
    BY <1>2 DEF IInv, Preserved, Requests, AddDevice, is_expired
  <1> QED
    BY <1>3, <1>4, CompletingKept, IssuedKept DEF IInv, AddDevice

LEMMA CreateSessionStep ==
    ASSUME IInv, NEW t \in Threads, CreateSession(t)
    PROVE  IInv'
  <1> DEFINE r == loc[t].req
             u == loc[t].user
             k == loc[t].key
  <1>1. r \in Reqs /\ u \in Users /\ k \in Keys /\ Approval(r, u, k)
    BY DEF IInv, TypeOK, Completing, CreateSession
  <1>2. Preserved /\ Requests'
    BY DEF IInv, Preserved, Requests, CreateSession, is_expired
  <1>3. Settled
    BY ReturnOK DEF IInv, Settled, CreateSession
  <1>4. CASE UNCHANGED tokens
    <2>1. TypeOK'
      BY <1>4, ReturnOK DEF IInv, TypeOK, CreateSession
    <2> QED
      BY <1>2, <1>3, <1>4, <2>1, CompletingKept, IssuedKept DEF IInv
  <1>5. CASE /\ MayHaveSession(u, k)
             /\ tokens' = [tokens EXCEPT ![<<r, u, k>>] = IF @ = 2 THEN 2 ELSE @ + 1]
    <2>1. <<r, u, k>> \in Reqs \X Users \X Keys
      BY <1>1
    <2>2. tokens[<<r, u, k>>] \in 0..2
      BY <2>1 DEF IInv, TypeOK
    <2>3. (IF tokens[<<r, u, k>>] = 2 THEN 2 ELSE tokens[<<r, u, k>>] + 1) \in 0..2
      BY <2>2
    <2>4. tokens' \in [Reqs \X Users \X Keys -> 0..2]
      BY <1>5, <2>3 DEF IInv, TypeOK
    <2>5. TypeOK'
      BY <2>4, ReturnOK DEF IInv, TypeOK, CreateSession
    <2>6. ASSUME NEW q \in Reqs, NEW v \in Users, NEW j \in Keys,
                 tokens'[<<q, v, j>>] > 0
          PROVE  Approval(q, v, j) /\ devices[j].owner = v
      <3>1. CASE <<q, v, j>> = <<r, u, k>>
        BY <1>1, <1>5, <3>1 DEF MayHaveSession
      <3>2. CASE <<q, v, j>> # <<r, u, k>>
        <4>1. <<q, v, j>> \in Reqs \X Users \X Keys
          OBVIOUS
        <4>2. tokens'[<<q, v, j>>] = tokens[<<q, v, j>>]
          BY <1>5, <3>2, <4>1 DEF IInv, TypeOK
        <4> QED
          BY <2>6, <4>2 DEF IInv, Issued
      <3> QED
        BY <3>1, <3>2
    <2>7. Issued'
      BY <2>6 DEF Issued, Approval, CreateSession
    <2> QED
      BY <1>2, <1>3, <2>5, <2>7, CompletingKept DEF IInv
  <1> QED
    BY <1>4, <1>5 DEF CreateSession

----------------------------------------------------------------------------
(* The rest of the system, and the theorems. *)

LEMMA EnvironmentStep ==
    ASSUME IInv, \/ \E k \in Keys : RevokeDevice(k)
                 \/ \E k \in Keys, u \in Users : EnrolDevice(u, k)
                 \/ Tick
                 \/ UNCHANGED vars
    PROVE  IInv'
  <1>1. /\ devices' \in [Keys -> DeviceRecord]
        /\ \A k \in Keys :
              devices[k].owner # None => devices'[k].owner = devices[k].owner
    <2>1. CASE \E k \in Keys : RevokeDevice(k)
      <3>1. PICK j \in Keys : devices' = [devices EXCEPT ![j].revoked = TRUE]
        BY <2>1 DEF RevokeDevice
      <3>2. \A k \in Keys :
               devices'[k] \in DeviceRecord /\ devices'[k].owner = devices[k].owner
        <4>1. \A k \in Keys : devices[k] \in DeviceRecord
          BY DEF IInv, TypeOK
        <4>2. devices'[j] = [devices[j] EXCEPT !.revoked = TRUE]
          BY <3>1 DEF IInv, TypeOK
        <4>3. \A k \in Keys : k # j => devices'[k] = devices[k]
          BY <3>1 DEF IInv, TypeOK
        <4> QED
          BY <4>1, <4>2, <4>3 DEF DeviceRecord
      <3> QED
        BY <3>1, <3>2 DEF IInv, TypeOK
    <2>2. CASE \E k \in Keys, u \in Users : EnrolDevice(u, k)
      <3>1. PICK j \in Keys, u \in Users :
               /\ devices[j].owner = None
               /\ devices' = [devices EXCEPT ![j] = [owner |-> u, revoked |-> FALSE]]
        BY <2>2 DEF EnrolDevice
      <3>2. devices'[j] = [owner |-> u, revoked |-> FALSE]
        BY <3>1 DEF IInv, TypeOK
      <3>3. \A k \in Keys : k # j => devices'[k] = devices[k]
        BY <3>1 DEF IInv, TypeOK
      <3>4. \A k \in Keys : devices'[k] \in DeviceRecord
        <4>1. devices'[j] \in DeviceRecord
          BY <3>2 DEF DeviceRecord
        <4>2. \A k \in Keys : devices[k] \in DeviceRecord
          BY DEF IInv, TypeOK
        <4> QED
          BY <3>3, <4>1, <4>2
      <3> QED
        BY <3>1, <3>3, <3>4 DEF IInv, TypeOK
    <2>3. CASE UNCHANGED devices
      BY <2>3 DEF IInv, TypeOK
    <2> QED
      BY <2>1, <2>2, <2>3 DEF Tick, vars
  <1>2. now' \in 0..MaxTime /\ now' >= now
    BY PushAssumption DEF IInv, TypeOK, RevokeDevice, EnrolDevice, Tick, vars
  <1>3. UNCHANGED <<req, push, known, pc, loc, tokens, registered, decision>>
    BY DEF RevokeDevice, EnrolDevice, Tick, vars
  <1>4. TypeOK' /\ Settled /\ Preserved
    BY <1>1, <1>2, <1>3 DEF IInv, TypeOK, Settled, Preserved
  <1>5. Requests'
    <2>1. \A r \in Reqs : is_expired(r) => is_expired(r)'
      BY <1>2, <1>3, PushAssumption DEF IInv, TypeOK, Request, is_expired
    <2> QED
      BY <1>3, <2>1 DEF IInv, Requests
  <1> QED
    BY <1>3, <1>4, <1>5, CompletingKept, IssuedKept DEF IInv

LEMMA RestartStep ==
    ASSUME IInv, Restart
    PROVE  IInv'
  <1>1. /\ req' \in [Reqs -> Request]
        /\ \A r \in Reqs :
              \/ req'[r] = req[r]
              \/ /\ req'[r].status = "gone" /\ req'[r].user = req[r].user
                 /\ req[r].status # "none"
    BY DEF IInv, TypeOK, Restart, Request, Found
  <1>2. NoLocal \in Local
    BY DEF NoLocal, Local
  <1>3. TypeOK' /\ Settled
    BY <1>1, <1>2 DEF IInv, TypeOK, Settled, Restart, Labels
  <1>4. Preserved
    BY <1>1 DEF Preserved, Restart
  <1>5. Requests'
    BY <1>1 DEF IInv, Requests, Restart, is_expired
  <1> QED
    BY <1>3, <1>4, <1>5, CompletingKept, IssuedKept DEF IInv, Restart

LEMMA StepOK == ASSUME IInv, [Next]_vars PROVE IInv'
  BY RegisterStep, AddPushDeviceStep, DeactivateStep, BeginStep, PollStep,
     ApproveStep, DenyStep, CompleteStep, GetDeviceStep, AddDeviceStep,
     CreateSessionStep, EnvironmentStep, RestartStep
  DEF Next, RegisterRoute, DesktopRoutes, PhoneRoutes

LEMMA Inductive == Spec => []IInv
  <1>1. Init => IInv
    BY InitOK
  <1>2. IInv /\ [Next]_vars => IInv'
    BY StepOK
  <1> QED
    BY <1>1, <1>2, PTL DEF Spec

\* A token obtained by push is for the account the request was made for and
\* for a device of it that approved the request, for any number of requests,
\* users, keys and threads, with failing storage calls, on either adapter.
THEOREM LoginsMatchRequests == Spec => []TokenMatchesRequest
  <1>1. IInv => TokenMatchesRequest
    <2> SUFFICES ASSUME IInv, NEW r \in Reqs, NEW u \in Users, NEW k \in Keys,
                        tokens[<<r, u, k>>] > 0
                 PROVE  /\ req[r].user = u
                        /\ decision[r] = k
                        /\ push[k].owner = u
                        /\ devices[k].owner = u
      BY DEF TokenMatchesRequest
    <2>1. Approval(r, u, k) /\ devices[k].owner = u
      BY DEF IInv, Issued
    <2> QED
      BY <2>1 DEF Approval, IInv, Requests
  <1> QED
    BY <1>1, Inductive, PTL

----------------------------------------------------------------------------
(* The refinement of DeviceSessions.                                       *)

SessionsOf(toks) == {s \in Users \X Keys \X Reqs : toks[<<s[3], s[1], s[2]>>] > 0}

sessionsVars == <<devices, SessionsOf(tokens)>>

LEMMA EnrolRefines ==
    ASSUME NEW k \in Keys, NEW u \in Users,
           devices[k].owner = None,
           devices' = [devices EXCEPT ![k] = [owner |-> u, revoked |-> FALSE]],
           UNCHANGED tokens
    PROVE  Sessions!Next
  <1>1. Sessions!Enrol(k, u)
    BY DEF Sessions!Enrol
  <1> QED
    BY <1>1 DEF Sessions!Next

LEMMA LoginRefines ==
    ASSUME NEW u \in Users, NEW k \in Keys, NEW r \in Reqs,
           Sessions!Login(u, k, r)
    PROVE  Sessions!Next
  BY DEF Sessions!Next

\* A token for a login that has one already changes nothing of the set.
LEMMA CreateSessionRefines ==
    ASSUME TypeOK, NEW t \in Threads, CreateSession(t)
    PROVE  [Sessions!Next]_sessionsVars
  <1>1. PICK r \in Reqs, u \in Users, k \in Keys :
           r = loc[t].req /\ u = loc[t].user /\ k = loc[t].key
    BY DEF CreateSession, TypeOK
  <1> DEFINE login == <<r, u, k>>
  <1>2. UNCHANGED devices
    BY DEF CreateSession
  <1>3. CASE MayHaveSession(u, k)
             /\ tokens' = [tokens EXCEPT ![login] = IF @ = 2 THEN 2 ELSE @ + 1]
    <2>1. devices[k] = [owner |-> u, revoked |-> FALSE]
      <3>1. devices[k] \in DeviceRecord
        BY <1>1 DEF TypeOK
      <3> QED
        BY <1>3, <3>1 DEF MayHaveSession, DeviceRecord
    <2>2. /\ login \in Reqs \X Users \X Keys /\ tokens'[login] > 0
          /\ \A other \in Reqs \X Users \X Keys :
                other # login => tokens'[other] = tokens[other]
      <3>1. login \in Reqs \X Users \X Keys /\ tokens[login] \in 0..2
        BY <1>1 DEF TypeOK
      <3> QED
        BY <1>3, <3>1 DEF TypeOK
    <2> HIDE DEF login
    <2>3. ASSUME NEW s \in Users \X Keys \X Reqs
          PROVE  s \in SessionsOf(tokens') <=>
                    s \in SessionsOf(tokens) \/ s = <<u, k, r>>
      <3>1. PICK su \in Users, sk \in Keys, sr \in Reqs : s = <<su, sk, sr>>
        OBVIOUS
      <3>2. <<s[3], s[1], s[2]>> = <<sr, su, sk>>
        BY <3>1
      <3>3. CASE <<sr, su, sk>> = login
        BY <3>1, <3>2, <3>3, <2>2 DEF SessionsOf, login
      <3>4. CASE <<sr, su, sk>> # login
        BY <3>1, <3>2, <3>4, <2>2 DEF SessionsOf, login
      <3> QED
        BY <3>3, <3>4
    <2>4. SessionsOf(tokens') = SessionsOf(tokens) \cup {<<u, k, r>>}
      BY <2>3, <1>1 DEF SessionsOf
    <2>5. Sessions!Login(u, k, r)
      BY <2>1, <2>4, <1>2 DEF Sessions!Login, SessionsOf
    <2>6. Sessions!Next
      BY <1>1, <2>5, LoginRefines
    <2> QED
      BY <2>6
  <1>4. CASE UNCHANGED tokens
    BY <1>2, <1>4 DEF sessionsVars, SessionsOf
  <1> QED
    BY <1>1, <1>3, <1>4 DEF CreateSession

LEMMA StepRefines ==
    ASSUME IInv, [Next]_vars
    PROVE  [Sessions!Next]_sessionsVars
  <1>1. ASSUME NEW t \in Threads, CreateSession(t)
        PROVE  [Sessions!Next]_sessionsVars
    BY <1>1, CreateSessionRefines DEF IInv
  <1>2. ASSUME NEW t \in Threads, AddDevice(t)
        PROVE  [Sessions!Next]_sessionsVars
    <2>1. loc[t].key \in Keys /\ loc[t].user \in Users
      BY <1>2 DEF IInv, TypeOK, AddDevice
    <2>2. UNCHANGED tokens
      BY <1>2 DEF AddDevice
    <2>3. CASE /\ devices[loc[t].key].owner = None
               /\ devices' = [devices EXCEPT ![loc[t].key] =
                                [owner |-> loc[t].user, revoked |-> FALSE]]
      <3>1. Sessions!Next
        BY <2>1, <2>2, <2>3, EnrolRefines
      <3> QED
        BY <3>1
    <2>4. CASE UNCHANGED devices
      BY <2>2, <2>4 DEF sessionsVars, SessionsOf
    <2> QED
      BY <1>2, <2>3, <2>4 DEF AddDevice
  <1>3. ASSUME NEW k \in Keys, NEW u \in Users, EnrolDevice(u, k)
        PROVE  [Sessions!Next]_sessionsVars
    BY <1>3, EnrolRefines DEF EnrolDevice
  <1>4. ASSUME NEW k \in Keys, RevokeDevice(k)
        PROVE  [Sessions!Next]_sessionsVars
    <2>1. Sessions!Revoke(k)
      BY <1>4 DEF RevokeDevice, Sessions!Revoke
    <2> QED
      BY <2>1 DEF Sessions!Next
  <1>5. CASE UNCHANGED <<devices, tokens>>
    BY <1>5 DEF sessionsVars, SessionsOf
  <1> QED
    BY <1>1, <1>2, <1>3, <1>4, <1>5
    DEF Next, RegisterRoute, register_device, DesktopRoutes, begin_push_auth,
        poll_push_status, complete_push_auth, AddPushDevice, GetDevice,
        PhoneRoutes, deny_push, approve_push, deactivate_push_device, Tick,
        Restart, vars

\* Whatever reads fail, and whatever else enrols or revokes a key, push logins
\* open sessions only for the owner of an enrolled and unrevoked device row, and
\* leave its owner and its revocation as they are.
THEOREM DeviceSessionsImplemented == Spec => ImplementsDeviceSessions
  <1>1. Init => Sessions!Init
    <2> SUFFICES ASSUME Init
                 PROVE  SessionsOf(tokens) = {}
      BY DEF Init, Sessions!Init, SessionsOf
    <2>1. ASSUME NEW s \in Users \X Keys \X Reqs
          PROVE  tokens[<<s[3], s[1], s[2]>>] = 0
      <3>1. <<s[3], s[1], s[2]>> \in Reqs \X Users \X Keys
        OBVIOUS
      <3> QED
        BY <3>1 DEF Init
    <2> QED
      BY <2>1 DEF SessionsOf
  <1>2. IInv /\ [Next]_vars => [Sessions!Next]_sessionsVars
    BY StepRefines
  <1> QED
    BY <1>1, <1>2, Inductive, PTL
    DEF Spec, ImplementsDeviceSessions, Sessions!Spec, sessionsVars, SessionsOf

----------------------------------------------------------------------------
(* Action properties of single steps.                                      *)

\* The two storage calls of register_device let another registration in
\* between; the insertion still passes no key on.
THEOREM PushKeysKeepOwner == Spec => PushKeyKeepsOwner
  <1> DEFINE Kept(k) == push[k].owner # None => push'[k].owner = push[k].owner
  <1>1. ASSUME IInv, [Next]_vars, NEW k \in Keys
        PROVE  Kept(k)
    <2>1. CASE UNCHANGED push
      BY <2>1
    <2>2. ASSUME NEW t \in Threads, AddPushDevice(t)
          PROVE  Kept(k)
      <3>1. loc[t].key \in Keys
        BY <1>1, <2>2 DEF IInv, TypeOK, AddPushDevice
      <3>2. push[k].owner # None => push'[k] = push[k]
        BY <1>1, <2>2, <3>1
           DEF IInv, TypeOK, AddPushDevice, add_push_device, get_push_device
      <3> QED
        BY <3>2
    <2>3. ASSUME NEW j \in Keys, deactivate_push_device(j)
          PROVE  Kept(k)
      BY <1>1, <2>3 DEF IInv, TypeOK, PushRecord, deactivate_push_device
    <2> QED
      BY <1>1, <2>1, <2>2, <2>3
         DEF Next, RegisterRoute, register_device, DesktopRoutes,
             begin_push_auth, poll_push_status, complete_push_auth, GetDevice,
             AddDevice, CreateSession, PhoneRoutes, deny_push, approve_push,
             EnrolDevice, RevokeDevice, Tick, Restart, vars
  <1>2. IInv /\ [Next]_vars => \A k \in Keys : Kept(k)
    BY <1>1
  <1> QED
    BY <1>2, Inductive, PTL DEF PushKeyKeepsOwner, Spec

\* An approval or a denial is never turned into the other, and never undone
\* but by the request's expiry.
THEOREM DecisionsStand == Spec => DecisionStands
  <1> DEFINE Stands(r) ==
                req[r].status \in {"Approved", "Denied"} /\ Found(r)' =>
                    req'[r].status \in {req[r].status, "Expired"}
  <1>1. ASSUME IInv, [Next]_vars, NEW r \in Reqs
        PROVE  Stands(r)
    <2>1. CASE UNCHANGED req
      BY <2>1
    <2>2. ASSUME NEW q \in Reqs, Expire(q)
          PROVE  Stands(r)
      BY <1>1, <2>2 DEF IInv, TypeOK, Request, Expire
    <2>3. ASSUME NEW u \in Users, begin_push_auth(u)
          PROVE  Stands(r)
      <3>1. /\ req[r].status # "none" => req'[r] = cleanup_expired[r]
        BY <1>1, <2>3, CleanupOK DEF begin_push_auth
      <3> QED
        BY <1>1, <3>1, CleanupOK DEF Found
    <2>4. ASSUME NEW q \in Reqs, NEW k \in Keys, approve_push(k, q)
          PROVE  Stands(r)
      <3>1. CASE Expire(q)
        BY <2>2, <3>1
      <3>2. CASE /\ req[q].status \notin {"Approved", "Denied"}
                 /\ req' = [req EXCEPT ![q].status = "Approved", ![q].device = k]
        BY <1>1, <3>2 DEF IInv, TypeOK
      <3> QED
        BY <2>4, <3>1, <3>2 DEF approve_push
    <2>5. ASSUME NEW q \in Reqs, deny_push(q)
          PROVE  Stands(r)
      <3>1. CASE Expire(q)
        BY <2>2, <3>1
      <3>2. CASE /\ Deniable(q)
                 /\ req' = [req EXCEPT ![q].status = "Denied"]
        BY <1>1, <3>2 DEF IInv, TypeOK, Request, Deniable
      <3> QED
        BY <2>5, <3>1, <3>2 DEF deny_push
    <2>6. ASSUME Restart
          PROVE  Stands(r)
      BY <2>6 DEF Restart, Found
    <2> QED
      BY <1>1, <2>1, <2>2, <2>3, <2>4, <2>5, <2>6
         DEF Next, RegisterRoute, register_device, DesktopRoutes,
             poll_push_status, complete_push_auth, AddPushDevice, GetDevice,
             AddDevice, CreateSession, PhoneRoutes, deactivate_push_device,
             EnrolDevice, RevokeDevice, Tick, vars
  <1>2. IInv /\ [Next]_vars => \A r \in Reqs : Stands(r)
    BY <1>1
  <1> QED
    BY <1>2, Inductive, PTL DEF DecisionStands, Spec

----------------------------------------------------------------------------

\* Every variable keeps its type, and a thread in the middle of a handler knows
\* the user, the key and the request it works for.
THEOREM TypeCorrect == Spec => []TypeOK
  <1>1. IInv => TypeOK
    BY DEF IInv
  <1> QED
    BY <1>1, Inductive, PTL

\* A key that was registered for a user is in the table, as that user's.
RegisteredRow == \A u \in Users, k \in Keys :
                    <<u, k>> \in registered => push[k].owner = u

\* On the memory adapter, of two registrations of one key that race between the
\* check and the insertion only the first is told that it succeeded.
THEOREM DuplicatesAreReported ==
    ASSUME Adapter = "memory"
    PROVE  Spec => []DuplicateIsReported
  <1>1. Init => RegisteredRow
    BY DEF Init, RegisteredRow
  <1>2. ASSUME IInv, RegisteredRow, [Next]_vars
        PROVE  RegisteredRow'
    <2>1. CASE UNCHANGED <<push, registered>>
      BY <1>2, <2>1 DEF RegisteredRow
    <2>2. ASSUME NEW t \in Threads, AddPushDevice(t)
          PROVE  RegisteredRow'
      <3>1. loc[t].user \in Users /\ loc[t].key \in Keys
        BY <1>2, <2>2 DEF IInv, TypeOK, AddPushDevice
      <3>2. CASE UNCHANGED <<push, registered>>
        BY <2>1, <3>2
      <3>3. CASE /\ push' = add_push_device(loc[t].user, loc[t].key)
                 /\ registered' = IF add_push_device_ok(loc[t].key)
                                    THEN registered \cup {<<loc[t].user, loc[t].key>>}
                                    ELSE registered
        BY <1>2, <3>1, <3>3, PushAssumption
           DEF IInv, TypeOK, RegisteredRow, add_push_device, add_push_device_ok,
               get_push_device
      <3> QED
        BY <2>2, <3>2, <3>3 DEF AddPushDevice
    <2>3. ASSUME NEW j \in Keys, deactivate_push_device(j)
          PROVE  RegisteredRow'
      BY <1>2, <2>3 DEF IInv, TypeOK, PushRecord, RegisteredRow,
                        deactivate_push_device
    <2> QED
      BY <1>2, <2>1, <2>2, <2>3
         DEF Next, RegisterRoute, register_device, DesktopRoutes,
             begin_push_auth, poll_push_status, complete_push_auth, GetDevice,
             AddDevice, CreateSession, PhoneRoutes, deny_push, approve_push,
             EnrolDevice, RevokeDevice, Tick, Restart, vars
  <1>3. RegisteredRow => DuplicateIsReported
    BY DEF RegisteredRow, DuplicateIsReported
  <1> QED
    BY <1>1, <1>2, <1>3, Inductive, PTL DEF Spec
=============================================================================
