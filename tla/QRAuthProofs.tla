---------------------------- MODULE QRAuthProofs ----------------------------
(***************************************************************************)
(* Theorems about QR login, for any number of sessions, devices, threads.  *)
(***************************************************************************)
EXTENDS QRAuth, TLAPS

\* The status says Approved only of the device that approved last, with no
\* denial since.
ApprovedByDecision ==
    \A s \in Sids :
        sess[s].status = "Approved" =>
            sess[s].device \in Devices /\ decision[s] = sess[s].device

IInv == TypeOK /\ ApprovedByDecision

LEMMA InitOK == ASSUME Init PROVE IInv
  BY QRAssumption DEF Init, IInv, TypeOK, ApprovedByDecision, NoSession,
     NoLocal, Session, Local

\* Ends of requests.
LEMMA ReturnOK ==
    ASSUME TypeOK, NEW t \in Threads, Return(t)
    PROVE  /\ pc' \in [Threads -> {"idle", "approve_qr", "create_session"}]
           /\ loc' \in [Threads -> Local]
           /\ \A r \in Threads :
                 pc'[r] # "idle" => loc'[r].sid \in Sids /\ loc'[r].device \in Devices
  <1>1. NoLocal \in Local
    BY DEF NoLocal, Local
  <1> QED
    BY <1>1 DEF TypeOK, Return

LEMMA GotoOK ==
    ASSUME TypeOK, NEW t \in Threads, NEW s \in Sids, NEW d \in Devices,
           NEW label \in {"approve_qr", "create_session"}, Goto(t, label, s, d)
    PROVE  /\ pc' \in [Threads -> {"idle", "approve_qr", "create_session"}]
           /\ loc' \in [Threads -> Local]
           /\ \A r \in Threads :
                 pc'[r] # "idle" => loc'[r].sid \in Sids /\ loc'[r].device \in Devices
  <1>1. [sid |-> s, device |-> d] \in Local
    BY DEF Local
  <1> QED
    BY <1>1 DEF TypeOK, Goto

\* A change of status to anything but Approved disturbs nothing.
LEMMA SetStatusOK ==
    ASSUME IInv, NEW s \in Sids, NEW status \in {"Scanned", "Denied", "Expired"},
           SetStatus(s, status)
    PROVE  /\ sess' \in [Sids -> Session]
           /\ \A r \in Sids :
                 sess'[r].status = "Approved" =>
                     r # s /\ sess'[r] = sess[r]
  BY DEF IInv, TypeOK, SetStatus, Session

LEMMA ErasedOK ==
    NoSession \in Session /\ [NoSession EXCEPT !.status = "gone"] \in Session
      /\ [NoSession EXCEPT !.status = "gone"].status = "gone"
  BY DEF NoSession, Session

LEMMA BeginStep ==
    ASSUME IInv, NEW ip \in Ips, begin_qr_auth(ip)
    PROVE  IInv'
  <1>1. /\ cleanup_expired \in [Sids -> Session]
        /\ \A s \in Sids : cleanup_expired[s].status = "Approved" =>
                              cleanup_expired[s] = sess[s]
    BY ErasedOK DEF IInv, TypeOK, cleanup_expired
  <1>2. /\ sess' \in [Sids -> Session]
        /\ \A s \in Sids : sess'[s].status = "Approved" => sess'[s] = sess[s]
    <2>1. CASE sess' = cleanup_expired
      BY <1>1, <2>1
    <2>2. CASE \E s \in Sids :
                  sess' = [cleanup_expired EXCEPT ![s] =
                              [status |-> "Pending", exp |-> now + QrTtl,
                               device |-> None, ip |-> ip]]
      <3>1. [status |-> "Pending", exp |-> now + QrTtl, device |-> None,
             ip |-> ip] \in Session
        BY QRAssumption DEF Session, IInv, TypeOK
      <3> QED
        BY <1>1, <2>2, <3>1
    <2> QED
      BY <2>1, <2>2 DEF begin_qr_auth
  <1> QED
    BY <1>2 DEF IInv, TypeOK, ApprovedByDecision, begin_qr_auth, history

LEMMA PollStep ==
    ASSUME IInv, NEW s \in Sids, poll_qr_status(s)
    PROVE  IInv'
  BY SetStatusOK DEF IInv, TypeOK, ApprovedByDecision, poll_qr_status, history

LEMMA CompleteStep ==
    ASSUME IInv, NEW s \in Sids, NEW t \in Threads, complete_qr_auth(t, s)
    PROVE  IInv'
  <1>1. CASE SetStatus(s, "Expired") /\ UNCHANGED <<pc, loc>>
    BY <1>1, SetStatusOK
       DEF IInv, TypeOK, ApprovedByDecision, complete_qr_auth, history
  <1>2. CASE /\ Completable(s)
             /\ Goto(t, "create_session", s, sess[s].device)
             /\ UNCHANGED sess
    <2>1. sess[s].device \in Devices
      BY <1>2 DEF IInv, ApprovedByDecision, Completable
    <2> QED
      BY <1>2, <2>1, GotoOK
         DEF IInv, TypeOK, ApprovedByDecision, complete_qr_auth, history
  <1> QED
    BY <1>1, <1>2 DEF complete_qr_auth

LEMMA CreateSessionStep ==
    ASSUME IInv, NEW t \in Threads, create_session(t)
    PROVE  IInv'
  <1>1. loc[t].sid \in Sids /\ loc[t].device \in Devices
    BY DEF IInv, TypeOK, create_session
  <1>2. logins' \in [Sids \X Devices -> 0..2]
    <2>1. ASSUME NEW login \in Sids \X Devices,
                 logins' = [logins EXCEPT ![login] = IF @ = 2 THEN 2 ELSE @ + 1]
          PROVE  logins' \in [Sids \X Devices -> 0..2]
      <3>1. logins[login] \in 0..2
        BY <2>1 DEF IInv, TypeOK
      <3>2. (IF logins[login] = 2 THEN 2 ELSE logins[login] + 1) \in 0..2
        BY <3>1
      <3> QED
        BY <2>1, <3>2 DEF IInv, TypeOK
    <2>2. <<loc[t].sid, loc[t].device>> \in Sids \X Devices
      BY <1>1
    <2> QED
      BY <2>1, <2>2 DEF create_session, IInv, TypeOK
  <1> QED
    BY <1>2, ReturnOK DEF IInv, TypeOK, ApprovedByDecision, create_session, history

LEMMA ValidateStep ==
    ASSUME IInv, NEW s \in Sids, NEW d \in Devices, NEW ip \in Ips,
           validate_qr(s, d, ip)
    PROVE  IInv'
  <1>1. scans' \in [Sids -> SUBSET Ips]
    BY DEF IInv, TypeOK, validate_qr
  <1> QED
    BY <1>1, SetStatusOK DEF IInv, TypeOK, ApprovedByDecision, validate_qr

LEMMA ApproveHandlerStep ==
    ASSUME IInv, NEW t \in Threads, NEW s \in Sids, NEW d \in Devices,
           approve_handler(t, s, d)
    PROVE  IInv'
  BY GotoOK DEF IInv, TypeOK, ApprovedByDecision, approve_handler, history

LEMMA ApproveStep ==
    ASSUME IInv, NEW t \in Threads, approve_qr(t)
    PROVE  IInv'
  <1> DEFINE s == loc[t].sid
             d == loc[t].device
  <1>1. s \in Sids /\ d \in Devices
    BY DEF IInv, TypeOK, approve_qr
  <1>2. /\ sess' \in [Sids -> Session]
        /\ decision' \in [Sids -> Devices \cup {None, "deny"}]
        /\ ApprovedByDecision'
    <2>1. CASE /\ sess' = [sess EXCEPT ![s].status = "Approved", ![s].device = d]
               /\ decision' = [decision EXCEPT ![s] = d]
      <3>1. \A r \in Sids : r # s => sess'[r] = sess[r] /\ decision'[r] = decision[r]
        BY <2>1 DEF IInv, TypeOK
      <3>2. sess'[s].device = d /\ decision'[s] = d
        BY <1>1, <2>1 DEF IInv, TypeOK, Session
      <3>3. ApprovedByDecision'
        BY <1>1, <3>1, <3>2 DEF IInv, ApprovedByDecision
      <3>4. sess' \in [Sids -> Session]
        <4>1. sess[s] \in Session
          BY <1>1 DEF IInv, TypeOK
        <4>2. sess'[s] = [sess[s] EXCEPT !.status = "Approved", !.device = d]
          BY <1>1, <2>1 DEF IInv, TypeOK, Session
        <4>3. sess'[s] \in Session
          BY <1>1, <4>1, <4>2 DEF Session
        <4> QED
          BY <2>1, <3>1, <4>3 DEF IInv, TypeOK
      <3> QED
        BY <1>1, <2>1, <3>3, <3>4 DEF IInv, TypeOK
    <2>2. CASE SetStatus(s, "Expired") /\ UNCHANGED decision
      BY <1>1, <2>2, SetStatusOK DEF IInv, TypeOK, ApprovedByDecision
    <2>3. CASE UNCHANGED <<sess, decision>>
      BY <2>3 DEF IInv, TypeOK, ApprovedByDecision
    <2> QED
      BY <2>1, <2>2, <2>3 DEF approve_qr
  <1> QED
    BY <1>2, ReturnOK DEF IInv, TypeOK, approve_qr

LEMMA DenyStep ==
    ASSUME IInv, NEW s \in Sids, deny_qr(s)
    PROVE  IInv'
  <1>1. CASE SetStatus(s, "Expired") /\ UNCHANGED decision
    BY <1>1, SetStatusOK DEF IInv, TypeOK, ApprovedByDecision, deny_qr
  <1>2. CASE SetStatus(s, "Denied") /\ decision' = [decision EXCEPT ![s] = "deny"]
    BY <1>2, SetStatusOK DEF IInv, TypeOK, ApprovedByDecision, deny_qr
  <1> QED
    BY <1>1, <1>2 DEF deny_qr

LEMMA RestartStep ==
    ASSUME IInv, Restart
    PROVE  IInv'
  <1>1. NoLocal \in Local
    BY DEF NoLocal, Local
  <1>2. /\ sess' \in [Sids -> Session]
        /\ \A s \in Sids : sess'[s].status = "Approved" => sess'[s] = sess[s]
    BY ErasedOK DEF IInv, TypeOK, Restart
  <1> QED
    BY <1>1, <1>2 DEF IInv, TypeOK, ApprovedByDecision, Restart, history

LEMMA EnvironmentStep ==
    ASSUME IInv, \/ \E d \in Devices : revoke_device(d)
                 \/ Tick
                 \/ UNCHANGED vars
    PROVE  IInv'
  <1>1. CASE \E d \in Devices : revoke_device(d)
    BY <1>1 DEF IInv, TypeOK, ApprovedByDecision, revoke_device, history
  <1>2. CASE Tick
    BY <1>2, QRAssumption DEF IInv, TypeOK, ApprovedByDecision, Tick, history
  <1>3. CASE UNCHANGED vars
    BY <1>3 DEF IInv, TypeOK, ApprovedByDecision, vars, history
  <1> QED
    BY <1>1, <1>2, <1>3

LEMMA StepOK == ASSUME IInv, [Next]_vars PROVE IInv'
  BY BeginStep, PollStep, CompleteStep, CreateSessionStep, ValidateStep,
     ApproveHandlerStep, ApproveStep, DenyStep, RestartStep, EnvironmentStep
     DEF Next, DesktopRoutes, PhoneRoutes

LEMMA Inductive == Spec => []IInv
  <1>1. Init => IInv
    BY InitOK
  <1>2. IInv /\ [Next]_vars => IInv'
    BY StepOK
  <1> QED
    BY <1>1, <1>2, PTL DEF Spec

\* Every variable keeps its type, and a request between its two steps names a
\* session and a device.
THEOREM TypeCorrect == Spec => []TypeOK
  BY Inductive, PTL DEF IInv

\* A login is let through only on the last decision of a user about its
\* session, and in time, whatever scans, denials and approvals interleave.
THEOREM LoginsAreApproved == Spec => LoginFollowsLastDecision
  <1> DEFINE Claimed(t) ==
                pc[t] = "idle" /\ pc'[t] = "create_session" =>
                    /\ decision[loc'[t].sid] = loc'[t].device
                    /\ now <= sess[loc'[t].sid].exp
  <1>1. ASSUME IInv, [Next]_vars, NEW t \in Threads,
               pc[t] = "idle", pc'[t] = "create_session"
        PROVE  \E s \in Sids : complete_qr_auth(t, s)
    <2>1. pc \in [Threads -> {"idle", "approve_qr", "create_session"}]
      BY <1>1 DEF IInv, TypeOK
    <2>2. ASSUME NEW r \in Threads, NEW s \in Sids, complete_qr_auth(r, s)
          PROVE  r = t
      BY <1>1, <2>1, <2>2 DEF complete_qr_auth, Goto
    <2>3. ASSUME NEW r \in Threads, NEW s \in Sids, NEW d \in Devices
          PROVE  ~approve_handler(r, s, d)
      BY <1>1, <2>1 DEF approve_handler, Goto
    <2>4. ASSUME NEW r \in Threads
          PROVE  ~approve_qr(r) /\ ~create_session(r)
      BY <1>1, <2>1 DEF approve_qr, create_session, Return
    <2>5. pc' # pc
      BY <1>1
    <2>6. ~Restart
      BY <1>1 DEF Restart
    <2> QED
      BY <1>1, <2>2, <2>3, <2>4, <2>5, <2>6
         DEF Next, DesktopRoutes, PhoneRoutes, begin_qr_auth, poll_qr_status, validate_qr, deny_qr,
             revoke_device, Tick, vars
  <1>2. ASSUME IInv, [Next]_vars, NEW t \in Threads
        PROVE  Claimed(t)
    <2> SUFFICES ASSUME pc[t] = "idle", pc'[t] = "create_session"
                 PROVE  /\ decision[loc'[t].sid] = loc'[t].device
                        /\ now <= sess[loc'[t].sid].exp
      OBVIOUS
    <2>1. PICK s \in Sids : complete_qr_auth(t, s)
      BY <1>1, <1>2
    <2>2. ~is_expired(s) /\ Completable(s)
            /\ Goto(t, "create_session", s, sess[s].device)
      BY <2>1 DEF complete_qr_auth
    <2>3. loc'[t].sid = s /\ loc'[t].device = sess[s].device
      BY <1>2, <2>2 DEF IInv, TypeOK, Goto
    <2>4. sess[s].exp \in Nat /\ now \in Nat
      BY <1>2, QRAssumption DEF IInv, TypeOK, Session
    <2> QED
      BY <1>2, <2>2, <2>3, <2>4
         DEF IInv, ApprovedByDecision, Completable, is_expired
  <1>3. IInv /\ [Next]_vars => \A t \in Threads : Claimed(t)
    BY <1>2
  <1> QED
    BY <1>3, Inductive, PTL DEF LoginFollowsLastDecision, Spec

----------------------------------------------------------------------------
(* Action properties of single steps.                                      *)

\* The steps that touch neither a session nor a login.
LEMMA IdleStepsKeep ==
    ASSUME \/ \E t \in Threads, s \in Sids, d \in Devices : approve_handler(t, s, d)
           \/ \E d \in Devices : revoke_device(d)
           \/ Tick
           \/ UNCHANGED vars
    PROVE  UNCHANGED <<sess, logins>>
  BY DEF approve_handler, revoke_device, Tick, vars

\* A device revoked after it approved gets no login through that session, at
\* whichever point between the steps of the handlers it was revoked.
THEOREM RevokedGetsNoLogin == Spec => RevokedApproverGetsNoLogin
  <1> DEFINE Refused(t) ==
                pc[t] = "create_session" /\ loc[t].device \in revoked =>
                    LET login == <<loc[t].sid, loc[t].device>>
                    IN  logins'[login] = logins[login]
  <1>1. ASSUME IInv, [Next]_vars, NEW t \in Threads
        PROVE  Refused(t)
    <2> SUFFICES ASSUME pc[t] = "create_session", loc[t].device \in revoked
                 PROVE  logins'[<<loc[t].sid, loc[t].device>>] =
                           logins[<<loc[t].sid, loc[t].device>>]
      OBVIOUS
    <2>1. ASSUME NEW r \in Threads, create_session(r)
          PROVE  logins'[<<loc[t].sid, loc[t].device>>] =
                    logins[<<loc[t].sid, loc[t].device>>]
      <3>1. CASE UNCHANGED logins
        BY <3>1
      <3>2. CASE /\ MayHaveSession(loc[r].device)
                 /\ logins' = [logins EXCEPT ![<<loc[r].sid, loc[r].device>>] =
                                  IF @ = 2 THEN 2 ELSE @ + 1]
        <4>1. loc[r].device # loc[t].device
          BY <3>2 DEF MayHaveSession
        <4>2. <<loc[r].sid, loc[r].device>> # <<loc[t].sid, loc[t].device>>
          BY <4>1
        <4>3. <<loc[t].sid, loc[t].device>> \in Sids \X Devices
          BY <1>1 DEF IInv, TypeOK
        <4> QED
          BY <1>1, <3>2, <4>2, <4>3 DEF IInv, TypeOK
      <3> QED
        BY <2>1, <3>1, <3>2 DEF create_session
    <2>2. CASE UNCHANGED logins
      BY <2>2
    <2> QED
      BY <1>1, <2>1, <2>2, IdleStepsKeep
         DEF Next, DesktopRoutes, PhoneRoutes, begin_qr_auth, poll_qr_status,
             complete_qr_auth, validate_qr, approve_qr, deny_qr, Restart
  <1>2. IInv /\ [Next]_vars => \A t \in Threads : Refused(t)
    BY <1>1
  <1> QED
    BY <1>2, Inductive, PTL DEF RevokedApproverGetsNoLogin, Spec

\* The approver of a session stays the one who approved it, until the session
\* is scanned again, ends or is forgotten.
THEOREM ApproverKept == Spec => ApproverIsKept
  <1> DEFINE Kept(s) ==
                /\ sess[s].status \in {"Approved", "Denied"}
                /\ sess'[s].status = "Approved"
                => sess'[s].device = sess[s].device /\ sess[s].status = "Approved"
  <1>1. ASSUME IInv, [Next]_vars, NEW s \in Sids
        PROVE  Kept(s)
    <2>1. ASSUME NEW q \in Sids, NEW status \in {"Scanned", "Denied", "Expired"},
                 SetStatus(q, status)
          PROVE  Kept(s)
      BY <1>1, <2>1, SetStatusOK
    <2>2. CASE UNCHANGED sess
      BY <2>2
    <2>3. ASSUME NEW ip \in Ips, begin_qr_auth(ip)
          PROVE  Kept(s)
      <3>1. cleanup_expired[s].status = "Approved" => cleanup_expired[s] = sess[s]
        BY ErasedOK DEF cleanup_expired
      <3>2. \/ sess'[s] = cleanup_expired[s]
            \/ sess'[s].status = "Pending"
        <4>1. ASSUME NEW q \in Sids,
                     sess' = [cleanup_expired EXCEPT ![q] =
                                 [status |-> "Pending", exp |-> now + QrTtl,
                                  device |-> None, ip |-> ip]]
              PROVE  \/ sess'[s] = cleanup_expired[s]
                     \/ sess'[s].status = "Pending"
          <5>1. cleanup_expired = [r \in Sids |-> cleanup_expired[r]]
            BY DEF cleanup_expired
          <5> QED
            BY <4>1, <5>1
        <4> QED
          BY <2>3, <4>1 DEF begin_qr_auth
      <3> QED
        BY <3>1, <3>2
    <2>4. ASSUME NEW t \in Threads, approve_qr(t)
          PROVE  Kept(s)
      <3>1. CASE /\ Approvable(loc[t].sid)
                 /\ sess' = [sess EXCEPT ![loc[t].sid].status = "Approved",
                                         ![loc[t].sid].device = loc[t].device]
        <4>1. CASE s = loc[t].sid
          BY <3>1, <4>1 DEF Approvable
        <4>2. CASE s # loc[t].sid
          BY <1>1, <3>1, <4>2 DEF IInv, TypeOK
        <4> QED
          BY <4>1, <4>2
      <3>2. CASE SetStatus(loc[t].sid, "Expired")
        <4>1. loc[t].sid \in Sids
          BY <1>1, <2>4 DEF IInv, TypeOK, approve_qr
        <4> QED
          BY <2>1, <3>2, <4>1
      <3> QED
        BY <2>2, <2>4, <3>1, <3>2 DEF approve_qr
    <2>5. ASSUME Restart
          PROVE  Kept(s)
      <3>1. sess'[s].status = "Approved" => sess'[s] = sess[s]
        BY <2>5, ErasedOK DEF Restart
      <3> QED
        BY <3>1
    <2> QED
      BY <1>1, <2>1, <2>2, <2>3, <2>4, <2>5, IdleStepsKeep
         DEF Next, DesktopRoutes, PhoneRoutes, poll_qr_status, complete_qr_auth,
             create_session, validate_qr, deny_qr
  <1>2. IInv /\ [Next]_vars => \A s \in Sids : Kept(s)
    BY <1>1
  <1> QED
    BY <1>2, Inductive, PTL DEF ApproverIsKept, Spec
=============================================================================
