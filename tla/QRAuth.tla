------------------------------- MODULE QRAuth -------------------------------
(***************************************************************************)
(* QR login: QRAuthServer (src/src/qr_auth.cpp) and the REST handlers that *)
(* use it (src/rest/server.cpp).  A method of QRAuthServer runs under its  *)
(* mutex and is one step.  The approve and complete handlers also read the *)
(* device table, outside that mutex: a request thread may be between the   *)
(* two.  A phone learns a challenge from validate_qr only, and a valid     *)
(* signature over it is made by a phone that knows it.                     *)
(***************************************************************************)
EXTENDS Integers, Sequences

CONSTANTS
    Sids,       \* bounds the sessions begun; generate_session_id never repeats
    Devices,    \* registered devices, the phones that approve
    Ips,        \* peer addresses, the dotted parts of each as a sequence
    Threads,
    QrTtl,      \* AuthConfig::qr_ttl
    MaxTime,    \* bounds the clock
    None

ASSUME QRAssumption ==
    /\ QrTtl \in Nat /\ MaxTime \in Nat
    /\ Ips \subseteq Seq(Nat)
    /\ None \notin Sids
    /\ None \notin Devices /\ "deny" \notin Devices

VARIABLES
    now,        \* now_sec()
    sess,       \* sessions_; an erased entry has status "gone"
    known,      \* <<session, device>>: the phone was given the challenge
    revoked,    \* the revoked devices of the device table
    pc, loc,    \* request threads between their two steps
    logins,     \* <<session, device>> -> tokens issued, counted to 2
    scans,      \* history: session -> addresses it was scanned from
    decision    \* history: session -> the device that approved it, "deny",
                \*          or None, whichever a user said last

vars == <<now, sess, known, revoked, pc, loc, logins, scans, decision>>
history == <<scans, decision>>

Session == [status : {"none", "Pending", "Scanned", "Approved", "Denied",
                      "Expired", "gone"},
            exp    : Nat,
            device : Devices \cup {None},
            ip     : Ips \cup {None}]

Local == [sid : Sids \cup {None}, device : Devices \cup {None}]

NoSession == [status |-> "none", exp |-> 0, device |-> None, ip |-> None]
NoLocal == [sid |-> None, device |-> None]

TypeOK ==
    /\ now \in 0..MaxTime
    /\ sess \in [Sids -> Session]
    /\ known \subseteq Sids \X Devices
    /\ revoked \subseteq Devices
    /\ pc \in [Threads -> {"idle", "approve_qr", "create_session"}]
    /\ loc \in [Threads -> Local]
    /\ \A t \in Threads :
          pc[t] # "idle" => loc[t].sid \in Sids /\ loc[t].device \in Devices
    /\ logins \in [Sids \X Devices -> 0..2]
    /\ scans \in [Sids -> SUBSET Ips]
    /\ decision \in [Sids -> Devices \cup {None, "deny"}]

Init ==
    /\ now = 0
    /\ sess = [s \in Sids |-> NoSession]
    /\ known = {}
    /\ revoked = {}
    /\ pc = [t \in Threads |-> "idle"]
    /\ loc = [t \in Threads |-> NoLocal]
    /\ logins = [login \in Sids \X Devices |-> 0]
    /\ scans = [s \in Sids |-> {}]
    /\ decision = [s \in Sids |-> None]

Found(s) == sess[s].status \notin {"none", "gone"}
is_expired(s) == now > sess[s].exp
Open(s) == Found(s) /\ ~is_expired(s)

SetStatus(s, status) == sess' = [sess EXCEPT ![s].status = status]

Goto(t, label, s, d) ==
    /\ pc' = [pc EXCEPT ![t] = label]
    /\ loc' = [loc EXCEPT ![t] = [sid |-> s, device |-> d]]

Return(t) ==
    /\ pc' = [pc EXCEPT ![t] = "idle"]
    /\ loc' = [loc EXCEPT ![t] = NoLocal]

----------------------------------------------------------------------------
(* The desktop. *)

cleanup_expired ==
    [s \in Sids |-> IF Found(s) /\ is_expired(s)
                      THEN [NoSession EXCEPT !.status = "gone"]
                      ELSE sess[s]]

\* Without a session when the generator or the cipher fails.  MaxTime leaves
\* every session the time to expire.
begin_qr_auth(ip) ==
    /\ \/ \E s \in Sids :
             /\ now + QrTtl < MaxTime
             /\ sess[s].status = "none"
             /\ sess' = [cleanup_expired EXCEPT ![s] =
                            [status |-> "Pending", exp |-> now + QrTtl,
                             device |-> None, ip |-> ip]]
       \/ sess' = cleanup_expired
    /\ UNCHANGED <<now, known, revoked, pc, loc, logins, history>>

poll_qr_status(s) ==
    /\ Found(s) /\ is_expired(s)
    /\ SetStatus(s, "Expired")
    /\ UNCHANGED <<now, known, revoked, pc, loc, logins, history>>

\* Mutant: the status is not checked.
CompletableUnchecked(s) == sess[s].status # "none"

\* Mutant: asks whether a device ever approved, not for the status.
CompletableOnceApproved(s) == sess[s].device # None

Completable(s) == sess[s].status = "Approved"

\* First step of /auth/qr/complete.
complete_qr_auth(t, s) ==
    /\ pc[t] = "idle" /\ Found(s)
    /\ IF is_expired(s)
         THEN SetStatus(s, "Expired") /\ UNCHANGED <<pc, loc>>
         ELSE /\ Completable(s)
              /\ Goto(t, "create_session", s, sess[s].device)
              /\ UNCHANGED sess
    /\ UNCHANGED <<now, known, revoked, logins, history>>

\* Mutant: the device is not looked at again.
MayHaveSessionAlways(d) == d \in Devices

MayHaveSession(d) == d \notin revoked

\* Second step: get_device, and create_session with its own checks; either
\* may fail.
create_session(t) ==
    /\ pc[t] = "create_session"
    /\ LET login == <<loc[t].sid, loc[t].device>>
       IN  \/ /\ MayHaveSession(loc[t].device)
              /\ logins' = [logins EXCEPT ![login] = IF @ = 2 THEN 2 ELSE @ + 1]
           \/ UNCHANGED logins
    /\ Return(t)
    /\ UNCHANGED <<now, sess, known, revoked, history>>

----------------------------------------------------------------------------
(* The phone. *)

\* What the code compares of an address: all but its last two parts.
get_subnet(ip) == IF Len(ip) < 3 THEN ip ELSE SubSeq(ip, 1, Len(ip) - 2)

\* Mutant: the expiry of the session is not checked.
ScannableUnexpired(s, ip) == Found(s) /\ get_subnet(sess[s].ip) = get_subnet(ip)

\* An empty address, the default argument, is not compared.
Scannable(s, ip) ==
    /\ Open(s)
    /\ <<>> \in {sess[s].ip, ip} \/ get_subnet(sess[s].ip) = get_subnet(ip)

\* The status becomes Scanned whatever it was.
validate_qr(s, d, ip) ==
    /\ Scannable(s, ip)
    /\ SetStatus(s, "Scanned")
    /\ known' = known \cup {<<s, d>>}
    /\ scans' = [scans EXCEPT ![s] = @ \cup {ip}]
    /\ UNCHANGED <<now, revoked, pc, loc, logins, decision>>

\* First step of /auth/qr/approve: the device must be registered and live.
approve_handler(t, s, d) ==
    /\ pc[t] = "idle"
    /\ d \notin revoked
    /\ <<s, d>> \in known
    /\ Goto(t, "approve_qr", s, d)
    /\ UNCHANGED <<now, sess, known, revoked, logins, history>>

\* Mutant: an approval is recorded whatever was decided before.
ApprovableAlways(s) == sess[s].status # "none"

Approvable(s) == sess[s].status \notin {"Approved", "Denied"}

\* Second step; the signature is good, see approve_handler.
approve_qr(t) ==
    /\ pc[t] = "approve_qr"
    /\ LET s == loc[t].sid
       IN  \/ /\ Open(s) /\ Approvable(s)
              /\ sess' = [sess EXCEPT ![s].status = "Approved",
                                      ![s].device = loc[t].device]
              /\ decision' = [decision EXCEPT ![s] = loc[t].device]
           \/ /\ Found(s) /\ is_expired(s)
              /\ SetStatus(s, "Expired")
              /\ UNCHANGED decision
           \/ /\ ~Open(s) \/ ~Approvable(s)
              /\ ~(Found(s) /\ is_expired(s))
              /\ UNCHANGED <<sess, decision>>
    /\ Return(t)
    /\ UNCHANGED <<now, known, revoked, logins, scans>>

deny_qr(s) ==
    /\ Found(s)
    /\ IF is_expired(s)
         THEN SetStatus(s, "Expired") /\ UNCHANGED decision
         ELSE /\ sess[s].status # "Approved"
              /\ SetStatus(s, "Denied")
              /\ decision' = [decision EXCEPT ![s] = "deny"]
    /\ UNCHANGED <<now, known, revoked, pc, loc, logins, scans>>

----------------------------------------------------------------------------
(* The rest of the system. *)

revoke_device(d) ==
    /\ revoked' = revoked \cup {d}
    /\ UNCHANGED <<now, sess, known, pc, loc, logins, history>>

Tick ==
    /\ now < MaxTime
    /\ now' = now + 1
    /\ UNCHANGED <<sess, known, revoked, pc, loc, logins, history>>

\* The sessions are in memory only; requests under way die with the process.
Restart ==
    /\ sess' = [s \in Sids |-> IF Found(s) THEN [NoSession EXCEPT !.status = "gone"]
                                           ELSE sess[s]]
    /\ pc' = [t \in Threads |-> "idle"]
    /\ loc' = [t \in Threads |-> NoLocal]
    /\ UNCHANGED <<now, known, revoked, logins, history>>

\* The REST routes of the desktop and of the phones.
DesktopRoutes ==
    \/ \E ip \in Ips : begin_qr_auth(ip)
    \/ \E s \in Sids :
          \/ poll_qr_status(s)
          \/ \E t \in Threads : complete_qr_auth(t, s)

PhoneRoutes ==
    \E s \in Sids :
        \/ \E d \in Devices, ip \in Ips : validate_qr(s, d, ip)
        \/ \E t \in Threads, d \in Devices : approve_handler(t, s, d)
        \/ deny_qr(s)

Next ==
    \/ DesktopRoutes \/ PhoneRoutes
    \/ \E t \in Threads : approve_qr(t) \/ create_session(t)
    \/ \E d \in Devices : revoke_device(d)
    \/ Tick \/ Restart

Spec == Init /\ [][Next]_vars

\* Time passes, started requests go on, and the desktop "calls this
\* repeatedly", as qr_auth.h says of poll_qr_status.
FairSpec ==
    /\ Spec
    /\ WF_vars(Tick)
    /\ \A t \in Threads : WF_vars(approve_qr(t)) /\ WF_vars(create_session(t))
    /\ \A s \in Sids : WF_vars(poll_qr_status(s))

----------------------------------------------------------------------------

\* A request is let through to a login only while the last thing a user said
\* of its session is the approval of that very device, and before the session
\* expires: a denial that came after a second scan stands.
LoginFollowsLastDecision ==
    [][\A t \in Threads :
          pc[t] = "idle" /\ pc'[t] = "create_session" =>
              /\ decision[loc'[t].sid] = loc'[t].device
              /\ now <= sess[loc'[t].sid].exp]_vars

\* A device revoked after it approved, even between the two steps of the
\* approve handler, gets no login through that session.
RevokedApproverGetsNoLogin ==
    [][\A t \in Threads :
          pc[t] = "create_session" /\ loc[t].device \in revoked =>
              LET login == <<loc[t].sid, loc[t].device>>
              IN  logins'[login] = logins[login]]_vars

\* Once a session is approved or denied, no further approval changes the
\* device it is approved by; only a new scan re-opens it.
ApproverIsKept ==
    [][\A s \in Sids :
          /\ sess[s].status \in {"Approved", "Denied"}
          /\ sess'[s].status = "Approved"
          => sess'[s].device = sess[s].device /\ sess[s].status = "Approved"]_vars

\* Every session that was begun is in the end expired for good, whatever the
\* phones do, so that it stops being usable.
SessionsEnd ==
    \A s \in Sids :
        Found(s) ~> [](sess[s].status \in {"Expired", "gone"})

----------------------------------------------------------------------------
(* What the repository says and the code does not do. *)

\* DEVELOPER_GUIDE.md: a QR code is for one-time use.
OneTimeUse == \A login \in Sids \X Devices : logins[login] <= 1

\* qr_auth.h, complete_qr_auth: "once status is Approved, call this to get the
\* session".
ApprovalStands ==
    [][\A s \in Sids :
          sess[s].status = "Approved" =>
              sess'[s].status \in {"Approved", "Expired", "gone"}]_vars

\* qr_auth.cpp, validate_qr: "Compare first 3 octets (same /24 subnet)".
ScannedFromSameSubnet ==
    \A s \in Sids : \A ip \in scans[s] :
        Len(ip) = 4 /\ sess[s].ip # None =>
            SubSeq(ip, 1, 3) = SubSeq(sess[s].ip, 1, 3)

\* qr_auth.cpp, cleanup_expired: "Clean up expired sessions (called
\* periodically)".
ExpiredAreRemoved ==
    \A s \in Sids : Found(s) /\ is_expired(s) ~> sess[s].status = "gone"
=============================================================================
