------------------------------ MODULE WebAuthn ------------------------------
(***************************************************************************)
(* WebAuthn login: WebAuthnServer (src/src/webauthn.cpp), the credentials  *)
(* of the storage adapters, and the REST handlers that use them            *)
(* (src/rest/server.cpp).  WebAuthnServer keeps no state: its challenges   *)
(* carry a MAC and no expiry, and complete_authentication compares with a  *)
(* copy of the credentials.  What matters is therefore what the handlers   *)
(* read and write, one storage call at a time, with other requests in      *)
(* between.  The tables are those of Postgres; the memory adapter answers  *)
(* alike and forgets everything in a restart.                              *)
(*                                                                         *)
(* A credential stands for its id and its key, and the id doubles as the   *)
(* device id of its row in ez_devices.  An assertion is a credential and   *)
(* the count it carries, and can be presented as often as a client likes.  *)
(* The authenticator makes those up to its counter; another holder of the  *)
(* key, a clone say, makes any.  What a registration says of the counter   *)
(* nobody signed: it is any number too.                                    *)
(***************************************************************************)
EXTENDS Integers

CONSTANTS
    Users, Threads,
    Creds,          \* credentials, each of one authenticator
    MaxCount,       \* bounds the counters
    MaxLapses,      \* bounds the history of lapses
    StorageMayFail, \* whether a call may report an error
    None

ASSUME WebAuthnAssumption ==
    /\ MaxCount \in Nat
    /\ MaxLapses \in Nat
    /\ StorageMayFail \in BOOLEAN
    /\ None \notin Users /\ None \notin Creds

VARIABLES
    counter,    \* the signature counter in the authenticator
    creds,      \* credential -> row; owner None when there is none
    devices,    \* credential -> ez_devices row
    pc, loc,    \* request threads between two storage calls
    tokens,     \* <<user, credential>>: session tokens issued
    enrolled,   \* history: <<user, credential>> ever stored
    accepted,   \* history: assertion with a count -> times accepted since the
                \*          credential was stored, counted to MaxLapses + 1
    lapses,     \* history: credential -> times the comparison of counts was
                \*          bypassed or its result lost, since it was stored,
                \*          counted to MaxLapses
    ahead       \* history: <<credential, count>> taken by the server while ahead
                \*          of the authenticator, since the credential was stored

histories == <<enrolled, accepted, lapses, ahead>>

vars == <<counter, creds, devices, pc, loc, tokens, enrolled, accepted, lapses,
          ahead>>

Counts == 0..MaxCount

\* What a client can present with the signature of the credential's key, over a
\* challenge that this server made, at whatever time.
Assertions == Creds \X Counts

Counted == Creds \X (Counts \ {0})

CredentialRecord == [owner : Users \cup {None}, count : Counts]
DeviceRecord == [owner : Users \cup {None}, revoked : BOOLEAN]

Labels == {"idle", "update_count", "get_device", "add_device",
           "create_session", "remove"}

Local == [user  : Users \cup {None},
          cred  : Creds \cup {None},
          count : Counts]

NoLocal == [user |-> None, cred |-> None, count |-> 0]

TypeOK ==
    /\ counter \in [Creds -> Counts]
    /\ creds \in [Creds -> CredentialRecord]
    /\ devices \in [Creds -> DeviceRecord]
    /\ pc \in [Threads -> Labels]
    /\ loc \in [Threads -> Local]
    /\ \A t \in Threads :
          pc[t] # "idle" => loc[t].user \in Users /\ loc[t].cred \in Creds
    /\ tokens \subseteq Users \X Creds
    /\ enrolled \subseteq Users \X Creds
    /\ accepted \in [Counted -> 0..MaxLapses + 1]
    /\ lapses \in [Creds -> 0..MaxLapses]
    /\ ahead \subseteq Assertions

Init ==
    /\ counter = [c \in Creds |-> 0]
    /\ creds = [c \in Creds |-> [owner |-> None, count |-> 0]]
    /\ devices = [c \in Creds |-> [owner |-> None, revoked |-> FALSE]]
    /\ pc = [t \in Threads |-> "idle"]
    /\ loc = [t \in Threads |-> NoLocal]
    /\ tokens = {}
    /\ enrolled = {}
    /\ accepted = [a \in Counted |-> 0]
    /\ lapses = [c \in Creds |-> 0]
    /\ ahead = {}

Goto(t, label) == pc' = [pc EXCEPT ![t] = label] /\ UNCHANGED loc

Return(t) ==
    /\ pc' = [pc EXCEPT ![t] = "idle"]
    /\ loc' = [loc EXCEPT ![t] = NoLocal]

----------------------------------------------------------------------------
(* The authenticator.  One that keeps no counter stays at 0. *)

Sign(c) ==
    /\ counter[c] < MaxCount
    /\ counter' = [counter EXCEPT ![c] = @ + 1]
    /\ UNCHANGED <<creds, devices, pc, loc, tokens, histories>>

----------------------------------------------------------------------------
(* Registration and removal, in a session of u. *)

Stored(c) == creds[c].owner # None

\* The memory adapter refuses an existing id, Postgres passes over it.
add_webauthn_credential(u, c, n) ==
    IF Stored(c) THEN creds ELSE [creds EXCEPT ![c] = [owner |-> u, count |-> n]]

\* Requests that accepted an assertion of the credential and are to write its
\* counter.
InFlight(c) == {t \in Threads : pc[t] = "update_count" /\ loc[t].cred = c}

\* What of `ahead' can still reach a row of c that is stored now.
CarriedOver(c) ==
    {a \in ahead : a[1] = c => \E t \in InFlight(c) : loc[t].count = a[2]}

IfAhead(c, n) == IF n > counter[c] THEN {<<c, n>>} ELSE {}

\* No signature is looked at: the count is whatever the client sends.
complete_registration(u, c) ==
    /\ \E n \in Counts :
          /\ creds' = add_webauthn_credential(u, c, n)
          /\ IF Stored(c)
               THEN UNCHANGED histories
               ELSE /\ enrolled' = enrolled \cup {<<u, c>>}
                    /\ accepted' = [a \in Counted |->
                                       IF a[1] = c THEN 0 ELSE accepted[a]]
                    /\ lapses' = [lapses EXCEPT ![c] = 0]
                    /\ ahead' = CarriedOver(c) \cup IfAhead(c, n)
    /\ UNCHANGED <<counter, devices, pc, loc, tokens>>

\* The owner is compared in one call and the row removed in the next.
delete_credential(t, u, c) ==
    /\ pc[t] = "idle"
    /\ creds[c].owner = u
    /\ pc' = [pc EXCEPT ![t] = "remove"]
    /\ loc' = [loc EXCEPT ![t] = [user |-> u, cred |-> c, count |-> 0]]
    /\ UNCHANGED <<counter, creds, devices, tokens, histories>>

\* The device row stays, and with it the sessions of the credential.
Remove(t) ==
    /\ pc[t] = "remove"
    /\ \/ creds' = [creds EXCEPT ![loc[t].cred] = [owner |-> None, count |-> 0]]
       \/ StorageMayFail /\ UNCHANGED creds
    /\ Return(t)
    /\ UNCHANGED <<counter, devices, tokens, histories>>

----------------------------------------------------------------------------
(* Login.  The requests of one login: complete_authentication on a copy of *)
(* the credentials of u, then the counter, the device row, the session.    *)

\* Mutant: a repeated counter passes.
CountIncreased_or_same(stored, n) == stored = 0 \/ n = 0 \/ n >= stored

\* A counter of 0, on either side, switches the comparison off.
CountIncreased(stored, n) == stored = 0 \/ n = 0 \/ n > stored

Lapse(S) ==
    lapses' = [c \in Creds |-> IF c \in S /\ lapses[c] < MaxLapses
                                 THEN lapses[c] + 1 ELSE lapses[c]]

\* The comparison lapses when a login it should have been compared with has not
\* written its count yet, and when a 0 passes it.
complete_authentication(t, u, a) ==
    LET c == a[1]
        n == a[2]
    IN  /\ pc[t] = "idle"
        /\ creds[c].owner = u
        /\ CountIncreased(creds[c].count, n)
        /\ accepted' = [b \in Counted |-> IF b = a /\ accepted[b] <= MaxLapses
                                             THEN accepted[b] + 1 ELSE accepted[b]]
        /\ Lapse(IF InFlight(c) # {} \/ (n = 0 /\ creds[c].count > 0)
                   THEN {c} ELSE {})
        /\ ahead' = ahead \cup IfAhead(c, n)
        /\ pc' = [pc EXCEPT ![t] = "update_count"]
        /\ loc' = [loc EXCEPT ![t] = [user |-> u, cred |-> c, count |-> n]]
        /\ UNCHANGED <<counter, creds, devices, tokens, enrolled>>

\* Mutant: the count the next assertion will carry is written.
update_webauthn_sign_count_next(c, n) ==
    IF Stored(c) THEN [creds EXCEPT ![c].count = n + 1] ELSE creds

update_webauthn_sign_count(c, n) ==
    IF Stored(c) THEN [creds EXCEPT ![c].count = n] ELSE creds

\* Whether the count was written is not looked at.
UpdateCount(t) ==
    LET c == loc[t].cred
    IN  /\ pc[t] = "update_count"
        /\ \/ /\ creds' = update_webauthn_sign_count(c, loc[t].count)
              /\ UNCHANGED lapses
           \/ /\ StorageMayFail
              /\ Lapse({c})
              /\ UNCHANGED creds
        /\ Goto(t, "get_device")
        /\ UNCHANGED <<counter, devices, tokens, enrolled, accepted, ahead>>

\* An error is taken for a missing row.
GetDevice(t) ==
    /\ pc[t] = "get_device"
    /\ \/ /\ devices[loc[t].cred].owner # None
          /\ Goto(t, "create_session")
       \/ /\ devices[loc[t].cred].owner = None \/ StorageMayFail
          /\ Goto(t, "add_device")
    /\ UNCHANGED <<counter, creds, devices, tokens, histories>>

\* Mutant: an existing row is overwritten.
add_device_upserts(u, c) ==
    [devices EXCEPT ![c] = [owner |-> u, revoked |-> FALSE]]

\* An existing row stays: the call is refused in memory, void on Postgres.
add_device(u, c) ==
    IF devices[c].owner # None THEN devices
    ELSE [devices EXCEPT ![c] = [owner |-> u, revoked |-> FALSE]]

\* Whether the row was stored is not looked at.
AddDevice(t) ==
    /\ pc[t] = "add_device"
    /\ \/ devices' = add_device(loc[t].user, loc[t].cred)
       \/ StorageMayFail /\ UNCHANGED devices
    /\ Goto(t, "create_session")
    /\ UNCHANGED <<counter, creds, tokens, histories>>

\* Mutant: the owner of the device is not compared.
MayHaveSessionAnyOwner(u, c) == devices[c].owner # None /\ ~devices[c].revoked

MayHaveSession(u, c) == devices[c].owner = u /\ ~devices[c].revoked

CreateSession(t) ==
    LET u == loc[t].user
        c == loc[t].cred
    IN  /\ pc[t] = "create_session"
        /\ \/ /\ MayHaveSession(u, c)
              /\ tokens' = tokens \cup {<<u, c>>}
           \/ /\ ~MayHaveSession(u, c) \/ StorageMayFail
              /\ UNCHANGED tokens
        /\ Return(t)
        /\ UNCHANGED <<counter, creds, devices, histories>>

----------------------------------------------------------------------------
(* The rest of the system, and Next. *)

\* Auth::revoke_device on the credential's row.
RevokeDevice(c) ==
    /\ devices[c].owner # None
    /\ devices' = [devices EXCEPT ![c].revoked = TRUE]
    /\ UNCHANGED <<counter, creds, pc, loc, tokens, histories>>

\* The requests under way are cut off; the tables are in the database.
Restart ==
    /\ pc' = [t \in Threads |-> "idle"]
    /\ loc' = [t \in Threads |-> NoLocal]
    /\ Lapse({c \in Creds : InFlight(c) # {}})
    /\ UNCHANGED <<counter, creds, devices, tokens, enrolled, accepted, ahead>>

\* The REST routes; a request for a session names its user.
RegisterRoutes == \E u \in Users, c \in Creds : complete_registration(u, c)

AuthenticateRoutes(t) ==
    \E u \in Users, a \in Assertions : complete_authentication(t, u, a)

RemoveRoute(t) == \E u \in Users, c \in Creds : delete_credential(t, u, c)

Next ==
    \/ \E c \in Creds : Sign(c) \/ RevokeDevice(c)
    \/ RegisterRoutes
    \/ \E t \in Threads :
          \/ AuthenticateRoutes(t) \/ RemoveRoute(t)
          \/ UpdateCount(t) \/ GetDevice(t) \/ AddDevice(t) \/ CreateSession(t)
          \/ Remove(t)
    \/ Restart

Spec == Init /\ [][Next]_vars

----------------------------------------------------------------------------

\* A login token names a user who registered the credential and whose device
\* row it is, although the credential is looked up, and may be removed and
\* registered again by another user, calls before the token is issued.
TokenNamesOwnCredential ==
    \A u \in Users, c \in Creds :
        <<u, c>> \in tokens => <<u, c>> \in enrolled /\ devices[c].owner = u

\* The row of a credential keeps its owner and stays revoked, though every login
\* of it may store the row again after a failed lookup; and a session is opened
\* only for that owner, while the row is not revoked.
Sessions ==
    INSTANCE DeviceSessions WITH
        Devices <- Creds, Exchanges <- {"webauthn"},
        sessions <- {<<token[1], token[2], "webauthn">> : token \in tokens}

ImplementsDeviceSessions == Sessions!Spec

\* Logins write counts in any order, also on the row of a credential that was
\* removed and stored again since they read it; still a row whose count is ahead
\* of the authenticator, which is refused from then on, has it from a
\* registration or an accepted assertion that was itself ahead, of that row or
\* of a login under way when it was stored.  A clone or a client that lies at
\* registration can lock the authenticator out, the server by itself cannot.
LockOutHasCause ==
    \A c \in Creds :
        creds[c].count > counter[c] => <<c, creds[c].count>> \in ahead

\* An assertion with a count passes once, and once more for each lapse since the
\* credential was stored: a login accepted before an earlier one wrote its
\* count, a write that failed, a restart before a write, or a 0 accepted
\* although the row has a count.  That a late login lowers the count another
\* wrote adds nothing to this.
ReplayNeedsLapse ==
    \A c \in Creds, n \in Counts \ {0} : accepted[<<c, n>>] <= 1 + lapses[c]

----------------------------------------------------------------------------
(* What the repository says and the code does not do. *)

\* webauthn.cpp, complete_authentication: "Verify sign count (replay
\* detection) ... We enforce this".
AcceptedOnce ==
    \A c \in Creds, n \in Counts \ {0} : accepted[<<c, n>>] <= 1
=============================================================================
