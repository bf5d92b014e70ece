--------------------------- MODULE WebAuthnProofs ---------------------------
(***************************************************************************)
(* Theorems about WebAuthn login, for any number of users, credentials and *)
(* threads, and whichever calls fail.                                      *)
(***************************************************************************)
EXTENDS WebAuthn, TLAPS

LoginLabels == {"update_count", "get_device", "add_device", "create_session"}

\* Whoever is on record, or on the way, as the user of a credential once
\* registered it.
Enrolled ==
    /\ \A c \in Creds : Stored(c) => <<creds[c].owner, c>> \in enrolled
    /\ \A t \in Threads :
          pc[t] \in LoginLabels => <<loc[t].user, loc[t].cred>> \in enrolled

\* A count ahead of the authenticator, in a row or with a login that is to store
\* it, is one the server was sent.
AheadKnown ==
    /\ LockOutHasCause
    /\ \A t \in Threads :
          /\ pc[t] = "update_count"
          /\ loc[t].count > counter[loc[t].cred]
          => <<loc[t].cred, loc[t].count>> \in ahead

IInv == TypeOK /\ Enrolled /\ AheadKnown /\ TokenNamesOwnCredential

LEMMA InitOK == ASSUME Init PROVE IInv
  <1>1. NoLocal \in Local
    BY WebAuthnAssumption DEF NoLocal, Local, Counts
  <1>2. TypeOK
    BY <1>1, WebAuthnAssumption
    DEF Init, TypeOK, Counts, Counted, CredentialRecord, DeviceRecord, Labels
  <1>3. Enrolled /\ AheadKnown /\ TokenNamesOwnCredential
    BY WebAuthnAssumption DEF Init, Enrolled, Stored, AheadKnown, LockOutHasCause,
       TokenNamesOwnCredential, LoginLabels
  <1> QED
    BY <1>2, <1>3 DEF IInv

\* Where threads can be when none of them goes on with a login.
Settled ==
    \A t \in Threads :
        pc'[t] \in {"idle", "remove"} \/ (pc'[t] = pc[t] /\ loc'[t] = loc[t])

LEMMA ReturnOK ==
    ASSUME TypeOK, NEW t \in Threads, Return(t)
    PROVE  /\ pc' \in [Threads -> Labels] /\ loc' \in [Threads -> Local]
           /\ \A s \in Threads :
                 pc'[s] # "idle" => loc'[s].user \in Users /\ loc'[s].cred \in Creds
           /\ Settled
  <1>1. NoLocal \in Local
    BY WebAuthnAssumption DEF NoLocal, Local, Counts
  <1> QED
    BY <1>1 DEF TypeOK, Return, Labels, Settled

\* A thread goes on with its login.
LEMMA GotoOK ==
    ASSUME TypeOK, NEW t \in Threads, pc[t] \in LoginLabels,
           NEW label \in {"get_device", "add_device", "create_session"},
           Goto(t, label)
    PROVE  /\ pc' \in [Threads -> Labels] /\ loc' = loc
           /\ \A s \in Threads :
                 pc'[s] # "idle" => loc'[s].user \in Users /\ loc'[s].cred \in Creds
           /\ \A s \in Threads :
                 /\ pc'[s] \in LoginLabels => pc[s] \in LoginLabels
                 /\ pc'[s] = "update_count" => pc[s] = "update_count"
  BY DEF TypeOK, Goto, Labels, LoginLabels

\* A lapse is counted for the credentials of a set, up to the bound.
LEMMA LapseOK ==
    ASSUME TypeOK, NEW S, Lapse(S)
    PROVE  /\ lapses' \in [Creds -> 0..MaxLapses]
           /\ \A c \in Creds :
                 /\ c \notin S => lapses'[c] = lapses[c]
                 /\ c \in S => \/ lapses[c] < MaxLapses /\ lapses'[c] = lapses[c] + 1
                               \/ lapses[c] = MaxLapses /\ lapses'[c] = MaxLapses
  <1>1. \A c \in Creds : lapses[c] \in 0..MaxLapses
    BY DEF TypeOK
  <1> QED
    BY <1>1, WebAuthnAssumption DEF Lapse

LEMMA SignStep ==
    ASSUME IInv, NEW c \in Creds, Sign(c)
    PROVE  IInv'
  <1>0. /\ UNCHANGED <<creds, devices, pc, loc, tokens, enrolled, accepted, lapses,
                       ahead>>
        /\ counter' = [counter EXCEPT ![c] = @ + 1] /\ counter[c] < MaxCount
    BY DEF Sign, histories
  <1>1. /\ counter \in [Creds -> 0..MaxCount] /\ MaxCount \in Nat
        /\ \A d \in Creds : creds[d].count \in 0..MaxCount
        /\ \A t \in Threads :
              /\ loc[t].count \in 0..MaxCount
              /\ pc[t] = "update_count" => loc[t].cred \in Creds
    BY WebAuthnAssumption DEF IInv, TypeOK, CredentialRecord, Local, Counts
  <1>2. /\ counter' \in [Creds -> 0..MaxCount]
        /\ \A d \in Creds : counter[d] <= counter'[d]
    BY <1>0, <1>1
  <1>3. TypeOK'
    BY <1>0, <1>2 DEF IInv, TypeOK, Counts
  <1>4. AheadKnown'
    BY <1>0, <1>1, <1>2 DEF IInv, AheadKnown, LockOutHasCause
  <1>5. Enrolled' /\ TokenNamesOwnCredential'
    BY <1>0 DEF IInv, Enrolled, Stored, TokenNamesOwnCredential
  <1> QED
    BY <1>3, <1>4, <1>5 DEF IInv

LEMMA RegisterStep ==
    ASSUME IInv, NEW u \in Users, NEW c \in Creds, complete_registration(u, c)
    PROVE  IInv'
  <1>1. PICK n \in Counts :
           /\ creds' = add_webauthn_credential(u, c, n)
           /\ IF Stored(c)
                THEN UNCHANGED <<enrolled, accepted, lapses, ahead>>
                ELSE /\ enrolled' = enrolled \cup {<<u, c>>}
                     /\ accepted' = [a \in Counted |->
                                        IF a[1] = c THEN 0 ELSE accepted[a]]
                     /\ lapses' = [lapses EXCEPT ![c] = 0]
                     /\ ahead' = CarriedOver(c) \cup IfAhead(c, n)
    BY DEF complete_registration, histories
  <1>2. u # None /\ creds \in [Creds -> CredentialRecord]
    BY WebAuthnAssumption DEF IInv, TypeOK
  <1>3. UNCHANGED <<counter, devices, pc, loc, tokens>>
    BY DEF complete_registration
  <1>4. CASE Stored(c)
    <2>1. UNCHANGED <<creds, enrolled, accepted, lapses, ahead>>
      BY <1>1, <1>4 DEF add_webauthn_credential
    <2> QED
      BY <1>3, <2>1 DEF IInv, TypeOK, Enrolled, Stored, AheadKnown, LockOutHasCause,
         TokenNamesOwnCredential
  <1>5. CASE ~Stored(c)
    <2>1. /\ creds' = [creds EXCEPT ![c] = [owner |-> u, count |-> n]]
          /\ enrolled' = enrolled \cup {<<u, c>>}
          /\ ahead' = CarriedOver(c) \cup IfAhead(c, n)
      BY <1>1, <1>5 DEF add_webauthn_credential
    <2>2. creds' \in [Creds -> CredentialRecord]
      BY <1>2, <2>1 DEF CredentialRecord
    <2>3. accepted' \in [Counted -> 0..MaxLapses + 1]
          /\ lapses' \in [Creds -> 0..MaxLapses]
      BY <1>1, <1>5, WebAuthnAssumption DEF IInv, TypeOK
    <2>4. ahead' \subseteq Assertions
      BY <2>1 DEF CarriedOver, IfAhead, Assertions, IInv, TypeOK
    <2>5. TypeOK'
      BY <1>3, <2>1, <2>2, <2>3, <2>4 DEF IInv, TypeOK
    <2>6. Enrolled'
      BY <1>2, <1>3, <2>1 DEF IInv, Enrolled, Stored
    <2>7. AheadKnown'
      <3>1. /\ creds'[c].count = n
            /\ \A d \in Creds \ {c} : creds'[d] = creds[d]
        BY <1>2, <2>1
      <3>2. \A d \in Creds, k \in Counts :
               <<d, k>> \in ahead /\ d # c => <<d, k>> \in ahead'
        BY <2>1 DEF CarriedOver
      <3>3. n > counter[c] => <<c, n>> \in ahead'
        BY <2>1 DEF IfAhead
      <3>4. \A d \in Creds : creds[d].count \in Counts
        BY <1>2 DEF CredentialRecord
      <3>5. LockOutHasCause'
        BY <1>3, <3>1, <3>2, <3>3, <3>4 DEF IInv, AheadKnown, LockOutHasCause
      <3>6. ASSUME NEW t \in Threads, pc[t] = "update_count",
                   <<loc[t].cred, loc[t].count>> \in ahead
            PROVE  <<loc[t].cred, loc[t].count>> \in ahead'
        <4>1. loc[t].cred = c => t \in InFlight(c)
          BY <3>6 DEF InFlight
        <4> QED
          BY <2>1, <3>6, <4>1 DEF CarriedOver
      <3> QED
        BY <1>3, <3>5, <3>6 DEF IInv, AheadKnown
    <2>8. TokenNamesOwnCredential'
      BY <1>3, <2>1 DEF IInv, TokenNamesOwnCredential
    <2> QED
      BY <2>5, <2>6, <2>7, <2>8 DEF IInv
  <1> QED
    BY <1>4, <1>5

LEMMA DeleteStep ==
    ASSUME IInv, NEW t \in Threads, NEW u \in Users, NEW c \in Creds,
           delete_credential(t, u, c)
    PROVE  IInv'
  <1>1. [user |-> u, cred |-> c, count |-> 0] \in Local
    BY WebAuthnAssumption DEF Local, Counts
  <1>2. /\ pc' = [pc EXCEPT ![t] = "remove"]
        /\ loc' = [loc EXCEPT ![t] = [user |-> u, cred |-> c, count |-> 0]]
        /\ UNCHANGED <<counter, creds, devices, tokens,
                       enrolled, accepted,
                       lapses, ahead>>
    BY DEF delete_credential, histories
  <1>3. TypeOK'
    BY <1>1, <1>2 DEF IInv, TypeOK, Labels
  <1>4. Settled
    BY <1>2 DEF IInv, TypeOK, Settled
  <1>5. Enrolled' /\ AheadKnown' /\ TokenNamesOwnCredential'
    BY <1>2, <1>4 DEF IInv, Enrolled, Stored, AheadKnown, LockOutHasCause,
       TokenNamesOwnCredential, Settled, LoginLabels
  <1> QED
    BY <1>3, <1>5 DEF IInv

LEMMA RemoveStep ==
    ASSUME IInv, NEW t \in Threads, Remove(t)
    PROVE  IInv'
  <1>1. /\ Settled
        /\ pc' \in [Threads -> Labels] /\ loc' \in [Threads -> Local]
        /\ \A s \in Threads :
              pc'[s] # "idle" => loc'[s].user \in Users /\ loc'[s].cred \in Creds
    BY ReturnOK DEF Remove, IInv
  <1>2. /\ UNCHANGED <<counter, devices, tokens, enrolled, accepted,
                       lapses, ahead>>
        /\ \/ creds' = [creds EXCEPT ![loc[t].cred] = [owner |-> None, count |-> 0]]
           \/ creds' = creds
    BY DEF Remove, histories
  <1>3. creds \in [Creds -> CredentialRecord] /\ counter \in [Creds -> Counts]
    BY DEF IInv, TypeOK
  <1>4. \A c \in Creds :
           /\ creds'[c] \in CredentialRecord
           /\ creds'[c] = creds[c] \/ creds'[c] = [owner |-> None, count |-> 0]
    BY <1>2, <1>3, WebAuthnAssumption DEF CredentialRecord, Counts
  <1>5. creds' \in [Creds -> CredentialRecord]
    BY <1>2, <1>3, <1>4, WebAuthnAssumption DEF CredentialRecord, Counts
  <1>6. TypeOK'
    BY <1>1, <1>2, <1>5 DEF IInv, TypeOK
  <1>7. Enrolled' /\ TokenNamesOwnCredential'
    BY <1>1, <1>2, <1>4 DEF IInv, Enrolled, Stored, TokenNamesOwnCredential,
       Settled, LoginLabels
  <1>8. AheadKnown'
    BY <1>1, <1>2, <1>3, <1>4, WebAuthnAssumption
    DEF IInv, AheadKnown, LockOutHasCause, Settled, Counts
  <1> QED
    BY <1>6, <1>7, <1>8 DEF IInv

LEMMA AuthenticateStep ==
    ASSUME IInv, NEW t \in Threads, NEW u \in Users, NEW a \in Assertions,
           complete_authentication(t, u, a)
    PROVE  IInv'
  <1>1. PICK c \in Creds, n \in Counts : a = <<c, n>>
    BY DEF Assertions
  <1>2. a[1] = c /\ a[2] = n
    BY <1>1
  <1>3. /\ creds[c].owner = u
        /\ pc' = [pc EXCEPT ![t] = "update_count"]
        /\ loc' = [loc EXCEPT ![t] = [user |-> u, cred |-> c, count |-> n]]
        /\ UNCHANGED <<counter, creds, devices, tokens, enrolled>>
        /\ accepted' = [b \in Counted |-> IF b = a /\ accepted[b] <= MaxLapses
                                             THEN accepted[b] + 1 ELSE accepted[b]]
        /\ \E S : Lapse(S)
        /\ ahead' = ahead \cup IfAhead(c, n)
    BY <1>2 DEF complete_authentication
  <1>4. [user |-> u, cred |-> c, count |-> n] \in Local
    BY DEF Local
  <1>5. accepted' \in [Counted -> 0..MaxLapses + 1]
    <2>1. \A b \in Counted : accepted[b] \in 0..MaxLapses + 1
      BY DEF IInv, TypeOK
    <2> QED
      BY <1>3, <2>1, WebAuthnAssumption
  <1>6. lapses' \in [Creds -> 0..MaxLapses] /\ ahead' \subseteq Assertions
    BY <1>1, <1>3, LapseOK DEF IInv, TypeOK, IfAhead, Assertions
  <1>7. TypeOK'
    BY <1>3, <1>4, <1>5, <1>6 DEF IInv, TypeOK, Labels
  <1>8. \A s \in Threads :
           \/ s = t /\ loc'[s].user = u /\ loc'[s].cred = c /\ loc'[s].count = n
           \/ pc'[s] = pc[s] /\ loc'[s] = loc[s]
    BY <1>3 DEF IInv, TypeOK
  <1>9. <<u, c>> \in enrolled
    BY <1>2, <1>3, WebAuthnAssumption DEF IInv, Enrolled, Stored
  <1>10. ahead \subseteq ahead' /\ (n > counter[c] => <<c, n>> \in ahead')
    BY <1>3 DEF IfAhead
  <1>11. Enrolled' /\ TokenNamesOwnCredential'
    BY <1>3, <1>8, <1>9 DEF IInv, Enrolled, Stored, TokenNamesOwnCredential
  <1>12. AheadKnown'
    BY <1>3, <1>8, <1>10 DEF IInv, AheadKnown, LockOutHasCause
  <1> QED
    BY <1>7, <1>11, <1>12 DEF IInv

LEMMA UpdateCountStep ==
    ASSUME IInv, NEW t \in Threads, UpdateCount(t)
    PROVE  IInv'
  <1> DEFINE c == loc[t].cred
             n == loc[t].count
  <1>1. /\ pc[t] = "update_count" /\ c \in Creds /\ n \in Counts
        /\ n > counter[c] => <<c, n>> \in ahead
    BY DEF UpdateCount, IInv, TypeOK, Local, AheadKnown
  <1>2. /\ UNCHANGED <<counter, devices, tokens, enrolled, accepted, ahead>>
        /\ Goto(t, "get_device")
        /\ lapses' \in [Creds -> 0..MaxLapses]
        /\ creds' \in {creds, [creds EXCEPT ![c].count = n]}
    BY <1>1, LapseOK DEF UpdateCount, update_webauthn_sign_count, IInv, TypeOK
  <1>3. /\ pc' \in [Threads -> Labels] /\ loc' = loc
        /\ \A s \in Threads :
              pc'[s] # "idle" => loc'[s].user \in Users /\ loc'[s].cred \in Creds
        /\ \A s \in Threads :
              /\ pc'[s] \in LoginLabels => pc[s] \in LoginLabels
              /\ pc'[s] = "update_count" => pc[s] = "update_count"
    BY <1>1, <1>2, GotoOK DEF IInv, LoginLabels
  <1>4. creds \in [Creds -> CredentialRecord]
    BY DEF IInv, TypeOK
  <1>5. /\ creds' \in [Creds -> CredentialRecord]
        /\ \A d \in Creds :
              /\ creds'[d].owner = creds[d].owner
              /\ \/ creds'[d].count = creds[d].count
                 \/ d = c /\ creds'[d].count = n
    <2>1. CASE creds' = creds
      BY <2>1, <1>4
    <2>2. CASE creds' = [creds EXCEPT ![c].count = n]
      <3>1. creds[c] \in CredentialRecord
        BY <1>1, <1>4
      <3>2. PICK r \in CredentialRecord : r = [creds[c] EXCEPT !.count = n]
        BY <1>1, <3>1 DEF CredentialRecord
      <3>3. r.owner = creds[c].owner /\ r.count = n
        BY <3>1, <3>2 DEF CredentialRecord
      <3>4. creds' = [creds EXCEPT ![c] = r]
        BY <2>2, <3>2
      <3> QED
        BY <1>1, <1>4, <3>3, <3>4
    <2> QED
      BY <1>2, <2>1, <2>2
  <1>6. TypeOK'
    BY <1>2, <1>3, <1>5 DEF IInv, TypeOK
  <1>7. Enrolled' /\ TokenNamesOwnCredential'
    BY <1>2, <1>3, <1>5 DEF IInv, Enrolled, Stored, TokenNamesOwnCredential
  <1>8. AheadKnown'
    BY <1>1, <1>2, <1>3, <1>5 DEF IInv, AheadKnown, LockOutHasCause
  <1> QED
    BY <1>6, <1>7, <1>8 DEF IInv

LEMMA GetDeviceStep ==
    ASSUME IInv, NEW t \in Threads, GetDevice(t)
    PROVE  IInv'
  <1>1. /\ UNCHANGED <<counter, creds, devices, tokens, enrolled, accepted,
                       lapses, ahead>>
        /\ pc[t] = "get_device"
        /\ \E label \in {"add_device", "create_session"} : Goto(t, label)
    BY DEF GetDevice, histories
  <1>2. /\ pc' \in [Threads -> Labels] /\ loc' = loc
        /\ \A s \in Threads :
              pc'[s] # "idle" => loc'[s].user \in Users /\ loc'[s].cred \in Creds
        /\ \A s \in Threads :
              /\ pc'[s] \in LoginLabels => pc[s] \in LoginLabels
              /\ pc'[s] = "update_count" => pc[s] = "update_count"
    BY <1>1, GotoOK DEF IInv, LoginLabels
  <1> QED
    BY <1>1, <1>2 DEF IInv, TypeOK, Enrolled, Stored, AheadKnown, LockOutHasCause,
       TokenNamesOwnCredential

\* What no step takes back of the device table.
OwnersStay ==
    \A c \in Creds :
        devices[c].owner # None => devices'[c].owner = devices[c].owner

LEMMA AddDeviceStep ==
    ASSUME IInv, NEW t \in Threads, AddDevice(t)
    PROVE  IInv'
  <1>1. /\ UNCHANGED <<counter, creds, tokens, enrolled, accepted,
                       lapses, ahead>>
        /\ pc[t] = "add_device" /\ Goto(t, "create_session")
        /\ devices' \in {devices, add_device(loc[t].user, loc[t].cred)}
    BY DEF AddDevice, histories
  <1>2. /\ pc' \in [Threads -> Labels] /\ loc' = loc
        /\ \A s \in Threads :
              pc'[s] # "idle" => loc'[s].user \in Users /\ loc'[s].cred \in Creds
        /\ \A s \in Threads :
              /\ pc'[s] \in LoginLabels => pc[s] \in LoginLabels
              /\ pc'[s] = "update_count" => pc[s] = "update_count"
    BY <1>1, GotoOK DEF IInv, LoginLabels
  <1>3. loc[t].user \in Users /\ loc[t].cred \in Creds
    BY <1>1 DEF IInv, TypeOK
  <1>4. devices' \in [Creds -> DeviceRecord] /\ OwnersStay
    <2> DEFINE row == [owner |-> loc[t].user, revoked |-> FALSE]
    <2>1. devices \in [Creds -> DeviceRecord] /\ row \in DeviceRecord
      BY <1>3 DEF IInv, TypeOK, DeviceRecord
    <2>2. CASE devices' = devices
      BY <2>1, <2>2 DEF OwnersStay
    <2>3. CASE /\ devices[loc[t].cred].owner = None
               /\ devices' = [devices EXCEPT ![loc[t].cred] = row]
      <3> HIDE DEF row
      <3> QED
        BY <1>3, <2>1, <2>3 DEF OwnersStay
    <2> QED
      BY <1>1, <2>2, <2>3 DEF add_device
  <1>5. TypeOK'
    BY <1>1, <1>2, <1>4 DEF IInv, TypeOK
  <1>6. Enrolled' /\ AheadKnown'
    BY <1>1, <1>2 DEF IInv, Enrolled, Stored, AheadKnown, LockOutHasCause
  <1>7. TokenNamesOwnCredential'
    BY <1>1, <1>4, WebAuthnAssumption
    DEF IInv, TokenNamesOwnCredential, OwnersStay
  <1> QED
    BY <1>5, <1>6, <1>7 DEF IInv

LEMMA CreateSessionStep ==
    ASSUME IInv, NEW t \in Threads, CreateSession(t)
    PROVE  IInv'
  <1> DEFINE u == loc[t].user
             c == loc[t].cred
  <1>1. /\ UNCHANGED <<counter, creds, devices, enrolled, accepted,
                       lapses, ahead>>
        /\ pc[t] = "create_session" /\ Return(t)
        /\ \/ tokens' = tokens
           \/ tokens' = tokens \cup {<<u, c>>} /\ devices[c].owner = u
    BY DEF CreateSession, MayHaveSession, histories
  <1>2. /\ Settled
        /\ pc' \in [Threads -> Labels] /\ loc' \in [Threads -> Local]
        /\ \A s \in Threads :
              pc'[s] # "idle" => loc'[s].user \in Users /\ loc'[s].cred \in Creds
    BY <1>1, ReturnOK DEF IInv
  <1>3. u \in Users /\ c \in Creds /\ <<u, c>> \in enrolled
    BY <1>1 DEF IInv, TypeOK, Enrolled, LoginLabels
  <1>4. TypeOK'
    BY <1>1, <1>2, <1>3 DEF IInv, TypeOK
  <1>5. Enrolled' /\ AheadKnown'
    BY <1>1, <1>2 DEF IInv, Enrolled, Stored, AheadKnown, LockOutHasCause,
       Settled, LoginLabels
  <1>6. TokenNamesOwnCredential'
    BY <1>1, <1>3 DEF IInv, TokenNamesOwnCredential
  <1> QED
    BY <1>4, <1>5, <1>6 DEF IInv

LEMMA RevokeStep ==
    ASSUME IInv, NEW c \in Creds, RevokeDevice(c)
    PROVE  IInv'
  <1>1. /\ UNCHANGED <<counter, creds, pc, loc, tokens, enrolled, accepted,
                       lapses, ahead>>
        /\ devices' = [devices EXCEPT ![c].revoked = TRUE]
    BY DEF RevokeDevice, histories
  <1>2. /\ devices' \in [Creds -> DeviceRecord]
        /\ \A d \in Creds : devices'[d].owner = devices[d].owner
    BY <1>1 DEF IInv, TypeOK, DeviceRecord
  <1> QED
    BY <1>1, <1>2 DEF IInv, TypeOK, Enrolled, Stored, AheadKnown, LockOutHasCause,
       TokenNamesOwnCredential

LEMMA RestartStep == ASSUME IInv, Restart PROVE IInv'
  <1>1. NoLocal \in Local
    BY WebAuthnAssumption DEF NoLocal, Local, Counts
  <1> QED
    BY <1>1, LapseOK DEF IInv, Restart, TypeOK, Labels, Enrolled, Stored,
       AheadKnown, LockOutHasCause, TokenNamesOwnCredential, LoginLabels

LEMMA NextOK == ASSUME IInv, [Next]_vars PROVE IInv'
  <1>1. CASE UNCHANGED vars
    BY <1>1 DEF vars, IInv, TypeOK, Enrolled, Stored, AheadKnown, LockOutHasCause,
       TokenNamesOwnCredential
  <1>2. ASSUME Next PROVE IInv'
    BY <1>2, SignStep, RegisterStep, DeleteStep, RemoveStep, AuthenticateStep,
       UpdateCountStep, GetDeviceStep, AddDeviceStep, CreateSessionStep,
       RevokeStep, RestartStep
    DEF Next, RegisterRoutes, AuthenticateRoutes, RemoveRoute
  <1> QED
    BY <1>1, <1>2

LEMMA Inductive == Spec => []IInv
  BY InitOK, NextOK, PTL DEF Spec

\* Every variable keeps its type, and a thread in the middle of a handler knows
\* its user and credential.
THEOREM TypeCorrect == Spec => []TypeOK
  <1>1. IInv => TypeOK
    BY DEF IInv
  <1> QED
    BY <1>1, Inductive, PTL

\* A login token names a user who registered the credential and owns its device
\* row, whatever other requests register, remove and log in meanwhile.
THEOREM TokensAreOwn == Spec => []TokenNamesOwnCredential
  <1>1. IInv => TokenNamesOwnCredential
    BY DEF IInv
  <1> QED
    BY <1>1, Inductive, PTL

\* Whatever copies of the keys sign and registrations claim, and however logins
\* and registrations interleave, a row is ahead of the authenticator only with a
\* count that was ahead when the server took it.
THEOREM LockOutsHaveCauses == Spec => []LockOutHasCause
  <1>1. IInv => LockOutHasCause
    BY DEF IInv, AheadKnown
  <1> QED
    BY <1>1, Inductive, PTL

----------------------------------------------------------------------------
(* The refinement of DeviceSessions.                                       *)

\* One row is written, and no session opened.
LEMMA AddDeviceRefines ==
    ASSUME TypeOK, NEW t \in Threads, AddDevice(t)
    PROVE  [Sessions!Next]_<<devices, tokens>>
  <1> DEFINE u == loc[t].user
             c == loc[t].cred
  <1>1. u \in Users /\ c \in Creds
    BY DEF AddDevice, TypeOK
  <1>2. CASE devices[c].owner = None /\ devices' # devices
    <2>1. devices' = [devices EXCEPT ![c] = [owner |-> u, revoked |-> FALSE]]
      BY <1>2 DEF AddDevice, add_device
    <2>2. Sessions!Enrol(c, u)
      BY <1>2, <2>1 DEF Sessions!Enrol, AddDevice
    <2> QED
      BY <1>1, <2>2 DEF Sessions!Next
  <1>3. CASE ~(devices[c].owner = None /\ devices' # devices)
    BY <1>3 DEF AddDevice, add_device
  <1> QED
    BY <1>2, <1>3

LEMMA CreateSessionRefines ==
    ASSUME TypeOK, NEW t \in Threads, CreateSession(t)
    PROVE  [Sessions!Next]_<<devices, tokens>>
  <1> DEFINE u == loc[t].user
             c == loc[t].cred
             S(T) == {<<token[1], token[2], "webauthn">> : token \in T}
  <1>1. u \in Users /\ c \in Creds
    BY DEF CreateSession, TypeOK
  <1>2. CASE MayHaveSession(u, c) /\ tokens' = tokens \cup {<<u, c>>}
    <2>1. devices[c] = [owner |-> u, revoked |-> FALSE]
      <3>1. devices[c] \in DeviceRecord
        BY <1>1 DEF TypeOK
      <3> QED
        BY <1>2, <3>1 DEF MayHaveSession, DeviceRecord
    <2>2. S(tokens') = S(tokens) \cup {<<u, c, "webauthn">>}
      <3>1. <<u, c>>[1] = u /\ <<u, c>>[2] = c
        OBVIOUS
      <3> QED
        BY <1>2, <3>1, Zenon
    <2>3. Sessions!Login(u, c, "webauthn")
      BY <2>1, <2>2 DEF Sessions!Login, CreateSession
    <2> QED
      BY <1>1, <2>3 DEF Sessions!Next
  <1>3. CASE UNCHANGED tokens
    BY <1>3 DEF CreateSession
  <1> QED
    BY <1>2, <1>3 DEF CreateSession

LEMMA StepRefines ==
    ASSUME IInv, [Next]_vars
    PROVE  [Sessions!Next]_<<devices, tokens>>
  <1>1. ASSUME NEW t \in Threads, AddDevice(t) \/ CreateSession(t)
        PROVE  [Sessions!Next]_<<devices, tokens>>
    BY <1>1, AddDeviceRefines, CreateSessionRefines DEF IInv
  <1>2. ASSUME NEW c \in Creds, RevokeDevice(c)
        PROVE  [Sessions!Next]_<<devices, tokens>>
    <2>1. Sessions!Revoke(c)
      BY <1>2 DEF RevokeDevice, Sessions!Revoke
    <2> QED
      BY <2>1 DEF Sessions!Next
  <1>3. CASE UNCHANGED <<devices, tokens>>
    BY <1>3
  <1> QED
    BY <1>1, <1>2, <1>3
    DEF Next, Sign, RegisterRoutes, complete_registration, AuthenticateRoutes,
        complete_authentication, RemoveRoute, delete_credential, UpdateCount,
        GetDevice, Remove, Restart, vars

\* Whatever storage calls fail and however logins, removals and registrations of
\* a credential interleave, its device row keeps its owner and stays revoked,
\* and a session is opened only for that owner while the row is not revoked.
THEOREM DeviceSessionsImplemented == Spec => ImplementsDeviceSessions
  <1>1. Init => Sessions!Init
    BY DEF Init, Sessions!Init
  <1>2. IInv /\ [Next]_vars => [Sessions!Next]_<<devices, tokens>>
    BY StepRefines
  <1>3. [Sessions!Next]_<<devices, tokens>> =>
           [Sessions!Next]_<<devices, {<<token[1], token[2], "webauthn">> : token \in tokens}>>
    OBVIOUS
  <1> QED
    BY <1>1, <1>2, <1>3, Inductive, PTL DEF Spec, ImplementsDeviceSessions, Sessions!Spec

----------------------------------------------------------------------------
(* Replays.                                                                *)

\* Whether an assertion of count n could be compared successfully once no login
\* of the credential, or only one of those under way, is still to write.
CanStillPass(c, n) ==
    \/ InFlight(c) = {} /\ Stored(c) /\ creds[c].count < n
    \/ \E t \in InFlight(c) : loc[t].count < n

\* Every repetition is paid for by a lapse, and one that can still come already
\* is.
PaidFor(c, n) ==
    \/ lapses[c] = MaxLapses
    \/ accepted[<<c, n>>] <= lapses[c]
    \/ accepted[<<c, n>>] = 1 + lapses[c] /\ ~CanStillPass(c, n)

RepeatsPaidFor == \A c \in Creds, n \in Counts \ {0} : PaidFor(c, n)

RInv == IInv /\ RepeatsPaidFor

LEMMA Numbers ==
    ASSUME TypeOK
    PROVE  /\ MaxLapses \in Nat
           /\ \A c \in Creds : lapses[c] \in 0..MaxLapses /\ creds[c].count \in Nat
           /\ \A c \in Creds, n \in Counts \ {0} :
                 accepted[<<c, n>>] \in 0..MaxLapses + 1 /\ n \in Nat \ {0}
           /\ \A t \in Threads : loc[t].count \in Nat
  <1>1. \A c \in Creds : creds[c] \in CredentialRecord /\ lapses[c] \in 0..MaxLapses
    BY DEF TypeOK
  <1>2. \A c \in Creds, n \in Counts \ {0} :
           accepted[<<c, n>>] \in 0..MaxLapses + 1 /\ n \in Nat \ {0}
    BY WebAuthnAssumption DEF TypeOK, Counted, Counts
  <1>3. \A t \in Threads : loc[t] \in Local
    BY DEF TypeOK
  <1> QED
    BY <1>1, <1>2, <1>3, WebAuthnAssumption DEF CredentialRecord, Local, Counts

\* A lapse pays for the repetition that may follow it.
LEMMA LapsePays ==
    ASSUME RInv, NEW S, Lapse(S), NEW c \in S \cap Creds, NEW n \in Counts \ {0},
           accepted'[<<c, n>>] = accepted[<<c, n>>]
    PROVE  PaidFor(c, n)'
  <1>1. PaidFor(c, n)
    BY DEF RInv, RepeatsPaidFor
  <1>2. \/ lapses[c] < MaxLapses /\ lapses'[c] = lapses[c] + 1
        \/ lapses'[c] = MaxLapses
    BY LapseOK DEF RInv, IInv
  <1>3. /\ lapses[c] \in 0..MaxLapses /\ MaxLapses \in Nat
        /\ accepted[<<c, n>>] \in 0..MaxLapses + 1
    BY Numbers DEF RInv, IInv
  <1> QED
    BY <1>1, <1>2, <1>3 DEF PaidFor

\* Where an assertion can pass only if it could before, nothing changes.
LEMMA NothingNewPasses ==
    ASSUME RInv, NEW c \in Creds, NEW n \in Counts \ {0},
           accepted'[<<c, n>>] = accepted[<<c, n>>], lapses'[c] = lapses[c],
           CanStillPass(c, n)' => CanStillPass(c, n)
    PROVE  PaidFor(c, n)'
  <1>1. PaidFor(c, n)
    BY DEF RInv, RepeatsPaidFor
  <1> QED
    BY <1>1 DEF PaidFor

\* No login accepts an assertion or writes its counter.
NoCountMoves ==
    /\ UNCHANGED <<creds, accepted, lapses>>
    /\ \A t \in Threads :
          /\ pc'[t] = "update_count" <=> pc[t] = "update_count"
          /\ pc[t] = "update_count" => loc'[t] = loc[t]

LEMMA CountsFrame ==
    ASSUME RInv, NoCountMoves
    PROVE  RepeatsPaidFor'
  <1>1. \A c \in Creds : /\ InFlight(c)' = InFlight(c)
                         /\ \A t \in InFlight(c) : loc'[t] = loc[t]
    BY DEF NoCountMoves, InFlight
  <1>2. \A c \in Creds, n \in Counts \ {0} : CanStillPass(c, n)' => CanStillPass(c, n)
    BY <1>1 DEF NoCountMoves, CanStillPass, Stored
  <1> QED
    BY <1>2, NothingNewPasses DEF NoCountMoves, RepeatsPaidFor

LEMMA CountsRegister ==
    ASSUME RInv, NEW u \in Users, NEW c \in Creds, complete_registration(u, c)
    PROVE  RepeatsPaidFor'
  <1>1. UNCHANGED <<pc, loc>>
    BY DEF complete_registration
  <1>2. CASE Stored(c)
    <2>1. UNCHANGED <<creds, accepted, lapses>>
      BY <1>2 DEF complete_registration, add_webauthn_credential, histories
    <2> QED
      BY <1>1, <2>1, CountsFrame DEF NoCountMoves
  <1>3. CASE ~Stored(c)
    <2>1. /\ accepted' = [a \in Counted |-> IF a[1] = c THEN 0 ELSE accepted[a]]
          /\ lapses' = [lapses EXCEPT ![c] = 0]
          /\ \A d \in Creds \ {c} : creds'[d] = creds[d]
      BY <1>3 DEF complete_registration, add_webauthn_credential, RInv, IInv, TypeOK
    <2>2. ASSUME NEW d \in Creds, NEW n \in Counts \ {0}
          PROVE  PaidFor(d, n)'
      <3>0. <<d, n>> \in Counted
        BY DEF Counted
      <3>1. CASE d = c
        <4>1. accepted'[<<d, n>>] = 0 /\ lapses'[d] = 0
          BY <2>1, <3>0, <3>1 DEF RInv, IInv, TypeOK
        <4> QED
          BY <4>1 DEF PaidFor
      <3>2. CASE d # c
        <4>1. accepted'[<<d, n>>] = accepted[<<d, n>>] /\ lapses'[d] = lapses[d]
          BY <2>1, <3>0, <3>2 DEF RInv, IInv, TypeOK
        <4>2. CanStillPass(d, n)' => CanStillPass(d, n)
          BY <1>1, <2>1, <3>2 DEF CanStillPass, InFlight, Stored
        <4> QED
          BY <4>1, <4>2, NothingNewPasses
      <3> QED
        BY <3>1, <3>2
    <2> QED
      BY <2>2 DEF RepeatsPaidFor
  <1> QED
    BY <1>2, <1>3

LEMMA CountsRemove ==
    ASSUME RInv, NEW t \in Threads, Remove(t)
    PROVE  RepeatsPaidFor'
  <1>1. /\ pc[t] = "remove" /\ Return(t) /\ UNCHANGED <<accepted, lapses>>
        /\ \/ creds' = [creds EXCEPT ![loc[t].cred] = [owner |-> None, count |-> 0]]
           \/ creds' = creds
    BY DEF Remove, histories
  <1>2. \A s \in Threads :
           /\ pc'[s] = "update_count" <=> pc[s] = "update_count"
           /\ pc[s] = "update_count" => loc'[s] = loc[s]
    BY <1>1 DEF Return, RInv, IInv, TypeOK
  <1>3. /\ \A c \in Creds : InFlight(c)' = InFlight(c)
        /\ \A c \in Creds : \A s \in InFlight(c) : loc'[s] = loc[s]
    BY <1>2 DEF InFlight
  <1>4. \A c \in Creds : creds'[c] = creds[c] \/ creds'[c].owner = None
    BY <1>1 DEF RInv, IInv, TypeOK
  <1>5. \A c \in Creds, n \in Counts \ {0} : CanStillPass(c, n)' => CanStillPass(c, n)
    BY <1>3, <1>4 DEF CanStillPass, Stored
  <1> QED
    BY <1>1, <1>5, NothingNewPasses DEF RepeatsPaidFor

LEMMA CountsAuthenticate ==
    ASSUME RInv, NEW t \in Threads, NEW u \in Users, NEW a \in Assertions,
           complete_authentication(t, u, a)
    PROVE  RepeatsPaidFor'
  <1>1. PICK c \in Creds, m \in Counts : a = <<c, m>> /\ a[1] = c /\ a[2] = m
    BY DEF Assertions
  <1> DEFINE lapse == InFlight(c) # {} \/ (m = 0 /\ creds[c].count > 0)
             S == IF lapse THEN {c} ELSE {}
  <1>2. /\ pc[t] = "idle" /\ Stored(c)
        /\ CountIncreased(creds[c].count, m)
        /\ accepted' = [b \in Counted |-> IF b = a /\ accepted[b] <= MaxLapses
                                            THEN accepted[b] + 1 ELSE accepted[b]]
        /\ Lapse(S)
        /\ pc' = [pc EXCEPT ![t] = "update_count"]
        /\ loc' = [loc EXCEPT ![t] = [user |-> u, cred |-> c, count |-> m]]
        /\ creds' = creds
    BY <1>1, WebAuthnAssumption DEF complete_authentication, Stored
  <1>3. /\ pc'[t] = "update_count" /\ loc'[t].cred = c /\ loc'[t].count = m
        /\ \A s \in Threads \ {t} : pc'[s] = pc[s] /\ loc'[s] = loc[s]
    BY <1>2 DEF RInv, IInv, TypeOK
  <1>4. /\ InFlight(c)' = InFlight(c) \cup {t}
        /\ \A d \in Creds \ {c} : InFlight(d)' = InFlight(d)
        /\ \A d \in Creds : t \notin InFlight(d)
    BY <1>2, <1>3 DEF InFlight
  <1>5. /\ m # 0 => accepted'[<<c, m>>] = IF accepted[<<c, m>>] <= MaxLapses
                                             THEN accepted[<<c, m>>] + 1
                                             ELSE accepted[<<c, m>>]
        /\ \A d \in Creds, n \in Counts \ {0} :
              <<d, n>> # <<c, m>> => accepted'[<<d, n>>] = accepted[<<d, n>>]
    <2>1. \A d \in Creds, n \in Counts \ {0} : <<d, n>> \in Counted
      BY DEF Counted
    <2> QED
      BY <1>1, <1>2, <2>1
  <1>6. m \in Nat
    BY WebAuthnAssumption DEF Counts
  <1>7. ASSUME NEW d \in Creds \ {c}, NEW n \in Counts \ {0}
        PROVE  PaidFor(d, n)'
    <2>1. accepted'[<<d, n>>] = accepted[<<d, n>>]
      BY <1>5
    <2>2. lapses'[d] = lapses[d]
      BY <1>2, LapseOK DEF RInv, IInv
    <2>3. CanStillPass(d, n)' => CanStillPass(d, n)
      BY <1>2, <1>3, <1>4 DEF CanStillPass, Stored
    <2> QED
      BY <2>1, <2>2, <2>3, NothingNewPasses
  <1>8. ASSUME NEW n \in Counts \ {0}
        PROVE  PaidFor(c, n)'
    <2>0. /\ lapses[c] \in 0..MaxLapses /\ MaxLapses \in Nat /\ n \in Nat \ {0}
          /\ accepted[<<c, n>>] \in 0..MaxLapses + 1 /\ creds[c].count \in Nat
      BY Numbers DEF RInv, IInv
    <2>1. PaidFor(c, n)
      BY DEF RInv, RepeatsPaidFor
    <2>2. CASE n # m /\ lapse
      BY <1>2, <1>5, <2>2, LapsePays
    <2>3. CASE n # m /\ ~lapse
      <3>1. accepted'[<<c, n>>] = accepted[<<c, n>>]
        BY <1>5, <2>3
      <3>2. lapses'[c] = lapses[c]
        BY <1>2, <2>3, LapseOK DEF RInv, IInv
      <3>3. InFlight(c) = {} /\ InFlight(c)' = {t}
        BY <1>4, <2>3
      <3>4. CanStillPass(c, n)' => m < n
        BY <1>3, <3>3 DEF CanStillPass
      <3>5. m < n => creds[c].count < n
        BY <1>2, <1>6, <2>0, <2>3 DEF CountIncreased
      <3>6. CanStillPass(c, n)' => CanStillPass(c, n)
        BY <1>2, <3>3, <3>4, <3>5 DEF CanStillPass
      <3> QED
        BY <3>1, <3>2, <3>6, NothingNewPasses
    <2>4. CASE n = m /\ lapse
      <3>1. \/ lapses[c] < MaxLapses /\ lapses'[c] = lapses[c] + 1
            \/ lapses'[c] = MaxLapses
        BY <1>2, <2>4, LapseOK DEF RInv, IInv
      <3>2. CanStillPass(c, n)' => CanStillPass(c, n)
        <4>1. InFlight(c)' # {} /\ ~(m < n)
          BY <1>4, <1>6, <2>4
        <4>2. ASSUME NEW s \in InFlight(c)', loc'[s].count < n
              PROVE  s \in InFlight(c) /\ loc[s].count < n
          <5>1. s # t
            BY <1>3, <4>1, <4>2
          <5> QED
            BY <1>3, <1>4, <4>2, <5>1 DEF InFlight
        <4> QED
          BY <4>1, <4>2 DEF CanStillPass
      <3>3. accepted'[<<c, n>>] = IF accepted[<<c, n>>] <= MaxLapses
                                    THEN accepted[<<c, n>>] + 1
                                    ELSE accepted[<<c, n>>]
        BY <1>5, <2>0, <2>4
      <3> QED
        BY <2>0, <2>1, <3>1, <3>2, <3>3 DEF PaidFor
    <2>5. CASE n = m /\ ~lapse
      <3>1. lapses'[c] = lapses[c]
        BY <1>2, <2>5, LapseOK DEF RInv, IInv
      <3>2. InFlight(c) = {} /\ InFlight(c)' = {t}
        BY <1>4, <2>5
      <3>3. CanStillPass(c, n)
        <4>1. creds[c].count < n
          BY <1>2, <2>0, <2>5 DEF CountIncreased
        <4> QED
          BY <1>2, <3>2, <4>1 DEF CanStillPass
      <3>4. ~CanStillPass(c, n)'
        BY <1>3, <1>6, <2>5, <3>2 DEF CanStillPass
      <3>5. accepted'[<<c, n>>] = IF accepted[<<c, n>>] <= MaxLapses
                                    THEN accepted[<<c, n>>] + 1
                                    ELSE accepted[<<c, n>>]
        BY <1>5, <2>0, <2>5
      <3> QED
        BY <2>0, <2>1, <3>1, <3>3, <3>4, <3>5 DEF PaidFor
    <2> QED
      BY <2>2, <2>3, <2>4, <2>5
  <1> QED
    BY <1>7, <1>8 DEF RepeatsPaidFor

LEMMA CountsUpdate ==
    ASSUME RInv, NEW t \in Threads, UpdateCount(t)
    PROVE  RepeatsPaidFor'
  <1>1. PICK c \in Creds, m \in Counts : loc[t].cred = c /\ loc[t].count = m
    BY DEF UpdateCount, RInv, IInv, TypeOK, Local
  <1>2. /\ pc[t] = "update_count" /\ loc' = loc /\ accepted' = accepted
        /\ \A s \in Threads :
              pc'[s] = "update_count" <=> s # t /\ pc[s] = "update_count"
    BY DEF UpdateCount, Goto, RInv, IInv, TypeOK
  <1>3. /\ t \in InFlight(c)
        /\ \A d \in Creds : InFlight(d)' = InFlight(d) \ {t}
        /\ \A d \in Creds \ {c} : t \notin InFlight(d)
    BY <1>1, <1>2 DEF InFlight
  <1>4. /\ \A d \in Creds \ {c} : creds'[d] = creds[d]
        /\ \/ Lapse({c})
           \/ lapses' = lapses /\ (Stored(c)' => creds'[c].count = m)
    <2>0. creds \in [Creds -> CredentialRecord]
      BY DEF RInv, IInv, TypeOK
    <2>1. CASE creds' = update_webauthn_sign_count(c, m) /\ lapses' = lapses
      BY <1>1, <2>0, <2>1
      DEF update_webauthn_sign_count, Stored, CredentialRecord
    <2>2. CASE Lapse({c}) /\ UNCHANGED creds
      BY <2>2
    <2> QED
      BY <1>1, <2>1, <2>2 DEF UpdateCount
  <1>5. \A d \in Creds \ {c} : lapses'[d] = lapses[d]
    BY <1>4, LapseOK DEF RInv, IInv
  <1>6. ASSUME NEW d \in Creds \ {c}, NEW n \in Counts \ {0}
        PROVE  PaidFor(d, n)'
    <2>1. CanStillPass(d, n)' => CanStillPass(d, n)
      BY <1>2, <1>3, <1>4, <1>6 DEF CanStillPass, Stored
    <2> QED
      BY <1>2, <1>5, <2>1, NothingNewPasses
  <1>7. ASSUME NEW n \in Counts \ {0}
        PROVE  PaidFor(c, n)'
    <2>1. CASE Lapse({c})
      BY <1>2, <2>1, LapsePays
    <2>2. CASE lapses' = lapses /\ (Stored(c)' => creds'[c].count = m)
      <3>1. CanStillPass(c, n)' => CanStillPass(c, n)
        <4>1. Stored(c)' /\ creds'[c].count < n => loc[t].count < n
          BY <1>1, <2>2
        <4> QED
          BY <1>2, <1>3, <4>1 DEF CanStillPass
      <3> QED
        BY <1>2, <2>2, <3>1, NothingNewPasses
    <2> QED
      BY <1>4, <2>1, <2>2
  <1> QED
    BY <1>6, <1>7 DEF RepeatsPaidFor

LEMMA CountsRestart ==
    ASSUME RInv, Restart
    PROVE  RepeatsPaidFor'
  <1> DEFINE S == {c \in Creds : InFlight(c) # {}}
  <1>1. /\ Lapse(S) /\ UNCHANGED <<creds, accepted>>
        /\ \A c \in Creds : InFlight(c)' = {}
    BY DEF Restart, InFlight
  <1>2. ASSUME NEW c \in Creds, NEW n \in Counts \ {0}
        PROVE  PaidFor(c, n)'
    <2>1. CASE c \in S
      BY <1>1, <2>1, LapsePays
    <2>2. CASE c \notin S
      <3>1. lapses'[c] = lapses[c]
        BY <1>1, <2>2, LapseOK DEF RInv, IInv
      <3>2. CanStillPass(c, n)' => CanStillPass(c, n)
        BY <1>1, <2>2 DEF CanStillPass, Stored
      <3> QED
        BY <1>1, <3>1, <3>2, NothingNewPasses
    <2> QED
      BY <2>1, <2>2
  <1> QED
    BY <1>2 DEF RepeatsPaidFor

LEMMA CountsStep ==
    ASSUME RInv, [Next]_vars
    PROVE  RepeatsPaidFor'
  <1>0. /\ pc \in [Threads -> Labels] /\ loc \in [Threads -> Local]
    BY DEF RInv, IInv, TypeOK
  <1>1. ASSUME NEW c \in Creds, Sign(c) \/ RevokeDevice(c)
        PROVE  NoCountMoves
    BY <1>1 DEF Sign, RevokeDevice, NoCountMoves, histories
  <1>2. ASSUME NEW t \in Threads,
               GetDevice(t) \/ AddDevice(t) \/ CreateSession(t) \/ RemoveRoute(t)
        PROVE  NoCountMoves
    BY <1>0, <1>2
    DEF GetDevice, AddDevice, CreateSession, RemoveRoute, delete_credential,
        Goto, Return, NoCountMoves, histories
  <1>3. CASE UNCHANGED vars
    BY <1>3, CountsFrame DEF vars, NoCountMoves
  <1> QED
    BY <1>1, <1>2, <1>3, CountsFrame, CountsRegister, CountsRemove,
       CountsAuthenticate, CountsUpdate, CountsRestart
    DEF Next, RegisterRoutes, AuthenticateRoutes

\* However logins, removals and registrations of any number of users interleave
\* and whatever fails, an assertion with a count passes once per credential that
\* is stored, and again only as often as the comparison lapsed.
THEOREM ReplaysNeedLapses == Spec => []ReplayNeedsLapse
  <1>1. ASSUME Init
        PROVE  RInv
    <2>1. \A c \in Creds, n \in Counts \ {0} : accepted[<<c, n>>] = 0 /\ lapses[c] = 0
      BY <1>1 DEF Init, Counted
    <2>2. ASSUME NEW c \in Creds, NEW n \in Counts \ {0}
          PROVE  PaidFor(c, n)
      <3>1. accepted[<<c, n>>] = 0 /\ lapses[c] = 0
        BY <2>1
      <3> QED
        BY <3>1 DEF PaidFor
    <2> QED
      BY <1>1, <2>2, InitOK DEF RInv, RepeatsPaidFor
  <1>2. RInv /\ [Next]_vars => RInv'
    BY CountsStep, NextOK DEF RInv
  <1>3. ASSUME RInv
        PROVE  ReplayNeedsLapse
    <2>1. ASSUME NEW c \in Creds, NEW n \in Counts \ {0}
          PROVE  accepted[<<c, n>>] <= 1 + lapses[c]
      <3>1. PaidFor(c, n)
        BY <1>3 DEF RInv, RepeatsPaidFor
      <3>2. /\ MaxLapses \in Nat /\ lapses[c] \in 0..MaxLapses
            /\ accepted[<<c, n>>] \in 0..MaxLapses + 1
        BY <1>3, Numbers DEF RInv, IInv
      <3> QED
        BY <3>1, <3>2 DEF PaidFor
    <2> QED
      BY <2>1 DEF ReplayNeedsLapse
  <1> QED
    BY <1>1, <1>2, <1>3, PTL DEF Spec
=============================================================================
