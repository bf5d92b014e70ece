-------------------------- MODULE BiometricProofs --------------------------
(***************************************************************************)
(* Proofs about Biometric: types, single use of a string while fresh, and  *)
(* the refinement of DeviceSessions.                                       *)
(***************************************************************************)
EXTENDS Biometric, TLAPS

\* The time in the challenge that a string decodes to.
Stamp(s) == issued[base64url_decode(s)]

Fresh(s) == now <= Stamp(s) + ChallengeTtl

LEMMA StampType ==
    ASSUME TypeOK, NEW s \in Strings
    PROVE  base64url_decode(s) \in Challenges /\ Stamp(s) \in Int
  <1>1. base64url_decode(s) \in Challenges
    BY DEF Strings, base64url_decode
  <1> QED
    BY <1>1, BiometricAssumption DEF TypeOK, Time, Never, Stamp

\* What a thread holds between its calls.  The clock it read for the used set is
\* neither ahead of the present one nor behind the time of its challenge.
ThreadOK(t) ==
    /\ pc[t] = "add_device" =>
          loc[t].user \in Users /\ loc[t].key \in Keys
    /\ pc[t] \in {"read_clock", "consume", "get_device", "create_session"} =>
          loc[t].key \in Keys /\ loc[t].challenge_b64 \in Strings
    /\ pc[t] \in {"read_clock", "consume"} =>
          Stamp(loc[t].challenge_b64) # Never
    /\ pc[t] = "consume" =>
          /\ Stamp(loc[t].challenge_b64) <= loc[t].clock
          /\ loc[t].clock <= now
    /\ pc[t] = "create_session" => loc[t].user \in Users

Threading == \A t \in Threads : ThreadOK(t)

\* A string that was used while fresh is in the set of used ones, until a time at
\* which it is no longer fresh: no thread has a clock with which to prune it.
UsedOK(s) ==
    /\ Stamp(s) # Never => Stamp(s) <= now
    /\ uses[s].fresh > 0 =>
          /\ Stamp(s) # Never
          /\ Fresh(s) => Stamp(s) + ChallengeTtl <= used[s]
    /\ uses[s].fresh <= 1

UsedWhileFresh == \A s \in Strings : UsedOK(s)

IInv == TypeOK /\ Threading /\ UsedWhileFresh

LEMMA InitOK == ASSUME Init PROVE IInv
  <1> USE BiometricAssumption
  <1>1. TypeOK
    BY DEF Init, TypeOK, Time, Never, DeviceRecord, Labels, Local, NoLocal, NoUse
  <1>2. Threading /\ UsedWhileFresh
    <2>1. \A s \in Strings : Stamp(s) = Never /\ uses[s].fresh = 0
      BY <1>1, StampType DEF Init, Stamp, NoUse
    <2> QED
      BY <2>1 DEF Init, Threading, ThreadOK, UsedWhileFresh, UsedOK
  <1> QED
    BY <1>1, <1>2 DEF IInv

----------------------------------------------------------------------------
(* One lemma per kind of step.                                             *)

\* Threads other than t keep their place; t goes to a place that is in order.
LEMMA ThreadMoves ==
    ASSUME IInv, NEW t \in Threads, NEW label \in Labels, NEW l \in Local,
           pc' = [pc EXCEPT ![t] = label], loc' = [loc EXCEPT ![t] = l],
           now' = now, issued' = issued, ThreadOK(t)'
    PROVE  /\ pc' \in [Threads -> Labels] /\ loc' \in [Threads -> Local]
           /\ Threading'
  <1>1. pc \in [Threads -> Labels] /\ loc \in [Threads -> Local]
    BY DEF IInv, TypeOK
  <1>2. \A s \in Threads \ {t} : pc'[s] = pc[s] /\ loc'[s] = loc[s]
    BY <1>1
  <1>3. \A s \in Threads \ {t} : ThreadOK(s)'
    BY <1>2 DEF IInv, Threading, ThreadOK, Stamp
  <1> QED
    BY <1>1, <1>3 DEF Threading

LEMMA NoLocalType == NoLocal \in Local
  BY BiometricAssumption DEF NoLocal, Local, Time

LEMMA ReturnOK ==
    ASSUME IInv, NEW t \in Threads, Return(t), now' = now, issued' = issued
    PROVE  /\ pc' \in [Threads -> Labels] /\ loc' \in [Threads -> Local]
           /\ Threading'
  <1>1. pc'[t] = "idle"
    BY DEF Return, IInv, TypeOK
  <1>2. ThreadOK(t)'
    BY <1>1 DEF ThreadOK, Stamp
  <1> QED
    BY <1>2, ThreadMoves, NoLocalType DEF Return, Labels

LEMMA ReceiveStep ==
    ASSUME IInv, NEW t \in Threads, RegisterRoutes(t) \/ LoginRoutes(t)
    PROVE  IInv'
  <1>1. UNCHANGED <<now, issued, used, devices, uses, logins>>
    BY DEF RegisterRoutes, LoginRoutes, register_biometric_key,
           verify_biometric_response
  <1>2. pc' \in [Threads -> Labels] /\ loc' \in [Threads -> Local] /\ Threading'
    <2>1. ASSUME NEW u \in Users, NEW s \in Strings, NEW k \in Keys,
                 register_biometric_key(t, u, s, k)
          PROVE  /\ pc' \in [Threads -> Labels] /\ loc' \in [Threads -> Local]
                 /\ Threading'
      <3> DEFINE l == [NoLocal EXCEPT !.challenge_b64 = s, !.key = k, !.user = u]
      <3>1. l \in Local
        BY NoLocalType DEF Local, NoLocal
      <3>2. pc'[t] = "add_device" /\ loc'[t] = l
        BY <2>1 DEF register_biometric_key, IInv, TypeOK
      <3>3. ThreadOK(t)'
        BY <3>2 DEF ThreadOK, Stamp, NoLocal
      <3> QED
        BY <1>1, <2>1, <3>1, <3>3, ThreadMoves
        DEF register_biometric_key, Labels
    <2>2. ASSUME NEW s \in Strings, NEW k \in Keys,
                 verify_biometric_response(t, s, k)
          PROVE  /\ pc' \in [Threads -> Labels] /\ loc' \in [Threads -> Local]
                 /\ Threading'
      <3> DEFINE l == [NoLocal EXCEPT !.challenge_b64 = s, !.key = k]
      <3>1. l \in Local
        BY NoLocalType DEF Local, NoLocal
      <3>2. pc'[t] = "read_clock" /\ loc'[t] = l
        BY <2>2 DEF verify_biometric_response, IInv, TypeOK
      <3>3. ThreadOK(t)'
        BY <1>1, <2>2, <3>2
        DEF ThreadOK, Stamp, NoLocal, verify_biometric_response, verify_challenge
      <3> QED
        BY <1>1, <2>2, <3>1, <3>3, ThreadMoves
        DEF verify_biometric_response, Labels
    <2> QED
      BY <2>1, <2>2 DEF RegisterRoutes, LoginRoutes
  <1> QED
    BY <1>1, <1>2 DEF IInv, TypeOK, UsedWhileFresh, UsedOK, Stamp, Fresh

LEMMA AddDeviceStep ==
    ASSUME IInv, NEW t \in Threads, AddDevice(t)
    PROVE  IInv'
  <1>1. pc' \in [Threads -> Labels] /\ loc' \in [Threads -> Local] /\ Threading'
    BY ReturnOK DEF AddDevice
  <1>2. devices' \in [Keys -> DeviceRecord]
    <2>1. loc[t].user \in Users /\ loc[t].key \in Keys
      BY DEF AddDevice, IInv, Threading, ThreadOK, Stamp
    <2>2. devices \in [Keys -> DeviceRecord]
      BY DEF IInv, TypeOK
    <2>3. [owner |-> loc[t].user, revoked |-> FALSE] \in DeviceRecord
      BY <2>1 DEF DeviceRecord
    <2> QED
      BY <2>1, <2>2, <2>3 DEF AddDevice, add_device
  <1> QED
    BY <1>1, <1>2 DEF AddDevice, IInv, TypeOK, UsedWhileFresh, UsedOK, Stamp, Fresh

LEMMA ReadClockStep ==
    ASSUME IInv, NEW t \in Threads, ReadClock(t)
    PROVE  IInv'
  <1> DEFINE l == [loc[t] EXCEPT !.clock = now]
  <1>1. l \in Local
    BY DEF IInv, TypeOK, Local
  <1>2. loc' = [loc EXCEPT ![t] = l]
    BY DEF ReadClock
  <1>3. pc'[t] = "consume" /\ loc'[t] = l
    BY <1>2 DEF ReadClock, IInv, TypeOK
  <1>4. l.challenge_b64 = loc[t].challenge_b64 /\ l.key = loc[t].key /\ l.clock = now
    BY DEF IInv, TypeOK, Local
  <1>5. ThreadOK(t)'
    <2>1. loc[t].challenge_b64 \in Strings /\ Stamp(loc[t].challenge_b64) # Never
      BY DEF ReadClock, IInv, Threading, ThreadOK, Stamp
    <2>2. Stamp(loc[t].challenge_b64) <= now /\ now \in Int
      BY <2>1 DEF IInv, TypeOK, Time, UsedWhileFresh, UsedOK, Stamp
    <2>3. loc[t].key \in Keys
      BY DEF ReadClock, IInv, Threading, ThreadOK, Stamp
    <2>4. issued' = issued /\ now' = now
      BY DEF ReadClock
    <2> QED
      BY <1>3, <1>4, <2>1, <2>2, <2>3, <2>4 DEF ThreadOK, Stamp
  <1>6. pc' \in [Threads -> Labels] /\ loc' \in [Threads -> Local] /\ Threading'
    BY <1>1, <1>2, <1>5, ThreadMoves DEF ReadClock, Labels
  <1> QED
    BY <1>6 DEF ReadClock, IInv, TypeOK, UsedWhileFresh, UsedOK, Stamp, Fresh

\* Pruning leaves what was used while fresh, as long as it is fresh.
LEMMA PruningKeeps ==
    ASSUME IInv, NEW clock \in Time, clock <= now, NEW s \in Strings,
           uses[s].fresh > 0, Fresh(s)
    PROVE  prune_used_challenges(clock)[s] = used[s] /\ used[s] # Never
  <1>1. Stamp(s) + ChallengeTtl <= used[s]
    BY DEF IInv, UsedWhileFresh, UsedOK, Stamp
  <1>2. /\ now \in Nat /\ clock \in Nat /\ Stamp(s) \in Int /\ used[s] \in Int
        /\ ChallengeTtl \in Nat
    BY StampType, BiometricAssumption DEF IInv, TypeOK, Time, Never
  <1>3. now <= used[s]
    BY <1>1, <1>2 DEF Fresh, Stamp
  <1> QED
    BY <1>2, <1>3 DEF prune_used_challenges, Never

LEMMA ConsumeStep ==
    ASSUME IInv, NEW t \in Threads, consume_challenge_once(t)
    PROVE  IInv'
  <1> DEFINE s == loc[t].challenge_b64
             clock == loc[t].clock
             kept == prune_used_challenges(clock)
  <1>1. /\ pc[t] = "consume" /\ s \in Strings /\ loc[t].key \in Keys
        /\ Stamp(s) # Never /\ Stamp(s) <= clock /\ clock <= now
    BY DEF consume_challenge_once, IInv, Threading, ThreadOK, Stamp
  <1>2. /\ clock \in Time /\ now \in Time /\ Time \subseteq Nat
        /\ clock \in Int /\ now \in Int
        /\ ChallengeTtl \in Nat /\ MaxTime \in Nat
    BY BiometricAssumption DEF IInv, TypeOK, Local, Time
  <1>3. UNCHANGED <<now, issued, devices, logins>>
    BY DEF consume_challenge_once
  <1>4. kept \in [Strings -> 0..MaxTime + ChallengeTtl \cup {Never}]
    BY DEF IInv, TypeOK, prune_used_challenges
  <1>5. CASE kept[s] # Never
    <2>1. used' = kept /\ Return(t) /\ uses' = uses
      BY <1>5 DEF consume_challenge_once
    <2>2. pc' \in [Threads -> Labels] /\ loc' \in [Threads -> Local] /\ Threading'
      BY <1>3, <2>1, ReturnOK
    <2>3. ASSUME NEW d \in Strings PROVE UsedOK(d)'
      <3>1. uses[d].fresh > 0 /\ Fresh(d) => kept[d] = used[d]
        BY <1>1, <1>2, PruningKeeps
      <3> QED
        BY <1>3, <2>1, <3>1 DEF IInv, UsedWhileFresh, UsedOK, Stamp, Fresh
    <2> QED
      BY <1>3, <1>4, <2>1, <2>2, <2>3 DEF IInv, TypeOK, UsedWhileFresh
  <1>6. CASE kept[s] = Never
    <2>1. /\ used' = [kept EXCEPT ![s] = clock + ChallengeTtl]
          /\ uses' = [uses EXCEPT ![s] = Used(s)]
          /\ Goto(t, "get_device")
      BY <1>6 DEF consume_challenge_once
    <2>2. uses[s].fresh = 0 \/ ~Fresh(s)
      <3>1. uses[s].fresh \in 0..2
        BY <1>1 DEF IInv, TypeOK
      <3>2. ~(uses[s].fresh > 0 /\ Fresh(s))
        <4>1. SUFFICES ASSUME uses[s].fresh > 0, Fresh(s) PROVE FALSE
          OBVIOUS
        <4>2. kept[s] = used[s] /\ used[s] # Never
          BY <1>1, <1>2, <4>1, PruningKeeps
        <4> QED
          BY <1>6, <4>2
      <3> QED
        BY <3>1, <3>2
    <2>3. Used(s) \in [all : 0..2, fresh : 0..2] /\ Used(s).fresh <= 1
      <3>1. uses[s] \in [all : 0..2, fresh : 0..2] /\ uses[s].fresh <= 1
        BY <1>1 DEF IInv, TypeOK, UsedWhileFresh, UsedOK, Stamp
      <3>2. \A n \in 0..2 : Counted(n) \in 0..2
        BY DEF Counted
      <3>3. Used(s).fresh = IF verify_challenge(s) THEN Counted(uses[s].fresh)
                                                   ELSE uses[s].fresh
        BY DEF Used
      <3>4. Used(s).fresh <= 1
        BY <2>2, <3>1, <3>3 DEF verify_challenge, Fresh, Stamp, Counted
      <3> QED
        BY <3>1, <3>2, <3>4 DEF Used
    <2>4. clock + ChallengeTtl \in 0..MaxTime + ChallengeTtl
      BY <1>2 DEF Time
    <2>5. /\ used' \in [Strings -> 0..MaxTime + ChallengeTtl \cup {Never}]
          /\ uses' \in [Strings -> [all : 0..2, fresh : 0..2]]
      BY <1>1, <1>4, <2>1, <2>3, <2>4 DEF IInv, TypeOK
    <2>6. pc' \in [Threads -> Labels] /\ loc' \in [Threads -> Local] /\ Threading'
      <3>1. loc' = [loc EXCEPT ![t] = loc[t]] /\ loc[t] \in Local
        BY <2>1 DEF Goto, IInv, TypeOK
      <3>2. pc'[t] = "get_device" /\ loc'[t] = loc[t]
        BY <2>1 DEF Goto, IInv, TypeOK
      <3>3. ThreadOK(t)'
        BY <1>1, <3>2 DEF ThreadOK, Stamp
      <3> QED
        BY <1>3, <2>1, <3>1, <3>3, ThreadMoves DEF Goto, Labels
    <2>7. ASSUME NEW d \in Strings PROVE UsedOK(d)'
      <3>1. CASE d = s
        <4>1. used'[s] = clock + ChallengeTtl /\ uses'[s].fresh <= 1
          BY <1>1, <1>4, <2>1, <2>3 DEF IInv, TypeOK
        <4>2. Stamp(s) \in Int
          BY <1>1, StampType DEF IInv
        <4>3. ASSUME NEW stamp \in Int, NEW read \in Int, stamp <= read, read <= now
              PROVE  stamp + ChallengeTtl <= read + ChallengeTtl /\ stamp <= now
          BY <1>2, <4>3
        <4>4. clock \in Int
          BY <1>2
        <4>5. Stamp(s) <= clock /\ clock <= now
          BY <1>1
        <4> HIDE DEF s, clock
        <4>6. Stamp(s) + ChallengeTtl <= used'[s] /\ Stamp(s) <= now
          BY <4>1, <4>2, <4>3, <4>4, <4>5
        <4> QED
          BY <1>1, <1>3, <3>1, <4>1, <4>6 DEF UsedOK, Stamp, Fresh
      <3>2. CASE d # s
        <4>1. used'[d] = kept[d] /\ uses'[d] = uses[d]
          BY <1>4, <2>1, <3>2 DEF IInv, TypeOK
        <4>2. uses[d].fresh > 0 /\ Fresh(d) => kept[d] = used[d]
          BY <1>1, <1>2, PruningKeeps
        <4> QED
          BY <1>3, <4>1, <4>2 DEF IInv, UsedWhileFresh, UsedOK, Stamp, Fresh
      <3> QED
        BY <3>1, <3>2
    <2> QED
      BY <1>3, <2>5, <2>6, <2>7 DEF IInv, TypeOK, UsedWhileFresh
  <1> QED
    BY <1>5, <1>6

LEMMA GetDeviceStep ==
    ASSUME IInv, NEW t \in Threads, GetDevice(t)
    PROVE  IInv'
  <1>1. UNCHANGED <<now, issued, used, devices, uses, logins>>
    BY DEF GetDevice
  <1>2. /\ loc[t].key \in Keys /\ loc[t].challenge_b64 \in Strings
        /\ loc[t] \in Local
    BY DEF GetDevice, IInv, TypeOK, Threading, ThreadOK, Stamp
  <1>3. CASE Return(t)
    <2>1. pc' \in [Threads -> Labels] /\ loc' \in [Threads -> Local] /\ Threading'
      BY <1>1, <1>3, ReturnOK
    <2> QED
      BY <1>1, <2>1 DEF IInv, TypeOK, UsedWhileFresh, UsedOK, Stamp, Fresh
  <1>4. CASE ~Return(t)
    <2> DEFINE u == devices[loc[t].key].owner
               l == [loc[t] EXCEPT !.user = u]
    <2>1. /\ u # None
          /\ pc' = [pc EXCEPT ![t] = "create_session"]
          /\ loc' = [loc EXCEPT ![t] = l]
      BY <1>4 DEF GetDevice
    <2>2. u \in Users
      BY <1>2, <2>1 DEF IInv, TypeOK, DeviceRecord
    <2>3. l \in Local /\ l.user = u /\ l.key \in Keys /\ l.challenge_b64 \in Strings
      BY <1>2, <2>2 DEF Local
    <2>4. pc'[t] = "create_session" /\ loc'[t] = l
      BY <2>1 DEF IInv, TypeOK
    <2>5. ThreadOK(t)'
      BY <2>2, <2>3, <2>4 DEF ThreadOK, Stamp
    <2>6. pc' \in [Threads -> Labels] /\ loc' \in [Threads -> Local] /\ Threading'
      BY <1>1, <2>1, <2>3, <2>5, ThreadMoves DEF Labels
    <2> QED
      BY <1>1, <2>6 DEF IInv, TypeOK, UsedWhileFresh, UsedOK, Stamp, Fresh
  <1> QED
    BY <1>3, <1>4

LEMMA CreateSessionStep ==
    ASSUME IInv, NEW t \in Threads, CreateSession(t)
    PROVE  IInv'
  <1>1. pc' \in [Threads -> Labels] /\ loc' \in [Threads -> Local] /\ Threading'
    BY ReturnOK DEF CreateSession
  <1>2. logins' \subseteq Users \X Keys \X Strings
    BY DEF CreateSession, IInv, TypeOK, Threading, ThreadOK, Stamp
  <1> QED
    BY <1>1, <1>2 DEF CreateSession, IInv, TypeOK, UsedWhileFresh, UsedOK, Stamp,
                      Fresh

\* A challenge that is issued was not used before.
LEMMA GenerateStep ==
    ASSUME IInv, NEW c \in Challenges, generate_challenge(c)
    PROVE  IInv'
  <1>1. UNCHANGED <<now, used, devices, pc, loc, uses, logins>>
    BY DEF generate_challenge
  <1>2. issued[c] = Never /\ issued' = [issued EXCEPT ![c] = now]
    BY DEF generate_challenge
  <1>3. issued'[c] = now /\ \A d \in Challenges \ {c} : issued'[d] = issued[d]
    BY <1>2 DEF IInv, TypeOK
  <1>4. TypeOK'
    BY <1>1, <1>2 DEF IInv, TypeOK
  <1>5. \A s \in Strings :
           Stamp(s)' = IF base64url_decode(s) = c THEN now ELSE Stamp(s)
    BY <1>3, <1>4, StampType DEF IInv, Stamp
  <1>6. ASSUME NEW t \in Threads PROVE ThreadOK(t)'
    <2>1. pc[t] \in {"read_clock", "consume"} =>
             /\ loc[t].challenge_b64 \in Strings
             /\ base64url_decode(loc[t].challenge_b64) # c
      BY <1>2 DEF IInv, Threading, ThreadOK, Stamp
    <2>2. pc[t] \in {"read_clock", "consume"} =>
             Stamp(loc[t].challenge_b64)' = Stamp(loc[t].challenge_b64)
      BY <1>1, <1>5, <2>1 DEF Stamp
    <2> QED
      BY <1>1, <2>2 DEF IInv, Threading, ThreadOK
  <1>7. ASSUME NEW s \in Strings PROVE UsedOK(s)'
    <2>0. UsedOK(s) /\ now \in Int
      BY DEF IInv, UsedWhileFresh, TypeOK, Time
    <2>1. CASE base64url_decode(s) = c
      <3>1. ~(uses[s].fresh > 0)
        BY <1>2, <2>0, <2>1 DEF UsedOK, Stamp
      <3>2. Stamp(s)' = now
        BY <1>5, <2>1
      <3> QED
        BY <1>1, <2>0, <3>1, <3>2 DEF UsedOK
    <2>2. CASE base64url_decode(s) # c
      BY <1>1, <1>5, <2>0, <2>2 DEF UsedOK, Fresh
    <2> QED
      BY <2>1, <2>2
  <1> QED
    BY <1>4, <1>6, <1>7 DEF IInv, Threading, UsedWhileFresh

\* Challenges go stale and clocks fall behind.
LEMMA TickStep == ASSUME IInv, Tick PROVE IInv'
  <1>1. UNCHANGED <<issued, used, devices, pc, loc, uses, logins>>
    BY DEF Tick
  <1>2. now' = now + 1 /\ now' \in Time /\ now \in Nat
    BY BiometricAssumption DEF Tick, IInv, TypeOK, Time
  <1>3. TypeOK'
    BY <1>1, <1>2 DEF IInv, TypeOK
  <1>4. ASSUME NEW t \in Threads PROVE ThreadOK(t)'
    <2>1. loc[t].clock \in Nat
      BY BiometricAssumption DEF IInv, TypeOK, Local, Time
    <2> QED
      BY <1>1, <1>2, <2>1 DEF IInv, Threading, ThreadOK, Stamp
  <1>5. ASSUME NEW s \in Strings PROVE UsedOK(s)'
    <2>1. Stamp(s) \in Int /\ ChallengeTtl \in Nat
      BY StampType, BiometricAssumption DEF IInv
    <2> QED
      BY <1>1, <1>2, <2>1 DEF IInv, UsedWhileFresh, UsedOK, Stamp, Fresh
  <1> QED
    BY <1>3, <1>4, <1>5 DEF IInv, Threading, UsedWhileFresh

LEMMA RestartStep == ASSUME IInv, Restart PROVE IInv'
  <1>1. TypeOK'
    BY NoLocalType DEF Restart, IInv, TypeOK, NoUse, Labels, Never
  <1>2. Threading'
    BY DEF Restart, Threading, ThreadOK, Stamp
  <1>3. UsedWhileFresh'
    BY DEF Restart, IInv, UsedWhileFresh, UsedOK, Stamp, NoUse
  <1> QED
    BY <1>1, <1>2, <1>3 DEF IInv

LEMMA NextOK == ASSUME IInv, [Next]_vars PROVE IInv'
  <1>1. ASSUME NEW k \in Keys, RevokeDevice(k) PROVE IInv'
    <2>1. devices' \in [Keys -> DeviceRecord]
      BY <1>1 DEF RevokeDevice, IInv, TypeOK, DeviceRecord
    <2> QED
      BY <1>1, <2>1 DEF RevokeDevice, IInv, TypeOK, Threading, ThreadOK, Stamp,
                        UsedWhileFresh, UsedOK, Fresh
  <1>2. CASE UNCHANGED vars
    BY <1>2 DEF vars, IInv, TypeOK, Threading, ThreadOK, Stamp, UsedWhileFresh, UsedOK,
                Fresh
  <1> QED
    BY <1>1, <1>2, ReceiveStep, AddDeviceStep, ReadClockStep, ConsumeStep,
       GetDeviceStep, CreateSessionStep, GenerateStep, TickStep, RestartStep
    DEF Next

LEMMA Inductive == Spec => []IInv
  BY InitOK, NextOK, PTL DEF Spec

\* Every variable keeps its type, for any numbers of challenges, users, keys and
\* threads, and any lifetime.
THEOREM TypeCorrect == Spec => []TypeOK
  <1>1. IInv => TypeOK
    BY DEF IInv
  <1> QED
    BY <1>1, Inductive, PTL

\* While its challenge is fresh a string gets at most one login of a process past
\* the used set, though the clock that prunes it was read before the mutex was
\* taken.
THEOREM StringsAreUsedOnceWhileFresh == Spec => []StringUsedOnceWhileFresh
  <1>1. IInv => StringUsedOnceWhileFresh
    BY DEF IInv, UsedWhileFresh, UsedOK, Stamp, StringUsedOnceWhileFresh
  <1> QED
    BY <1>1, Inductive, PTL

----------------------------------------------------------------------------
(* The refinement of DeviceSessions.                                       *)

LEMMA AddDeviceRefines ==
    ASSUME IInv, NEW t \in Threads, AddDevice(t)
    PROVE  [Sessions!Next]_<<devices, logins>>
  <1> DEFINE u == loc[t].user
             k == loc[t].key
  <1>1. u \in Users /\ k \in Keys
    BY DEF AddDevice, IInv, Threading, ThreadOK, Stamp
  <1>2. CASE devices[k].owner = None /\ devices' # devices
    <2>1. devices' = [devices EXCEPT ![k] = [owner |-> u, revoked |-> FALSE]]
      BY <1>2 DEF AddDevice, add_device
    <2>2. Sessions!Enrol(k, u)
      BY <1>2, <2>1 DEF Sessions!Enrol, AddDevice
    <2> QED
      BY <1>1, <2>2 DEF Sessions!Next
  <1>3. CASE ~(devices[k].owner = None /\ devices' # devices)
    BY <1>3 DEF AddDevice, add_device
  <1> QED
    BY <1>2, <1>3

LEMMA CreateSessionRefines ==
    ASSUME IInv, NEW t \in Threads, CreateSession(t)
    PROVE  [Sessions!Next]_<<devices, logins>>
  <1> DEFINE u == loc[t].user
             k == loc[t].key
             s == loc[t].challenge_b64
  <1>1. u \in Users /\ k \in Keys /\ s \in Strings
    BY DEF CreateSession, IInv, Threading, ThreadOK, Stamp
  <1>2. CASE MayHaveSession(u, k) /\ logins' = logins \cup {<<u, k, s>>}
    <2>1. devices[k] = [owner |-> u, revoked |-> FALSE]
      <3>1. devices[k] \in DeviceRecord
        BY <1>1 DEF IInv, TypeOK
      <3> QED
        BY <1>2, <3>1 DEF MayHaveSession, DeviceRecord
    <2>2. Sessions!Login(u, k, s)
      BY <1>2, <2>1 DEF Sessions!Login, CreateSession
    <2> QED
      BY <1>1, <2>2 DEF Sessions!Next
  <1>3. CASE UNCHANGED logins
    BY <1>3 DEF CreateSession
  <1> QED
    BY <1>2, <1>3 DEF CreateSession

LEMMA StepRefines ==
    ASSUME IInv, [Next]_vars
    PROVE  [Sessions!Next]_<<devices, logins>>
  <1>1. ASSUME NEW k \in Keys, RevokeDevice(k)
        PROVE  [Sessions!Next]_<<devices, logins>>
    <2>1. Sessions!Revoke(k)
      BY <1>1 DEF RevokeDevice, Sessions!Revoke
    <2> QED
      BY <2>1 DEF Sessions!Next
  <1>2. CASE UNCHANGED <<devices, logins>>
    BY <1>2
  <1> QED
    BY <1>1, <1>2, AddDeviceRefines, CreateSessionRefines
    DEF Next, RegisterRoutes, register_biometric_key, LoginRoutes,
        verify_biometric_response, generate_challenge, ReadClock,
        consume_challenge_once, GetDevice, Tick, Restart, vars

\* Whatever calls fail and however registrations, logins and revocations of a
\* key interleave, its row keeps its owner and stays revoked, and a session is
\* opened only for that owner while the row is not revoked.
THEOREM DeviceSessionsImplemented == Spec => ImplementsDeviceSessions
  <1>1. Init => Sessions!Init
    BY DEF Init, Sessions!Init
  <1>2. IInv /\ [Next]_vars => [Sessions!Next]_<<devices, logins>>
    BY StepRefines
  <1> QED
    BY <1>1, <1>2, Inductive, PTL
    DEF Spec, ImplementsDeviceSessions, Sessions!Spec

\* A session names the user the key is bound to, for as long as it is kept,
\* whoever else tried to register the key before or after.
LoginsOwn == \A s \in logins : devices[s[2]].owner = s[1]

\* A consequence of the refinement: the owner a session was opened for never
\* changes, and no session is opened by a key whose row is revoked.
THEOREM LoginsAreOwn ==
    Spec => /\ []LoginsOwn
            /\ [][\A s \in logins' \ logins : ~devices[s[2]].revoked]_vars
  <1> DEFINE NoneRevoked == \A s \in logins' \ logins : ~devices[s[2]].revoked
  <1>1. Init => LoginsOwn
    BY DEF Init, LoginsOwn
  <1>2. ASSUME IInv, LoginsOwn, [Next]_vars
        PROVE  LoginsOwn' /\ NoneRevoked
    <2>0. /\ devices \in [Keys -> DeviceRecord]
          /\ logins \subseteq Users \X Keys \X Strings
      BY <1>2 DEF IInv, TypeOK
    <2>1. [Sessions!Next]_<<devices, logins>>
      BY <1>2, StepRefines
    <2>2. ASSUME NEW k \in Keys, Sessions!Revoke(k)
          PROVE  LoginsOwn' /\ NoneRevoked
      <3>1. \A d \in Keys : devices'[d].owner = devices[d].owner
        BY <2>0, <2>2 DEF Sessions!Revoke, DeviceRecord
      <3> QED
        BY <1>2, <2>0, <2>2, <3>1 DEF Sessions!Revoke, LoginsOwn
    <2>3. ASSUME NEW k \in Keys, NEW u \in Users, Sessions!Enrol(k, u)
          PROVE  LoginsOwn' /\ NoneRevoked
      BY <1>2, <2>0, <2>3, BiometricAssumption DEF Sessions!Enrol, LoginsOwn
    <2>4. ASSUME NEW k \in Keys, NEW u \in Users, NEW x \in Strings,
                 Sessions!Login(u, k, x)
          PROVE  LoginsOwn' /\ NoneRevoked
      BY <1>2, <2>4 DEF Sessions!Login, LoginsOwn
    <2>5. CASE UNCHANGED <<devices, logins>>
      BY <1>2, <2>5 DEF LoginsOwn
    <2> QED
      BY <2>1, <2>2, <2>3, <2>4, <2>5 DEF Sessions!Next
  <1>3. IInv /\ LoginsOwn /\ [Next]_vars => LoginsOwn' /\ [NoneRevoked]_vars
    BY <1>2
  <1> QED
    BY <1>1, <1>3, Inductive, PTL DEF Spec
=============================================================================
