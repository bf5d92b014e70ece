----------------------------- MODULE Biometric -----------------------------
(***************************************************************************)
(* Biometric login: BiometricAuthServer (src/src/biometric.cpp) and the    *)
(* REST handlers that use it (src/rest/server.cpp).  A challenge carries   *)
(* its time and a MAC, so none is stored; a login enters it in a set of    *)
(* used ones that lives in the process.  The clock is read once to see     *)
(* whether the challenge is fresh, once more to enter it, and the mutex is *)
(* taken after that: requests interleave, and time passes, in between.     *)
(*                                                                         *)
(* The MAC, the time and the signature are those of the decoded challenge, *)
(* the set of used ones is of strings, and many strings decode to one      *)
(* challenge: the decoder passes over characters that are not of its       *)
(* alphabet and bits that are left over.                                   *)
(*                                                                         *)
(* Keys stand for key pairs and, their ids being hashes of them, for the   *)
(* rows of ez_devices.  The phone's prompt is out of the server's sight: a *)
(* key answers any challenge it is shown.                                  *)
(***************************************************************************)
EXTENDS Integers

CONSTANTS
    Challenges, Users, Keys, Threads,
    Spellings,      \* ways to write a challenge
    ChallengeTtl,   \* seconds a challenge is fresh
    MaxTime,        \* bounds the clock
    StorageMayFail, \* whether a call may report an error
    None

ASSUME BiometricAssumption ==
    /\ ChallengeTtl \in Nat
    /\ MaxTime \in Nat
    /\ StorageMayFail \in BOOLEAN
    /\ None \notin Users /\ None \notin Keys /\ None \notin Challenges

VARIABLES
    now,
    issued,     \* challenge -> time it carries, Never before it is made
    used,       \* used_challenges_: string -> expiry, Never if not in it
    devices,    \* key -> ez_devices row, owner None when there is none
    pc, loc,    \* request threads
    uses,       \* history: string -> times it was entered since the process
                \*          started, and while it was fresh, counted to 2
    logins      \* history: <<user, key, string>> that opened a session

vars == <<now, issued, used, devices, pc, loc, uses, logins>>

\* Strings that decode to no challenge fail the MAC and change nothing.
Strings == Challenges \X Spellings

base64url_decode(s) == s[1]

Time == 0..MaxTime
Never == -1

DeviceRecord == [owner : Users \cup {None}, revoked : BOOLEAN]

Labels == {"idle", "add_device", "read_clock", "consume", "get_device",
           "create_session"}

Local == [challenge_b64 : Strings \cup {None},
          key           : Keys \cup {None},
          user          : Users \cup {None},
          clock         : Time]

NoLocal == [challenge_b64 |-> None, key |-> None, user |-> None, clock |-> 0]

NoUse == [all |-> 0, fresh |-> 0]

TypeOK ==
    /\ now \in Time
    /\ issued \in [Challenges -> Time \cup {Never}]
    /\ used \in [Strings -> 0..MaxTime + ChallengeTtl \cup {Never}]
    /\ devices \in [Keys -> DeviceRecord]
    /\ pc \in [Threads -> Labels]
    /\ loc \in [Threads -> Local]
    /\ uses \in [Strings -> [all : 0..2, fresh : 0..2]]
    /\ logins \subseteq Users \X Keys \X Strings

Init ==
    /\ now = 0
    /\ issued = [c \in Challenges |-> Never]
    /\ used = [s \in Strings |-> Never]
    /\ devices = [k \in Keys |-> [owner |-> None, revoked |-> FALSE]]
    /\ pc = [t \in Threads |-> "idle"]
    /\ loc = [t \in Threads |-> NoLocal]
    /\ uses = [s \in Strings |-> NoUse]
    /\ logins = {}

Return(t) ==
    /\ pc' = [pc EXCEPT ![t] = "idle"]
    /\ loc' = [loc EXCEPT ![t] = NoLocal]

Goto(t, label) == pc' = [pc EXCEPT ![t] = label] /\ UNCHANGED loc

----------------------------------------------------------------------------

generate_challenge(c) ==
    /\ issued[c] = Never
    /\ issued' = [issued EXCEPT ![c] = now]
    /\ UNCHANGED <<now, used, devices, pc, loc, uses, logins>>

\* The clock does not go back, so no challenge is from the future.
verify_challenge(s) ==
    LET c == base64url_decode(s)
    IN  issued[c] # Never /\ now <= issued[c] + ChallengeTtl

----------------------------------------------------------------------------
(* Registration of a key in a session of u.  The challenge is not entered  *)
(* in the used ones.                                                       *)

register_biometric_key(t, u, s, k) ==
    /\ pc[t] = "idle"
    /\ verify_challenge(s)
    /\ pc' = [pc EXCEPT ![t] = "add_device"]
    /\ loc' = [loc EXCEPT ![t] =
                  [NoLocal EXCEPT !.challenge_b64 = s, !.key = k, !.user = u]]
    /\ UNCHANGED <<now, issued, used, devices, uses, logins>>

\* Mutant: the parameters are bound in the wrong order.
add_device_swapped(u, k) ==
    [devices EXCEPT ![k] = [owner |-> k, revoked |-> FALSE]]

\* An existing row stays: the call is refused in memory, void on Postgres.
add_device(u, k) ==
    IF devices[k].owner # None THEN devices
    ELSE [devices EXCEPT ![k] = [owner |-> u, revoked |-> FALSE]]

AddDevice(t) ==
    /\ pc[t] = "add_device"
    /\ \/ devices' = add_device(loc[t].user, loc[t].key)
       \/ StorageMayFail /\ UNCHANGED devices
    /\ Return(t)
    /\ UNCHANGED <<now, issued, used, uses, logins>>

----------------------------------------------------------------------------
(* Login.                                                                  *)

verify_biometric_response(t, s, k) ==
    /\ pc[t] = "idle"
    /\ verify_challenge(s)
    /\ pc' = [pc EXCEPT ![t] = "read_clock"]
    /\ loc' = [loc EXCEPT ![t] = [NoLocal EXCEPT !.challenge_b64 = s, !.key = k]]
    /\ UNCHANGED <<now, issued, used, devices, uses, logins>>

\* The argument of consume_challenge_once, evaluated before the mutex is taken.
ReadClock(t) ==
    /\ pc[t] = "read_clock"
    /\ pc' = [pc EXCEPT ![t] = "consume"]
    /\ loc' = [loc EXCEPT ![t].clock = now]
    /\ UNCHANGED <<now, issued, used, devices, uses, logins>>

\* Mutant: an entry goes in the second its challenge is last fresh.
prune_used_challenges_early(clock) ==
    [s \in Strings |-> IF used[s] <= clock THEN Never ELSE used[s]]

prune_used_challenges(clock) ==
    [s \in Strings |-> IF used[s] < clock THEN Never ELSE used[s]]

Counted(n) == IF n = 2 THEN 2 ELSE n + 1

Used(s) ==
    [all |-> Counted(uses[s].all),
     fresh |-> IF verify_challenge(s) THEN Counted(uses[s].fresh)
                                      ELSE uses[s].fresh]

consume_challenge_once(t) ==
    LET s == loc[t].challenge_b64
        clock == loc[t].clock
        kept == prune_used_challenges(clock)
    IN  /\ pc[t] = "consume"
        /\ IF kept[s] # Never
             THEN /\ used' = kept
                  /\ Return(t)
                  /\ UNCHANGED uses
             ELSE /\ used' = [kept EXCEPT ![s] = clock + ChallengeTtl]
                  /\ uses' = [uses EXCEPT ![s] = Used(s)]
                  /\ Goto(t, "get_device")
        /\ UNCHANGED <<now, issued, devices, logins>>

\* The user is the owner of the key's row.
GetDevice(t) ==
    LET device == devices[loc[t].key]
    IN  /\ pc[t] = "get_device"
        /\ \/ /\ device.owner # None /\ ~device.revoked
              /\ pc' = [pc EXCEPT ![t] = "create_session"]
              /\ loc' = [loc EXCEPT ![t].user = device.owner]
           \/ /\ device.owner = None \/ device.revoked \/ StorageMayFail
              /\ Return(t)
        /\ UNCHANGED <<now, issued, used, devices, uses, logins>>

\* Mutant: revocation is left to the handler's own lookup.
MayHaveSession_owner(u, k) == devices[k].owner = u

MayHaveSession(u, k) == devices[k].owner = u /\ ~devices[k].revoked

CreateSession(t) ==
    LET u == loc[t].user
        k == loc[t].key
    IN  /\ pc[t] = "create_session"
        /\ \/ /\ MayHaveSession(u, k)
              /\ logins' = logins \cup {<<u, k, loc[t].challenge_b64>>}
           \/ /\ ~MayHaveSession(u, k) \/ StorageMayFail
              /\ UNCHANGED logins
        /\ Return(t)
        /\ UNCHANGED <<now, issued, used, devices, uses>>

----------------------------------------------------------------------------
(* The rest of the system, and Next.                                       *)

\* Auth::revoke_device.
RevokeDevice(k) ==
    /\ devices[k].owner # None
    /\ devices' = [devices EXCEPT ![k].revoked = TRUE]
    /\ UNCHANGED <<now, issued, used, pc, loc, uses, logins>>

Tick ==
    /\ now < MaxTime
    /\ now' = now + 1
    /\ UNCHANGED <<issued, used, devices, pc, loc, uses, logins>>

\* The key of the MAC comes from the configuration, the tables are in the
\* database: the set of used challenges is all that is lost.
Restart ==
    /\ pc' = [t \in Threads |-> "idle"]
    /\ loc' = [t \in Threads |-> NoLocal]
    /\ used' = [s \in Strings |-> Never]
    /\ uses' = [s \in Strings |-> NoUse]
    /\ UNCHANGED <<now, issued, devices, logins>>

\* The REST routes; a handler that needs a session resolves it first.
RegisterRoutes(t) ==
    \E u \in Users, s \in Strings, k \in Keys :
        register_biometric_key(t, u, s, k)

LoginRoutes(t) ==
    \E s \in Strings, k \in Keys : verify_biometric_response(t, s, k)

Next ==
    \/ \E c \in Challenges : generate_challenge(c)
    \/ \E t \in Threads :
          \/ RegisterRoutes(t) \/ LoginRoutes(t)
          \/ AddDevice(t) \/ ReadClock(t) \/ consume_challenge_once(t)
          \/ GetDevice(t) \/ CreateSession(t)
    \/ \E k \in Keys : RevokeDevice(k)
    \/ Tick \/ Restart

Spec == Init /\ [][Next]_vars

----------------------------------------------------------------------------

\* While its challenge is fresh, a string gets at most one login of a process
\* past the used set, however requests that read the clock earlier are delayed,
\* and whatever the pruning by other logins takes out of the set.  What a
\* challenge can be used for while fresh is thus bounded by its spellings.
StringUsedOnceWhileFresh == \A s \in Strings : uses[s].fresh <= 1

\* Though two users may register one key at once, and the owner is read calls
\* before the session is issued, a session is opened only for the user the key
\* is bound to, while it is not revoked; a revoked key never comes back, also
\* not when its user registers it once more.
Sessions ==
    INSTANCE DeviceSessions WITH
        Devices <- Keys, Exchanges <- Strings, sessions <- logins

ImplementsDeviceSessions == Sessions!Spec

----------------------------------------------------------------------------
(* What the repository says and the code does not do.                      *)

UsedOnce(times) ==
    \A r, s \in Strings :
        /\ base64url_decode(r) = base64url_decode(s)
        /\ times[r] > 0 /\ times[s] > 0
        => r = s /\ times[s] = 1

\* biometric.cpp, BiometricAuthServer::Impl: "without this, a captured (challenge,
\* signature) pair could be replayed repeatedly until the challenge's TTL
\* expires".  With one more spelling it can, once for each.
SingleUseWhileFresh == UsedOnce([s \in Strings |-> uses[s].fresh])

\* threat-model.md: "Each challenge is single-use".  It is not when it has gone
\* stale, even in one spelling.
SingleUse == UsedOnce([s \in Strings |-> uses[s].all])
=============================================================================
