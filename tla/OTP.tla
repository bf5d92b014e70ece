-------------------------------- MODULE OTP --------------------------------
(***************************************************************************)
(* One-time codes: OTPServer (src/src/otp.cpp).  Every method runs under   *)
(* the server's mutex and is one step.  All its tables are in memory.  A   *)
(* phone number and an email address are identifiers alike: request_sms    *)
(* and request_email differ in the sender they call.                       *)
(***************************************************************************)
EXTENDS Integers, FiniteSets

CONSTANTS
    Ids, Ips,
    Tokens,             \* bounds the requests in the table at one time
    MaxAttempts, LockoutSeconds, ExpirySeconds,     \* OTPConfig
    RateLimitPerId, RateLimitPerIp,
    Window,             \* the 900 of check_rate_limit
    MaxTime,            \* bounds the clock
    NoKey

ASSUME OTPAssumption ==
    /\ {MaxAttempts, RateLimitPerId, RateLimitPerIp} \subseteq Nat \ {0}
    /\ {LockoutSeconds, ExpirySeconds, Window, MaxTime} \subseteq Nat
    /\ Window < MaxTime
    /\ NoKey \notin Ids \cup Ips
    /\ Ids \cap Ips = {}

VARIABLES
    now,        \* now_sec()
    requests,   \* requests_; id is NoKey when there is no entry
    lockouts,   \* lockouts_; no entry is the same as no failures
    rates,      \* rate_limits_
    \* Histories of the running process; events are <<time, n>>.
    misses,     \* id -> wrong codes compared since the last right one, those of
                \*       the last LockoutSeconds
    sent        \* key -> codes made in the last Window

otpVars == <<now, requests, lockouts, rates, misses, sent>>

Keys == Ids \cup Ips

OTPRequest == [id : Ids \cup {NoKey}, exp : Nat, attempts : 0..(MaxAttempts + 1),
               verified : BOOLEAN, hash : BOOLEAN]
LockoutInfo == [failed : 0..MaxAttempts, until : Nat]
RateBucket == [count : Nat, start : Nat]

NoRequest == [id |-> NoKey, exp |-> 0, attempts |-> 0, verified |-> FALSE,
              hash |-> FALSE]
NoFailure == [failed |-> 0, until |-> 0]

OtpTypeOK ==
    /\ now \in 0..MaxTime
    /\ requests \in [Tokens -> OTPRequest]
    /\ lockouts \in [Ids -> LockoutInfo]
    /\ rates \in [Keys -> RateBucket]
    /\ \A i \in Ids : rates[i].count <= RateLimitPerId
    /\ \A p \in Ips : rates[p].count <= RateLimitPerIp
    /\ misses \in [Ids -> SUBSET (Nat \X Nat)]
    /\ sent \in [Keys -> SUBSET (Nat \X Nat)]

\* A new bucket starts at 0, long before the first request.
OtpInit ==
    /\ now = Window + 1
    /\ requests = [t \in Tokens |-> NoRequest]
    /\ lockouts = [i \in Ids |-> NoFailure]
    /\ rates = [k \in Keys |-> [count |-> 0, start |-> 0]]
    /\ misses = [i \in Ids |-> {}]
    /\ sent = [k \in Keys |-> {}]

\* Adds one event at this instant to a history.
Noted(events) == events \cup {<<now, Cardinality({e \in events : e[1] = now})>>}

----------------------------------------------------------------------------
(* Lockout and rate limits. *)

\* is_locked, and the table it leaves behind: an elapsed entry is erased.
Locked(i) == now < lockouts[i].until

\* Mutant: an elapsed entry is kept, and its failures count on.
UnlockedKeeps(i) == [lockouts EXCEPT ![i].until = 0]

Unlocked(i) == IF lockouts[i].until # 0 /\ ~Locked(i)
                 THEN [lockouts EXCEPT ![i] = NoFailure]
                 ELSE lockouts

\* Mutant: the counter is compared before it is incremented.
record_failure_late(table, i) ==
    [table EXCEPT ![i] =
        IF @.failed >= MaxAttempts
          THEN [failed |-> MaxAttempts, until |-> now + LockoutSeconds]
          ELSE [failed |-> @.failed + 1, until |-> @.until]]

record_failure(table, i) ==
    [table EXCEPT ![i] =
        [failed |-> @.failed + 1,
         until |-> IF @.failed + 1 >= MaxAttempts THEN now + LockoutSeconds
                                                  ELSE @.until]]

\* Mutant: the window is never reset to the present.
StaleBucket(k) == IF now - rates[k].start > Window
                    THEN [count |-> 0, start |-> rates[k].start]
                    ELSE rates[k]

\* check_rate_limit's bucket, as it finds or resets it.
CurrentBucket(k) == IF now - rates[k].start > Window
                      THEN [count |-> 0, start |-> now]
                      ELSE rates[k]

Spent(k) == [CurrentBucket(k) EXCEPT !.count = @ + 1]

----------------------------------------------------------------------------

cleanup_expired ==
    [t \in Tokens |-> IF now > requests[t].exp THEN NoRequest ELSE requests[t]]

is_locked(i) ==
    /\ lockouts' = Unlocked(i)
    /\ UNCHANGED <<now, requests, rates, misses, sent>>

RequestWhileLocked(i) ==
    /\ Locked(i)
    /\ requests' = cleanup_expired
    /\ UNCHANGED <<now, lockouts, rates, misses, sent>>

\* Refused by one of the two buckets: the identifier's is spent all the same
\* when it is the address's that is empty.
RequestOverLimit(i, p) ==
    /\ ~Locked(i)
    /\ \/ /\ CurrentBucket(i).count >= RateLimitPerId
          /\ rates' = [rates EXCEPT ![i] = CurrentBucket(i)]
       \/ /\ CurrentBucket(i).count < RateLimitPerId
          /\ p # NoKey /\ CurrentBucket(p).count >= RateLimitPerIp
          /\ rates' = [rates EXCEPT ![i] = Spent(i), ![p] = CurrentBucket(p)]
    /\ lockouts' = Unlocked(i)
    /\ requests' = cleanup_expired
    /\ UNCHANGED <<now, misses, sent>>

NewCode(i) == [id |-> i, exp |-> now + ExpirySeconds, attempts |-> 0,
               verified |-> FALSE, hash |-> TRUE]

\* A code is made and stored, or the generator fails after the limits were
\* spent.  A sender that fails changes nothing.
RequestCode(i, p) ==
    /\ ~Locked(i)
    /\ CurrentBucket(i).count < RateLimitPerId
    /\ IF p = NoKey
         THEN rates' = [rates EXCEPT ![i] = Spent(i)]
         ELSE /\ CurrentBucket(p).count < RateLimitPerIp
              /\ rates' = [rates EXCEPT ![i] = Spent(i), ![p] = Spent(p)]
    /\ lockouts' = Unlocked(i)
    /\ \/ \E t \in Tokens :
             /\ cleanup_expired[t] = NoRequest
             /\ requests' = [cleanup_expired EXCEPT ![t] = NewCode(i)]
             /\ sent' = [k \in Keys |-> IF k \in {i, p} THEN Noted(sent[k])
                                                        ELSE sent[k]]
       \/ requests' = cleanup_expired /\ UNCHANGED sent
    /\ UNCHANGED <<now, misses>>

----------------------------------------------------------------------------

Stored(t) == requests[t].id # NoKey

VerifyExpired(t) ==
    /\ Stored(t) /\ ~requests[t].verified
    /\ now > requests[t].exp
    /\ requests' = [requests EXCEPT ![t] = NoRequest]
    /\ UNCHANGED <<now, lockouts, rates, misses, sent>>

\* Mutant: verify does not ask is_locked.
MayTryLocked(t) ==
    /\ Stored(t) /\ ~requests[t].verified
    /\ now <= requests[t].exp

\* The checks of verify that come before the attempt is counted.
MayTry(t) ==
    /\ Stored(t) /\ ~requests[t].verified
    /\ now <= requests[t].exp
    /\ ~Locked(requests[t].id)

Attempts(t) == IF requests[t].attempts > MaxAttempts THEN requests[t].attempts
                                                     ELSE requests[t].attempts + 1

Attempt(t) == requests' = [requests EXCEPT ![t].attempts = Attempts(t)]

\* The request had its attempts already; the code is not looked at.
VerifyTooMany(t) ==
    LET i == requests[t].id
    IN  /\ MayTry(t)
        /\ Attempts(t) > MaxAttempts
        /\ Attempt(t)
        /\ lockouts' = record_failure(Unlocked(i), i)
        /\ UNCHANGED <<now, rates, misses, sent>>

\* A wrong code; or, not noted anywhere, hash_code fails.
VerifyWrong(t) ==
    LET i == requests[t].id
    IN  /\ MayTry(t)
        /\ Attempts(t) <= MaxAttempts
        /\ Attempt(t)
        /\ \/ /\ lockouts' = record_failure(Unlocked(i), i)
              /\ misses' = [misses EXCEPT ![i] = Noted(@)]
           \/ lockouts' = Unlocked(i) /\ UNCHANGED misses
        /\ UNCHANGED <<now, rates, sent>>

VerifyRight(t) ==
    LET i == requests[t].id
    IN  /\ MayTry(t)
        /\ Attempts(t) <= MaxAttempts
        /\ requests' = [requests EXCEPT ![t].attempts = Attempts(t),
                                        ![t].verified = TRUE]
        /\ lockouts' = [lockouts EXCEPT ![i] = NoFailure]
        /\ misses' = [misses EXCEPT ![i] = {}]
        /\ UNCHANGED <<now, rates, sent>>

----------------------------------------------------------------------------

OtpTick ==
    /\ now < MaxTime
    /\ now' = now + 1
    /\ misses' = [i \in Ids |-> {e \in misses[i] : e[1] > now + 1 - LockoutSeconds}]
    /\ sent' = [k \in Keys |-> {e \in sent[k] : e[1] > now + 1 - Window}]
    /\ UNCHANGED <<requests, lockouts, rates>>

\* The process starts again with empty tables: lockouts and spent limits are
\* forgotten, and with them the histories of what this process allowed.
OtpRestart ==
    /\ requests' = [t \in Tokens |-> NoRequest]
    /\ lockouts' = [i \in Ids |-> NoFailure]
    /\ rates' = [k \in Keys |-> [count |-> 0, start |-> 0]]
    /\ misses' = [i \in Ids |-> {}]
    /\ sent' = [k \in Keys |-> {}]
    /\ UNCHANGED now

\* The REST routes; an embedding application may also pass no address.
RequestRoutes ==
    \E i \in Ids :
        \/ RequestWhileLocked(i)
        \/ \E p \in Ips \cup {NoKey} : RequestOverLimit(i, p) \/ RequestCode(i, p)

VerifyRoute ==
    \E t \in Tokens :
        VerifyExpired(t) \/ VerifyTooMany(t) \/ VerifyWrong(t) \/ VerifyRight(t)

StatusRoute == \E i \in Ids : is_locked(i)

OtpNext == RequestRoutes \/ VerifyRoute \/ StatusRoute \/ OtpTick \/ OtpRestart

OtpSpec == OtpInit /\ [][OtpNext]_otpVars

----------------------------------------------------------------------------

\* Between two right codes, one process compares at most MaxAttempts wrong ones
\* for an identifier in any LockoutSeconds, over all the requests made for it.
GuessesLimited == \A i \in Ids : Cardinality(misses[i]) <= MaxAttempts

\* A lockout lasts exactly until its time: no request, no verification, right
\* or wrong, shortens or extends it; only a restart does.
LockHolds ==
    [][OtpRestart \/ \A i \in Ids : Locked(i) => lockouts'[i] = lockouts[i]]_otpVars

\* In any Window seconds at most twice the limit of codes is made for an
\* identifier or for an address, by one process: two adjacent windows, each
\* spent in full.
SentAtMostTwice ==
    /\ \A i \in Ids : Cardinality(sent[i]) <= 2 * RateLimitPerId
    /\ \A p \in Ips : Cardinality(sent[p]) <= 2 * RateLimitPerIp

----------------------------------------------------------------------------
(* What the repository says and the code does not do. *)

\* otp.cpp, check_rate_limit: "sliding window per 15 min".
SentWithinLimit == \A i \in Ids : Cardinality(sent[i]) <= RateLimitPerId

\* threat-model.md: the hash is "cleared after first use".
HashCleared == \A t \in Tokens : requests[t].verified => ~requests[t].hash
=============================================================================
