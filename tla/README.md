# Verification of ezone-auth-sdk

TLA+ models of the ezone authentication SDK (`src/`), TLC instances that check
them, and TLAPS proofs of the properties that carry the most weight. Paths and
lines below are those of the repository, with `src/` standing for its root.

* [The system](#the-system): components, state, operations, what is hard
* [The models](#the-models): modules and how they correspond to the code
* [The runs](#the-runs): what TLC checks, with which bounds, and what it shows
* [The proofs](#the-proofs)
* [Where the documents and the code disagree](#where-the-documents-and-the-code-disagree)
* [Abstractions and what is not modelled](#abstractions-and-what-is-not-modelled)
* [The plan](#the-plan)

To repeat a run: `tlc -config QRLogin.cfg MCQRAuth`. To repeat a proof:
`tlapm QRAuthProofs.tla`. `PROJECT.json` lists the runs, the mutated definitions
that break each property, the source lines of every definition, the findings,
the hazards and the theorems.

## The system

ezone is a C++ library for passwordless authentication with a REST server in
front of it. The server runs a pool of request threads (the one cpp-httplib
starts with; `ServerConfig::threads` is set from `EZONE_THREADS` and read by
nobody); they share one `Auth`, one storage adapter, one rate limiter and one
object per optional login method. Nothing spans two calls: no storage
transaction, no lock, no request queue. Every hazard of the system comes from
what other requests do between two calls of one request.

| Component | State it keeps | Operations | Protected by |
|---|---|---|---|
| Auth facade (`src/auth.cpp`) | none of its own: links, challenges and session tokens carry a MAC or signature | register, login, verify, logout, reset, add/list/revoke device, recovery codes, create_session | nothing |
| Storage: memory (`src/storage_adapter.cpp`), Postgres (`src/postgres_adapter.cpp`) | users, devices, recovery hashes, WebAuthn credentials, push devices | one row or one user's rows per call | a mutex per adapter; one statement per call |
| Postgres pool (`postgres_adapter.cpp:88-140`) | queue of idle connections | acquire, release | mutex and condition variable |
| QR login (`src/qr_auth.cpp`) | sessions: status, expiry, device, address | begin, validate (scan), approve, deny, poll, complete | a mutex per method |
| Push login (`src/push_auth.cpp`) | requests: status, expiry, user, device | register device, begin, approve, deny, poll, complete, deactivate | a mutex for requests; devices are in storage |
| One-time codes (`src/otp.cpp`) | requests, lockouts, two rate limits | request, verify, is_locked | a mutex per method |
| WebAuthn (`src/webauthn.cpp`) | none; credentials are in storage | begin/complete registration and authentication; removal | nothing |
| Biometric (`src/biometric.cpp`) | set of used challenges | generate, register, verify | a mutex for the set only |
| Rate limiters (`rest/server.cpp:165-316`) | a bucket per address, or a Redis counter | allow | a mutex |
| REST handlers (`rest/server.cpp`) | none | the routes; a handler of a login method is a sequence of calls of the method, the storage and `create_session` | nothing |
| Crypto engine, crypto strategy | none | primitives, token formats, choice of algorithms | - |
| C API (`src/ezone_c.cpp`) | a thread-local error | wrappers over the facade | - |
| Email and SMS senders, start-up, language bindings | none | I/O | - |

How they interact: a handler resolves the bearer token (two storage reads), runs
the method, mirrors a device of the method in the `ez_devices` table (QR, push,
WebAuthn, biometric and OTP logins all end in a row of that table) and calls
`Auth::create_session`, which reads the row once more and signs a token. So the
device table is where all components meet; it is written by registration, reset,
add-device, push, WebAuthn, biometric and OTP handlers, and revocation in it is
what must stop every method. Before a handler runs, `guard` asks the rate limiter;
with Postgres, every storage call borrows a connection from the pool and returns it
before the next.

What makes each component correct, and what makes that hard:

* **Accounts and devices.** One account per address, a device belongs to one
  account for ever and stays revoked. Hard: look-up and insertion are separate
  calls; `complete_registration` writes back a row it read before; Postgres
  reports a conflicting insertion as success; a reset revokes device by device,
  ignoring errors.
* **Sessions.** A token accepted by `resolve_session` was good at one instant,
  though the user and the device are read in two calls.
* **Recovery codes.** A code opens one reset. Hard: a list is replaced by one
  clear and one insertion per code, and two lists may be generated at once.
* **QR.** The last word of a user decides, in time, by a device that is still
  live. Hard: a second scan re-opens a session that was approved or denied; the
  approve and complete handlers read the device table outside the mutex.
* **Push.** A token is for the account the request was made for and a device of
  it that approved. Hard: the same key can be registered for two users at once,
  and the handler mirrors it in the device table in three separate calls.
* **OTP.** Guesses are bounded over time, not only per code. Hard: three
  counters with different resets (code, identifier, address), ends of windows.
* **WebAuthn.** A counted assertion is accepted again only if something went wrong in
  between; the server by itself locks no authenticator out. Hard: the counter is compared
  with a copy of the row and written back, unconditionally, by a later call; nobody
  signed the count of a registration, and a clone may count ahead.
* **Biometric.** A challenge is good for one login. Hard: the set of used
  challenges is keyed by the string sent and pruned by time, many strings decode to one
  challenge, and the clock is read twice in one login.
* **Pool.** Every borrower gets a connection in the end; none is lost. Hard: the
  notification comes after the unlock, so a waiter may be overtaken; a statement
  throws while a connection is borrowed; a connection looks good after an outage.
* **Rate limiters.** In memory: exactly the requests an ideal token bucket admits.
  Hard: the refill is rounded down, idle buckets are erased by other addresses'
  requests. Redis: at most twice the limit in any minute. Hard: INCR and EXPIRE are
  two commands, replicas and failures come between them.

## The models

Each component has a module with one action per storage call, method or handler
step; an `MC` module with symmetry sets and initial tables; proofs in a `...Proofs`
module. `LimitProofs` holds those of `RateLimit` and of `OTP`, which count alike and
share the lemmas about it; this is why the names of `OTP` begin with `Otp` where
`RateLimit` has the same ones. Operators keep the names of the functions they
model; `PROJECT.json` ("map") gives the lines of each. A definition whose comment
begins with "Mutant" is a wrong variant of the one that follows it: `PROJECT.json`
names the property that fails when it takes its place.

| Module | Models | Extends |
|---|---|---|
| `AuthStorage` | user and device tables of both adapters, as operators that give the new table and whether the call reports success | |
| `Auth` | the facade over these tables, by concurrent threads | `AuthStorage` |
| `AuthProperties` | its properties | `Auth` |
| `AccountRegistry` | abstract specification of `Auth`: the two tables with every operation atomic | |
| `DeviceSessions` | abstract specification of `PushAuth`, `WebAuthn` and `Biometric`: devices are enrolled and revoked for good, a session is for a live device of its user | |
| `Recovery` | recovery codes | |
| `QRAuth` | `QRAuthServer` and its handlers | |
| `PushAuth` | `PushAuthServer`, its device tables and handlers | |
| `OTP` | `OTPServer` | |
| `WebAuthn` | `WebAuthnServer`, credentials and handlers | |
| `Biometric` | `BiometricAuthServer` and its handlers | |
| `ConnectionPool` | `Pool`, `PoolGuard`, `Conn` and `PostgresStorageAdapter::create` | |
| `RateLimiter` | what the limiters share: addresses, limit, minute | |
| `MemoryLimiter` | `InMemoryRateLimiter` | `RateLimiter` |
| `RedisLimiter` | `RedisRateLimiter`, by several replicas of the server | `RateLimiter` |
| `RateLimit` | the server's choice of a limiter, and `guard` | `MemoryLimiter`, `RedisLimiter` |
| `TokenBucket` | abstract specification of `MemoryLimiter`: an ideal bucket, nothing rounded | |

**Threads.** Where an operation makes several calls that others can come
between, `pc[t]` names the call thread `t` makes next and `loc[t]` holds the
locals of the operation that are still needed. The step that makes the last call
also returns (`Return(t)`). A method that runs under one mutex from beginning to
end is one action.

**Errors.** `StorageMayFail` lets a storage call throw, which adapters report as
a failed `Result`; the action then has a disjunct that does what the code does
on a failure, which often is nothing at all. A reply that is lost after the
database applied a statement is, to the other requests, the applied statement
followed by a failure of the next step; a client that retries is a client that
makes the call again, and every action may be repeated.

**Restart.** The request threads are cut off wherever they are; what is in memory
is emptied; tables, keys and hence tokens survive (`main.cpp` loads the keys from
the environment). With the memory adapter a restart is the initial state again,
so it is modelled for the tables of Postgres.

**Time.** `now` counts seconds and `Tick` advances it at any moment, also between
the steps of a request. Comparisons are those of the code, `>` or `>=` included.

**Tokens and links.** A link, challenge or token is a record of what was signed
into it: purpose, user, device, expiry. Its MAC or signature is taken to verify for
that and nothing else. What the issuer does not record (that a link was used), no
model records either; history variables count it for the properties.

The correspondence, module by module:

* `Auth`. `grants` are the links and challenges handed out (`issue_magic`,
  `create_challenge`), `sessions` the tokens. `begin_registration` is
  `find_new_email`, then `create_user`; `complete_registration` reads the user,
  writes it back active (`update_user`), and adds the device; `resolve_session`
  is the user read and the device read; `complete_reset` lists the devices,
  revokes them one call at a time and adds the new one. Each of these labels is a
  value of `pc` and an action. `RegisterRoutes` to `DeviceRoutes` compose the
  REST handlers out of them. `otp_login` is what `/auth/otp/verify` does after
  `OTPServer::verify` has accepted, and used up, a code: `FindOtpEmail`,
  `GetOtpDevice`, `AddOtpDevice`, whose result is dropped, and `create_session`. The
  device it uses, `OtpDevice[u]`, has an id derived from the user's.
* `Recovery`. `Clear`, `Store` (once per code), `Consume`; `working` and
  `replaced` are histories that say which list should be good.
* `QRAuth`. `sess` is `sessions_`. `approve_handler`/`approve_qr` and
  `complete_qr_auth`/`create_session` are the two-step handlers; `decision`
  is the history of what users said last.
* `PushAuth`. `req` is `requests_`, `push` the push device table, `devices` the
  device table. `complete_push_auth` is followed by `GetDevice`, `AddDevice` and
  `CreateSession`, the handler's calls.
* `OTP`. `requests`, `lockouts` and `rates` are the three maps; `misses` and
  `sent` are histories over one life of the process, of numbered events as in
  `RedisLimiter` (`EveryEventCounted`). A key of `rates` is an
  identifier or an address.
* `WebAuthn`. `creds` and `devices` are the tables; `counter` belongs to the
  authenticators. An assertion may carry any count (`Assertions`): the authenticator
  signs those up to its counter, a copy of its key any other; and a registration may
  claim any, since no attestation is verified. `complete_authentication` reads the
  credentials and decides, then come `UpdateCount`, `GetDevice`, `AddDevice`,
  `CreateSession`. The histories are `accepted`, `lapses`, the times the comparison of
  counts was bypassed or its result lost, and `ahead`, the counts the server took that
  were ahead of the authenticator.
* `Biometric`. A client sends a string, a challenge in one of its `Spellings`:
  `base64url_decode` passes over foreign characters and the spare bits of the last one,
  so it maps many strings to one challenge, whose MAC and time are checked. `used` is
  `used_challenges_`, keyed by the string. `verify_biometric_response` checks,
  `ReadClock` reads the clock again, `consume_challenge_once` takes the mutex,
  prunes and enters.
* `ConnectionPool`. `idle` is the queue; `status` says of a connection what
  `PQstatus` would, or that the server has dropped it and nobody has noticed.
  `Acquire` is what happens under the mutex, `Reset` what comes after it; `Release`
  pushes and unlocks, `Notify` is the `notify_one` behind it. `create` is `Open`, for
  each connection, and the schema statement under a guard.
* `MemoryLimiter`. `allow` is one action: it holds its mutex throughout. `buckets`
  is `buckets_`, `lastPrune` is `last_prune_`; instants are ages, so the clock needs
  no bound. `Credit` is the refinement mapping: tokens plus what has been earned
  since the last refill.
* `RedisLimiter`. One action per command; a replica has one request at a time with
  Redis, since it holds its mutex. `counted` is a history of the requests let through
  by their count in the last minute, each as its age and its number among those of
  the same tick: an element of its own (`EveryRequestCounted`).

## The runs

| Run | Module | Properties | Instance |
|---|---|---|---|
| `AuthDevices` | `MCAuth` | `SessionNamesOwnDevice`, `ResetRevokedListed`, `OnlyOwnerRevokes`, `SpentCodeLogsIn` | memory adapter; 2 accounts with a key each, a further key and the two OTP devices, 2 threads, one link; resets, also of an unknown address, revocations, logins by key and OTP, `create_session` |
| `AuthPostgres` | `MCAuth` | `EmailUnique`, `ImplementsRegistry`, `AcceptedSessionWasLive`, `AccountChangesNeedLink` | Postgres with failing statements and restarts; 3 user ids, one of them the nil UUID, 2 addresses, 2 keys, 2 links that expire after a second, clock to 1 |
| `Recovery` | `MCRecovery` | `CodeOpensOneReset`, `ReplacedCodesDead`, `ListWorks`, `CodesBounded` | one account, lists of 2, 5 codes, 2 threads |
| `QRLogin` | `MCQRAuth` | `TypeOK`, `LoginFollowsLastDecision`, `RevokedApproverGetsNoLogin`, `ApproverIsKept`, `SessionsEnd` | one session, 2 phones, 2 threads, expiry after a second, clock to 2 |
| `PushLogin` | `MCPushAuth` | `TokenMatchesRequest`, `DuplicateIsReported`, `ImplementsDeviceSessions`, `DecisionStands`, `PushKeyKeepsOwner` | one request, 2 users, 2 keys, 2 threads |
| `OTP` | `MCOTP` | `OtpTypeOK`, `GuessesLimited`, `SentAtMostTwice`, `LockHolds` | one identifier, one address, 3 codes, window 2, clock to 9 |
| `WebAuthn` | `MCWebAuthn` | `TokenNamesOwnCredential`, `LockOutHasCause`, `ReplayNeedsLapse`, `ImplementsDeviceSessions` | one credential, with and without a counter, counts to 2, 2 users, 2 threads, lapses counted to 2 |
| `Biometric` | `MCBiometric` | `TypeOK`, `StringUsedOnceWhileFresh`, `ImplementsDeviceSessions` | 2 challenges in 2 spellings each, one key, 2 users, 2 threads, a challenge fresh for a second, clock to 2 |
| `ConnectionPool` | `MCConnectionPool` | `NoConnectionLost`, `NoLostWakeup`, `CallsReturn`, `OutagePasses` | 4 threads, 2 connections, outages at any time |
| `RateLimit` | `MCRateLimit` | `AtMostTwicePerMinute`, `ImplementsTokenBucket`, `LimitResumes` | 2 requests in a minute of 3 ticks; in memory 2 addresses, pruning after 15 and 30 ticks; Redis with 2 replicas, a back-off of 2 ticks |

What they show is said in the comment above each property. The two violation
runs are in [a section of their own](#where-the-documents-and-the-code-disagree).

**Why the bounds are enough.** Each property relates at most two requests, or a
request and one account, device or credential that another account wants too. Two
threads give every interleaving of two requests, and with a repeat of either,
since a thread that returned may begin again; two users and one contested key,
or three keys where a reset has to leave one behind, give every conflict. Where a
property speaks of lists or of chains, the instance is one larger: five codes for
lists of two allow two overlapping lists and a further one. Clocks run one or two
past the longest lifetime, so that an action can come before, at and after every
boundary; in `RateLimit` instants are ages that saturate, so time has no end, and
a minute of three ticks for two requests makes a refill that does not divide: after
one tick there is none, after two a token and a third, and a fraction is lost when
it comes. Two connections for four threads give one thread the chance to overtake
another that waits while a third notifies. In `OTP`, whose lockout, code and window last two seconds each, the clock
runs to 9, past a lockout, what may follow it and another one, and the third code
is there to be asked for after the first lockout. Lifetimes of
zero or one second do not lose behaviours: a lifetime only matters through its
end, and `Tick` may hold still as long as it likes before it. Counters in history
variables stop at 2, the first value that breaks a property about one; `WebAuthn` counts
to `MaxLapses` lapses and to one acceptance more than `MaxLapses` lapses allow, so that
the first lapses are seen to pay for one acceptance each. A bound on
ids (`Nonces`, `Codes`, `Sids`, `Reqs`, `Tokens`, `Challenges`) makes begin actions
impossible when it is used up, so `QRLogin`, `PushLogin` and `BiometricDocSingleUse`
do not check deadlock; everywhere else a thread can always go on.

**Symmetry** is used on ids that nothing compares but for equality, and in no run
that checks liveness. In the `MCAuth` instances the initial tables name users,
addresses and devices, so only threads and nonces are symmetric.

**Fairness.** `QRLogin` checks liveness under `FairSpec`: weak fairness of
`Tick` (time passes), of the second step of a handler (a started request goes on:
nothing in it blocks but a mutex that is held for a few statements) and of
`poll_qr_status` (`qr_auth.h:78` says of it that the desktop "calls this
repeatedly"). `SessionsEnd` needs all three: a session expires when somebody looks
at it, there is no timer. No fairness is assumed of phones or of the desktop's
other calls. `ConnectionPool` assumes weak fairness of each thread that is in a call
and not blocked: the mutex is held for a few instructions and libpq returns, with an
error if need be. No fairness of the database, of wakeups without a cause, or of
new calls; a waiter has no fairness until it is notified, so `CallsReturn` rests on
`Notify` alone. It speaks of runs in which no new calls come after a while: a condition
variable is not a queue, and a waiter that is overtaken each time it wakes up may
starve under an endless load. `RateLimit` assumes that the clock goes on and that a
replica's thread gets on with its command: the client library returns, with a reply
or without (see `RedisDocSelfHealing` and the hung Redis below). All other properties
are safety properties of `Spec`.

## The proofs

Checked by TLAPS for every value of the constants the assumptions allow: any
number of threads, users, keys, links, and any lifetimes.

| Theorem | Statement |
|---|---|
| `AuthProofs!TypeCorrect` | `Spec => []TypeOK` |
| `AuthProofs!NoDuplicateAccounts` | `Spec => []EmailUnique` |
| `AuthProofs!RefinesRegistry` | `Spec => ImplementsRegistry`: `Auth` implements `AccountRegistry` |
| `AuthProofs!AcceptanceIsConsistent` | `Spec => AcceptedSessionWasLive` |
| `AuthProofs!SpentCodesLogIn` | `Spec => SpentCodeLogsIn` |
| `AuthProofs!OwnersRevoke` | `Spec => OnlyOwnerRevokes` |
| `AuthProofs!LinksChangeAccounts` | `Spec => AccountChangesNeedLink` |
| `AuthProofs!ListedAreRevoked` | `StorageMayFail = FALSE` gives `Spec => []ResetRevokedListed` |
| `AuthProofs!SessionsAreOwn` | `Adapter = "memory"` gives `Spec => []SessionNamesOwnDevice` |
| `AuthProofs!TablesOnlyGrow` | `Spec => [][TablesGrow]_vars` |
| `AuthProofs!RegistrationLinksHaveUsers` | `Adapter = "memory"` gives `Spec => []RegistrationLinkHasUser` |
| `RecoveryProofs!TypeCorrect` | `Spec => []TypeOK` |
| `RecoveryProofs!CodesAreSingleUse` | `Spec => []CodeOpensOneReset` |
| `RecoveryProofs!OldCodesDie` | `StorageMayFail = FALSE` gives `Spec => []ReplacedCodesDead` |
| `RecoveryProofs!ShownListWorks` | `Spec => []ListWorks` |
| `RecoveryProofs!StoredCodesBounded` | `StorageMayFail = FALSE` and finitely many threads give `Spec => []CodesBounded` |
| `QRAuthProofs!TypeCorrect` | `Spec => []TypeOK` |
| `QRAuthProofs!LoginsAreApproved` | `Spec => LoginFollowsLastDecision` |
| `QRAuthProofs!RevokedGetsNoLogin` | `Spec => RevokedApproverGetsNoLogin` |
| `QRAuthProofs!ApproverKept` | `Spec => ApproverIsKept` |
| `PushAuthProofs!TypeCorrect` | `Spec => []TypeOK` |
| `PushAuthProofs!LoginsMatchRequests` | `Spec => []TokenMatchesRequest` |
| `PushAuthProofs!PushKeysKeepOwner` | `Spec => PushKeyKeepsOwner` |
| `PushAuthProofs!DecisionsStand` | `Spec => DecisionStands` |
| `PushAuthProofs!DuplicatesAreReported` | `Adapter = "memory"` gives `Spec => []DuplicateIsReported` |
| `PushAuthProofs!DeviceSessionsImplemented` | `Spec => ImplementsDeviceSessions` |
| `WebAuthnProofs!TypeCorrect` | `Spec => []TypeOK` |
| `WebAuthnProofs!TokensAreOwn` | `Spec => []TokenNamesOwnCredential` |
| `WebAuthnProofs!LockOutsHaveCauses` | `Spec => []LockOutHasCause` |
| `WebAuthnProofs!ReplaysNeedLapses` | `Spec => []ReplayNeedsLapse` |
| `WebAuthnProofs!DeviceSessionsImplemented` | `Spec => ImplementsDeviceSessions` |
| `BiometricProofs!TypeCorrect` | `Spec => []TypeOK` |
| `BiometricProofs!StringsAreUsedOnceWhileFresh` | `Spec => []StringUsedOnceWhileFresh` |
| `BiometricProofs!DeviceSessionsImplemented` | `Spec => ImplementsDeviceSessions` |
| `BiometricProofs!LoginsAreOwn` | sessions name the owner of their key, and a revoked key opens none |
| `ConnectionPoolProofs!TypeCorrect` | `Spec => []TypeOK` |
| `ConnectionPoolProofs!ConnectionsKept` | `Spec => []NoConnectionLost` |
| `ConnectionPoolProofs!WakeupsKept` | `Spec => []NoLostWakeup` |
| `LimitProofs!MemoryTypeCorrect` | `Spec => []TypeInv` |
| `LimitProofs!TokenBucketImplemented` | `Spec => ImplementsTokenBucket`: `MemoryLimiter` implements `TokenBucket` |
| `LimitProofs!TypeCorrect` | `Spec => []TypeOK` of `RateLimit` |
| `LimitProofs!BurstsBounded` | `Spec => []AtMostTwicePerMinute` |
| `LimitProofs!EveryRequestCounted` | in every state a counted request adds one element to `counted` |
| `LimitProofs!OtpTypeCorrect` | `OtpSpec => []OtpTypeOK` |
| `LimitProofs!CodesLimited` | `OtpSpec => []SentAtMostTwice` |
| `LimitProofs!LocksHold` | `OtpSpec => LockHolds` |
| `LimitProofs!GuessesBounded` | `LockoutSeconds > 0` gives `OtpSpec => []GuessesLimited` |
| `LimitProofs!EveryEventCounted` | in every state a code made, or a wrong one compared, adds one element to its history |

Every proof has the same course: an inductive invariant `IInv`, a lemma per
action that it is kept, the property from `IInv`, and one temporal step.

* **Auth.** `IInv` adds to the types that addresses are unique, that every session
  token names a device of the table, and, for each thread, what it learnt in
  earlier calls that is still true (`ThreadInv`): the user it read exists, the row
  it will write back has that user's address, the device it read was registered.
  This is where interleaving is dealt with: the step of another thread keeps
  `ThreadInv(t)` because tables only grow (`TablesGrow`: an address, an owner and a
  revocation are never taken back; lemma `Frame`). Without it neither refinement
  nor acceptance is inductive: a thread between two calls could hold anything.
  The refinement maps both tables to themselves; a step is an atomic operation of
  `AccountRegistry` or leaves them alone. `SpentCodesLogIn` adds what an OTP login
  has learnt (`OInv`): its account exists and its device row can only be the account's
  own, because `OtpDevice` is injective and no operation registers such an id as a key.
  `Authority` says on whose behalf a thread acts: a thread that works from a link still
  holds it, of the right kind and for its account (`HoldsLink`), and the devices it is to
  revoke, or listed for a reset, are its account's, each revoked or still to be revoked
  (`OwnTargets`). The properties about links and revocations compare a step with what
  the thread checked calls before, so none is inductive without it. `ListedAreRevoked`
  assumes that no storage call fails because `complete_reset` ignores such a failure;
  `SessionsAreOwn` and `RegistrationLinksHaveUsers` assume the memory adapter because
  Postgres reports a conflicting insertion as success. These are disagreements of the
  table below otherwise.
* **Recovery.** `Ledger`: codes in lists and tables were drawn, no two users share a
  code, and a code that opened a reset is in no table. That a code was used cannot
  be read off the table alone, hence the histories in the invariant. `OldCodes`: what a
  call is to replace is in no other user's table before its clear, and in no table after
  it, as codes are drawn once. `Alone`: while a list is being stored and no other call for
  the account has begun since, what is stored of it is in the table, and its codes cannot
  be presented yet. `Accounted` bounds the table: each stored code can be given a place of
  its own, a thread and a position in its list. The state does not say which thread stored
  a code, so the invariant says that such places exist (`AllAccounted`), and each step
  shows how they go on: a call empties the account's table before it takes its thread's
  places anew.
* **QR.** `ApprovedByDecision`: the status says Approved only of the device that
  approved last with no denial since.
* **Push.** `Requests` ties the status of a request to the device that decided and
  that device's owner, `Completing` says that a login under way is one that was
  approved, `Issued` that every token was; owners never change (`Preserved`).
  `RegisteredRow`: whoever was told that a key is registered owns its row; on Postgres it
  is false.
* **WebAuthn.** `Enrolled`: the user a thread carries through a login registered the
  credential, even after the credential was removed and registered by another user.
  `AheadKnown`: every stored count and every count on its way to storage that is ahead
  of the authenticator is in `ahead`; the stored counts alone are not inductive, as a login
  in flight writes what it read calls ago, perhaps to a row stored since. `RepeatsPaidFor`:
  an assertion was accepted no more often than there were lapses, or once more, and then it
  cannot pass the comparison again before another lapse (`PaidFor`, `CanStillPass`).
* **Biometric.** `UsedOK`: a string that was used is in the set until a time at which
  its challenge is no longer fresh. `ThreadOK` bounds the clock a thread will prune the set with,
  read before it has the mutex: it is not ahead of the present, so the pruning
  takes nothing out that is fresh.
* **Device sessions.** The mapping takes the tables as they are and the sessions opened.
  A handler's step is an abstract one or a stutter: `AddDevice` enrols or finds the row
  taken, `CreateSession` is the one that reads the row and opens the session.
* **Pool.** `PoolInv` gives each label the connections its thread may hold;
  `NoLostWakeup` is then inductive with a count of the threads on their way.
* **Token bucket.** The lemmas compute `Credit` across a rounded refill, a pruning and a
  tick (`Multiples`, `Division`, `CreditBelow`); `TypeInv` says that a bucket is never
  seen full, which is why an emptied one is never taken for a new one.
* **Redis.** `TwoKeys`: the requests of the last minute are those that the present key
  counted and those of the key before it. The first are no more than the counter and than
  the limit; the second are no more than the limit, and each will have aged past a
  minute when the present key expires, whatever late `EXPIRE` has put that off. Which
  requests belong to which key is not in the state, so the invariant says that some set
  of them does (`SinceKey`).
* **OTP.** A step changes the lockout of an identifier and the bucket of a key in one
  of few ways (`LockStep`, `RateStep`, lemma `Shape`); what follows is per identifier and
  per key. `Guesses`: the misses of the last lockout period are no more than the failures
  counted, and while an entry has an end, all of them are at least a lockout older than
  that end, so none is left when the entry is erased. `Codes`: as for Redis, the codes of a
  window are the present bucket's and those of the one before it.

The assumptions are the `...Assumption` of each module: types of the constants,
that `None` is no id, and for `Auth` that the tables the server starts from have
unique addresses and no device of a missing account (the schema's `UNIQUE` and
`REFERENCES`). `Auth` also assumes of `OtpDevice` that
two users' ids are not hashed to one, nor to the id of a registered key.
`GuessesBounded` assumes a lockout that has a length: one of 0 seconds locks nobody out,
and its failures are forgotten as soon as they are looked at. `StoredCodesBounded` assumes
that clearing a list does not fail, as its run does. Unless the table says otherwise the
theorems hold for both adapters, with failing storage calls.

Every safety property of the passing runs is proved. Only model-checked are the four
liveness properties `SessionsEnd`, `CallsReturn`, `OutagePasses` and `LimitResumes`, as
liveness under fairness and `ENABLED` are out of the prover's reach here, and the
statements of the documents that the code does not keep, which are false under the
conditions given with them.

## Where the documents and the code disagree

Two runs expect a violation; `PROJECT.json` quotes the statements in "findings".

* `BiometricDocSingleUse` / `SingleUse`: a challenge is good for a second login when
  the first used it in the second it was issued and the second is checked at the
  last fresh second and entered in the next: the first entry is pruned by then.
* `RedisDocSelfHealing` / `SelfHeals`: the comment calls a key left without an expiry
  "a rare, self-healing edge case"; only the INCR that returns 1 is followed by an
  EXPIRE, so nothing heals it: the address is refused by every replica from the moment
  the count passes the limit until Redis loses the key.

Others were found with the same models. The property is stated in the module; the
base instance with the change given violates it. They are not runs of the project,
to keep it short.

| Statement | Property | Instance | What happens |
|---|---|---|---|
| `auth.h:231` "If AuthConfig::revoke_all_on_reset is true, all existing devices are revoked" | `ResetRevokesOthers` | `AuthDevices`, `StorageMayFail = TRUE` | a failing `get_devices` or `revoke_device` is ignored and the reset hands out a session with the old devices still live |
| `qr_auth.h:82` "once status is Approved, call this to get the session" | `ApprovalStands` | `QRLogin` | a second scan takes the approval back in between (and re-opens a denied session) |
| `auth.h:186` "Returns an error if the email is already registered" | `RegistrationLinkHasUser` | `AuthPostgres` | `create_user` ignores the conflict (`ON CONFLICT DO NOTHING`) and reports success: the loser of a race gets a link for an account that is not there |
| `docs/docs/intro.md:19` "one-time tokens" | `RegistrationLinkOneTime` | `AuthPostgres` | a registration link is redeemed again with another key |
| `README.md:267` "Challenges are single-use" | `ChallengeSingleUse` | `AuthDevices` | nothing marks a login challenge as used |
| `auth.h:264` "requires an active session from another device" | `RevokedFromAnotherDevice` | `AuthDevices` | a session revokes its own device |
| `security/overview.md:49` a token "remains valid until it naturally expires" after its device is revoked | `RevokedDeviceTokenStaysValid` | `AuthDevices` with `verify_session` in `Ops` | `verify_session` refuses it |
| `auth.h:191` "Returns an active session on success" | `RegistrationSessionIsActive` | `AuthPostgres` | a key of another account: `add_device` reports success and the session is for a device of somebody else |
| `auth.cpp:629` "Clear any existing codes" | `ReplacedCodesDead` | `Recovery`, `StorageMayFail = TRUE` | a failed clear is ignored |
| `DEVELOPER_GUIDE.md:254` "One-time use" (QR) | `OneTimeUse` | `QRLogin` | an approved session is completed again |
| `qr_auth.cpp:457` "first 3 octets (same /24 subnet)" | `ScannedFromSameSubnet` | `QRLogin`, `Ips <- ThreeNetworks` | `get_subnet` keeps two octets |
| `qr_auth.cpp:179` "called periodically" | `ExpiredAreRemoved` | `QRLogin` | only `begin_qr_auth` calls it |
| `push_auth.cpp:279` "Check for duplicate" | `DuplicateIsReported` | `PushLogin`, `Adapter = "postgres"` | the loser of two racing registrations is told it succeeded |
| `security/overview.md:15` single-use, push | `OneLoginPerRequest` | `PushLogin` | an approved request is completed again |
| `otp.cpp:167` "sliding window per 15 min" | `SentWithinLimit` | `OTP` | the window is fixed: twice the limit at the seam (`SentAtMostTwice` is what holds) |
| `threat-model.md:74` hash "cleared after first use" | `HashCleared` | `OTP` | the hash stays until the code expires |
| `webauthn.cpp:815` "We enforce this" | `AcceptedOnce` | `WebAuthn` | two overlapping logins present one assertion and both read the old count; `ReplayNeedsLapse` is what holds |
| `biometric.cpp:95` the set is there lest a captured pair "be replayed repeatedly until the challenge's TTL expires" | `SingleUseWhileFresh` | `Biometric` | the set is keyed by the string and the check decodes it: another spelling of a used challenge passes (`StringUsedOnceWhileFresh` is what holds) |

Restarts forget OTP lockouts and rate limits, the in-memory buckets and the used
biometric challenges; the documents do not say so either way. Read off the code,
without a property:

* `webauthn.cpp:690` says that the authenticator data proves possession of the key; no
  signature is verified at registration, and the count it claims is stored as sent. A
  count ahead of the authenticator's locks it out, as does a clone that counts ahead:
  `LockOutHasCause` says that nothing else does.
* `auth.cpp:564` calls the link for an unknown address a dummy. When the generator fails it
  is a link for the nil UUID, and an account that got that id the same way can be reset
  with it.
* `rest/server.cpp:263` says a hung Redis "must never stall request handling" for more
  than a second. The second bounds the connect; AUTH, INCR and EXPIRE have no timeout
  and run with the limiter's mutex held, so a Redis that accepts and does not answer
  stops every guarded request of the replica.
* A wrong Redis password makes every request connect, fail AUTH and go through: that
  path alone sets no back-off (`rest/server.cpp:280-284`).
* `rest/server.h:29` and `security/overview.md:42` say the limit applies to every
  `/auth/*` endpoint; `/auth/methods` does not call `guard`.
* A reset with `revoke_all_on_reset`, or a revocation by the user, also revokes the
  OTP device; nothing enrols it again, so from then on a right code is answered with
  success and without a token. `SpentCodeLogsIn` names the case.

## Abstractions and what is not modelled

* Issuing a token or link is part of the step of the storage call before it:
  it touches no shared state. A failing random generator is a disjunct that
  returns with an error, except in `generate_uuid`, which then returns the nil UUID
  (`NilUser`): the first registration that draws it gets the account, later ones are
  refused in memory and get a link for that same account on Postgres.
* Look-ups that can only say what an earlier step of the same request established
  (a user row is never deleted) have no action. Usernames are not modelled; the
  handlers identify accounts by address.
* `list_devices`, `get_webauthn_credentials` for listing, `/auth/methods` and
  `/health` change no state. `refresh_session` has the body of `verify_session`
  and issues a new token, as `create_session` does; `logout` without
  `revoke_device` changes nothing.
* Clocks never go back. `now - window_start` in `otp.cpp:173` is unsigned and
  `biometric.cpp:180` tolerates challenges from the future: neither is exercised.
* `OTP` assumes `MaxAttempts >= 1`.
* Payload formats (JSON, CBOR, COSE, base64url, the encryption of QR payloads) are
  abstracted to what is signed or known. That many strings decode to the same bytes
  matters where a string is a key of a table: the used biometric challenges, where it is
  modelled. A phone signs a QR challenge only when it was given it; an assertion is its
  credential and count.
* A limit of 0 switches the limiter off; the `int` of the refill, which overflows
  for an address that was idle for months at a high limit, keeps its mathematical
  value. `pool_size <= 0` makes `create` wait for ever and is excluded.
* Expired QR sessions are erased only when another begins; the login is judged when
  `complete_qr_auth` runs, and a denial after that comes too late; a push device that is
  deactivated after it approved still logs in. The code promises nothing else.
* Not modelled: crypto strategy (pure), the C API and the language bindings (wrappers
  without state), email and SMS senders (I/O), start-up.
  The push sender is called with the mutex held; what it does is the
  application's.

## The plan

In order of importance; the first eleven are done.

1. `AuthStorage`, `Auth`, `AuthProperties`, with `AccountRegistry` as the abstract
   specification and the refinement proved
2. `Recovery`
3. `QRAuth`, with its liveness
4. `PushAuth`
5. `OTP`
6. `WebAuthn`
7. `Biometric`
8. the login part of `/auth/otp/verify`, in `Auth`, where its tables are
9. `ConnectionPool`, with its liveness
10. `RateLimit`, with `TokenBucket` as the abstract specification of the in-memory
    limiter and the refinement proved
11. `DeviceSessions`, which `PushAuth`, `WebAuthn` and `Biometric` implement
12. `CryptoStrategy` as operators against the documented profiles

Theorems to prove next: what a QR approval promises as an abstract specification that
`QRAuth` implements, and one of `OTP` in which a failure is a timed event and nothing is
counted; the orders in which `ConnectionPool` hands connections out are left to TLC.
