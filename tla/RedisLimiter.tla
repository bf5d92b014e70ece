---------------------------- MODULE RedisLimiter ----------------------------
(***************************************************************************)
(* RedisRateLimiter (src/rest/server.cpp): the replicas of the server      *)
(* count the requests of an address in one key of Redis.  A replica holds  *)
(* its own mutex throughout allow, so it has one request at a time with    *)
(* Redis; AUTH, INCR and EXPIRE are separate commands, between which other *)
(* replicas, the clock and failures interleave.                            *)
(*                                                                         *)
(* A connection that Redis dropped looks usable until it is next used.     *)
(* Redis and its client library are external: a command on a dropped       *)
(* connection has no reply, and Redis may fail after it has executed INCR  *)
(* and before it replies.  The counter stops counting above Limit, where   *)
(* the code does the same whatever it is.                                  *)
(***************************************************************************)
EXTENDS RateLimiter, FiniteSets

CONSTANTS
    Replicas,  \* server processes that share the Redis
    Backoff,   \* ticks in the 5 seconds between two attempts to connect
    None

ASSUME RedisAssumption ==
    /\ Backoff \in Nat
    /\ None \notin Addrs

VARIABLES
    redis,    \* "up" or "down"
    counter,  \* address -> the integer at its key, 0 when there is no key
    ttl,      \* address -> ticks until its key expires, NoTtl when it does not
    conn,     \* replica -> its connection, ctx_
    wait,     \* replica -> ticks until next_retry_at_
    pc, addr, \* replica -> the command it is at, and for which address
    counted   \* history: address -> requests let through by their count in the
              \*          last Minute ticks; a request is <<its age, a number>>

redisVars == <<redis, counter, ttl, conn, wait, pc, addr, counted>>

NoTtl == 0

RedisTypeOK ==
    /\ redis \in {"up", "down"}
    /\ counter \in [Addrs -> 0..Limit + 1]
    /\ ttl \in [Addrs -> 0..Minute]
    /\ conn \in [Replicas -> {"none", "open", "dropped"}]
    /\ wait \in [Replicas -> 0..Backoff]
    /\ pc \in [Replicas -> {"idle", "auth", "incr", "expire"}]
    /\ addr \in [Replicas -> Addrs \cup {None}]
    /\ counted \in [Addrs -> SUBSET ((0..Minute - 1) \X Nat)]

Nothing == [a \in Addrs |-> {}]

RedisInit ==
    /\ redis = "up"
    /\ counter = [a \in Addrs |-> 0]
    /\ ttl = [a \in Addrs |-> NoTtl]
    /\ conn = [r \in Replicas |-> "none"]
    /\ wait = [r \in Replicas |-> 0]
    /\ pc = [r \in Replicas |-> "idle"]
    /\ addr = [r \in Replicas |-> None]
    /\ counted = Nothing

Goto(r, label) == pc' = [pc EXCEPT ![r] = label]

Answer(r) == Goto(r, "idle") /\ addr' = [addr EXCEPT ![r] = None]

\* One more request of this tick, and the requests a tick later.
OneMore(reqs) == reqs \cup {<<0, Cardinality({q \in reqs : q[1] = 0})>>}

Aged(reqs) == {<<q[1] + 1, q[2]>> : q \in {q \in reqs : q[1] + 1 < Minute}}

Count(a) == counted' = [counted EXCEPT ![a] = OneMore(@)]

\* The connection of r is given up, and no other is tried for five seconds.
BackOff(r) ==
    /\ conn' = [conn EXCEPT ![r] = "none"]
    /\ wait' = [wait EXCEPT ![r] = Backoff]

Dropped == [r \in Replicas |-> IF conn[r] = "open" THEN "dropped" ELSE conn[r]]

----------------------------------------------------------------------------
(* allow.  A request that fails open is let through uncounted.             *)

Connected(r, a) ==
    /\ conn[r] # "none"
    /\ Goto(r, "incr")
    /\ addr' = [addr EXCEPT ![r] = a]
    /\ UNCHANGED <<conn, wait>>

Connect(r, a) ==
    /\ conn[r] = "none" /\ wait[r] = 0
    /\ redis = "up"
    /\ conn' = [conn EXCEPT ![r] = "open"]
    /\ Goto(r, "auth")
    /\ addr' = [addr EXCEPT ![r] = a]
    /\ UNCHANGED wait

ConnectFails(r) ==
    /\ conn[r] = "none" /\ wait[r] = 0
    /\ redis = "down"
    /\ BackOff(r)
    /\ UNCHANGED <<pc, addr>>

\* Mutant: a request during the wait starts the wait again.
FailsOpen_rearmed(r) ==
    /\ conn[r] = "none" /\ wait[r] > 0
    /\ BackOff(r)
    /\ UNCHANGED <<pc, addr>>

FailsOpen(r) ==
    /\ conn[r] = "none" /\ wait[r] > 0
    /\ UNCHANGED <<conn, wait, pc, addr>>

\* allow up to ensure_connected, or to the AUTH in it.
RedisAllow(r, a) ==
    /\ pc[r] = "idle"
    /\ Connected(r, a) \/ Connect(r, a) \/ ConnectFails(r) \/ FailsOpen(r)
    /\ UNCHANGED <<redis, counter, ttl, counted>>

\* The password is right, so AUTH fails when there is no reply: then the next
\* request may connect at once.
Auth(r) ==
    /\ pc[r] = "auth"
    /\ \/ /\ conn[r] = "open"
          /\ Goto(r, "incr")
          /\ UNCHANGED <<conn, addr>>
       \/ /\ conn[r] = "dropped"
          /\ conn' = [conn EXCEPT ![r] = "none"]
          /\ Answer(r)
    /\ UNCHANGED <<redis, counter, ttl, wait, counted>>

Increment(a) ==
    counter' = [counter EXCEPT ![a] = IF @ > Limit THEN @ ELSE @ + 1]

\* What allow does with the count that INCR returns.
WithCount(r, a) ==
    /\ IF counter'[a] <= Limit THEN Count(a) ELSE UNCHANGED counted
    /\ IF counter'[a] = 1 THEN Goto(r, "expire") /\ UNCHANGED addr ELSE Answer(r)

Incr(r) ==
    LET a == addr[r]
    IN  /\ pc[r] = "incr"
        /\ \/ /\ conn[r] = "open"
              /\ Increment(a)
              /\ WithCount(r, a)
              /\ UNCHANGED <<conn, wait>>
           \/ /\ conn[r] = "dropped"
              /\ BackOff(r)
              /\ Answer(r)
              /\ UNCHANGED <<counter, counted>>
        /\ UNCHANGED <<redis, ttl>>

\* Redis counts the request and fails before it replies.
IncrReplyLost(r) ==
    /\ pc[r] = "incr" /\ conn[r] = "open"
    /\ Increment(addr[r])
    /\ redis' = "down"
    /\ conn' = [Dropped EXCEPT ![r] = "none"]
    /\ wait' = [wait EXCEPT ![r] = Backoff]
    /\ Answer(r)
    /\ UNCHANGED <<ttl, counted>>

\* Mutant: the argument is taken for the shortest unit of time.
Expires_soon(a) == ttl' = [ttl EXCEPT ![a] = IF counter[a] = 0 THEN NoTtl ELSE 1]

Expires(a) == ttl' = [ttl EXCEPT ![a] = IF counter[a] = 0 THEN NoTtl ELSE Minute]

\* EXPIRE fails quietly; the context remembers the error, so the next request
\* connects again, without a wait.
Expire(r) ==
    LET a == addr[r]
    IN  /\ pc[r] = "expire"
        /\ \/ /\ conn[r] = "open"
              /\ Expires(a)
              /\ UNCHANGED conn
           \/ /\ conn[r] = "dropped"
              /\ conn' = [conn EXCEPT ![r] = "none"]
              /\ UNCHANGED ttl
        /\ Answer(r)
        /\ UNCHANGED <<redis, counter, wait, counted>>

----------------------------------------------------------------------------
(* The clock and failures.                                                 *)

\* Expiry removes the key.
RedisTick ==
    /\ counter' = [a \in Addrs |-> IF ttl[a] = 1 THEN 0 ELSE counter[a]]
    /\ ttl' = [a \in Addrs |-> IF ttl[a] = NoTtl THEN NoTtl ELSE ttl[a] - 1]
    /\ wait' = [r \in Replicas |-> IF wait[r] = 0 THEN 0 ELSE wait[r] - 1]
    /\ counted' = [a \in Addrs |-> Aged(counted[a])]
    /\ UNCHANGED <<redis, conn, pc, addr>>

\* A replica ends, in the middle of allow or not, and is started again.
ReplicaRestart(r) ==
    /\ conn' = [conn EXCEPT ![r] = "none"]
    /\ wait' = [wait EXCEPT ![r] = 0]
    /\ Answer(r)
    /\ UNCHANGED <<redis, counter, ttl, counted>>

RedisFails ==
    /\ redis = "up"
    /\ redis' = "down"
    /\ conn' = Dropped
    /\ UNCHANGED <<counter, ttl, wait, pc, addr, counted>>

\* With the keys it had, or with none; the history is of the keys it has.
RedisReturns ==
    /\ redis = "down"
    /\ redis' = "up"
    /\ \/ UNCHANGED <<counter, ttl, counted>>
       \/ /\ counter' = [a \in Addrs |-> 0]
          /\ ttl' = [a \in Addrs |-> NoTtl]
          /\ counted' = Nothing
    /\ UNCHANGED <<conn, wait, pc, addr>>

----------------------------------------------------------------------------

\* However the commands of the replicas interleave, and across failures of
\* theirs and of Redis, the requests of one address that were let through by
\* their count are at most twice the limit in any minute: "allowing up to 2x
\* the configured burst right at a window boundary" (rest/server.cpp:226).
AtMostTwicePerMinute ==
    \A a \in Addrs : Cardinality(counted[a]) <= 2 * Limit

\* Once Redis stays up, requests are counted again: from some point on no
\* replica waits before it connects, and lets requests through meanwhile,
\* however the requests that came during the wait were timed.
LimitResumes ==
    <>[](redis = "up") => <>[](\A r \in Replicas : wait[r] = 0)

----------------------------------------------------------------------------
(* What the repository says and the code does not do.                      *)

\* rest/server.cpp:307: a key without expiry is "a rare, self-healing edge
\* case": while Redis is up, an address that is refused is not refused for ever.
SelfHeals ==
    <>[](redis = "up") => \A a \in Addrs : counter[a] > Limit ~> counter[a] <= Limit
=============================================================================
