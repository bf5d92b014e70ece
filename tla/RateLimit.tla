------------------------------ MODULE RateLimit ------------------------------
(***************************************************************************)
(* The rate limit that stands before the routes: the server chooses one of *)
(* its two limiters when it is constructed (ServerImpl in                  *)
(* src/rest/server.cpp), and guard asks it about every request.            *)
(***************************************************************************)
EXTENDS MemoryLimiter, RedisLimiter

CONSTANT ClientsOf  \* limiter -> the addresses it is asked about

ASSUME ClientsAssumption == ClientsOf \in [{"memory", "redis"} -> SUBSET Addrs]

VARIABLE limiter    \* "memory" or "redis": whether redis_host is set

vars == <<limiter, memoryVars, redisVars>>

TypeOK ==
    /\ limiter \in {"memory", "redis"}
    /\ MemoryTypeOK
    /\ RedisTypeOK

Init == limiter \in {"memory", "redis"} /\ MemoryInit /\ RedisInit

\* guard calls allow once, before the handler.
GuardInMemory == \E a \in ClientsOf[limiter] : InMemoryAllow(a)

GuardRedis(r) == \E a \in ClientsOf[limiter] : RedisAllow(r, a)

MemoryStep ==
    /\ limiter = "memory"
    /\ GuardInMemory \/ MemoryTick \/ MemoryRestart
    /\ UNCHANGED <<limiter, redisVars>>

RedisStep(r) ==
    /\ limiter = "redis"
    /\ Auth(r) \/ Incr(r) \/ Expire(r)
    /\ UNCHANGED <<limiter, memoryVars>>

RedisOther ==
    /\ limiter = "redis"
    /\ \/ \E r \in Replicas : GuardRedis(r) \/ IncrReplyLost(r) \/ ReplicaRestart(r)
       \/ RedisFails \/ RedisReturns
    /\ UNCHANGED <<limiter, memoryVars>>

RedisClock ==
    /\ limiter = "redis"
    /\ RedisTick
    /\ UNCHANGED <<limiter, memoryVars>>

Next ==
    \/ MemoryStep
    \/ \E r \in Replicas : RedisStep(r)
    \/ RedisOther \/ RedisClock

\* Time passes, and a replica's thread gets on with the command it is at: the
\* client library returns, with a reply or without.
Fairness ==
    /\ WF_vars(RedisClock)
    /\ \A r \in Replicas : WF_vars(RedisStep(r))

Spec == Init /\ [][Next]_vars /\ Fairness

----------------------------------------------------------------------------

\* The in-memory limiter keeps to the ideal bucket: rounding, the erasure of
\* idle buckets by other addresses' requests, and the special case of the first
\* request, never let a request through that had no credit, and never refuse
\* one that had.
ImplementsTokenBucket == Ideal!Spec
=============================================================================
