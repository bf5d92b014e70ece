---------------------------- MODULE MemoryLimiter ----------------------------
(***************************************************************************)
(* InMemoryRateLimiter (src/rest/server.cpp): a bucket of tokens for each  *)
(* address, refilled in proportion to the time since the last refill, and  *)
(* erased by any request once it has been idle for ten minutes.  allow     *)
(* holds the mutex throughout, so a request is one step.                   *)
(*                                                                         *)
(* Instants are kept as ages, the time since them, which stop growing at   *)
(* the age from which the code does the same whatever they are: IdleAfter  *)
(* for last_refill, where the bucket is full, and PruneEvery for           *)
(* last_prune_.                                                            *)
(***************************************************************************)
EXTENDS RateLimiter

CONSTANTS
    PruneEvery,  \* ticks between two prunings, 5 minutes
    IdleAfter    \* ticks after which a bucket is pruned, 10 minutes

ASSUME PruneAssumption ==
    /\ PruneEvery \in Nat
    /\ IdleAfter \in Nat
    /\ IdleAfter >= Minute

VARIABLES
    buckets,    \* buckets_, the default-constructed bucket where there is none
    lastPrune,  \* age of last_prune_, Never at first
    answer      \* what the last request was told

memoryVars == <<buckets, lastPrune, answer>>

Never == -1

NoBucket == [tokens |-> 0, age |-> Never]

\* A bucket is made for a request, and every refill is followed by one: it is
\* never seen full.
Bucket == [tokens : 0..Limit - 1, age : 0..IdleAfter]

Older(age, max) == IF age = Never \/ age >= max THEN age ELSE age + 1

MemoryTypeOK ==
    /\ buckets \in [Addrs -> Bucket \cup {NoBucket}]
    /\ lastPrune \in 0..PruneEvery \cup {Never}
    /\ answer \in [addr : Addrs, allowed : BOOLEAN]

MemoryInit ==
    /\ buckets = [a \in Addrs |-> NoBucket]
    /\ lastPrune = Never
    /\ answer \in [addr : Addrs, allowed : {TRUE}]

----------------------------------------------------------------------------

PruneIsDue == lastPrune = Never \/ lastPrune >= PruneEvery

\* Mutant: ten seconds instead of ten minutes, here a tick.
prune_stale_early ==
    IF PruneIsDue
      THEN [a \in Addrs |-> IF buckets[a].age >= 1 THEN NoBucket ELSE buckets[a]]
      ELSE buckets

prune_stale ==
    IF PruneIsDue
      THEN [a \in Addrs |->
               IF buckets[a].age >= IdleAfter THEN NoBucket ELSE buckets[a]]
      ELSE buckets

RefillOf(b) == (b.age * Limit) \div Minute

\* Mutant: the time that did not make a token yet is given up on each request.
Refilled_always(b) ==
    IF b = NoBucket THEN [tokens |-> Limit, age |-> 0]
    ELSE [tokens |-> IF b.tokens + RefillOf(b) < Limit THEN b.tokens + RefillOf(b)
                                                       ELSE Limit,
          age |-> 0]

Refilled(b) ==
    IF b = NoBucket THEN [tokens |-> Limit, age |-> 0]
    ELSE IF RefillOf(b) > 0
      THEN [tokens |-> IF b.tokens + RefillOf(b) < Limit THEN b.tokens + RefillOf(b)
                                                         ELSE Limit,
            age |-> 0]
      ELSE b

InMemoryAllow(a) ==
    LET b == Refilled(prune_stale[a])
    IN  /\ buckets' = [prune_stale EXCEPT ![a] =
                          IF b.tokens > 0 THEN [b EXCEPT !.tokens = @ - 1] ELSE b]
        /\ lastPrune' = IF PruneIsDue THEN 0 ELSE lastPrune
        /\ answer' = [addr |-> a, allowed |-> b.tokens > 0]

MemoryTick ==
    /\ buckets' = [a \in Addrs |->
                      [buckets[a] EXCEPT !.age = Older(@, IdleAfter)]]
    /\ lastPrune' = Older(lastPrune, PruneEvery)
    /\ UNCHANGED answer

MemoryRestart ==
    /\ buckets' = [a \in Addrs |-> NoBucket]
    /\ lastPrune' = Never
    /\ UNCHANGED answer

----------------------------------------------------------------------------

Credit(b) ==
    IF b = NoBucket \/ b.tokens * Minute + b.age * Limit >= Limit * Minute
      THEN Limit * Minute
      ELSE b.tokens * Minute + b.age * Limit

Ideal == INSTANCE TokenBucket WITH credit <- [a \in Addrs |-> Credit(buckets[a])]
=============================================================================
