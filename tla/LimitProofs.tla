----------------------------- MODULE LimitProofs -----------------------------
(***************************************************************************)
(* What is limited: requests, by RateLimit's two limiters, and one-time    *)
(* codes and guesses at them, by OTP.  The in-memory limiter implements    *)
(* the ideal bucket; the others let at most so many events through in any  *)
(* period, which is a statement about the size of a history.               *)
(***************************************************************************)
EXTENDS RateLimit, OTP, TLAPS, FiniteSetTheorems

----------------------------------------------------------------------------
(* Counting.                                                               *)

LEMMA PartOfFinite ==
    ASSUME NEW S, IsFiniteSet(S), NEW T \in SUBSET S
    PROVE  IsFiniteSet(T) /\ Cardinality(T) \in Nat /\ Cardinality(T) <= Cardinality(S)
BY FS_Subset, FS_CardinalityType

\* Two parts of a history, each within the limit.
LEMMA TwoParts ==
    ASSUME NEW S, IsFiniteSet(S), NEW T \in SUBSET S, NEW n \in Nat,
           Cardinality(T) <= n, Cardinality(S \ T) <= n
    PROVE  Cardinality(S) <= 2 * n
<1>1. S = T \cup (S \ T) /\ T \cap (S \ T) = {}
  OBVIOUS
<1>2. IsFiniteSet(T) /\ IsFiniteSet(S \ T) /\ Cardinality(T) \in Nat /\ Cardinality(S \ T) \in Nat
  BY PartOfFinite
<1>3. Cardinality(S) = Cardinality(T) + Cardinality(S \ T) - Cardinality(T \cap (S \ T))
  BY <1>1, <1>2, FS_Union, Zenon
<1>4. Cardinality(T \cap (S \ T)) = 0
  BY <1>1, FS_EmptySet, Zenon
<1>5. Cardinality(S) = Cardinality(T) + Cardinality(S \ T)
  BY <1>2, <1>3, <1>4
<1> QED
  BY <1>2, <1>5

LEMMA OneMoreElement ==
    ASSUME NEW S, NEW x, IsFiniteSet(S)
    PROVE  /\ IsFiniteSet(S \cup {x}) /\ Cardinality(S \cup {x}) \in Nat
           /\ Cardinality(S) \in Nat
           /\ Cardinality(S \cup {x}) <= Cardinality(S) + 1
<1>1. IsFiniteSet(S \cup {x}) /\ Cardinality(S) \in Nat
  BY FS_AddElement, FS_CardinalityType, Zenon
<1>2. Cardinality(S \cup {x}) = IF x \in S THEN Cardinality(S) ELSE Cardinality(S) + 1
  BY FS_AddElement, Zenon
<1> QED
  BY <1>1, <1>2

\* The numbers of the events of one instant run from 0.
NumberedAt(events, x) ==
    \A e \in events : e[1] = x =>
        e[2] \in Nat /\ e[2] < Cardinality({d \in events : d[1] = x})

\* The next number is new, so that a history has every event once.
LEMMA NextNumber ==
    ASSUME NEW events, IsFiniteSet(events), NEW x, NumberedAt(events, x),
           NEW more, more = events \cup {<<x, Cardinality({d \in events : d[1] = x})>>}
    PROVE  /\ IsFiniteSet(more)
           /\ Cardinality(more) = Cardinality(events) + 1
           /\ NumberedAt(more, x)
<1> DEFINE same == {d \in events : d[1] = x}
           n == Cardinality(same)
           new == <<x, n>>
<1>1. IsFiniteSet(same) /\ n \in Nat
  BY PartOfFinite
<1>2. new \notin events
  BY <1>1 DEF NumberedAt
<1>3. {d \in more : d[1] = x} = same \cup {new}
  OBVIOUS
<1>4. \A e \in same : e[2] \in Nat /\ e[2] < n
  BY DEF NumberedAt
<1>5. more = events \cup {new} /\ new \notin same /\ new[2] = n
  BY <1>2
<1>6. \A e \in more : e[1] = x => e \in same \cup {new}
  BY <1>3
<1> HIDE DEF same, n, new
<1>7. IsFiniteSet(more) /\ Cardinality(more) = Cardinality(events) + 1
  BY <1>2, <1>5, FS_AddElement, Zenon
<1>8. Cardinality(same \cup {new}) = n + 1
  BY <1>1, <1>5, FS_AddElement, Zenon DEF n
<1>9. \A e \in same \cup {new} : e[2] \in Nat /\ e[2] < n + 1
  BY <1>1, <1>4, <1>5
<1> QED
  BY <1>3, <1>6, <1>7, <1>8, <1>9 DEF NumberedAt

----------------------------------------------------------------------------
(* The in-memory limiter, for every limit, any grain of the clock and any  *)
(* pruning that spares buckets younger than a minute.                      *)

LEMMA Multiples ==
    ASSUME NEW x \in Int, NEW y \in Int, NEW n \in Nat, x <= y
    PROVE  x * n <= y * n
BY SMT

\* What a division by a minute's ticks leaves is less than a minute's ticks.
LEMMA Division ==
    ASSUME NEW x \in Nat, NEW n \in Nat \ {0}
    PROVE  /\ x \div n \in Nat
           /\ (x \div n) * n <= x
           /\ x < (x \div n) * n + n
<1>1. x = n * (x \div n) + (x % n) /\ x % n \in 0..n - 1 /\ x \div n \in Int
  BY SMT
<1>2. x \div n >= 0
  BY <1>1, SMT
<1> QED
  BY <1>1, <1>2, SMT

LEMMA BucketFacts ==
    ASSUME NEW b \in Bucket
    PROVE  /\ b # NoBucket
           /\ b.tokens \in 0..Limit - 1 /\ b.age \in 0..IdleAfter
           /\ b.age * Limit \in Nat /\ b.tokens * Minute \in Nat
           /\ Limit * Minute \in Nat
BY LimiterAssumption, PruneAssumption DEF Bucket, NoBucket, Never

LEMMA CreditOfNone == Credit(NoBucket) = Limit * Minute
BY DEF Credit

LEMMA CreditIsNat ==
    ASSUME NEW b \in Bucket \cup {NoBucket}
    PROVE  Credit(b) \in 0..Limit * Minute
BY BucketFacts, LimiterAssumption, SMT DEF Credit

\* A bucket of a minute's age is full, so erasing it takes nothing away and
\* gives nothing.
LEMMA OldIsFull ==
    ASSUME NEW b \in Bucket, b.age >= IdleAfter
    PROVE  Credit(b) = Limit * Minute
<1>1. Minute * Limit <= b.age * Limit
  BY Multiples, BucketFacts, LimiterAssumption, PruneAssumption, SMT
<1> QED
  BY <1>1, BucketFacts, LimiterAssumption, SMT DEF Credit

\* One below: a whole minute's worth less.
LEMMA LessMultiple ==
    ASSUME NEW x \in Int, NEW y \in Int, NEW n \in Nat, x < y
    PROVE  x * n + n <= y * n
<1>1. (x + 1) * n <= y * n
  BY Multiples, SMT
<1>2. (x + 1) * n = x * n + n
  BY SMT
<1> QED
  BY <1>1, <1>2, SMT

\* Credit where nothing is capped.
LEMMA CreditBelow ==
    ASSUME NEW b \in Bucket, b.tokens * Minute + b.age * Limit < Limit * Minute
    PROVE  Credit(b) = b.tokens * Minute + b.age * Limit
BY BucketFacts, SMT DEF Credit

\* Credit of a bucket that was just refilled.
LEMMA CreditOfFresh ==
    ASSUME NEW k \in 0..Limit - 1, NEW b, b = [tokens |-> k, age |-> 0]
    PROVE  b \in Bucket /\ Credit(b) = k * Minute
<1>1. b \in Bucket
  BY LimiterAssumption, PruneAssumption DEF Bucket
<1>2. k * Minute + Minute <= Limit * Minute
  BY LessMultiple, LimiterAssumption, SMT
<1>3. b.tokens = k /\ b.age = 0 /\ 0 * Limit = 0
  BY LimiterAssumption, SMT
<1> QED
  BY <1>1, <1>2, <1>3, CreditBelow, BucketFacts, LimiterAssumption, SMT

\* How a request is answered from a bucket, and what is left: a step of the
\* ideal bucket.
Answered(b, d, allowed) ==
    /\ d \in Bucket
    /\ allowed => \E spilt \in 0..Minute - 1 :
                     /\ Credit(b) >= Minute + spilt
                     /\ Credit(d) = Credit(b) - Minute - spilt
    /\ ~allowed => Credit(b) < Minute /\ Credit(d) = Credit(b)

LEMMA AnsweredYes ==
    ASSUME NEW b, NEW d \in Bucket, NEW spilt \in 0..Minute - 1,
           Credit(b) >= Minute + spilt,
           Credit(d) = Credit(b) - Minute - spilt
    PROVE  Answered(b, d, TRUE)
BY DEF Answered

LEMMA RequestStep ==
    ASSUME NEW b \in Bucket \cup {NoBucket},
           NEW n, n = Refilled(b),
           NEW d, d = IF n.tokens > 0 THEN [n EXCEPT !.tokens = @ - 1] ELSE n
    PROVE  Answered(b, d, n.tokens > 0)
<1> DEFINE full == [tokens |-> Limit, age |-> 0]
<1>0. ASSUME n = full, Credit(b) = Limit * Minute
      PROVE  Answered(b, d, n.tokens > 0)
  <2>1. n.tokens > 0 /\ d = [tokens |-> Limit - 1, age |-> 0] /\ Limit - 1 \in 0..Limit - 1
    BY <1>0, LimiterAssumption
  <2>2. d \in Bucket /\ Credit(d) = (Limit - 1) * Minute
    BY <2>1, CreditOfFresh
  <2>3. (Limit - 1) * Minute = Limit * Minute - Minute /\ Minute <= Limit * Minute
    <3>1. 1 * Minute <= Limit * Minute
      BY Multiples, LimiterAssumption, SMT
    <3> QED
      BY <3>1, LimiterAssumption, SMT
  <2>4. Credit(b) >= Minute + 0 /\ Credit(d) = Credit(b) - Minute - 0 /\ 0 \in 0..Minute - 1
    BY <1>0, <2>2, <2>3, LimiterAssumption, SMT
  <2>5. Answered(b, d, TRUE)
    BY <2>2, <2>4, AnsweredYes
  <2> QED
    BY <2>1, <2>5, Zenon
<1>1. CASE b = NoBucket
  BY <1>0, <1>1, CreditOfNone DEF Refilled
<1>2. ASSUME b # NoBucket
      PROVE  Answered(b, d, n.tokens > 0)
  <2>0. b \in Bucket
    BY <1>2
  <2> DEFINE x == b.age * Limit
             q == RefillOf(b)
             t == b.tokens
  <2>1. x \in Nat /\ t \in 0..Limit - 1 /\ Limit \in Nat /\ Minute \in Nat \ {0}
    BY <2>0, BucketFacts, LimiterAssumption
  <2>2. q \in Nat /\ q * Minute <= x /\ x < q * Minute + Minute
    BY <2>1, Division DEF RefillOf
  <2>3. n = IF q > 0 THEN [tokens |-> IF t + q < Limit THEN t + q ELSE Limit, age |-> 0]
                     ELSE b
    BY <1>2 DEF Refilled
  <2>4. t * Minute + x < Limit * Minute => Credit(b) = t * Minute + x
    BY <2>0, CreditBelow
  <2>5. t * Minute + x >= Limit * Minute => Credit(b) = Limit * Minute
    BY DEF Credit
  <2>6. b.tokens = t /\ b.age * Limit = x
    OBVIOUS
  <2> HIDE DEF x, q, t
  <2>7. (t + q) * Minute = t * Minute + q * Minute
    BY <2>1, <2>2, SMT
  <2>8. CASE q > 0 /\ t + q < Limit
    <3> DEFINE k == t + q - 1
    <3>1. k \in 0..Limit - 1 /\ n.tokens > 0 /\ d = [tokens |-> k, age |-> 0]
      BY <2>1, <2>2, <2>3, <2>8
    <3>2. d \in Bucket /\ Credit(d) = k * Minute
      BY <3>1, CreditOfFresh
    <3>3. (t + q) * Minute + Minute <= Limit * Minute
      <4>1. t + q \in Int /\ Limit \in Int /\ Minute \in Nat
        BY <2>1, <2>2
      <4> QED
        BY <4>1, <2>8, LessMultiple, Zenon
    <3>4. Credit(b) = t * Minute + x
      BY <3>3, <2>7, <2>1, <2>2, <2>4, SMT
    <3>5. k * Minute = (t + q) * Minute - Minute /\ 0 <= k * Minute
      <4>1. 0 * Minute <= k * Minute
        BY <3>1, <2>1, Multiples, SMT
      <4> QED
        BY <4>1, <2>1, <2>2, SMT
    <3>6. x - q * Minute \in 0..Minute - 1
      BY <2>1, <2>2, SMT
    <3>7. /\ Credit(b) >= Minute + (x - q * Minute)
          /\ Credit(d) = Credit(b) - Minute - (x - q * Minute)
      BY <3>2, <3>4, <3>5, <2>7, <2>1, <2>2, SMT
    <3>8. Answered(b, d, TRUE)
      BY <3>2, <3>6, <3>7, AnsweredYes
    <3> QED
      BY <3>1, <3>8, Zenon
  <2>9. CASE q > 0 /\ ~(t + q < Limit)
    <3>1. Limit * Minute <= (t + q) * Minute
      <4>1. t + q \in Int /\ Limit \in Int /\ Minute \in Nat /\ Limit <= t + q
        BY <2>1, <2>2, <2>9
      <4> QED
        BY <4>1, Multiples, Zenon
    <3>2. Credit(b) = Limit * Minute
      BY <3>1, <2>5, <2>7, <2>1, <2>2, SMT
    <3> QED
      BY <3>2, <1>0, <2>3, <2>9
  <2>10. CASE ~(q > 0)
    <3>1. n = b /\ q * Minute = 0 /\ x < Minute
      BY <2>1, <2>2, <2>3, <2>10, SMT
    <3>2. t * Minute + Minute <= Limit * Minute
      BY <2>1, LessMultiple, SMT
    <3>3. Credit(b) = t * Minute + x
      BY <3>1, <3>2, <2>1, <2>4, SMT
    <3>4. CASE t > 0
      <4>1. d = [b EXCEPT !.tokens = t - 1] /\ n.tokens > 0
        BY <3>1, <3>4, <2>6
      <4>2. d \in Bucket /\ d.tokens = t - 1 /\ d.age = b.age
        BY <4>1, <3>4, <2>0, <2>1 DEF Bucket
      <4>3. (t - 1) * Minute = t * Minute - Minute /\ Minute <= t * Minute
        <5>1. 1 * Minute <= t * Minute
          BY <3>4, <2>1, Multiples, SMT
        <5> QED
          BY <5>1, <2>1, SMT
      <4>4. Credit(d) = (t - 1) * Minute + x
        <5>1. d.tokens * Minute = t * Minute - Minute /\ d.age * Limit = x
          BY <4>2, <4>3, <2>6
        <5>2. t * Minute \in Nat
          BY <2>1, SMT
        <5>3. d.tokens * Minute + d.age * Limit < Limit * Minute
          BY <5>1, <5>2, <3>1, <3>2, <2>1, SMT
        <5>4. Credit(d) = d.tokens * Minute + d.age * Limit
          BY <4>2, <5>3, CreditBelow
        <5> QED
          BY <5>1, <5>4, <4>3
      <4>5. Credit(b) >= Minute + 0 /\ Credit(d) = Credit(b) - Minute - 0 /\ 0 \in 0..Minute - 1
        BY <4>3, <4>4, <3>3, <2>1, SMT
      <4>6. Answered(b, d, TRUE)
        BY <4>2, <4>5, AnsweredYes
      <4> QED
        BY <4>1, <4>6, Zenon
    <3>5. CASE ~(t > 0)
      <4>1. d = b /\ ~(n.tokens > 0) /\ t = 0
        BY <3>1, <3>5, <2>1, <2>6
      <4>2. Credit(b) < Minute
        BY <4>1, <3>1, <3>3, <2>1, SMT
      <4> QED
        BY <4>1, <4>2, <2>0, Zenon DEF Answered
    <3> QED
      BY <3>4, <3>5
  <2> QED
    BY <2>8, <2>9, <2>10
<1> QED
  BY <1>1, <1>2

----------------------------------------------------------------------------
(* Types.                                                                  *)

LEMMA PruneTypes ==
    ASSUME MemoryTypeOK
    PROVE  prune_stale \in [Addrs -> Bucket \cup {NoBucket}]
BY DEF MemoryTypeOK, prune_stale

LEMMA MemoryInitTypes == MemoryInit => MemoryTypeOK
BY DEF MemoryInit, MemoryTypeOK

LEMMA AllowTypes ==
    ASSUME MemoryTypeOK, NEW a \in Addrs, InMemoryAllow(a)
    PROVE  MemoryTypeOK'
<1> DEFINE b == prune_stale[a]
           n == Refilled(b)
           d == IF n.tokens > 0 THEN [n EXCEPT !.tokens = @ - 1] ELSE n
<1>1. b \in Bucket \cup {NoBucket}
  BY PruneTypes
<1>2. d \in Bucket
  BY <1>1, RequestStep DEF Answered
<1>3. buckets' = [prune_stale EXCEPT ![a] = d]
  BY DEF InMemoryAllow
<1> HIDE DEF d
<1>4. buckets' \in [Addrs -> Bucket \cup {NoBucket}]
  BY <1>2, <1>3, PruneTypes
<1>5. lastPrune' \in 0..PruneEvery \cup {Never}
  BY PruneAssumption DEF InMemoryAllow, MemoryTypeOK
<1>6. answer' \in [addr : Addrs, allowed : BOOLEAN]
  BY DEF InMemoryAllow
<1> QED
  BY <1>4, <1>5, <1>6 DEF MemoryTypeOK

LEMMA OlderTypes ==
    ASSUME NEW max \in Nat, NEW age \in 0..max \cup {Never}
    PROVE  /\ Older(age, max) \in 0..max \cup {Never}
           /\ age # Never => Older(age, max) # Never
BY DEF Older, Never

\* A tick ages a bucket, and earns what it does in the ideal one.
LEMMA TickStep ==
    ASSUME NEW b \in Bucket \cup {NoBucket},
           NEW d, d = [b EXCEPT !.age = Older(@, IdleAfter)]
    PROVE  d \in Bucket \cup {NoBucket} /\ Credit(d) = Ideal!Earned(Credit(b))
<1>1. CASE b = NoBucket
  <2>1. d = NoBucket
    BY <1>1 DEF NoBucket, Older
  <2> QED
    BY <2>1, <1>1, CreditOfNone, LimiterAssumption, SMT DEF Ideal!Earned, Ideal!Full
<1>2. CASE b \in Bucket /\ b.age >= IdleAfter
  <2>1. d = b
    BY <1>2, OlderTypes, PruneAssumption DEF Older, Bucket
  <2> QED
    BY <2>1, <1>2, OldIsFull, LimiterAssumption, SMT DEF Ideal!Earned, Ideal!Full
<1>3. CASE b \in Bucket /\ ~(b.age >= IdleAfter)
  <2>1. d = [b EXCEPT !.age = b.age + 1]
    BY <1>3, BucketFacts DEF Older, Never
  <2>2. d \in Bucket /\ d.tokens = b.tokens /\ d.age = b.age + 1
    BY <2>1, <1>3, PruneAssumption DEF Bucket
  <2>3. d.age * Limit = b.age * Limit + Limit
    BY <2>2, <1>3, BucketFacts, LimiterAssumption, SMT
  <2> DEFINE T == b.tokens * Minute
             X == b.age * Limit
             F == Limit * Minute
  <2>4. Credit(b) = IF T + X >= F THEN F ELSE T + X
    BY <1>3, BucketFacts DEF Credit
  <2>5. Credit(d) = IF T + (X + Limit) >= F THEN F ELSE T + (X + Limit)
    BY <2>2, <2>3, BucketFacts DEF Credit
  <2>6. T \in Nat /\ X \in Nat /\ F \in Nat /\ Limit \in Nat
    BY <1>3, BucketFacts, LimiterAssumption
  <2>7. Ideal!Earned(Credit(b)) = IF Credit(b) + Limit >= F THEN F ELSE Credit(b) + Limit
    BY DEF Ideal!Earned, Ideal!Full
  <2> HIDE DEF T, X, F
  <2>8. Credit(d) = Ideal!Earned(Credit(b))
    BY <2>4, <2>5, <2>6, <2>7, SMT
  <2> QED
    BY <2>2, <2>8
<1> QED
  BY <1>1, <1>2, <1>3

LEMMA MemoryTickTypes ==
    ASSUME MemoryTypeOK, MemoryTick
    PROVE  MemoryTypeOK'
<1>1. buckets' \in [Addrs -> Bucket \cup {NoBucket}]
  BY TickStep DEF MemoryTypeOK, MemoryTick
<1>2. lastPrune' \in 0..PruneEvery \cup {Never}
  BY OlderTypes, PruneAssumption DEF MemoryTypeOK, MemoryTick
<1> QED
  BY <1>1, <1>2 DEF MemoryTypeOK, MemoryTick

LEMMA MemoryStepTypes ==
    ASSUME limiter \in {"memory", "redis"}, MemoryTypeOK, MemoryStep
    PROVE  MemoryTypeOK'
<1>1. CASE GuardInMemory
  BY <1>1, AllowTypes, ClientsAssumption DEF GuardInMemory
<1>2. CASE MemoryTick
  BY <1>2, MemoryTickTypes
<1>3. CASE MemoryRestart
  BY <1>3 DEF MemoryRestart, MemoryTypeOK
<1> QED
  BY <1>1, <1>2, <1>3 DEF MemoryStep

TypeInv == limiter \in {"memory", "redis"} /\ MemoryTypeOK

\* The in-memory limiter's variables have their types.
THEOREM MemoryTypeCorrect == Spec => []TypeInv
<1>1. Init => TypeInv
  BY MemoryInitTypes DEF Init, TypeInv
<1>2. ASSUME TypeInv, [Next]_vars
      PROVE  TypeInv'
  <2>1. CASE MemoryStep
    BY <2>1, <1>2, MemoryStepTypes DEF TypeInv, MemoryStep
  <2>2. CASE UNCHANGED <<limiter, memoryVars>>
    BY <2>2, <1>2 DEF TypeInv, MemoryTypeOK, memoryVars
  <2> QED
    BY <1>2, <2>1, <2>2 DEF Next, RedisStep, RedisOther, RedisClock, vars
<1> QED
  BY <1>1, <1>2, PTL DEF Spec

----------------------------------------------------------------------------
(* The refinement.                                                         *)

LEMMA InitRefines == Init => Ideal!Init
BY CreditOfNone DEF Init, MemoryInit, Ideal!Init, Ideal!Full

LEMMA PruneKeepsCredit ==
    ASSUME MemoryTypeOK, NEW a \in Addrs
    PROVE  Credit(prune_stale[a]) = Credit(buckets[a])
<1>1. CASE prune_stale[a] = buckets[a]
  BY <1>1
<1>2. CASE prune_stale[a] = NoBucket /\ buckets[a].age >= IdleAfter
  <2>1. buckets[a] \in Bucket
    BY <1>2, PruneAssumption DEF MemoryTypeOK, NoBucket, Never
  <2> QED
    BY <1>2, <2>1, OldIsFull, CreditOfNone
<1> QED
  BY <1>1, <1>2 DEF MemoryTypeOK, prune_stale

LEMMA AllowRefines ==
    ASSUME MemoryTypeOK, NEW a \in Addrs, InMemoryAllow(a)
    PROVE  Ideal!Next
<1> DEFINE b == prune_stale[a]
           n == Refilled(b)
           d == IF n.tokens > 0 THEN [n EXCEPT !.tokens = @ - 1] ELSE n
           old == [x \in Addrs |-> Credit(buckets[x])]
           new == [x \in Addrs |-> Credit(buckets'[x])]
<1>1. Answered(b, d, n.tokens > 0)
  BY PruneTypes, RequestStep
<1>2. /\ buckets' = [prune_stale EXCEPT ![a] = d]
      /\ answer' = [addr |-> a, allowed |-> n.tokens > 0]
  BY DEF InMemoryAllow
<1>3. Credit(b) = old[a]
  BY PruneKeepsCredit
<1> HIDE DEF d, n, b
<1>4. new = [old EXCEPT ![a] = Credit(d)]
  BY <1>2, PruneTypes, PruneKeepsCredit
<1> HIDE DEF old, new
<1>5. CASE n.tokens > 0
  <2>1. PICK spilt \in 0..Minute - 1 :
               old[a] >= Minute + spilt /\ Credit(d) = old[a] - Minute - spilt
    BY <1>1, <1>3, <1>5 DEF Answered
  <2>2. answer' = [addr |-> a, allowed |-> TRUE]
    BY <1>2, <1>5
  <2>3. Ideal!Allow(a)
    BY <2>1, <2>2, <1>4 DEF Ideal!Allow, old, new
  <2> QED
    BY <2>3 DEF Ideal!Next
<1>6. CASE ~(n.tokens > 0)
  <2>1. old[a] < Minute /\ Credit(d) = old[a]
    BY <1>1, <1>3, <1>6 DEF Answered
  <2>2. answer' = [addr |-> a, allowed |-> FALSE]
    <3>1. (n.tokens > 0) = FALSE
      BY <1>6, SMT
    <3> QED
      BY <1>2, <3>1, Zenon
  <2>3. new = old
    BY <2>1, <1>4 DEF old
  <2>4. Ideal!Refuse(a)
    BY <2>1, <2>2, <2>3 DEF Ideal!Refuse, old, new
  <2> QED
    BY <2>4 DEF Ideal!Next
<1> QED
  BY <1>5, <1>6

LEMMA StepRefines ==
    ASSUME TypeInv, TypeInv', [Next]_vars
    PROVE  [Ideal!Next]_Ideal!vars
<1>1. CASE MemoryStep
  <2>1. CASE GuardInMemory
    BY <2>1, AllowRefines, ClientsAssumption DEF GuardInMemory, TypeInv
  <2>2. CASE MemoryTick
    <3>1. \A a \in Addrs : Credit(buckets'[a]) = Ideal!Earned(Credit(buckets[a]))
      BY <2>2, TickStep DEF MemoryTick, TypeInv, MemoryTypeOK
    <3>2. Ideal!Tick
      BY <3>1, <2>2 DEF Ideal!Tick, MemoryTick
    <3> QED
      BY <3>2 DEF Ideal!Next
  <2>3. CASE MemoryRestart
    <3>1. Ideal!Forget
      BY <2>3, CreditOfNone DEF Ideal!Forget, Ideal!Full, MemoryRestart
    <3> QED
      BY <3>1 DEF Ideal!Next
  <2> QED
    BY <1>1, <2>1, <2>2, <2>3 DEF MemoryStep
<1>2. CASE UNCHANGED memoryVars
  BY <1>2 DEF memoryVars, Ideal!vars
<1> QED
  BY <1>1, <1>2 DEF Next, RedisStep, RedisOther, RedisClock, vars

\* Whatever the limit, the grain of the clock and the times of pruning, and
\* however the addresses' requests interleave, the in-memory limiter answers
\* each request as the ideal bucket does: a request is refused only when no
\* whole request's worth of credit is left, and let through only when it is.
THEOREM TokenBucketImplemented == Spec => ImplementsTokenBucket
<1>1. Init => Ideal!Init
  BY InitRefines
<1>2. TypeInv /\ TypeInv' /\ [Next]_vars => [Ideal!Next]_Ideal!vars
  BY StepRefines
<1> QED
  BY <1>1, <1>2, MemoryTypeCorrect, PTL DEF Spec, ImplementsTokenBucket, Ideal!Spec
----------------------------------------------------------------------------
(* The Redis limiter.                                                      *)

Requests == (0..Minute - 1) \X Nat

LEMMA OneMoreFacts ==
    ASSUME NEW reqs \in SUBSET Requests, IsFiniteSet(reqs)
    PROVE  OneMore(reqs) \in SUBSET Requests /\ IsFiniteSet(OneMore(reqs))
<1>1. {q \in reqs : q[1] = 0} \in SUBSET reqs
  OBVIOUS
<1>2. Cardinality({q \in reqs : q[1] = 0}) \in Nat
  BY <1>1, PartOfFinite
<1>3. <<0, Cardinality({q \in reqs : q[1] = 0})>> \in Requests
  BY <1>2, LimiterAssumption DEF Requests
<1>4. IsFiniteSet(OneMore(reqs))
  BY OneMoreElement, Zenon DEF OneMore
<1> QED
  BY <1>3, <1>4 DEF OneMore

LEMMA AgedFacts ==
    ASSUME NEW reqs \in SUBSET Requests, IsFiniteSet(reqs)
    PROVE  /\ Aged(reqs) \in SUBSET Requests /\ IsFiniteSet(Aged(reqs))
           /\ Cardinality(Aged(reqs)) <= Cardinality(reqs)
<1> DEFINE young == {q \in reqs : q[1] + 1 < Minute}
           f == [q \in young |-> <<q[1] + 1, q[2]>>]
<1>1. f \in Surjection(young, Aged(reqs))
  BY DEF Surjection, Aged
<1>2. IsFiniteSet(young) /\ Cardinality(young) <= Cardinality(reqs) /\ Cardinality(young) \in Nat
  BY PartOfFinite
<1> HIDE DEF young, f
<1>3. IsFiniteSet(Aged(reqs)) /\ Cardinality(Aged(reqs)) <= Cardinality(young)
  BY <1>1, <1>2, FS_Surjection
<1>4. Aged(reqs) \in SUBSET Requests
  BY LimiterAssumption DEF Aged, Requests
<1>5. Cardinality(Aged(reqs)) \in Nat /\ Cardinality(reqs) \in Nat
  BY <1>3, FS_CardinalityType
<1> QED
  BY <1>2, <1>3, <1>4, <1>5

RedisTypes ==
    /\ RedisTypeOK
    /\ \A r \in Replicas : pc[r] # "idle" => addr[r] \in Addrs
    /\ \A a \in Addrs : IsFiniteSet(counted[a])

\* The requests of an address in the last minute are those that the present key
\* counted and those that the key before it counted, and while the present key
\* has an expiry, that many ticks are left to those before it at most.
SinceKey(a, current) ==
    /\ Cardinality(current) <= counter[a]
    /\ Cardinality(current) <= Limit
    /\ Cardinality(counted[a] \ current) <= Limit
    /\ ttl[a] # NoTtl => \A q \in counted[a] \ current : q[1] + ttl[a] >= Minute

TwoKeys == \A a \in Addrs : \E current \in SUBSET counted[a] : SinceKey(a, current)

LEMMA RedisInitTypes == RedisInit => RedisTypes
<1>1. IsFiniteSet({})
  BY FS_EmptySet
<1> QED
  BY <1>1, LimiterAssumption, RedisAssumption
     DEF RedisInit, RedisTypes, RedisTypeOK, Nothing, NoTtl

LEMMA AllowKeepsTypes ==
    ASSUME RedisTypes, NEW r \in Replicas, NEW a \in Addrs, RedisAllow(r, a)
    PROVE  RedisTypes'
BY RedisAssumption
   DEF RedisTypes, RedisTypeOK, RedisAllow, Connected, Connect, ConnectFails,
       FailsOpen, BackOff, Goto

LEMMA AuthKeepsTypes ==
    ASSUME RedisTypes, NEW r \in Replicas, Auth(r)
    PROVE  RedisTypes'
BY DEF RedisTypes, RedisTypeOK, Auth, Goto, Answer

LEMMA IncrementTypes ==
    ASSUME RedisTypes, NEW a \in Addrs, Increment(a)
    PROVE  counter' \in [Addrs -> 0..Limit + 1]
BY LimiterAssumption DEF RedisTypes, RedisTypeOK, Increment

LEMMA CountTypes ==
    ASSUME RedisTypes, NEW a \in Addrs, Count(a) \/ UNCHANGED counted
    PROVE  /\ counted' \in [Addrs -> SUBSET Requests]
           /\ \A b \in Addrs : IsFiniteSet(counted'[b])
BY OneMoreFacts DEF RedisTypes, RedisTypeOK, Count, Requests

LEMMA IncrKeepsTypes ==
    ASSUME RedisTypes, NEW r \in Replicas, Incr(r)
    PROVE  RedisTypes'
<1> DEFINE a == addr[r]
<1>0. a \in Addrs
  BY DEF Incr, RedisTypes
<1>1. counter' \in [Addrs -> 0..Limit + 1]
  BY <1>0, IncrementTypes DEF Incr, RedisTypes, RedisTypeOK
<1>2. /\ counted' \in [Addrs -> SUBSET Requests]
      /\ \A b \in Addrs : IsFiniteSet(counted'[b])
  BY <1>0, CountTypes DEF Incr, WithCount
<1>3. /\ pc' \in [Replicas -> {"idle", "auth", "incr", "expire"}]
      /\ addr' \in [Replicas -> Addrs \cup {None}]
      /\ \A s \in Replicas : pc'[s] # "idle" => addr'[s] \in Addrs
  BY <1>0 DEF Incr, WithCount, Goto, Answer, RedisTypes, RedisTypeOK
<1>4. /\ conn' \in [Replicas -> {"none", "open", "dropped"}]
      /\ wait' \in [Replicas -> 0..Backoff]
      /\ redis' = redis /\ ttl' = ttl
  BY RedisAssumption DEF Incr, BackOff, RedisTypes, RedisTypeOK
<1> QED
  BY <1>1, <1>2, <1>3, <1>4 DEF RedisTypes, RedisTypeOK, Requests

LEMMA LostKeepsTypes ==
    ASSUME RedisTypes, NEW r \in Replicas, IncrReplyLost(r)
    PROVE  RedisTypes'
<1>1. addr[r] \in Addrs
  BY DEF IncrReplyLost, RedisTypes
<1>2. counter' \in [Addrs -> 0..Limit + 1]
  BY <1>1, IncrementTypes DEF IncrReplyLost
<1>3. /\ conn' \in [Replicas -> {"none", "open", "dropped"}]
      /\ wait' \in [Replicas -> 0..Backoff]
  BY RedisAssumption DEF IncrReplyLost, Dropped, RedisTypes, RedisTypeOK
<1>4. /\ pc' \in [Replicas -> {"idle", "auth", "incr", "expire"}]
      /\ addr' \in [Replicas -> Addrs \cup {None}]
      /\ \A s \in Replicas : pc'[s] # "idle" => addr'[s] \in Addrs
  BY DEF IncrReplyLost, Goto, Answer, RedisTypes, RedisTypeOK
<1>5. redis' = "down" /\ ttl' = ttl /\ counted' = counted
  BY DEF IncrReplyLost
<1> QED
  BY <1>2, <1>3, <1>4, <1>5 DEF RedisTypes, RedisTypeOK

LEMMA ExpireKeepsTypes ==
    ASSUME RedisTypes, NEW r \in Replicas, Expire(r)
    PROVE  RedisTypes'
<1>1. addr[r] \in Addrs
  BY DEF Expire, RedisTypes
<1> QED
  BY <1>1, LimiterAssumption
     DEF Expire, Expires, Goto, Answer, NoTtl, RedisTypes, RedisTypeOK

LEMMA RedisTickKeepsTypes ==
    ASSUME RedisTypes, RedisTick
    PROVE  RedisTypes'
<1>1. \A a \in Addrs : Aged(counted[a]) \in SUBSET Requests /\ IsFiniteSet(Aged(counted[a]))
  BY AgedFacts DEF RedisTypes, RedisTypeOK, Requests
<1>2. /\ counted' \in [Addrs -> SUBSET Requests]
      /\ \A a \in Addrs : IsFiniteSet(counted'[a])
  BY <1>1 DEF RedisTick
<1>3. /\ counter' \in [Addrs -> 0..Limit + 1]
      /\ ttl' \in [Addrs -> 0..Minute]
      /\ wait' \in [Replicas -> 0..Backoff]
  BY LimiterAssumption, RedisAssumption DEF RedisTick, RedisTypes, RedisTypeOK, NoTtl
<1> QED
  BY <1>2, <1>3 DEF RedisTick, RedisTypes, RedisTypeOK, Requests

LEMMA FailureKeepsTypes ==
    ASSUME RedisTypes,
           (\E r \in Replicas : ReplicaRestart(r)) \/ RedisFails \/ RedisReturns
    PROVE  RedisTypes'
<1>1. CASE \E r \in Replicas : ReplicaRestart(r)
  BY <1>1, RedisAssumption DEF ReplicaRestart, Answer, Goto, RedisTypes, RedisTypeOK
<1>2. CASE RedisFails
  BY <1>2 DEF RedisFails, Dropped, RedisTypes, RedisTypeOK
<1>3. CASE RedisReturns
  <2>1. CASE UNCHANGED <<counter, ttl, counted>>
    BY <1>3, <2>1 DEF RedisReturns, RedisTypes, RedisTypeOK
  <2>2. CASE counter' = [a \in Addrs |-> 0] /\ ttl' = [a \in Addrs |-> NoTtl]
             /\ counted' = Nothing
    <3>1. /\ counter' \in [Addrs -> 0..Limit + 1] /\ ttl' \in [Addrs -> 0..Minute]
          /\ counted' \in [Addrs -> SUBSET Requests]
          /\ \A a \in Addrs : counted'[a] = {}
      BY <2>2, LimiterAssumption DEF Nothing, NoTtl
    <3>2. \A a \in Addrs : IsFiniteSet(counted'[a])
      BY <3>1, FS_EmptySet
    <3> QED
      BY <1>3, <3>1, <3>2 DEF RedisReturns, RedisTypes, RedisTypeOK, Requests
  <2> QED
    BY <1>3, <2>1, <2>2 DEF RedisReturns
<1> QED
  BY <1>1, <1>2, <1>3

----------------------------------------------------------------------------

LEMMA RedisInitKeys == RedisInit => TwoKeys
<1> SUFFICES ASSUME RedisInit, NEW a \in Addrs
             PROVE  \E current \in SUBSET counted[a] : SinceKey(a, current)
  BY DEF TwoKeys
<1>1. SinceKey(a, {})
  BY FS_EmptySet, LimiterAssumption DEF RedisInit, Nothing, SinceKey, NoTtl
<1> QED
  BY <1>1

\* A count within the limit goes to the present key.
LEMMA IncrementKeepsKeys ==
    ASSUME RedisTypes, TwoKeys, NEW a \in Addrs, Increment(a), ttl' = ttl,
           IF counter'[a] <= Limit THEN Count(a) ELSE UNCHANGED counted
    PROVE  TwoKeys'
<1> SUFFICES ASSUME NEW b \in Addrs
             PROVE  \E current \in SUBSET counted'[b] : SinceKey(b, current)'
  BY DEF TwoKeys
<1> PICK current \in SUBSET counted[b] : SinceKey(b, current)
  BY DEF TwoKeys
<1>0. /\ IsFiniteSet(counted[b]) /\ IsFiniteSet(current) /\ IsFiniteSet(counted[b] \ current)
      /\ Cardinality(current) \in Nat /\ Cardinality(counted[b] \ current) \in Nat
      /\ counter[b] \in 0..Limit + 1 /\ Limit \in Nat
  BY PartOfFinite, LimiterAssumption DEF RedisTypes, RedisTypeOK
<1>1. CASE a = b /\ counter'[a] <= Limit
  <2>0. /\ counted'[a] = OneMore(counted[a])
        /\ counter'[a] = counter[a] + 1
    BY <1>0, <1>1 DEF Count, Increment, RedisTypes, RedisTypeOK
  <2>1. PICK q : counted'[a] = counted[a] \cup {q} /\ counter'[a] = counter[a] + 1
    BY <2>0 DEF OneMore
  <2> DEFINE more == current \cup {q}
  <2>2. Cardinality(more) \in Nat /\ Cardinality(more) <= Cardinality(current) + 1
    BY <1>0, OneMoreElement
  <2>3. Cardinality(counted'[a] \ more) <= Cardinality(counted[a] \ current)
        /\ Cardinality(counted'[a] \ more) \in Nat
    BY <1>0, <1>1, <2>1, PartOfFinite
  <2>4. more \in SUBSET counted'[a] /\ counted'[a] \ more \subseteq counted[a] \ current
    BY <1>1, <2>1
  <2>5. Cardinality(more) <= counter'[a] /\ Cardinality(more) <= Limit
        /\ Cardinality(counted'[a] \ more) <= Limit
    BY <1>0, <1>1, <2>1, <2>2, <2>3 DEF SinceKey
  <2>6. ttl'[a] # NoTtl => \A p \in counted'[a] \ more : p[1] + ttl'[a] >= Minute
    BY <1>1, <2>4 DEF SinceKey
  <2>7. SinceKey(b, more)'
    BY <1>1, <2>5, <2>6, Zenon DEF SinceKey
  <2> QED
    BY <1>1, <2>4, <2>7
<1>2. CASE ~(a = b /\ counter'[a] <= Limit)
  <2>1. counted'[b] = counted[b] /\ counter'[b] >= counter[b] /\ counter'[b] \in Nat
    BY <1>0, <1>2 DEF Count, Increment, RedisTypes, RedisTypeOK
  <2>2. Cardinality(current) <= counter'[b]
    BY <1>0, <2>1 DEF SinceKey
  <2>3. SinceKey(b, current)'
    BY <2>1, <2>2 DEF SinceKey
  <2> QED
    BY <2>1, <2>3
<1> QED
  BY <1>1, <1>2

LEMMA LostKeepsKeys ==
    ASSUME RedisTypes, TwoKeys, NEW a \in Addrs, Increment(a), UNCHANGED <<ttl, counted>>
    PROVE  TwoKeys'
<1>1. \A b \in Addrs : counter'[b] >= counter[b] /\ counter[b] \in Int /\ counter'[b] \in Int
  BY LimiterAssumption DEF Increment, RedisTypes, RedisTypeOK
<1>2. \A b \in Addrs : \A current \in SUBSET counted[b] : Cardinality(current) \in Nat
  BY PartOfFinite DEF RedisTypes
<1>3. \A b \in Addrs : \A current \in SUBSET counted[b] :
         SinceKey(b, current) => SinceKey(b, current)'
  BY <1>1, <1>2 DEF SinceKey
<1> QED
  BY <1>3 DEF TwoKeys

LEMMA ExpiresKeepsKeys ==
    ASSUME RedisTypes, TwoKeys, NEW a \in Addrs, Expires(a), UNCHANGED <<counter, counted>>
    PROVE  TwoKeys'
<1>1. \A b \in Addrs : \A q \in counted[b] : q[1] >= 0 /\ q[1] \in Int
  BY LimiterAssumption DEF RedisTypes, RedisTypeOK
<1>2. \A b \in Addrs : ttl'[b] \in {ttl[b], NoTtl, Minute}
  BY DEF Expires, RedisTypes, RedisTypeOK
<1>3. \A b \in Addrs : \A current \in SUBSET counted[b] :
         SinceKey(b, current) => SinceKey(b, current)'
  BY <1>1, <1>2, LimiterAssumption DEF SinceKey, NoTtl
<1> QED
  BY <1>3 DEF TwoKeys

\* When the present key goes, what the one before it counted is a minute old.
LEMMA RedisTickKeepsKeys ==
    ASSUME RedisTypes, TwoKeys, RedisTick
    PROVE  TwoKeys'
<1> SUFFICES ASSUME NEW a \in Addrs
             PROVE  \E current \in SUBSET counted'[a] : SinceKey(a, current)'
  BY DEF TwoKeys
<1> PICK current \in SUBSET counted[a] : SinceKey(a, current)
  BY DEF TwoKeys
<1> DEFINE old == counted[a] \ current
<1>0. /\ counted[a] \in SUBSET Requests /\ IsFiniteSet(counted[a])
      /\ counter[a] \in 0..Limit + 1 /\ ttl[a] \in 0..Minute
      /\ Limit \in Nat /\ Minute \in Nat \ {0}
  BY LimiterAssumption DEF RedisTypes, RedisTypeOK, Requests
<1>1. counted'[a] = Aged(counted[a])
  BY DEF RedisTick
<1>2. /\ Aged(current) \in SUBSET counted'[a]
      /\ counted'[a] \ Aged(current) \subseteq Aged(old)
  BY <1>1 DEF Aged
<1>3. /\ Cardinality(Aged(current)) <= Cardinality(current)
      /\ IsFiniteSet(Aged(old)) /\ Cardinality(Aged(old)) <= Cardinality(old)
      /\ IsFiniteSet(current) /\ IsFiniteSet(old)
      /\ IsFiniteSet(Aged(current))
  <2>1. IsFiniteSet(current) /\ IsFiniteSet(old)
    BY <1>0, PartOfFinite
  <2>2. current \in SUBSET Requests /\ old \in SUBSET Requests
    BY <1>0
  <2> QED
    BY <2>1, <2>2, AgedFacts
<1>4. /\ Cardinality(Aged(current)) \in Nat /\ Cardinality(current) \in Nat
      /\ Cardinality(Aged(old)) \in Nat /\ Cardinality(old) \in Nat
  BY <1>3, FS_CardinalityType
<1>5. CASE ttl[a] = 1
  <2>1. counter'[a] = 0 /\ ttl'[a] = NoTtl
    BY <1>5 DEF RedisTick, NoTtl
  <2>2. Aged(old) = {}
    <3>1. \A q \in old : q[1] \in Int /\ q[1] + 1 >= Minute
      BY <1>0, <1>5 DEF SinceKey, NoTtl, Requests
    <3> QED
      BY <3>1, <1>0 DEF Aged
  <2>3. counted'[a] = Aged(current)
    BY <1>2, <2>2
  <2>4. SinceKey(a, {})'
    <3>1. counted'[a] \ {} = Aged(current)
      BY <2>3
    <3> QED
      BY <3>1, <2>1, <1>0, <1>3, <1>4, FS_EmptySet DEF SinceKey
  <2> QED
    BY <2>4
<1>6. CASE ttl[a] # 1
  <2>1. counter'[a] = counter[a] /\ ttl'[a] = IF ttl[a] = NoTtl THEN NoTtl ELSE ttl[a] - 1
    BY <1>6 DEF RedisTick
  <2>2. Cardinality(counted'[a] \ Aged(current)) <= Limit
    <3>1. Cardinality(counted'[a] \ Aged(current)) \in Nat
          /\ Cardinality(counted'[a] \ Aged(current)) <= Cardinality(Aged(old))
      BY <1>2, <1>3, PartOfFinite
    <3> QED
      BY <3>1, <1>0, <1>3, <1>4 DEF SinceKey
  <2>3. ttl'[a] # NoTtl => \A q \in Aged(old) : q[1] + ttl'[a] >= Minute
    BY <2>1, <1>0 DEF Aged, SinceKey, Requests, NoTtl
  <2>4. Cardinality(Aged(current)) <= counter'[a] /\ Cardinality(Aged(current)) <= Limit
    BY <2>1, <1>0, <1>3, <1>4 DEF SinceKey
  <2>5. ttl'[a] # NoTtl => \A q \in counted'[a] \ Aged(current) : q[1] + ttl'[a] >= Minute
    BY <2>3, <1>2
  <2>6. SinceKey(a, Aged(current))'
    BY <2>2, <2>4, <2>5, Zenon DEF SinceKey
  <2> QED
    BY <1>2, <2>6
<1> QED
  BY <1>5, <1>6

LEMMA ReturnsKeepsKeys ==
    ASSUME RedisTypes, TwoKeys, RedisReturns
    PROVE  TwoKeys'
<1>1. CASE UNCHANGED <<counter, ttl, counted>>
  BY <1>1 DEF TwoKeys, SinceKey
<1>2. CASE counter' = [a \in Addrs |-> 0] /\ ttl' = [a \in Addrs |-> NoTtl]
           /\ counted' = Nothing
  <2>1. \A a \in Addrs : {} \in SUBSET counted'[a] /\ SinceKey(a, {})'
    BY <1>2, FS_EmptySet, LimiterAssumption DEF SinceKey, Nothing, NoTtl
  <2> QED
    BY <2>1 DEF TwoKeys
<1> QED
  BY <1>1, <1>2 DEF RedisReturns

----------------------------------------------------------------------------

Numbered == \A a \in Addrs : NumberedAt(counted[a], 0)

LEMMA OneMoreIsNew ==
    ASSUME RedisTypes, Numbered, NEW a \in Addrs
    PROVE  /\ Cardinality(OneMore(counted[a])) = Cardinality(counted[a]) + 1
           /\ NumberedAt(OneMore(counted[a]), 0)
BY NextNumber DEF RedisTypes, Numbered, OneMore

LEMMA CountKeepsNumbers ==
    ASSUME RedisTypes, Numbered, NEW a \in Addrs, Count(a)
    PROVE  Numbered'
<1>1. \A b \in Addrs : counted'[b] = IF b = a THEN OneMore(counted[a]) ELSE counted[b]
  BY DEF Count, RedisTypes, RedisTypeOK
<1> QED
  BY <1>1, OneMoreIsNew DEF Numbered

----------------------------------------------------------------------------
(* Both limiters together.                                                 *)

Types == TypeInv /\ RedisTypes

LEMMA InitTypes == Init => Types
BY MemoryInitTypes, RedisInitTypes DEF Init, Types, TypeInv

LEMMA MemoryStepRedis ==
    ASSUME MemoryStep \/ UNCHANGED vars, RedisTypes, TwoKeys, Numbered
    PROVE  (RedisTypes /\ TwoKeys /\ Numbered)'
<1>1. UNCHANGED redisVars
  BY DEF MemoryStep, vars
<1>2. RedisTypes'
  BY <1>1 DEF redisVars, RedisTypes, RedisTypeOK
<1>3. TwoKeys'
  BY <1>1 DEF redisVars, TwoKeys, SinceKey
<1>4. Numbered'
  BY <1>1 DEF redisVars, Numbered
<1> QED
  BY <1>2, <1>3, <1>4

LEMMA RedisStepKeeps ==
    ASSUME RedisTypes, TwoKeys, Numbered, NEW r \in Replicas, RedisStep(r)
    PROVE  (RedisTypes /\ TwoKeys /\ Numbered)'
<1>1. CASE Auth(r)
  <2>1. UNCHANGED <<counter, ttl, counted>>
    BY <1>1 DEF Auth
  <2> QED
    BY <1>1, <2>1, AuthKeepsTypes DEF TwoKeys, SinceKey, Numbered
<1>2. CASE Incr(r)
  <2>1. addr[r] \in Addrs
    BY <1>2 DEF Incr, RedisTypes
  <2>2. CASE /\ Increment(addr[r]) /\ ttl' = ttl
             /\ IF counter'[addr[r]] <= Limit THEN Count(addr[r]) ELSE UNCHANGED counted
    <3>1. TwoKeys'
      BY <2>1, <2>2, IncrementKeepsKeys
    <3>2. Numbered'
      BY <2>1, <2>2, CountKeepsNumbers DEF Numbered
    <3> QED
      BY <1>2, <3>1, <3>2, IncrKeepsTypes
  <2>3. CASE UNCHANGED <<counter, ttl, counted>>
    BY <1>2, <2>3, IncrKeepsTypes DEF TwoKeys, SinceKey, Numbered
  <2> QED
    BY <1>2, <2>2, <2>3 DEF Incr, WithCount
<1>3. CASE Expire(r)
  <2>1. addr[r] \in Addrs
    BY <1>3 DEF Expire, RedisTypes
  <2>2. UNCHANGED <<counter, counted>>
    BY <1>3 DEF Expire
  <2>3. CASE Expires(addr[r])
    BY <1>3, <2>1, <2>2, <2>3, ExpireKeepsTypes, ExpiresKeepsKeys DEF Numbered
  <2>4. CASE UNCHANGED ttl
    BY <1>3, <2>2, <2>4, ExpireKeepsTypes DEF TwoKeys, SinceKey, Numbered
  <2> QED
    BY <1>3, <2>3, <2>4 DEF Expire
<1> QED
  BY <1>1, <1>2, <1>3 DEF RedisStep

LEMMA RedisOtherKeeps ==
    ASSUME limiter \in {"memory", "redis"}, RedisTypes, TwoKeys, Numbered, RedisOther
    PROVE  (RedisTypes /\ TwoKeys /\ Numbered)'
<1>1. CASE \E r \in Replicas : GuardRedis(r)
  <2>1. PICK r \in Replicas, a \in Addrs : RedisAllow(r, a)
    BY <1>1, ClientsAssumption DEF GuardRedis
  <2>2. UNCHANGED <<counter, ttl, counted>>
    BY <2>1 DEF RedisAllow
  <2> QED
    BY <2>1, <2>2, AllowKeepsTypes DEF TwoKeys, SinceKey, Numbered
<1>2. CASE \E r \in Replicas : IncrReplyLost(r)
  <2>1. PICK r \in Replicas : IncrReplyLost(r)
    BY <1>2
  <2>2. /\ addr[r] \in Addrs /\ Increment(addr[r])
        /\ UNCHANGED <<ttl, counted>>
    BY <2>1 DEF IncrReplyLost, RedisTypes
  <2> QED
    BY <2>1, <2>2, LostKeepsTypes, LostKeepsKeys DEF Numbered
<1>3. CASE \E r \in Replicas : ReplicaRestart(r)
  <2>1. UNCHANGED <<counter, ttl, counted>>
    BY <1>3 DEF ReplicaRestart
  <2> QED
    BY <1>3, <2>1, FailureKeepsTypes DEF TwoKeys, SinceKey, Numbered
<1>4. CASE RedisFails
  <2>1. UNCHANGED <<counter, ttl, counted>>
    BY <1>4 DEF RedisFails
  <2> QED
    BY <1>4, <2>1, FailureKeepsTypes DEF TwoKeys, SinceKey, Numbered
<1>5. CASE RedisReturns
  <2>1. Numbered'
    BY <1>5 DEF RedisReturns, Nothing, Numbered, NumberedAt
  <2> QED
    BY <1>5, <2>1, FailureKeepsTypes, ReturnsKeepsKeys
<1> QED
  BY <1>1, <1>2, <1>3, <1>4, <1>5 DEF RedisOther

LEMMA RedisClockKeeps ==
    ASSUME RedisTypes, TwoKeys, Numbered, RedisClock
    PROVE  (RedisTypes /\ TwoKeys /\ Numbered)'
<1>1. RedisTick
  BY DEF RedisClock
<1>2. Numbered'
  <2>1. \A a \in Addrs : counted'[a] = Aged(counted[a])
    BY <1>1 DEF RedisTick
  <2>2. \A a \in Addrs : \A q \in Aged(counted[a]) : q[1] # 0
    BY DEF Aged, RedisTypes, RedisTypeOK
  <2> QED
    BY <2>1, <2>2 DEF Numbered, NumberedAt
<1> QED
  BY <1>1, <1>2, RedisTickKeepsTypes, RedisTickKeepsKeys

LimitInv == Types /\ TwoKeys /\ Numbered

LEMMA LimitInvHolds == Spec => []LimitInv
<1>1. Init => LimitInv
  BY InitTypes, RedisInitKeys
     DEF Init, LimitInv, Numbered, NumberedAt, RedisInit, Nothing
<1>2. ASSUME LimitInv, TypeInv', [Next]_vars
      PROVE  LimitInv'
  BY <1>2, MemoryStepRedis, RedisStepKeeps, RedisOtherKeeps, RedisClockKeeps
     DEF Next, LimitInv, Types, TypeInv
<1> QED
  BY <1>1, <1>2, MemoryTypeCorrect, PTL DEF Spec

\* Both limiters' variables have their types: buckets are never seen full, no key
\* outlives a minute, and no request stays in the history for longer.
THEOREM TypeCorrect == Spec => []TypeOK
<1>1. LimitInv => TypeOK
  BY DEF LimitInv, Types, TypeInv, RedisTypes, TypeOK
<1> QED
  BY <1>1, LimitInvHolds, PTL

\* The history leaves no request out: each one that is let through by its count
\* adds an element, whatever was let through before it in the same tick.
THEOREM EveryRequestCounted ==
    Spec => [](\A a \in Addrs :
                  Cardinality(OneMore(counted[a])) = Cardinality(counted[a]) + 1)
<1>1. LimitInv => \A a \in Addrs :
                     Cardinality(OneMore(counted[a])) = Cardinality(counted[a]) + 1
  BY OneMoreIsNew DEF LimitInv, Types
<1> QED
  BY <1>1, LimitInvHolds, PTL

\* For any limit, length of a minute, number of replicas and of addresses: the
\* requests of an address let through by their count in the last minute are of the
\* present key and of the one before it at most, each within the limit, however the
\* INCRs and late EXPIREs of the replicas interleave and Redis fails.
THEOREM BurstsBounded == Spec => []AtMostTwicePerMinute
<1>1. ASSUME LimitInv
      PROVE  AtMostTwicePerMinute
  <2> SUFFICES ASSUME NEW a \in Addrs
               PROVE  Cardinality(counted[a]) <= 2 * Limit
    BY DEF AtMostTwicePerMinute
  <2>1. PICK current \in SUBSET counted[a] : SinceKey(a, current)
    BY <1>1 DEF LimitInv, TwoKeys
  <2>2. IsFiniteSet(counted[a])
    BY <1>1 DEF LimitInv, Types, RedisTypes
  <2> QED
    BY <2>1, <2>2, TwoParts, LimiterAssumption DEF SinceKey
<1> QED
  BY <1>1, LimitInvHolds, PTL

----------------------------------------------------------------------------
(* One-time codes: what a step does to one identifier and to one bucket.   *)

\* An identifier's entry after is_locked.
Entry(i) == IF lockouts[i].until # 0 /\ ~Locked(i) THEN NoFailure ELSE lockouts[i]

\* Its entry after record_failure.
FailedOnce(i) ==
    [failed |-> Entry(i).failed + 1,
     until |-> IF Entry(i).failed + 1 >= MaxAttempts THEN now + LockoutSeconds
                                                     ELSE Entry(i).until]

LockStep(i) ==
    \/ lockouts'[i] = lockouts[i] /\ misses'[i] = misses[i]
    \/ ~Locked(i) /\ lockouts'[i] = Entry(i) /\ misses'[i] = misses[i]
    \/ /\ ~Locked(i) /\ lockouts'[i] = FailedOnce(i)
       /\ misses'[i] \in {misses[i], Noted(misses[i])}
    \/ lockouts'[i] = NoFailure /\ misses'[i] = {} /\ (~Locked(i) \/ OtpRestart)

LimitOf(k) == IF k \in Ids THEN RateLimitPerId ELSE RateLimitPerIp

RateStep(k) ==
    \/ rates'[k] \in {rates[k], CurrentBucket(k)} /\ sent'[k] = sent[k]
    \/ /\ CurrentBucket(k).count < LimitOf(k) /\ rates'[k] = Spent(k)
       /\ sent'[k] \in {sent[k], Noted(sent[k])}
    \/ rates'[k] = [count |-> 0, start |-> 0] /\ sent'[k] = {}

Tables ==
    /\ lockouts' = [i \in Ids |-> lockouts'[i]]
    /\ misses' = [i \in Ids |-> misses'[i]]
    /\ rates' = [k \in Keys |-> rates'[k]]
    /\ sent' = [k \in Keys |-> sent'[k]]

StepShape ==
    /\ Tables
    /\ requests' \in [Tokens -> OTPRequest]
    /\ now' = now
    /\ \A i \in Ids : LockStep(i)
    /\ \A k \in Keys : RateStep(k)

LEMMA NatFacts ==
    /\ MaxAttempts \in Nat \ {0} /\ RateLimitPerId \in Nat \ {0}
    /\ RateLimitPerIp \in Nat \ {0}
    /\ LockoutSeconds \in Nat /\ ExpirySeconds \in Nat /\ Window \in Nat
    /\ MaxTime \in Nat /\ Window < MaxTime
    /\ NoKey \notin Keys /\ NoKey \notin Ids /\ NoKey \notin Ips /\ Ids \cap Ips = {}
BY OTPAssumption DEF Keys

LEMMA NoRequestType == NoRequest \in OTPRequest
BY NatFacts DEF NoRequest, OTPRequest

LEMMA CleanupTypes ==
    ASSUME OtpTypeOK
    PROVE  cleanup_expired \in [Tokens -> OTPRequest]
BY NoRequestType DEF OtpTypeOK, cleanup_expired

LEMMA UnlockedShape ==
    ASSUME OtpTypeOK, NEW i \in Ids, lockouts' = Unlocked(i), UNCHANGED misses
    PROVE  /\ lockouts' = [j \in Ids |-> lockouts'[j]]
           /\ misses' = [j \in Ids |-> misses'[j]]
           /\ \A j \in Ids : LockStep(j)
BY DEF OtpTypeOK, Unlocked, LockStep, Entry, Locked

LEMMA LimitedShape ==
    ASSUME OtpTypeOK, NEW i \in Ids, NEW p \in Ips \cup {NoKey}, RequestOverLimit(i, p)
    PROVE  StepShape
<1>1. rates' = [k \in Keys |-> rates'[k]] /\ sent' = [k \in Keys |-> sent'[k]]
  BY DEF OtpTypeOK, RequestOverLimit
<1>2. ASSUME NEW k \in Keys
      PROVE  RateStep(k)
  BY NatFacts DEF RequestOverLimit, RateStep, OtpTypeOK, LimitOf, Keys
<1> QED
  BY <1>1, <1>2, UnlockedShape, CleanupTypes
     DEF RequestOverLimit, StepShape, Tables

LEMMA CodeShape ==
    ASSUME OtpTypeOK, NEW i \in Ids, NEW p \in Ips \cup {NoKey}, RequestCode(i, p)
    PROVE  StepShape
<1>1. rates' = [k \in Keys |-> rates'[k]] /\ sent' = [k \in Keys |-> sent'[k]]
  BY DEF OtpTypeOK, RequestCode
<1>2. ASSUME NEW k \in Keys
      PROVE  RateStep(k)
  <2>1. sent'[k] = sent[k] \/ (k \in {i, p} /\ sent'[k] = Noted(sent[k]))
    BY DEF RequestCode, OtpTypeOK
  <2>2. IF k \in {i, p}
          THEN CurrentBucket(k).count < LimitOf(k) /\ rates'[k] = Spent(k)
          ELSE rates'[k] = rates[k]
    BY NatFacts DEF RequestCode, OtpTypeOK, LimitOf, Keys
  <2> QED
    BY <2>1, <2>2 DEF RateStep
<1>3. requests' \in [Tokens -> OTPRequest]
  <2>1. NewCode(i) \in OTPRequest
    BY NatFacts DEF NewCode, OTPRequest, OtpTypeOK
  <2> QED
    BY <2>1, CleanupTypes DEF RequestCode
<1> QED
  BY <1>1, <1>2, <1>3, UnlockedShape DEF RequestCode, StepShape, Tables

LEMMA OtherRequestShape ==
    ASSUME OtpTypeOK, NEW i \in Ids, is_locked(i) \/ RequestWhileLocked(i)
    PROVE  StepShape
<1>1. /\ rates' = [k \in Keys |-> rates'[k]] /\ sent' = [k \in Keys |-> sent'[k]]
      /\ \A k \in Keys : RateStep(k)
  BY DEF OtpTypeOK, is_locked, RequestWhileLocked, RateStep
<1>2. CASE is_locked(i)
  BY <1>1, <1>2, UnlockedShape DEF is_locked, StepShape, Tables, OtpTypeOK
<1>3. CASE RequestWhileLocked(i)
  <2>1. /\ lockouts' = [j \in Ids |-> lockouts'[j]]
        /\ misses' = [j \in Ids |-> misses'[j]]
        /\ \A j \in Ids : LockStep(j)
    BY <1>3 DEF OtpTypeOK, RequestWhileLocked, LockStep
  <2> QED
    BY <1>1, <1>3, <2>1, CleanupTypes DEF RequestWhileLocked, StepShape, Tables
<1> QED
  BY <1>2, <1>3

LEMMA StoredFor ==
    ASSUME OtpTypeOK, NEW t \in Tokens, Stored(t)
    PROVE  requests[t].id \in Ids
BY DEF OtpTypeOK, OTPRequest, Stored

LEMMA AttemptsType ==
    ASSUME OtpTypeOK, NEW t \in Tokens
    PROVE  Attempts(t) \in 0..MaxAttempts + 1
BY NatFacts DEF OtpTypeOK, OTPRequest, Attempts

LEMMA VerifyShape ==
    ASSUME OtpTypeOK, NEW t \in Tokens,
           VerifyExpired(t) \/ VerifyTooMany(t) \/ VerifyWrong(t) \/ VerifyRight(t)
    PROVE  StepShape
<1> DEFINE i == requests[t].id
<1>1. /\ rates' = [k \in Keys |-> rates'[k]] /\ sent' = [k \in Keys |-> sent'[k]]
      /\ \A k \in Keys : RateStep(k)
      /\ now' = now
  BY DEF OtpTypeOK, VerifyExpired, VerifyTooMany, VerifyWrong, VerifyRight, RateStep
<1>2. requests' \in [Tokens -> OTPRequest]
  BY AttemptsType, NoRequestType
     DEF OtpTypeOK, OTPRequest, VerifyExpired, VerifyTooMany, VerifyWrong, VerifyRight,
         Attempt
<1>3. /\ lockouts' = [j \in Ids |-> lockouts'[j]]
      /\ misses' = [j \in Ids |-> misses'[j]]
      /\ \A j \in Ids : LockStep(j)
  <2>1. CASE VerifyExpired(t)
    BY <2>1 DEF OtpTypeOK, VerifyExpired, LockStep
  <2>2. CASE lockouts' = Unlocked(i) /\ UNCHANGED misses /\ i \in Ids
    BY <2>2, UnlockedShape
  <2>3. CASE /\ lockouts' = record_failure(Unlocked(i), i)
             /\ misses' = misses \/ misses' = [misses EXCEPT ![i] = Noted(@)]
             /\ i \in Ids /\ ~Locked(i)
    <3>1. Unlocked(i) = [lockouts EXCEPT ![i] = Entry(i)]
      BY <2>3 DEF Unlocked, Entry, OtpTypeOK
    <3>2. lockouts' = [lockouts EXCEPT ![i] = FailedOnce(i)]
      BY <2>3, <3>1 DEF record_failure, FailedOnce, OtpTypeOK
    <3>3. lockouts' = [j \in Ids |-> lockouts'[j]] /\ misses' = [j \in Ids |-> misses'[j]]
      BY <2>3, <3>2 DEF OtpTypeOK
    <3>4. LockStep(i)
      BY <2>3, <3>2 DEF LockStep, OtpTypeOK
    <3>5. \A j \in Ids \ {i} : LockStep(j)
      BY <2>3, <3>2 DEF LockStep, OtpTypeOK
    <3> QED
      BY <3>3, <3>4, <3>5
  <2>4. CASE VerifyRight(t)
    BY <2>4, StoredFor DEF OtpTypeOK, VerifyRight, MayTry, LockStep
  <2> QED
    BY <2>1, <2>2, <2>3, <2>4, StoredFor DEF VerifyTooMany, VerifyWrong, MayTry
<1> QED
  BY <1>1, <1>2, <1>3 DEF StepShape, Tables

LEMMA RestartShape ==
    ASSUME OtpRestart \/ UNCHANGED otpVars, OtpTypeOK
    PROVE  StepShape
BY NoRequestType
   DEF OtpRestart, otpVars, OtpTypeOK, StepShape, Tables, LockStep, RateStep

LEMMA Shape ==
    ASSUME OtpTypeOK, [OtpNext]_otpVars
    PROVE  StepShape \/ OtpTick
BY LimitedShape, CodeShape, OtherRequestShape, VerifyShape, RestartShape
   DEF OtpNext, RequestRoutes, VerifyRoute, StatusRoute

----------------------------------------------------------------------------
(* The invariants, of one identifier and of one bucket.                    *)

\* An entry with all its failures is a lock, and what was missed before it is
\* forgotten when it ends.
Misses(i) ==
    /\ IsFiniteSet(misses[i])
    /\ \A e \in misses[i] : e[1] <= now
    /\ NumberedAt(misses[i], now)
    /\ lockouts[i].failed = MaxAttempts => lockouts[i].until # 0

\* With lockouts of no length there is nothing to limit.
Guesses(i) ==
    /\ \A e \in misses[i] : e[1] + LockoutSeconds > now
    /\ Cardinality(misses[i]) <= lockouts[i].failed
    /\ lockouts[i].until # 0 =>
          \A e \in misses[i] : e[1] + LockoutSeconds <= lockouts[i].until

\* The codes of the last Window seconds are those the present bucket counted
\* and those the one before it did.
Present(k) == {e \in sent[k] : e[1] >= rates[k].start}

Codes(k) ==
    /\ IsFiniteSet(sent[k])
    /\ NumberedAt(sent[k], now)
    /\ \A e \in sent[k] : /\ e[1] <= now /\ e[1] + Window >= now
                          /\ e[1] <= rates[k].start + Window
    /\ rates[k].count <= LimitOf(k) /\ rates[k].start <= now
    /\ Cardinality(Present(k)) <= rates[k].count
    /\ Cardinality(sent[k] \ Present(k)) <= LimitOf(k)

OtpTypes ==
    /\ OtpTypeOK
    /\ now > Window
    /\ \A i \in Ids : Misses(i)
    /\ \A k \in Keys : Codes(k)

LEMMA NotedFacts ==
    ASSUME OtpTypeOK, NEW events \in SUBSET (Nat \X Nat), IsFiniteSet(events),
           NumberedAt(events, now)
    PROVE  /\ Noted(events) \in SUBSET (Nat \X Nat)
           /\ IsFiniteSet(Noted(events))
           /\ NumberedAt(Noted(events), now)
           /\ Cardinality(Noted(events)) = Cardinality(events) + 1
           /\ \A e \in Noted(events) : e \in events \/ e[1] = now
<1>1. Cardinality({e \in events : e[1] = now}) \in Nat /\ now \in Nat
  BY PartOfFinite DEF OtpTypeOK
<1>2. Noted(events) \in SUBSET (Nat \X Nat)
  <2>1. <<now, Cardinality({e \in events : e[1] = now})>> \in Nat \X Nat
    BY <1>1
  <2> QED
    BY <2>1 DEF Noted
<1>3. \A e \in Noted(events) : e \in events \/ e[1] = now
  BY DEF Noted
<1>4. IsFiniteSet(Noted(events)) /\ NumberedAt(Noted(events), now)
      /\ Cardinality(Noted(events)) = Cardinality(events) + 1
  BY NextNumber DEF Noted
<1> QED
  BY <1>2, <1>3, <1>4

LEMMA EntryFacts ==
    ASSUME OtpTypeOK, NEW i \in Ids, Misses(i)
    PROVE  /\ Entry(i) \in LockoutInfo
           /\ ~Locked(i) => Entry(i).failed < MaxAttempts /\ Entry(i).until = 0
           /\ Entry(i).failed = MaxAttempts => Entry(i).until # 0
<1>1. lockouts[i] \in LockoutInfo /\ NoFailure \in LockoutInfo
  BY NatFacts DEF OtpTypeOK, LockoutInfo, NoFailure
<1> QED
  BY <1>1, NatFacts DEF Entry, Misses, NoFailure, LockoutInfo

LEMMA MissesKept ==
    ASSUME OtpTypeOK, now > Window, NEW i \in Ids, Misses(i), LockStep(i), now' = now
    PROVE  /\ Misses(i)'
           /\ lockouts'[i] \in LockoutInfo
           /\ misses'[i] \in SUBSET (Nat \X Nat)
<1>0. misses[i] \in SUBSET (Nat \X Nat) /\ lockouts[i] \in LockoutInfo /\ now \in Nat
  BY DEF OtpTypeOK
<1>1. CASE lockouts'[i] = lockouts[i] /\ misses'[i] = misses[i]
  BY <1>0, <1>1 DEF Misses
<1>2. CASE ~Locked(i) /\ lockouts'[i] = Entry(i) /\ misses'[i] = misses[i]
  BY <1>0, <1>2, EntryFacts DEF Misses
<1>3. CASE /\ ~Locked(i) /\ lockouts'[i] = FailedOnce(i)
           /\ misses'[i] \in {misses[i], Noted(misses[i])}
  <2>1. FailedOnce(i) \in LockoutInfo
        /\ (FailedOnce(i).failed = MaxAttempts => FailedOnce(i).until # 0)
    BY <1>0, <1>3, EntryFacts, NatFacts DEF FailedOnce, LockoutInfo
  <2>2. /\ misses'[i] \in SUBSET (Nat \X Nat)
        /\ IsFiniteSet(misses'[i]) /\ NumberedAt(misses'[i], now)
        /\ \A e \in misses'[i] : e \in misses[i] \/ e[1] = now
    BY <1>0, <1>3, NotedFacts DEF Misses
  <2> QED
    BY <1>0, <1>3, <2>1, <2>2 DEF Misses
<1>4. CASE lockouts'[i] = NoFailure /\ misses'[i] = {}
  <2>1. NoFailure \in LockoutInfo /\ NoFailure.failed # MaxAttempts
    BY NatFacts DEF NoFailure, LockoutInfo
  <2> QED
    BY <1>4, <2>1, FS_EmptySet DEF Misses, NumberedAt
<1> QED
  BY <1>1, <1>2, <1>3, <1>4 DEF LockStep

LEMMA GuessesKept ==
    ASSUME OtpTypeOK, NEW i \in Ids, LockoutSeconds > 0,
           Misses(i), Guesses(i), LockStep(i), now' = now
    PROVE  Guesses(i)'
<1>0. /\ misses[i] \in SUBSET (Nat \X Nat) /\ lockouts[i] \in LockoutInfo /\ now \in Nat
      /\ Cardinality(misses[i]) \in Nat
  BY FS_CardinalityType DEF OtpTypeOK, Misses
<1>1. CASE lockouts'[i] = lockouts[i] /\ misses'[i] = misses[i]
  BY <1>0, <1>1 DEF Guesses
<1>a. ASSUME lockouts[i].until # 0, ~Locked(i)
      PROVE  misses[i] = {}
  <2>1. \A e \in misses[i] : e[1] \in Nat /\ e[1] + LockoutSeconds > now
                             /\ e[1] + LockoutSeconds <= lockouts[i].until
    BY <1>0, <1>a DEF Guesses
  <2>2. lockouts[i].until \in Nat /\ lockouts[i].until <= now
    BY <1>0, <1>a DEF LockoutInfo, Locked
  <2> QED
    BY <1>0, <2>1, <2>2, NatFacts
<1>b. ~Locked(i) => Cardinality(misses[i]) <= Entry(i).failed /\ Entry(i).until = 0
  <2>1. CASE lockouts[i].until # 0 /\ ~Locked(i)
    BY <2>1, <1>a, FS_EmptySet DEF Entry, NoFailure
  <2>2. CASE lockouts[i].until = 0
    BY <2>2 DEF Entry, Guesses
  <2> QED
    BY <2>1, <2>2
<1>2. CASE ~Locked(i) /\ lockouts'[i] = Entry(i) /\ misses'[i] = misses[i]
  BY <1>0, <1>2, <1>b DEF Guesses
<1>3. CASE /\ ~Locked(i) /\ lockouts'[i] = FailedOnce(i)
           /\ misses'[i] \in {misses[i], Noted(misses[i])}
  <2>1. /\ Cardinality(misses'[i]) <= Cardinality(misses[i]) + 1
        /\ Cardinality(misses'[i]) \in Nat
        /\ misses'[i] \in SUBSET (Nat \X Nat)
        /\ \A e \in misses'[i] : e \in misses[i] \/ e[1] = now
    BY <1>0, <1>3, NotedFacts, FS_CardinalityType DEF Misses
  <2>2. /\ FailedOnce(i).failed = Entry(i).failed + 1 /\ Entry(i).failed \in Nat
        /\ FailedOnce(i).until \in {0, now + LockoutSeconds}
    BY <1>3, <1>b, EntryFacts DEF FailedOnce, LockoutInfo
  <2>3. Cardinality(misses'[i]) <= lockouts'[i].failed
    BY <1>0, <1>3, <1>b, <2>1, <2>2
  <2>4. \A e \in misses'[i] : e[1] \in Nat /\ e[1] <= now /\ e[1] + LockoutSeconds > now
    BY <1>0, <2>1, NatFacts DEF Guesses, Misses
  <2>5. lockouts'[i].until # 0 =>
            \A e \in misses'[i] : e[1] + LockoutSeconds <= lockouts'[i].until
    BY <1>0, <1>3, <2>2, <2>4, NatFacts
  <2> QED
    BY <2>3, <2>4, <2>5 DEF Guesses
<1>4. CASE lockouts'[i] = NoFailure /\ misses'[i] = {}
  BY <1>4, FS_EmptySet DEF Guesses, NoFailure
<1> QED
  BY <1>1, <1>2, <1>3, <1>4 DEF LockStep

LEMMA BucketFound ==
    ASSUME OtpTypeOK, now > Window, NEW k \in Keys, Codes(k),
           NEW b, b = CurrentBucket(k),
           NEW new, new = {e \in sent[k] : e[1] >= b.start}
    PROVE  /\ b \in RateBucket
           /\ b.count <= LimitOf(k)
           /\ b.start <= now /\ now <= b.start + Window
           /\ \A e \in sent[k] : e[1] <= b.start + Window
           /\ Cardinality(new) <= b.count
           /\ Cardinality(sent[k] \ new) <= LimitOf(k)
<1>0. /\ rates[k] \in RateBucket /\ sent[k] \in SUBSET (Nat \X Nat)
      /\ now \in Nat /\ Window \in Nat /\ LimitOf(k) \in Nat
  BY NatFacts DEF OtpTypeOK, LimitOf, Keys
<1>1. IsFiniteSet(sent[k]) /\ IsFiniteSet(new) /\ Cardinality(new) \in Nat
  BY PartOfFinite DEF Codes
<1>2. CASE now - rates[k].start > Window
  <2>1. b = [count |-> 0, start |-> now]
    BY <1>2 DEF CurrentBucket
  <2>2. \A e \in sent[k] : /\ e[1] \in Nat /\ e[1] < now
                           /\ e[1] > rates[k].start
    BY <1>0, <1>2 DEF Codes, RateBucket
  <2>3. new = {} /\ Present(k) = sent[k] /\ sent[k] \ new = sent[k]
    BY <1>0, <2>1, <2>2 DEF Present, RateBucket
  <2>4. Cardinality(new) = 0
    BY <2>3, FS_EmptySet, Zenon
  <2>5. Cardinality(sent[k]) <= LimitOf(k)
    <3>1. Cardinality(sent[k]) \in Nat /\ rates[k].count \in Nat
      BY <1>0, <1>1, FS_CardinalityType DEF RateBucket
    <3>2. Cardinality(sent[k]) <= rates[k].count
      BY <2>3 DEF Codes
    <3> QED
      BY <1>0, <3>1, <3>2 DEF Codes
  <2>6. b \in RateBucket /\ b.count = 0 /\ b.start = now
    BY <1>0, <2>1 DEF RateBucket
  <2>7. \A e \in sent[k] : e[1] <= b.start + Window
    BY <1>0, <2>2, <2>6
  <2>8. b.count <= LimitOf(k) /\ b.start <= now /\ now <= b.start + Window
    BY <1>0, <2>6
  <2>9. Cardinality(sent[k] \ new) <= LimitOf(k)
    BY <2>3, <2>5
  <2>10. Cardinality(new) <= b.count
    BY <2>4, <2>6
  <2> QED
    BY <2>6, <2>7, <2>8, <2>9, <2>10
<1>3. CASE ~(now - rates[k].start > Window)
  <2>1. b = rates[k]
    BY <1>3 DEF CurrentBucket
  <2>2. new = Present(k)
    BY <2>1 DEF Present
  <2>3. b \in RateBucket /\ now <= b.start + Window
    BY <1>0, <1>3, <2>1 DEF RateBucket
  <2>4. Cardinality(new) <= b.count /\ Cardinality(sent[k] \ new) <= LimitOf(k)
    BY <2>1, <2>2 DEF Codes
  <2>5. /\ b.count <= LimitOf(k) /\ b.start <= now
        /\ \A e \in sent[k] : e[1] <= b.start + Window
    BY <2>1 DEF Codes
  <2> QED
    BY <2>3, <2>4, <2>5
<1> QED
  BY <1>2, <1>3

LEMMA CodesKept ==
    ASSUME OtpTypeOK, now > Window, NEW k \in Keys, Codes(k), RateStep(k), now' = now
    PROVE  /\ Codes(k)'
           /\ rates'[k] \in RateBucket
           /\ sent'[k] \in SUBSET (Nat \X Nat)
<1> DEFINE b == CurrentBucket(k)
           new == {e \in sent[k] : e[1] >= b.start}
           old == sent[k] \ new
<1>0. /\ rates[k] \in RateBucket /\ sent[k] \in SUBSET (Nat \X Nat)
      /\ now \in Nat /\ Window \in Nat /\ LimitOf(k) \in Nat
      /\ LimitOf(k)' = LimitOf(k)
  BY NatFacts DEF OtpTypeOK, LimitOf, Keys
<1>1. /\ b \in RateBucket /\ b.count <= LimitOf(k)
      /\ b.start <= now /\ now <= b.start + Window
      /\ \A e \in sent[k] : e[1] <= b.start + Window
      /\ Cardinality(new) <= b.count
      /\ Cardinality(old) <= LimitOf(k)
  BY BucketFound
<1>2. CASE rates'[k] = rates[k] /\ sent'[k] = sent[k]
  BY <1>0, <1>2 DEF Codes, Present
<1>3. CASE rates'[k] = b /\ sent'[k] = sent[k]
  <2>1. Present(k)' = new
    BY <1>3 DEF Present
  <2> QED
    BY <1>0, <1>1, <1>3, <2>1 DEF Codes
<1>4. CASE /\ b.count < LimitOf(k) /\ rates'[k] = Spent(k)
           /\ sent'[k] \in {sent[k], Noted(sent[k])}
  <2>1. rates'[k] = [count |-> b.count + 1, start |-> b.start]
    BY <1>1, <1>4 DEF Spent, RateBucket
  <2>2. IsFiniteSet(sent[k]) /\ NumberedAt(sent[k], now)
    BY DEF Codes
  <2>3. /\ sent'[k] \in SUBSET (Nat \X Nat) /\ IsFiniteSet(sent'[k])
        /\ NumberedAt(sent'[k], now)
        /\ \A e \in sent'[k] : e \in sent[k] \/ e[1] = now
    BY <1>0, <1>4, <2>2, NotedFacts
  <2>4. PICK x : sent'[k] \subseteq sent[k] \cup {x} /\ sent[k] \subseteq sent'[k]
    BY <1>4 DEF Noted
  <2>5. IsFiniteSet(new) /\ IsFiniteSet(old)
    BY <2>2, PartOfFinite
  <2>6. Present(k)' \subseteq new \cup {x} /\ sent'[k] \ Present(k)' \subseteq old
    <3>1. Present(k)' = {e \in sent'[k] : e[1] >= b.start}
      BY <2>1 DEF Present
    <3>2. \A e \in sent'[k] : e[1] < b.start => e \in sent[k]
      BY <1>0, <1>1, <2>3 DEF RateBucket
    <3> QED
      BY <1>0, <1>1, <2>3, <2>4, <3>1, <3>2 DEF RateBucket
  <2> HIDE DEF b, new, old
  <2>7. /\ Cardinality(Present(k)') \in Nat /\ Cardinality(Present(k)') <= Cardinality(new) + 1
        /\ Cardinality(new) \in Nat
    <3>1. /\ IsFiniteSet(new \cup {x}) /\ Cardinality(new \cup {x}) \in Nat
          /\ Cardinality(new) \in Nat
          /\ Cardinality(new \cup {x}) <= Cardinality(new) + 1
      BY <2>5, OneMoreElement
    <3>2. Cardinality(Present(k)') \in Nat /\ Cardinality(Present(k)') <= Cardinality(new \cup {x})
      BY <2>6, <3>1, PartOfFinite
    <3> QED
      BY <3>1, <3>2
  <2>8. /\ Cardinality(sent'[k] \ Present(k)') \in Nat /\ Cardinality(old) \in Nat
        /\ Cardinality(sent'[k] \ Present(k)') <= Cardinality(old)
    BY <2>5, <2>6, PartOfFinite, FS_CardinalityType
  <2>9. \A e \in sent'[k] : /\ e[1] <= now /\ e[1] + Window >= now
                            /\ e[1] <= b.start + Window
    BY <1>0, <1>1, <2>3 DEF Codes, RateBucket
  <2>10. rates'[k] \in RateBucket
    BY <1>1, <2>1 DEF RateBucket
  <2>11. b.count + 1 <= LimitOf(k) /\ Cardinality(Present(k)') <= b.count + 1
         /\ Cardinality(sent'[k] \ Present(k)') <= LimitOf(k)
    BY <1>0, <1>1, <1>4, <2>7, <2>8 DEF RateBucket
  <2> QED
    BY <1>0, <1>1, <2>1, <2>3, <2>9, <2>10, <2>11 DEF Codes
<1>5. CASE rates'[k] = [count |-> 0, start |-> 0] /\ sent'[k] = {}
  <2>1. Present(k)' = {} /\ sent'[k] \ Present(k)' = {}
    BY <1>5 DEF Present
  <2> QED
    BY <1>0, <1>5, <2>1, FS_EmptySet DEF Codes, NumberedAt, RateBucket
<1> QED
  BY <1>2, <1>3, <1>4, <1>5 DEF RateStep

----------------------------------------------------------------------------
(* The clock.                                                              *)

LEMMA TickKeepsMisses ==
    ASSUME OtpTypeOK, OtpTick, NEW i \in Ids, Misses(i)
    PROVE  /\ Misses(i)'
           /\ misses'[i] \in SUBSET misses[i]
           /\ Guesses(i) => Guesses(i)'
<1>0. /\ misses[i] \in SUBSET (Nat \X Nat) /\ now \in Nat /\ now' = now + 1
      /\ lockouts'[i] = lockouts[i] /\ lockouts[i] \in LockoutInfo
      /\ misses'[i] = {e \in misses[i] : e[1] > now + 1 - LockoutSeconds}
  BY DEF OtpTypeOK, OtpTick
<1>1. misses'[i] \in SUBSET misses[i]
  BY <1>0
<1>2. /\ IsFiniteSet(misses'[i]) /\ Cardinality(misses'[i]) \in Nat
      /\ Cardinality(misses[i]) \in Nat /\ Cardinality(misses'[i]) <= Cardinality(misses[i])
  BY <1>1, PartOfFinite, FS_CardinalityType DEF Misses
<1>3. \A e \in misses'[i] : e[1] \in Nat /\ e[1] <= now
  BY <1>0, <1>1 DEF Misses
<1>4. Misses(i)'
  BY <1>0, <1>2, <1>3 DEF Misses, NumberedAt
<1>5. ASSUME Guesses(i)
      PROVE  Guesses(i)'
  <2>1. \A e \in misses'[i] : e[1] + LockoutSeconds > now'
    BY <1>0, <1>3, NatFacts
  <2>2. Cardinality(misses'[i]) <= lockouts'[i].failed
    BY <1>0, <1>2, <1>5 DEF Guesses, LockoutInfo
  <2> QED
    BY <1>0, <1>1, <1>5, <2>1, <2>2 DEF Guesses
<1> QED
  BY <1>1, <1>4, <1>5

LEMMA TickKeepsCodes ==
    ASSUME OtpTypeOK, OtpTick, NEW k \in Keys, Codes(k)
    PROVE  Codes(k)' /\ sent'[k] \in SUBSET sent[k]
<1>0. /\ sent[k] \in SUBSET (Nat \X Nat) /\ now \in Nat /\ now' = now + 1
      /\ rates'[k] = rates[k] /\ rates[k] \in RateBucket
      /\ sent'[k] = {e \in sent[k] : e[1] > now + 1 - Window}
      /\ LimitOf(k)' = LimitOf(k) /\ LimitOf(k) \in Nat /\ Window \in Nat
  BY NatFacts DEF OtpTypeOK, OtpTick, LimitOf, Keys
<1>1. /\ sent'[k] \in SUBSET sent[k]
      /\ Present(k)' \in SUBSET Present(k)
      /\ sent'[k] \ Present(k)' \in SUBSET (sent[k] \ Present(k))
  BY <1>0 DEF Present
<1>2. /\ IsFiniteSet(sent[k]) /\ IsFiniteSet(Present(k)) /\ IsFiniteSet(sent[k] \ Present(k))
      /\ Cardinality(Present(k)) \in Nat /\ Cardinality(sent[k] \ Present(k)) \in Nat
  BY PartOfFinite DEF Codes, Present
<1>3. /\ IsFiniteSet(sent'[k])
      /\ Cardinality(Present(k)') \in Nat
      /\ Cardinality(Present(k)') <= Cardinality(Present(k))
      /\ Cardinality(sent'[k] \ Present(k)') \in Nat
      /\ Cardinality(sent'[k] \ Present(k)') <= Cardinality(sent[k] \ Present(k))
  BY <1>1, <1>2, PartOfFinite
<1>4. \A e \in sent'[k] : /\ e[1] \in Nat /\ e[1] <= now /\ e[1] + Window >= now'
                          /\ e[1] <= rates'[k].start + Window
  BY <1>0, <1>1 DEF Codes
<1>5. Cardinality(Present(k)') <= rates'[k].count
      /\ Cardinality(sent'[k] \ Present(k)') <= LimitOf(k)
  BY <1>0, <1>2, <1>3 DEF Codes, RateBucket
<1>6. NumberedAt(sent'[k], now')
  BY <1>0, <1>4 DEF NumberedAt
<1> QED
  BY <1>0, <1>1, <1>3, <1>4, <1>5, <1>6 DEF Codes, RateBucket

----------------------------------------------------------------------------

LEMMA OtpInitTypes == OtpInit => OtpTypes
<1> SUFFICES ASSUME OtpInit
             PROVE  OtpTypes
  OBVIOUS
<1>1. OtpTypeOK
  BY NatFacts, NoRequestType
     DEF OtpInit, OtpTypeOK, NoFailure, LockoutInfo, RateBucket, Keys
<1>2. now > Window
  BY NatFacts DEF OtpInit
<1>3. \A i \in Ids : Misses(i)
  BY FS_EmptySet, NatFacts DEF OtpInit, Misses, NumberedAt, NoFailure
<1>4. ASSUME NEW k \in Keys
      PROVE  Codes(k)
  <2>1. Present(k) = {} /\ sent[k] \ Present(k) = {} /\ sent[k] = {}
    BY <1>4 DEF OtpInit, Present
  <2>2. LimitOf(k) \in Nat
    BY NatFacts DEF LimitOf
  <2>3. rates[k] = [count |-> 0, start |-> 0] /\ now \in Nat
    BY <1>1, <1>4 DEF OtpInit, OtpTypeOK
  <2> QED
    BY <2>1, <2>2, <2>3, FS_EmptySet DEF Codes, NumberedAt
<1> QED
  BY <1>1, <1>2, <1>3, <1>4 DEF OtpTypes

LEMMA OtpStepTypes ==
    ASSUME OtpTypes, [OtpNext]_otpVars
    PROVE  OtpTypes'
<1>1. CASE StepShape
  <2>1. /\ now' = now /\ now' > Window
        /\ \A i \in Ids : Misses(i)' /\ lockouts'[i] \in LockoutInfo
                          /\ misses'[i] \in SUBSET (Nat \X Nat)
        /\ \A k \in Keys : Codes(k)' /\ rates'[k] \in RateBucket
                           /\ sent'[k] \in SUBSET (Nat \X Nat)
    BY <1>1, MissesKept, CodesKept DEF OtpTypes, StepShape
  <2>2. /\ lockouts' \in [Ids -> LockoutInfo] /\ misses' \in [Ids -> SUBSET (Nat \X Nat)]
        /\ rates' \in [Keys -> RateBucket] /\ sent' \in [Keys -> SUBSET (Nat \X Nat)]
    BY <1>1, <2>1 DEF StepShape, Tables
  <2>3. /\ \A i \in Ids : rates'[i].count <= RateLimitPerId
        /\ \A p \in Ips : rates'[p].count <= RateLimitPerIp
    BY <2>1, NatFacts DEF Codes, LimitOf, Keys
  <2>4. OtpTypeOK'
    BY <1>1, <2>1, <2>2, <2>3 DEF StepShape, OtpTypeOK, OtpTypes
  <2> QED
    BY <2>1, <2>4 DEF OtpTypes
<1>2. CASE OtpTick
  <2>1. /\ \A i \in Ids : Misses(i)' /\ misses'[i] \in SUBSET misses[i]
        /\ \A k \in Keys : Codes(k)' /\ sent'[k] \in SUBSET sent[k]
    BY <1>2, TickKeepsMisses, TickKeepsCodes DEF OtpTypes
  <2>2. /\ misses' \in [Ids -> SUBSET (Nat \X Nat)] /\ sent' \in [Keys -> SUBSET (Nat \X Nat)]
    BY <1>2, <2>1 DEF OtpTick, OtpTypes, OtpTypeOK
  <2>3. now' \in 0..MaxTime /\ now' > Window
    BY <1>2, NatFacts DEF OtpTick, OtpTypes, OtpTypeOK
  <2>4. OtpTypeOK'
    BY <1>2, <2>2, <2>3 DEF OtpTick, OtpTypes, OtpTypeOK
  <2> QED
    BY <2>1, <2>3, <2>4 DEF OtpTypes
<1> QED
  BY <1>1, <1>2, Shape DEF OtpTypes

\* The types of the tables, and the counters below their limits.
LEMMA OtpTypesHold == OtpSpec => []OtpTypes
<1>1. OtpTypes /\ [OtpNext]_otpVars => OtpTypes'
  BY OtpStepTypes
<1> QED
  BY <1>1, OtpInitTypes, PTL DEF OtpSpec

\* The tables have their types: no entry of a lockout counts past MaxAttempts, no
\* bucket past its limit, and a request's attempts stop one past theirs.
THEOREM OtpTypeCorrect == OtpSpec => []OtpTypeOK
<1>1. OtpTypes => OtpTypeOK
  BY DEF OtpTypes
<1> QED
  BY <1>1, OtpTypesHold, PTL

\* For any limits, window, identifiers and addresses: the codes made in the last
\* Window seconds are those of the present bucket and of the one before it, each
\* within the limit, though check_rate_limit's window is fixed.
THEOREM CodesLimited == OtpSpec => []SentAtMostTwice
<1>1. ASSUME OtpTypes
      PROVE  SentAtMostTwice
  <2>1. ASSUME NEW k \in Keys
        PROVE  Cardinality(sent[k]) <= 2 * LimitOf(k)
    <3>1. IsFiniteSet(sent[k]) /\ Present(k) \in SUBSET sent[k]
      BY <1>1 DEF OtpTypes, Codes, Present
    <3>2. LimitOf(k) \in Nat /\ rates[k].count \in Nat /\ Cardinality(Present(k)) \in Nat
      BY <1>1, <3>1, NatFacts, PartOfFinite DEF OtpTypes, OtpTypeOK, RateBucket, LimitOf, Keys
    <3>3. /\ Cardinality(Present(k)) <= rates[k].count /\ rates[k].count <= LimitOf(k)
          /\ Cardinality(sent[k] \ Present(k)) <= LimitOf(k)
      BY <1>1 DEF OtpTypes, Codes
    <3>4. Cardinality(Present(k)) <= LimitOf(k)
      BY <3>2, <3>3
    <3> QED
      BY <3>1, <3>2, <3>3, <3>4, TwoParts
  <2> QED
    BY <2>1, NatFacts DEF SentAtMostTwice, LimitOf, Keys
<1> QED
  BY <1>1, OtpTypesHold, PTL

LockKept == OtpRestart \/ \A i \in Ids : Locked(i) => lockouts'[i] = lockouts[i]

\* For any number of identifiers and stored codes: neither a request, nor a
\* verification, nor a status query changes the entry of an identifier whose
\* lockout runs.
THEOREM LocksHold == OtpSpec => LockHolds
<1>1. ASSUME OtpTypes, [OtpNext]_otpVars
      PROVE  [LockKept]_otpVars
  <2>1. CASE StepShape
    BY <2>1 DEF StepShape, LockStep, LockKept
  <2>2. CASE OtpTick
    BY <2>2 DEF OtpTick, LockKept
  <2> QED
    BY <1>1, <2>1, <2>2, Shape DEF OtpTypes
<1>2. OtpSpec => [][LockKept]_otpVars
  BY <1>1, OtpTypesHold, PTL DEF OtpSpec
<1> QED
  BY <1>2 DEF LockHolds, LockKept

\* For any number of codes stored for an identifier and any lockout that has a
\* length: between two right codes at most MaxAttempts wrong ones are compared in
\* any LockoutSeconds, because what was missed before a lockout is as old as the
\* lockout when it ends and the failures are forgotten.
THEOREM GuessesBounded ==
    ASSUME LockoutSeconds > 0
    PROVE  OtpSpec => []GuessesLimited
<1> DEFINE Inv == \A i \in Ids : Guesses(i)
<1>1. OtpInit => Inv
  BY FS_EmptySet DEF OtpInit, Guesses, NoFailure
<1>2. ASSUME OtpTypes, Inv, [OtpNext]_otpVars
      PROVE  Inv'
  <2>1. CASE StepShape
    BY <1>2, <2>1, GuessesKept DEF OtpTypes, StepShape
  <2>2. CASE OtpTick
    BY <1>2, <2>2, TickKeepsMisses DEF OtpTypes
  <2> QED
    BY <1>2, <2>1, <2>2, Shape DEF OtpTypes
<1>3. ASSUME OtpTypes, Inv
      PROVE  GuessesLimited
  <2> SUFFICES ASSUME NEW i \in Ids
               PROVE  Cardinality(misses[i]) <= MaxAttempts
    BY DEF GuessesLimited
  <2>1. Cardinality(misses[i]) \in Nat /\ lockouts[i] \in LockoutInfo
    BY <1>3, FS_CardinalityType DEF OtpTypes, OtpTypeOK, Misses
  <2> QED
    BY <1>3, <2>1, NatFacts DEF Guesses, LockoutInfo
<1> HIDE DEF Inv
<1> QED
  BY <1>1, <1>2, <1>3, OtpTypesHold, PTL DEF OtpSpec

\* The histories leave no event out: each wrong code and each code made adds one,
\* whatever came before it in the same second.
THEOREM EveryEventCounted ==
    OtpSpec => [](/\ \A i \in Ids :
                        Cardinality(Noted(misses[i])) = Cardinality(misses[i]) + 1
                  /\ \A k \in Keys :
                        Cardinality(Noted(sent[k])) = Cardinality(sent[k]) + 1)
<1>1. OtpTypes => /\ \A i \in Ids :
                        Cardinality(Noted(misses[i])) = Cardinality(misses[i]) + 1
                  /\ \A k \in Keys :
                        Cardinality(Noted(sent[k])) = Cardinality(sent[k]) + 1
  BY NotedFacts DEF OtpTypes, OtpTypeOK, Misses, Codes
<1> QED
  BY <1>1, OtpTypesHold, PTL
=============================================================================
