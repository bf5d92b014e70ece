------------------------- MODULE ConnectionPoolProofs -------------------------
(***************************************************************************)
(* Safety of the connection pool for any number of threads and of          *)
(* connections.                                                            *)
(***************************************************************************)
EXTENDS ConnectionPool, FiniteSetTheorems, TLAPS

----------------------------------------------------------------------------
(* Queues without repetitions.                                             *)

Distinct(q) == \A i, j \in 1..Len(q) : q[i] = q[j] => i = j

LEMMA AppendFacts ==
    ASSUME NEW S, NEW q \in Seq(S), NEW x \in S
    PROVE  /\ Append(q, x) \in Seq(S)
           /\ Len(Append(q, x)) = Len(q) + 1
           /\ Members(Append(q, x)) = Members(q) \cup {x}
           /\ Distinct(q) /\ x \notin Members(q) => Distinct(Append(q, x))
<1>1. /\ Append(q, x) \in Seq(S) /\ Len(Append(q, x)) = Len(q) + 1
      /\ \A i \in 1..Len(q) : Append(q, x)[i] = q[i]
      /\ Append(q, x)[Len(q) + 1] = x
      /\ Len(q) \in Nat
  OBVIOUS
<1>2. \A i \in 1..Len(q) + 1 : i \in 1..Len(q) \/ i = Len(q) + 1
  BY <1>1
<1>3. 1..Len(q) \subseteq 1..Len(q) + 1 /\ Len(q) + 1 \in 1..Len(q) + 1
  BY <1>1
<1>4. Members(Append(q, x)) = Members(q) \cup {x}
  BY <1>1, <1>2, <1>3 DEF Members
<1>5. Distinct(q) /\ x \notin Members(q) => Distinct(Append(q, x))
  BY <1>1, <1>2, <1>3 DEF Members, Distinct
<1> QED
  BY <1>1, <1>4, <1>5

LEMMA TailFacts ==
    ASSUME NEW S, NEW q \in Seq(S), q # <<>>
    PROVE  /\ Head(q) \in S /\ Tail(q) \in Seq(S)
           /\ Len(q) \in Nat \ {0} /\ Len(Tail(q)) = Len(q) - 1
           /\ Members(q) = Members(Tail(q)) \cup {Head(q)}
           /\ Distinct(q) => Distinct(Tail(q)) /\ Head(q) \notin Members(Tail(q))
<1>1. /\ Head(q) \in S /\ Tail(q) \in Seq(S) /\ Head(q) = q[1]
      /\ Len(q) \in Nat \ {0} /\ Len(Tail(q)) = Len(q) - 1
      /\ \A i \in 1..Len(q) - 1 : Tail(q)[i] = q[i + 1]
  OBVIOUS
<1>2. \A i \in 1..Len(q) - 1 : i + 1 \in 1..Len(q) /\ i + 1 # 1
  BY <1>1
<1>3. \A i \in 1..Len(q) : i = 1 \/ (i - 1 \in 1..Len(q) - 1 /\ (i - 1) + 1 = i)
  BY <1>1
<1>4. 1 \in 1..Len(q)
  BY <1>1
<1>5. ASSUME NEW x
      PROVE  x \in Members(Tail(q)) <=> \E i \in 1..Len(q) - 1 : x = q[i + 1]
  BY <1>1 DEF Members
<1>6. Members(q) = Members(Tail(q)) \cup {Head(q)}
  <2>1. ASSUME NEW x \in Members(q)
        PROVE  x \in Members(Tail(q)) \cup {Head(q)}
    <3>1. PICK i \in 1..Len(q) : x = q[i]
      BY DEF Members
    <3>2. CASE i = 1
      BY <3>1, <3>2, <1>1
    <3>3. CASE i # 1
      BY <3>1, <3>3, <1>3, <1>5
    <3> QED
      BY <3>2, <3>3
  <2>2. ASSUME NEW x \in Members(Tail(q)) \cup {Head(q)}
        PROVE  x \in Members(q)
    <3>1. CASE x = Head(q)
      BY <3>1, <1>1, <1>4 DEF Members
    <3>2. CASE x \in Members(Tail(q))
      <4>1. PICK i \in 1..Len(q) - 1 : x = q[i + 1]
        BY <3>2, <1>5
      <4> QED
        BY <4>1, <1>2 DEF Members
    <3> QED
      BY <3>1, <3>2
  <2> QED
    BY <2>1, <2>2
<1>7. Distinct(q) => Head(q) \notin Members(Tail(q))
  BY <1>1, <1>2, <1>4, <1>5 DEF Distinct
<1>8. Distinct(q) => Distinct(Tail(q))
  <2> SUFFICES ASSUME Distinct(q), NEW i \in 1..Len(q) - 1, NEW j \in 1..Len(q) - 1,
                      Tail(q)[i] = Tail(q)[j]
               PROVE  i = j
    BY <1>1 DEF Distinct
  <2>1. q[i + 1] = q[j + 1]
    BY <1>1
  <2>2. i + 1 = j + 1
    BY <2>1, <1>2 DEF Distinct
  <2> QED
    BY <2>2
<1> QED
  BY <1>1, <1>6, <1>7, <1>8

----------------------------------------------------------------------------
(* Where the connections are.                                              *)

Holding == {"reset", "exec", "release"}

\* A connection that was opened is in the queue or with a thread, and one that
\* was not is in neither.
Placed ==
    \A c \in Conns :
       status[c] # "unopened" <=>
          c \in Members(idle) \/ \E t \in Threads : conn[t] = c

PoolInv ==
    /\ TypeOK
    /\ \A t \in Threads : conn[t] # None <=> pc[t] \in Holding
    /\ phase = "opening" => \A t \in Threads : pc[t] = "out"
    /\ Distinct(idle)
    /\ \A t \in Threads : conn[t] \notin Members(idle)
    /\ \A t, u \in Threads : conn[t] = conn[u] /\ conn[t] # None => t = u
    /\ Placed

LEMMA PoolInvImplies == PoolInv => TypeOK /\ NoConnectionLost
BY DEF PoolInv, NoConnectionLost, Distinct, Placed

LEMMA PoolInvInit == Init => PoolInv
BY PoolAssumption DEF Init, PoolInv, TypeOK, Labels, Holding, Placed, Distinct, Members

LEMMA OpenStep ==
    ASSUME PoolInv, NEW c \in Conns, Open(c)
    PROVE  PoolInv'
<1>1. CASE database = "up"
  <2>1. /\ status' = [status EXCEPT ![c] = "good"] /\ idle' = Append(idle, c)
        /\ UNCHANGED <<phase, database, conn, pc>>
        /\ status[c] = "unopened"
    BY <1>1 DEF Open
  <2>2. c \notin Members(idle) /\ \A t \in Threads : conn[t] # c
    BY <2>1 DEF PoolInv, Placed
  <2>3. /\ idle' \in Seq(Conns) /\ Distinct(idle')
        /\ Members(idle') = Members(idle) \cup {c}
    BY <2>1, <2>2, AppendFacts DEF PoolInv, TypeOK
  <2> QED
    BY <2>1, <2>2, <2>3 DEF PoolInv, TypeOK, Placed, Distinct, Members
<1>2. CASE database # "up"
  BY <1>2 DEF Open, PoolInv, TypeOK, Placed, Distinct, Members
<1> QED
  BY <1>1, <1>2

LEMMA AcquireStep ==
    ASSUME PoolInv, NEW t \in Threads, Acquire(t)
    PROVE  PoolInv'
<1>1. CASE idle # <<>>
  <2>1. /\ conn' = [conn EXCEPT ![t] = Head(idle)] /\ idle' = Tail(idle)
        /\ pc' = [pc EXCEPT ![t] = "reset"]
        /\ UNCHANGED <<phase, database, status>>
        /\ pc[t] = "acquire"
    BY <1>1 DEF Acquire, Pop, Goto
  <2>2. /\ Head(idle) \in Conns /\ idle' \in Seq(Conns)
        /\ Distinct(idle') /\ Head(idle) \notin Members(idle')
        /\ Members(idle) = Members(idle') \cup {Head(idle)}
    BY <1>1, <2>1, TailFacts DEF PoolInv, TypeOK
  <2>3. conn[t] = None
    BY <2>1 DEF PoolInv, Holding
  <2>4. TypeOK'
    BY <2>1, <2>2 DEF PoolInv, TypeOK, Labels
  <2>5. \A u \in Threads : conn'[u] = IF u = t THEN Head(idle) ELSE conn[u]
    BY <2>1 DEF PoolInv, TypeOK
  <2>6. Placed'
    BY <2>1, <2>2, <2>3, <2>5, PoolAssumption DEF PoolInv, Placed
  <2>7. \A u \in Threads : conn'[u] # None <=> pc'[u] \in Holding
    BY <2>1, <2>2, <2>5, PoolAssumption DEF PoolInv, TypeOK, Holding
  <2>8. /\ \A u \in Threads : conn'[u] \notin Members(idle')
        /\ \A u, v \in Threads : conn'[u] = conn'[v] /\ conn'[u] # None => u = v
    BY <2>2, <2>5 DEF PoolInv
  <2>9. phase' = "opening" => \A u \in Threads : pc'[u] = "out"
    BY <2>1 DEF PoolInv
  <2> QED
    BY <2>2, <2>4, <2>6, <2>7, <2>8, <2>9 DEF PoolInv, Distinct
<1>2. CASE idle = <<>>
  BY <1>2 DEF Acquire, Goto, PoolInv, TypeOK, Labels, Placed, Distinct, Members, Holding
<1> QED
  BY <1>1, <1>2

LEMMA ReleaseStep ==
    ASSUME PoolInv, NEW t \in Threads, Release(t)
    PROVE  PoolInv'
<1>1. /\ idle' = Append(idle, conn[t]) /\ conn' = [conn EXCEPT ![t] = None]
      /\ pc' = [pc EXCEPT ![t] = "notify"]
      /\ UNCHANGED <<phase, database, status>>
      /\ pc[t] = "release"
  BY DEF Release, Push, Goto
<1>2. conn[t] \in Conns /\ conn[t] # None /\ conn[t] \notin Members(idle)
  BY <1>1 DEF PoolInv, TypeOK, Holding
<1>3. /\ idle' \in Seq(Conns) /\ Distinct(idle')
      /\ Members(idle') = Members(idle) \cup {conn[t]}
  BY <1>1, <1>2, AppendFacts DEF PoolInv, TypeOK
<1>4. TypeOK'
  BY <1>1, <1>3 DEF PoolInv, TypeOK, Labels
<1>5. \A u \in Threads : conn'[u] = IF u = t THEN None ELSE conn[u]
  BY <1>1 DEF PoolInv, TypeOK
<1>6. Placed'
  BY <1>1, <1>2, <1>3, <1>5, PoolAssumption DEF PoolInv, Placed
<1>7. \A u \in Threads : conn'[u] # None <=> pc'[u] \in Holding
  BY <1>1, <1>5 DEF PoolInv, TypeOK, Holding
<1>8. None \notin Members(idle')
  BY <1>3, PoolAssumption DEF Members
<1>9. /\ \A u \in Threads : conn'[u] \notin Members(idle')
      /\ \A u, v \in Threads : conn'[u] = conn'[v] /\ conn'[u] # None => u = v
  BY <1>2, <1>3, <1>5, <1>8 DEF PoolInv
<1>10. phase' = "opening" => \A u \in Threads : pc'[u] = "out"
  BY <1>1 DEF PoolInv
<1> QED
  BY <1>3, <1>4, <1>6, <1>7, <1>9, <1>10 DEF PoolInv, Distinct

\* Statements and resets change the status of a connection that was opened.
LEMMA StatementStep ==
    ASSUME PoolInv, NEW t \in Threads, Reset(t) \/ Exec(t)
    PROVE  PoolInv'
<1>1. conn[t] \in Conns /\ status[conn[t]] # "unopened"
  BY DEF PoolInv, TypeOK, Reset, Exec, Holding, Placed
<1>2. UNCHANGED <<idle, conn>>
  BY DEF Reset, Exec
<1>3. TypeOK' /\ \A c \in Conns : status'[c] = "unopened" <=> status[c] = "unopened"
  BY <1>1 DEF PoolInv, TypeOK, Labels, Reset, Exec, AfterReset, Succeeds, Goto
<1>4. Placed'
  BY <1>2, <1>3 DEF PoolInv, Placed
<1>5. /\ \A u \in Threads : conn'[u] # None <=> pc'[u] \in Holding
      /\ phase' = "opening" => \A u \in Threads : pc'[u] = "out"
  BY <1>2 DEF PoolInv, TypeOK, Reset, Exec, Goto, Holding
<1> QED
  BY <1>2, <1>3, <1>4, <1>5 DEF PoolInv, Distinct, Members

LEMMA NotifyStep ==
    ASSUME PoolInv, NEW t \in Threads, Notify(t)
    PROVE  PoolInv'
<1>1. UNCHANGED <<phase, database, idle, status, conn>>
  BY DEF Notify
<1>2. /\ pc' \in [Threads -> Labels]
      /\ \A u \in Threads : pc'[u] \in Holding <=> pc[u] \in Holding
      /\ phase # "opening"
  BY DEF Notify, PoolInv, TypeOK, Labels, Goto, Holding, Waiting
<1> QED
  BY <1>1, <1>2 DEF PoolInv, TypeOK, Placed, Distinct, Members

LEMMA PoolInvStep == PoolInv /\ [Next]_vars => PoolInv'
<1> SUFFICES ASSUME PoolInv, [Next]_vars
             PROVE  PoolInv'
  OBVIOUS
<1>1. ASSUME NEW c \in Conns, Open(c)
      PROVE  PoolInv'
  BY <1>1, OpenStep
<1>2. CASE Opened
  BY <1>2, PoolAssumption
     DEF Opened, PoolInv, TypeOK, Labels, Goto, Holding, Placed, Distinct, Members
<1>3. ASSUME NEW t \in Threads, Call(t) \/ SpuriousWakeup(t)
      PROVE  PoolInv'
  BY <1>3 DEF Call, SpuriousWakeup, PoolInv, TypeOK, Labels, Goto, Holding,
              Placed, Distinct, Members
<1>4. ASSUME NEW t \in Threads, CallStep(t)
      PROVE  PoolInv'
  BY <1>4, AcquireStep, StatementStep, ReleaseStep, NotifyStep DEF CallStep
<1>5. CASE Outage
  <2>1. TypeOK' /\ \A c \in Conns : status'[c] = "unopened" <=> status[c] = "unopened"
    BY <1>5 DEF PoolInv, TypeOK, Outage
  <2>2. Placed'
    BY <1>5, <2>1 DEF PoolInv, Placed, Outage
  <2> QED
    BY <1>5, <2>1, <2>2 DEF PoolInv, Outage, Distinct, Members
<1>6. CASE Recovery \/ Failed \/ UNCHANGED vars
  BY <1>6 DEF Recovery, Failed, vars, PoolInv, TypeOK, Placed, Distinct, Members
<1> QED
  BY <1>1, <1>2, <1>3, <1>4, <1>5, <1>6 DEF Next

LEMMA PoolInvariant == Spec => []PoolInv
BY PoolInvInit, PoolInvStep, PTL DEF Spec

\* The variables have their types.
THEOREM TypeCorrect == Spec => []TypeOK
BY PoolInvariant, PoolInvImplies, PTL

\* However many threads share however many connections, and whatever fails,
\* an opened connection is in the queue once or with exactly one thread.
THEOREM ConnectionsKept == Spec => []NoConnectionLost
BY PoolInvariant, PoolInvImplies, PTL

----------------------------------------------------------------------------
(* Waiters and idle connections.                                           *)

LEMMA ComingIsFinite == IsFiniteSet(Coming) /\ Cardinality(Coming) \in Nat
<1>1. Coming \subseteq Threads
  BY DEF Coming
<1> QED
  BY <1>1, FS_Subset, FS_CardinalityType, PoolAssumption

\* More threads on their way, no more connections in the queue.
LEMMA NoLostWakeupKept ==
    ASSUME PoolInv, NoLostWakeup,
           IsFiniteSet(Coming'), Cardinality(Coming') \in Nat,
           Coming \subseteq Coming', idle' = idle,
           Waiting' # {} => Waiting # {}
    PROVE  NoLostWakeup'
<1>1. Cardinality(Coming) <= Cardinality(Coming')
  BY FS_Subset
<1>2. Len(idle) \in Nat
  BY DEF PoolInv, TypeOK
<1> QED
  BY <1>1, <1>2, ComingIsFinite DEF NoLostWakeup

LEMMA NoLostWakeupStep ==
    ASSUME PoolInv, NoLostWakeup, [Next]_vars
    PROVE  NoLostWakeup'
<1> USE PoolAssumption
<1>0. /\ IsFiniteSet(Coming) /\ Cardinality(Coming) \in Nat
      /\ IsFiniteSet(Coming') /\ Cardinality(Coming') \in Nat
      /\ Len(idle) \in Nat /\ pc \in [Threads -> Labels]
  <2>1. Coming' \subseteq Threads
    BY DEF Coming
  <2> QED
    BY <2>1, ComingIsFinite, FS_Subset, FS_CardinalityType DEF PoolInv, TypeOK
<1>1. ASSUME NEW c \in Conns, Open(c)
      PROVE  NoLostWakeup'
  <2>1. Waiting' = {}
    BY <1>1 DEF Open, PoolInv, Waiting
  <2> QED
    BY <2>1 DEF NoLostWakeup
<1>2. ASSUME NEW t \in Threads,
             Call(t) \/ SpuriousWakeup(t) \/ Reset(t) \/ Exec(t)
      PROVE  NoLostWakeup'
  <2>1. Coming \subseteq Coming' /\ idle' = idle /\ Waiting' \subseteq Waiting
    BY <1>0, <1>2 DEF Call, SpuriousWakeup, Reset, Exec, Goto, Coming, Waiting
  <2> QED
    BY <2>1, <1>0, NoLostWakeupKept
<1>3. CASE Opened
  <2>1. Coming \subseteq Coming' /\ idle' = idle /\ Waiting' \subseteq Waiting
    BY <1>0, <1>3 DEF Opened, PoolInv, Goto, Coming, Waiting
  <2> QED
    BY <2>1, <1>0, NoLostWakeupKept
<1>4. ASSUME NEW t \in Threads, Acquire(t)
      PROVE  NoLostWakeup'
  <2>1. CASE idle = <<>>
    BY <1>0, <1>4, <2>1 DEF Acquire, NoLostWakeup
  <2>2. CASE idle # <<>>
    <3>1. Coming' = Coming \ {t} /\ t \in Coming /\ Waiting' = Waiting
      BY <1>0, <1>4, <2>2 DEF Acquire, Goto, Coming, Waiting
    <3>2. Len(idle') = Len(idle) - 1
      BY <1>4, <2>2, TailFacts DEF Acquire, Pop, PoolInv, TypeOK
    <3>3. Cardinality(Coming') = Cardinality(Coming) - 1
      BY <1>0, <3>1, FS_RemoveElement
    <3> QED
      BY <1>0, <3>1, <3>2, <3>3 DEF NoLostWakeup
  <2> QED
    BY <2>1, <2>2
<1>5. ASSUME NEW t \in Threads, Release(t)
      PROVE  NoLostWakeup'
  <2>1. Coming' = Coming \cup {t} /\ t \notin Coming /\ Waiting' = Waiting
    BY <1>0, <1>5 DEF Release, Goto, Coming, Waiting
  <2>2. Len(idle') = Len(idle) + 1
    BY <1>5, AppendFacts DEF Release, Push, PoolInv, TypeOK, Holding
  <2>3. Cardinality(Coming') = Cardinality(Coming) + 1
    BY <1>0, <2>1, FS_AddElement
  <2> QED
    BY <1>0, <2>1, <2>2, <2>3 DEF NoLostWakeup
<1>6. ASSUME NEW t \in Threads, Notify(t)
      PROVE  NoLostWakeup'
  <2>1. CASE Waiting = {}
    <3>1. Waiting' = {}
      BY <1>0, <1>6, <2>1 DEF Notify, Goto, Waiting
    <3> QED
      BY <3>1 DEF NoLostWakeup
  <2>2. CASE Waiting # {}
    <3>1. PICK w \in Waiting : pc' = [pc EXCEPT ![t] = "out", ![w] = "acquire"]
      BY <1>6, <2>2 DEF Notify
    <3>2. /\ t \in Coming /\ w \notin Coming /\ w # t
          /\ Coming' = (Coming \ {t}) \cup {w} /\ idle' = idle
      BY <1>0, <1>6, <3>1 DEF Notify, Coming, Waiting
    <3>3. Cardinality(Coming') = Cardinality(Coming)
      <4>1. /\ IsFiniteSet(Coming \ {t}) /\ w \notin Coming \ {t}
            /\ Cardinality(Coming \ {t}) = Cardinality(Coming) - 1
        BY <1>0, <3>2, FS_RemoveElement
      <4>2. Cardinality(Coming') = Cardinality(Coming \ {t}) + 1
        BY <3>2, <4>1, FS_AddElement
      <4> QED
        BY <1>0, <4>1, <4>2
    <3> QED
      BY <2>2, <3>2, <3>3 DEF NoLostWakeup
  <2> QED
    BY <2>1, <2>2
<1>7. CASE Outage \/ Recovery \/ Failed \/ UNCHANGED vars
  BY <1>7 DEF Outage, Recovery, Failed, vars, NoLostWakeup, Coming, Waiting
<1> QED
  BY <1>1, <1>2, <1>3, <1>4, <1>5, <1>6, <1>7 DEF Next, CallStep

\* With any number of threads and connections, and wherever waiters are
\* overtaken, no connection is left lying beside a waiter that nobody wakes up.
THEOREM WakeupsKept == Spec => []NoLostWakeup
<1>1. Init => NoLostWakeup
  BY DEF Init, NoLostWakeup, Waiting
<1> QED
  BY <1>1, PoolInvariant, NoLostWakeupStep, PTL DEF Spec
=============================================================================
