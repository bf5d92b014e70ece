--------------------------- MODULE ConnectionPool ---------------------------
(***************************************************************************)
(* The pool of Postgres connections (Pool, PoolGuard, Conn and             *)
(* PostgresStorageAdapter::create in src/src/postgres_adapter.cpp).  Every *)
(* method of the adapter holds a PoolGuard: its constructor borrows a      *)
(* connection, its destructor gives it back, whether the statement went    *)
(* through or threw.  The mutex is taken to pop or wait, and to push; the  *)
(* waiter is notified after it is given up, so a thread that comes along   *)
(* may pop what the waiter was to have.                                    *)
(*                                                                         *)
(* Condition variables and libpq are external: a waiter may wake up for no *)
(* reason, and a connection the server has dropped looks good until a      *)
(* statement on it has failed.                                             *)
(***************************************************************************)
EXTENDS Integers, Sequences, FiniteSets

CONSTANTS
    Threads,  \* request threads; Main is the one that calls create
    Main,
    Conns,    \* the pool_size connections
    None

ASSUME PoolAssumption ==
    /\ Main \in Threads
    /\ None \notin Conns
    /\ IsFiniteSet(Threads)
    /\ IsFiniteSet(Conns)
    /\ Conns # {}

VARIABLES
    phase,    \* of create: "opening" the connections, applying the "schema",
              \*            then "ready", or "failed"
    database, \* "up" or "down"
    idle,     \* the queue of idle connections
    status,   \* connection -> "unopened", "good", "severed": dropped by the
              \*               server unnoticed, or "bad": PQstatus tells
    conn,     \* thread -> the connection it has borrowed
    pc

vars == <<phase, database, idle, status, conn, pc>>

Labels == {"out", "acquire", "waiting", "reset", "exec", "release", "notify"}

TypeOK ==
    /\ phase \in {"opening", "schema", "ready", "failed"}
    /\ database \in {"up", "down"}
    /\ idle \in Seq(Conns)
    /\ status \in [Conns -> {"unopened", "good", "severed", "bad"}]
    /\ conn \in [Threads -> Conns \cup {None}]
    /\ pc \in [Threads -> Labels]

Init ==
    /\ phase = "opening"
    /\ database = "up"
    /\ idle = <<>>
    /\ status = [c \in Conns |-> "unopened"]
    /\ conn = [t \in Threads |-> None]
    /\ pc = [t \in Threads |-> "out"]

Goto(t, label) == pc' = [pc EXCEPT ![t] = label]

----------------------------------------------------------------------------
(* create: the pool opens every connection, or none is kept.               *)

Open(c) ==
    /\ phase = "opening"
    /\ status[c] = "unopened"
    /\ IF database = "up"
         THEN /\ status' = [status EXCEPT ![c] = "good"]
              /\ idle' = Append(idle, c)
              /\ UNCHANGED phase
         ELSE /\ phase' = "failed"
              /\ UNCHANGED <<status, idle>>
    /\ UNCHANGED <<database, conn, pc>>

\* The guard under which the schema is applied.
Opened ==
    /\ phase = "opening"
    /\ \A c \in Conns : status[c] # "unopened"
    /\ phase' = "schema"
    /\ Goto(Main, "acquire")
    /\ UNCHANGED <<database, idle, status, conn>>

----------------------------------------------------------------------------
(* A call of the adapter.                                                  *)

Call(t) ==
    /\ phase = "ready"
    /\ pc[t] = "out"
    /\ Goto(t, "acquire")
    /\ UNCHANGED <<phase, database, idle, status, conn>>

\* Mutant: the connection is taken from the queue and left in it.
Pop_copies(t) ==
    /\ conn' = [conn EXCEPT ![t] = Head(idle)]
    /\ UNCHANGED idle

Pop(t) ==
    /\ conn' = [conn EXCEPT ![t] = Head(idle)]
    /\ idle' = Tail(idle)

\* The predicate is read, and the connection popped or the wait begun, under
\* the mutex; a thread that is woken up comes here again.
Acquire(t) ==
    /\ pc[t] = "acquire"
    /\ IF idle # <<>>
         THEN Pop(t) /\ Goto(t, "reset")
         ELSE Goto(t, "waiting") /\ UNCHANGED <<conn, idle>>
    /\ UNCHANGED <<phase, database, status>>

SpuriousWakeup(t) ==
    /\ pc[t] = "waiting"
    /\ Goto(t, "acquire")
    /\ UNCHANGED <<phase, database, idle, status, conn>>

\* Mutant: nobody connects again.
AfterReset_never(c) == status[c]

\* PQreset connects again if it can.
AfterReset(c) ==
    IF status[c] = "bad" /\ database = "up" THEN "good" ELSE status[c]

Reset(t) ==
    /\ pc[t] = "reset"
    /\ status' = [status EXCEPT ![conn[t]] = AfterReset(conn[t])]
    /\ Goto(t, "exec")
    /\ UNCHANGED <<phase, database, idle, conn>>

Succeeds(t) == status[conn[t]] = "good"

\* A statement that fails because of its connection throws, and libpq has seen
\* the connection is bad.
Exec(t) ==
    /\ pc[t] = "exec"
    /\ status' = [status EXCEPT ![conn[t]] = IF Succeeds(t) THEN "good" ELSE "bad"]
    /\ Goto(t, "release")
    /\ phase' = IF phase # "schema" THEN phase
                ELSE IF Succeeds(t) THEN "ready" ELSE "failed"
    /\ UNCHANGED <<database, idle, conn>>

\* Mutant: the destructor of a guard closes a connection that went bad.
Push_ifgood(t) ==
    /\ idle' = IF status[conn[t]] = "bad" THEN idle ELSE Append(idle, conn[t])
    /\ conn' = [conn EXCEPT ![t] = None]

Push(t) ==
    /\ idle' = Append(idle, conn[t])
    /\ conn' = [conn EXCEPT ![t] = None]

Release(t) ==
    /\ pc[t] = "release"
    /\ Push(t)
    /\ Goto(t, "notify")
    /\ UNCHANGED <<phase, database, status>>

Waiting == {t \in Threads : pc[t] = "waiting"}

\* Mutant: only the release that fills an empty queue notifies.
Notify_iffirst(t) ==
    /\ pc[t] = "notify"
    /\ IF Waiting = {} \/ Len(idle) > 1
         THEN Goto(t, "out")
         ELSE \E w \in Waiting : pc' = [pc EXCEPT ![t] = "out", ![w] = "acquire"]
    /\ UNCHANGED <<phase, database, idle, status, conn>>

\* notify_one; then the call returns.
Notify(t) ==
    /\ pc[t] = "notify"
    /\ IF Waiting = {}
         THEN Goto(t, "out")
         ELSE \E w \in Waiting : pc' = [pc EXCEPT ![t] = "out", ![w] = "acquire"]
    /\ UNCHANGED <<phase, database, idle, status, conn>>

----------------------------------------------------------------------------
(* The database, and Next.                                                 *)

\* The server goes away with every connection.
Outage ==
    /\ database = "up"
    /\ database' = "down"
    /\ status' = [c \in Conns |-> IF status[c] = "good" THEN "severed" ELSE status[c]]
    /\ UNCHANGED <<phase, idle, conn, pc>>

Recovery ==
    /\ database = "down"
    /\ database' = "up"
    /\ UNCHANGED <<phase, idle, status, conn, pc>>

\* main reports that create failed, and ends.
Failed == phase = "failed" /\ UNCHANGED vars

CallStep(t) == Acquire(t) \/ Reset(t) \/ Exec(t) \/ Release(t) \/ Notify(t)

Next ==
    \/ \E c \in Conns : Open(c)
    \/ Opened
    \/ \E t \in Threads : Call(t) \/ CallStep(t) \/ SpuriousWakeup(t)
    \/ Outage \/ Recovery
    \/ Failed

\* A thread that is in a call and not blocked gets on with it: the mutex is
\* held for a few instructions, and libpq returns, with an error if need be.
Fairness == \A t \in Threads : WF_vars(CallStep(t))

Spec == Init /\ [][Next]_vars /\ Fairness

----------------------------------------------------------------------------

Members(q) == {q[i] : i \in 1..Len(q)}

\* Each connection that was opened is in the queue, once, or with one thread:
\* two requests never use one connection, and no exception on the way loses one.
NoConnectionLost ==
    /\ \A i, j \in 1..Len(idle) : idle[i] = idle[j] => i = j
    /\ \A t \in Threads : conn[t] \notin Members(idle)
    /\ \A t, u \in Threads : conn[t] = conn[u] /\ conn[t] # None => t = u
    /\ \A c \in Conns : status[c] # "unopened" =>
          c \in Members(idle) \/ \E t \in Threads : conn[t] = c

Coming == {t \in Threads : pc[t] \in {"acquire", "notify"}}

\* While a thread waits, there is for every idle connection a thread on its way
\* to the queue or to notify: no connection lies idle beside a waiter that
\* nobody will wake up, though waiters are overtaken and notified one at a time.
NoLostWakeup == Waiting # {} => Len(idle) <= Cardinality(Coming)

\* When no new calls come, every call is served and returns, however many were
\* waiting and whatever failed: nobody waits for ever for a connection.
CallsReturn ==
    <>[][\A t \in Threads : ~Call(t)]_vars =>
        \A t \in Threads : pc[t] # "out" ~> pc[t] = "out"

\* When the database stays up, calls stop failing: each connection the outage
\* has severed fails at most once more.
OutagePasses ==
    <>[](database = "up" /\ phase = "ready") =>
        <>[][\A t \in Threads : Exec(t) => Succeeds(t)]_vars
=============================================================================
