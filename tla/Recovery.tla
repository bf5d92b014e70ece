------------------------------ MODULE Recovery ------------------------------
(***************************************************************************)
(* Recovery codes (src/src/auth.cpp, generate_recovery_codes and           *)
(* recover_with_code).  Generating a list takes one storage call to clear  *)
(* the old hashes and one per new code, so other threads may generate and  *)
(* spend codes of the same account in between.  A code stands for its      *)
(* HMAC; user rows are never deleted, so the user lookups have no action.  *)
(***************************************************************************)
EXTENDS Integers, FiniteSets

CONSTANTS
    Users, Threads,
    Codes,              \* bounds the codes make_recovery_code can draw
    CodeCount,          \* AuthConfig::recovery_code_count
    StorageMayFail,     \* whether a storage call may report an error
    None

ASSUME RecoveryAssumption ==
    /\ CodeCount \in Nat \ {0}
    /\ StorageMayFail \in BOOLEAN
    /\ None \notin Users /\ None \notin Codes

VARIABLES
    hashes,     \* user -> codes whose hash is stored
    drawn,      \* codes drawn so far; a code is never drawn twice
    shown,      \* codes of the lists handed out
    links,      \* code -> reset links obtained with it, counted to 2
    pc, loc,    \* per thread: the storage call it makes next, its locals
    replaced,   \* history: codes a completed generate call was to replace
    working     \* history: user -> codes handed out and not replaced since

vars == <<hashes, drawn, shown, links, pc, loc, replaced, working>>

Labels == {"idle", "clear", "store", "consume"}

Local == [user : Users \cup {None},
          code : Codes \cup {None},     \* the code presented
          list : SUBSET Codes,          \* rc.codes
          old  : SUBSET Codes,          \* history: codes stored at the call
          solo : BOOLEAN]               \* history: no other generate overlaps

NoLocal == [user |-> None, code |-> None, list |-> {}, old |-> {},
            solo |-> FALSE]

TypeOK ==
    /\ hashes \in [Users -> SUBSET Codes]
    /\ drawn \subseteq Codes
    /\ shown \subseteq Codes
    /\ links \in [Codes -> 0..2]
    /\ pc \in [Threads -> Labels]
    /\ loc \in [Threads -> Local]
    /\ replaced \subseteq Codes
    /\ working \in [Users -> SUBSET Codes]

Init ==
    /\ hashes = [u \in Users |-> {}]
    /\ drawn = {}
    /\ shown = {}
    /\ links = [c \in Codes |-> 0]
    /\ pc = [t \in Threads |-> "idle"]
    /\ loc = [t \in Threads |-> NoLocal]
    /\ replaced = {}
    /\ working = [u \in Users |-> {}]

Return(t) ==
    /\ pc' = [pc EXCEPT ![t] = "idle"]
    /\ loc' = [loc EXCEPT ![t] = NoLocal]

----------------------------------------------------------------------------

Generating(t, u) == pc[t] \in {"clear", "store"} /\ loc[t].user = u

generate_recovery_codes(t, u) ==
    /\ pc[t] = "idle"
    /\ pc' = [pc EXCEPT ![t] = "clear"]
    /\ loc' = [s \in Threads |->
                  IF s = t
                    THEN [NoLocal EXCEPT
                             !.user = u, !.old = hashes[u],
                             !.solo = \A r \in Threads : ~Generating(r, u)]
                    ELSE [loc[s] EXCEPT
                             !.solo = loc[s].solo /\ ~Generating(s, u)]]
    /\ working' = [working EXCEPT ![u] = {}]
    /\ UNCHANGED <<hashes, drawn, shown, links, replaced>>

\* Mutant: the old hashes are not cleared.
ClearNothing(t) ==
    /\ pc[t] = "clear"
    /\ pc' = [pc EXCEPT ![t] = "store"]
    /\ UNCHANGED <<hashes, loc, drawn, shown, links, replaced, working>>

\* The result of clear_recovery_hashes is not looked at.
Clear(t) ==
    /\ pc[t] = "clear"
    /\ \/ hashes' = [hashes EXCEPT ![loc[t].user] = {}]
       \/ StorageMayFail /\ UNCHANGED hashes
    /\ pc' = [pc EXCEPT ![t] = "store"]
    /\ UNCHANGED <<loc, drawn, shown, links, replaced, working>>

\* Mutant: the loop runs once too often.
MoreByOne(list) == Cardinality(list) <= CodeCount

More(list) == Cardinality(list) < CodeCount

\* Mutant: each new hash replaces the ones before it.
StoreOverwrites(t) ==
    /\ pc[t] = "store"
    /\ \E c \in Codes \ drawn :
          LET u == loc[t].user
              list == loc[t].list \cup {c}
          IN  /\ drawn' = drawn \cup {c}
              /\ hashes' = [hashes EXCEPT ![u] = {c}]
              /\ IF More(list)
                   THEN /\ loc' = [loc EXCEPT ![t].list = list]
                        /\ UNCHANGED <<pc, shown, replaced, working>>
                   ELSE /\ Return(t)
                        /\ shown' = shown \cup list
                        /\ replaced' = replaced \cup loc[t].old
                        /\ working' = IF loc[t].solo
                                        THEN [working EXCEPT ![u] = list]
                                        ELSE working
    /\ UNCHANGED links

\* One turn of the loop; the last one hands the list out.
Store(t) ==
    /\ pc[t] = "store"
    /\ \E c \in Codes \ drawn :
          LET u == loc[t].user
              list == loc[t].list \cup {c}
          IN  /\ drawn' = drawn \cup {c}
              /\ hashes' = [hashes EXCEPT ![u] = @ \cup {c}]
              /\ IF More(list)
                   THEN /\ loc' = [loc EXCEPT ![t].list = list]
                        /\ UNCHANGED <<pc, shown, replaced, working>>
                   ELSE /\ Return(t)
                        /\ shown' = shown \cup list
                        /\ replaced' = replaced \cup loc[t].old
                        /\ working' = IF loc[t].solo
                                        THEN [working EXCEPT ![u] = list]
                                        ELSE working
    /\ UNCHANGED links

\* The generator or the store fails: the codes stored so far stay behind.
StoreFails(t) ==
    /\ pc[t] = "store"
    /\ Return(t)
    /\ UNCHANGED <<hashes, drawn, shown, links, replaced, working>>

----------------------------------------------------------------------------

recover_with_code(t, u, c) ==
    /\ pc[t] = "idle"
    /\ pc' = [pc EXCEPT ![t] = "consume"]
    /\ loc' = [loc EXCEPT ![t] = [NoLocal EXCEPT !.user = u, !.code = c]]
    /\ UNCHANGED <<hashes, drawn, shown, links, replaced, working>>

\* Mutant: the hash is looked up and left in the table.
consume_recovery_hash_keeps(u, c) == hashes

\* One erase under the mutex, or one DELETE ... RETURNING.
consume_recovery_hash(u, c) == [hashes EXCEPT ![u] = @ \ {c}]

\* The code is gone even when no link could be made for it.
Consume(t) ==
    /\ pc[t] = "consume"
    /\ LET u == loc[t].user
           c == loc[t].code
       IN  \/ /\ c \in hashes[u]
              /\ hashes' = consume_recovery_hash(u, c)
              /\ links' = [links EXCEPT ![c] = IF @ = 2 THEN 2 ELSE @ + 1]
           \/ /\ c \in hashes[u]
              /\ hashes' = consume_recovery_hash(u, c)
              /\ UNCHANGED links
           \/ /\ c \notin hashes[u] \/ StorageMayFail
              /\ UNCHANGED <<hashes, links>>
    /\ working' = [u \in Users |-> working[u] \ {loc[t].code}]
    /\ Return(t)
    /\ UNCHANGED <<drawn, shown, replaced>>

\* The REST routes: codes are generated in a session and spent without one.
RecoveryRoutes(t) ==
    \E u \in Users :
        \/ generate_recovery_codes(t, u)
        \/ \E c \in shown : recover_with_code(t, u, c)

Next ==
    \E t \in Threads :
        \/ RecoveryRoutes(t)
        \/ Clear(t) \/ Store(t) \/ StoreFails(t) \/ Consume(t)

Spec == Init /\ [][Next]_vars

----------------------------------------------------------------------------

\* A recovery code opens at most one reset, however many threads present it.
CodeOpensOneReset == \A c \in Codes : links[c] <= 1

\* When a call to generate codes has succeeded, none of the codes that were
\* stored when it began is accepted any more.
ReplacedCodesDead == \A u \in Users : hashes[u] \cap replaced = {}

\* The list returned by a call that no other generate call overlapped is
\* stored in full until a code is presented or new ones are generated.
ListWorks == \A u \in Users : working[u] \subseteq hashes[u]

\* A user never has more codes than the calls that stored them account for:
\* CodeCount for the last complete list and for each call under way at once.
\* Threads that overlap may therefore leave several lists behind.
CodesBounded ==
    \A u \in Users : Cardinality(hashes[u]) <= CodeCount * Cardinality(Threads)
=============================================================================
