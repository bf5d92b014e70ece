--------------------------- MODULE RecoveryProofs ---------------------------
(***************************************************************************)
(* Theorems about recovery codes, for any number of users, threads, codes. *)
(***************************************************************************)
EXTENDS Recovery, TLAPS, FiniteSetTheorems

\* Codes are drawn once, stored for one user, and gone once they were used.
Ledger ==
    /\ shown \subseteq drawn
    /\ \A t \in Threads : loc[t].list \subseteq drawn
    /\ \A u \in Users : hashes[u] \subseteq drawn
    /\ \A u, v \in Users : u # v => hashes[u] \cap hashes[v] = {}
    /\ \A c \in Codes :
          /\ links[c] <= 1
          /\ links[c] = 1 => c \in drawn /\ \A u \in Users : c \notin hashes[u]

\* A working thread knows its user, and the code it is to consume.
Threading ==
    \A t \in Threads :
        /\ pc[t] # "idle" => loc[t].user \in Users
        /\ pc[t] = "consume" => loc[t].code \in Codes

IInv == TypeOK /\ Ledger /\ Threading

LEMMA InitOK == ASSUME Init PROVE IInv
  <1>1. NoLocal \in Local
    BY DEF NoLocal, Local
  <1>2. TypeOK
    BY <1>1 DEF Init, TypeOK, Labels
  <1> QED
    BY <1>1, <1>2 DEF Init, IInv, Ledger, Threading, NoLocal

LEMMA ReturnOK ==
    ASSUME IInv, NEW t \in Threads, Return(t), drawn \subseteq drawn'
    PROVE  /\ pc' \in [Threads -> Labels] /\ loc' \in [Threads -> Local]
           /\ Threading'
           /\ \A s \in Threads : loc'[s].list \subseteq drawn'
  <1>1. NoLocal \in Local /\ NoLocal.list = {}
    BY DEF NoLocal, Local
  <1> QED
    BY <1>1 DEF IInv, TypeOK, Ledger, Threading, Return, Labels

LEMMA GenerateStep ==
    ASSUME IInv, NEW t \in Threads, NEW u \in Users, generate_recovery_codes(t, u)
    PROVE  IInv'
  <1>1. /\ hashes \in [Users -> SUBSET Codes]
        /\ pc \in [Threads -> Labels] /\ loc \in [Threads -> Local]
    BY DEF IInv, TypeOK
  <1>2. \A s \in Threads :
           /\ loc'[s] \in Local
           /\ s # t => /\ loc'[s].user = loc[s].user
                       /\ loc'[s].code = loc[s].code
                       /\ loc'[s].list = loc[s].list
           /\ s = t => loc'[s].user = u /\ loc'[s].list = {}
    <2>1. \A r \in Threads : Generating(r, u) \in BOOLEAN
      BY DEF Generating
    <2>2. ASSUME NEW s \in Threads, s # t
          PROVE  /\ loc'[s] \in Local
                 /\ loc'[s].user = loc[s].user
                 /\ loc'[s].code = loc[s].code
                 /\ loc'[s].list = loc[s].list
      <3>1. loc'[s] = [loc[s] EXCEPT !.solo = loc[s].solo /\ ~Generating(s, u)]
        BY <2>2 DEF generate_recovery_codes
      <3>2. loc[s] \in Local /\ (loc[s].solo /\ ~Generating(s, u)) \in BOOLEAN
        BY <1>1, <2>1 DEF Local
      <3> QED
        BY <3>1, <3>2 DEF Local
    <2>3. loc'[t] \in Local /\ loc'[t].user = u /\ loc'[t].list = {}
      BY <1>1 DEF generate_recovery_codes, NoLocal, Local
    <2> QED
      BY <2>2, <2>3
  <1>3. loc' \in [Threads -> Local]
    BY <1>2 DEF generate_recovery_codes
  <1>4. pc' = [pc EXCEPT ![t] = "clear"]
    BY DEF generate_recovery_codes
  <1>5. TypeOK'
    BY <1>1, <1>3, <1>4 DEF IInv, TypeOK, generate_recovery_codes, Labels
  <1>6. Ledger'
    BY <1>2 DEF IInv, Ledger, generate_recovery_codes
  <1>7. Threading'
    BY <1>1, <1>2, <1>4 DEF IInv, Threading
  <1> QED
    BY <1>5, <1>6, <1>7 DEF IInv

LEMMA ClearStep ==
    ASSUME IInv, NEW t \in Threads, Clear(t)
    PROVE  IInv'
  <1>1. TypeOK'
    BY DEF IInv, TypeOK, Threading, Clear, Labels
  <1>2. Ledger'
    BY DEF IInv, TypeOK, Ledger, Threading, Clear
  <1>3. Threading'
    BY DEF IInv, TypeOK, Threading, Clear
  <1> QED
    BY <1>1, <1>2, <1>3 DEF IInv

LEMMA StoreStep ==
    ASSUME IInv, NEW t \in Threads, Store(t)
    PROVE  IInv'
  <1> USE DEF IInv, TypeOK
  <1>1. PICK c \in Codes \ drawn :
           LET u == loc[t].user
               list == loc[t].list \cup {c}
           IN  /\ drawn' = drawn \cup {c}
               /\ hashes' = [hashes EXCEPT ![u] = @ \cup {c}]
               /\ IF Cardinality(list) < CodeCount
                    THEN /\ loc' = [loc EXCEPT ![t].list = list]
                         /\ UNCHANGED <<pc, shown, replaced, working>>
                    ELSE /\ Return(t)
                         /\ shown' = shown \cup list
                         /\ replaced' = replaced \cup loc[t].old
                         /\ working' = IF loc[t].solo
                                         THEN [working EXCEPT ![u] = list]
                                         ELSE working
    BY DEF Store, More
  <1> DEFINE u == loc[t].user
             list == loc[t].list \cup {c}
  <1>2. u \in Users /\ pc[t] = "store" /\ loc[t] \in Local
    BY DEF Store, Threading
  <1>3. /\ drawn' = drawn \cup {c} /\ links' = links
        /\ hashes' = [hashes EXCEPT ![u] = @ \cup {c}]
    BY <1>1 DEF Store
  <1>4. list \subseteq drawn' /\ list \subseteq Codes
    BY <1>2, <1>3 DEF Ledger, Local
  <1>5. /\ hashes' \in [Users -> SUBSET Codes]
        /\ \A v \in Users : hashes'[v] \subseteq drawn'
        /\ \A v, w \in Users : v # w => hashes'[v] \cap hashes'[w] = {}
        /\ \A x \in Codes :
              links'[x] <= 1 /\ (links'[x] = 1 =>
                 x \in drawn' /\ \A v \in Users : x \notin hashes'[v])
    BY <1>2, <1>3 DEF Ledger
  <1>6. CASE Cardinality(list) < CodeCount
    <2>1. /\ loc' = [loc EXCEPT ![t].list = list]
          /\ UNCHANGED <<pc, shown, replaced, working>>
      BY <1>1, <1>6
    <2>2. loc'[t] = [loc[t] EXCEPT !.list = list]
      BY <2>1
    <2>3. /\ loc'[t] \in Local /\ loc'[t].user = u
          /\ loc'[t].code = loc[t].code /\ loc'[t].list = list
      BY <1>2, <1>4, <2>2 DEF Local
    <2>4. loc' \in [Threads -> Local] /\ \A s \in Threads \ {t} : loc'[s] = loc[s]
      BY <2>1, <2>2, <2>3
    <2>5. TypeOK'
      BY <1>3, <1>5, <2>1, <2>4
    <2>6. \A s \in Threads : loc'[s].list \subseteq drawn'
      BY <1>3, <1>4, <2>3, <2>4 DEF Ledger
    <2>7. Ledger'
      BY <1>3, <1>5, <2>1, <2>6 DEF Ledger
    <2>8. Threading'
      BY <1>2, <2>1, <2>3, <2>4 DEF Threading
    <2> QED
      BY <2>5, <2>7, <2>8
  <1>7. CASE ~(Cardinality(list) < CodeCount)
    <2>1. /\ Return(t)
          /\ shown' = shown \cup list
          /\ replaced' = replaced \cup loc[t].old
          /\ working' = IF loc[t].solo
                          THEN [working EXCEPT ![u] = list]
                          ELSE working
      BY <1>1, <1>7
    <2>2. /\ pc' \in [Threads -> Labels] /\ loc' \in [Threads -> Local]
          /\ Threading' /\ \A s \in Threads : loc'[s].list \subseteq drawn'
      BY <1>3, <2>1, ReturnOK
    <2>3. working' \in [Users -> SUBSET Codes] /\ replaced' \subseteq Codes
      BY <1>2, <1>4, <2>1 DEF Local
    <2>4. TypeOK'
      BY <1>3, <1>4, <1>5, <2>1, <2>2, <2>3
    <2>5. Ledger'
      BY <1>3, <1>4, <1>5, <2>1, <2>2 DEF Ledger
    <2> QED
      BY <2>2, <2>4, <2>5
  <1> QED
    BY <1>6, <1>7

LEMMA RecoverStep ==
    ASSUME IInv, NEW t \in Threads, NEW u \in Users, NEW c \in shown,
           recover_with_code(t, u, c)
    PROVE  IInv'
  <1> DEFINE locals == [NoLocal EXCEPT !.user = u, !.code = c]
  <1>1. locals \in Local /\ locals.user = u /\ locals.code = c /\ locals.list = {}
        /\ c \in Codes
    BY DEF NoLocal, Local, IInv, TypeOK
  <1>2. loc' = [loc EXCEPT ![t] = locals] /\ pc' = [pc EXCEPT ![t] = "consume"]
    BY DEF recover_with_code
  <1> HIDE DEF locals
  <1>3. TypeOK'
    BY <1>1, <1>2 DEF IInv, TypeOK, recover_with_code, Labels
  <1>4. Ledger'
    BY <1>1, <1>2 DEF IInv, TypeOK, Ledger, recover_with_code
  <1>5. Threading'
    BY <1>1, <1>2 DEF IInv, TypeOK, Threading, recover_with_code
  <1> QED
    BY <1>3, <1>4, <1>5 DEF IInv

LEMMA ConsumeStep ==
    ASSUME IInv, NEW t \in Threads, Consume(t)
    PROVE  IInv'
  <1> DEFINE u == loc[t].user
             c == loc[t].code
  <1>1. u \in Users /\ c \in Codes
    BY DEF Consume, IInv, Threading
  <1>2. /\ drawn' = drawn /\ shown' = shown /\ replaced' = replaced
        /\ Return(t) /\ working' = [v \in Users |-> working[v] \ {c}]
    BY DEF Consume
  <1>3. /\ pc' \in [Threads -> Labels] /\ loc' \in [Threads -> Local]
        /\ Threading' /\ \A s \in Threads : loc'[s].list \subseteq drawn'
    BY <1>2, ReturnOK
  <1>4. \/ /\ c \in hashes[u] /\ hashes' = [hashes EXCEPT ![u] = @ \ {c}]
           /\ links' = [links EXCEPT ![c] = IF @ = 2 THEN 2 ELSE @ + 1]
        \/ /\ c \in hashes[u] /\ hashes' = [hashes EXCEPT ![u] = @ \ {c}]
           /\ links' = links
        \/ UNCHANGED <<hashes, links>>
    BY DEF Consume, consume_recovery_hash
  <1>5. c \in hashes[u] => links[c] = 0
    BY <1>1 DEF IInv, TypeOK, Ledger
  <1>6. /\ hashes' \in [Users -> SUBSET Codes] /\ links' \in [Codes -> 0..2]
        /\ \A v \in Users : hashes'[v] \subseteq hashes[v]
    BY <1>1, <1>4, <1>5 DEF IInv, TypeOK
  <1>7. \A x \in Codes :
           links'[x] <= 1 /\ (links'[x] = 1 =>
              x \in drawn /\ \A v \in Users : x \notin hashes'[v])
    <2> SUFFICES ASSUME NEW x \in Codes
                 PROVE  links'[x] <= 1 /\ (links'[x] = 1 =>
                           x \in drawn /\ \A v \in Users : x \notin hashes'[v])
      OBVIOUS
    <2>1. CASE links'[x] = links[x]
      BY <1>6, <2>1 DEF IInv, Ledger
    <2>2. CASE links'[x] # links[x]
      <3>1. x = c /\ c \in hashes[u] /\ hashes' = [hashes EXCEPT ![u] = @ \ {c}]
            /\ links'[x] = 1
        BY <1>1, <1>4, <1>5, <2>2 DEF IInv, TypeOK
      <3>2. \A v \in Users : v # u => c \notin hashes[v]
        BY <1>1, <3>1 DEF IInv, Ledger
      <3> QED
        BY <1>1, <3>1, <3>2 DEF IInv, TypeOK, Ledger
    <2> QED
      BY <2>1, <2>2
  <1>8. TypeOK'
    BY <1>2, <1>3, <1>6 DEF IInv, TypeOK
  <1>9. Ledger'
    BY <1>2, <1>3, <1>6, <1>7 DEF IInv, Ledger
  <1> QED
    BY <1>3, <1>8, <1>9 DEF IInv

LEMMA NextOK == ASSUME IInv, [Next]_vars PROVE IInv'
  <1>1. ASSUME NEW t \in Threads, StoreFails(t)
        PROVE  IInv'
    BY <1>1, ReturnOK DEF StoreFails, IInv, TypeOK, Ledger
  <1>2. CASE UNCHANGED vars
    BY <1>2 DEF vars, IInv, TypeOK, Ledger, Threading
  <1> QED
    BY <1>1, <1>2, GenerateStep, ClearStep, StoreStep, RecoverStep, ConsumeStep
    DEF Next, RecoveryRoutes

LEMMA Invariance == Spec => []IInv
  BY InitOK, NextOK, PTL DEF Spec

\* Every variable keeps its type: the tables hold only codes that were drawn,
\* and a thread between two calls holds what its operation left there.
THEOREM TypeCorrect == Spec => []TypeOK
  <1>1. IInv => TypeOK
    BY DEF IInv
  <1> QED
    BY <1>1, Invariance, PTL

\* However generation and recovery interleave, and whichever storage calls
\* fail, a code that opened a reset is stored nowhere and opens no second one.
THEOREM CodesAreSingleUse == Spec => []CodeOpensOneReset
  <1>1. IInv => CodeOpensOneReset
    BY DEF IInv, Ledger, CodeOpensOneReset
  <1> QED
    BY <1>1, Invariance, PTL

----------------------------------------------------------------------------
(* The codes a generate call was to replace, when no storage call fails.   *)

\* A call knows the codes that were stored when it began.  They were drawn, so
\* no later code is one of them; no other user has them; and after the call's
\* Clear nobody has.
OldCodes ==
    /\ replaced \subseteq drawn
    /\ \A t \in Threads :
          /\ loc[t].old \subseteq drawn
          /\ pc[t] = "clear" =>
                \A v \in Users \ {loc[t].user} : loc[t].old \cap hashes[v] = {}
          /\ pc[t] = "store" => \A v \in Users : loc[t].old \cap hashes[v] = {}
    /\ ReplacedCodesDead

LEMMA OldCodesInit == ASSUME Init PROVE OldCodes
  BY DEF Init, OldCodes, ReplacedCodesDead, NoLocal

LEMMA ReturnKeepsOld ==
    ASSUME IInv, OldCodes, NEW t \in Threads, Return(t),
           drawn \subseteq drawn', replaced' \subseteq drawn',
           \A u \in Users : hashes'[u] \subseteq hashes[u] \cup (drawn' \ drawn),
           ReplacedCodesDead'
    PROVE  OldCodes'
  <1>1. /\ pc'[t] = "idle" /\ loc'[t].old = {}
        /\ \A s \in Threads \ {t} : pc'[s] = pc[s] /\ loc'[s] = loc[s]
    BY DEF IInv, TypeOK, Return, NoLocal
  <1> QED
    BY <1>1 DEF OldCodes

LEMMA OldCodesStep ==
    ASSUME StorageMayFail = FALSE, IInv, OldCodes, [Next]_vars
    PROVE  OldCodes'
  <1>1. ASSUME NEW t \in Threads, NEW u \in Users, generate_recovery_codes(t, u)
        PROVE  OldCodes'
    <2>1. loc'[t] = [NoLocal EXCEPT !.user = u, !.old = hashes[u],
                        !.solo = \A r \in Threads : ~Generating(r, u)]
      BY <1>1 DEF generate_recovery_codes
    <2>2. loc'[t].user = u /\ loc'[t].old = hashes[u]
      BY <2>1 DEF NoLocal
    <2>3. \A s \in Threads \ {t} :
             loc'[s] = [loc[s] EXCEPT !.solo = loc[s].solo /\ ~Generating(s, u)]
      BY <1>1 DEF generate_recovery_codes
    <2>4. \A s \in Threads \ {t} :
             loc'[s].user = loc[s].user /\ loc'[s].old = loc[s].old
      BY <2>3 DEF IInv, TypeOK, Local
    <2>5. pc'[t] = "clear" /\ \A s \in Threads \ {t} : pc'[s] = pc[s]
      BY <1>1 DEF IInv, TypeOK, generate_recovery_codes
    <2>6. UNCHANGED <<hashes, drawn, replaced>>
      BY <1>1 DEF generate_recovery_codes
    <2> QED
      BY <2>2, <2>4, <2>5, <2>6 DEF IInv, Ledger, OldCodes, ReplacedCodesDead
  <1>2. ASSUME NEW t \in Threads, Clear(t)
        PROVE  OldCodes'
    <2>1. loc[t].user \in Users
      BY <1>2 DEF IInv, Threading, Clear
    <2>2. /\ hashes'[loc[t].user] = {}
          /\ \A v \in Users \ {loc[t].user} : hashes'[v] = hashes[v]
      BY <1>2, <2>1 DEF IInv, TypeOK, Clear
    <2>3. pc[t] = "clear" /\ pc'[t] = "store"
            /\ \A s \in Threads \ {t} : pc'[s] = pc[s]
      BY <1>2 DEF IInv, TypeOK, Clear
    <2>4. UNCHANGED <<loc, drawn, replaced>>
      BY <1>2 DEF Clear
    <2>5. ReplacedCodesDead'
      BY <2>2, <2>4 DEF OldCodes, ReplacedCodesDead
    <2> QED
      BY <2>2, <2>3, <2>4, <2>5 DEF OldCodes
  <1>3. ASSUME NEW t \in Threads, Store(t)
        PROVE  OldCodes'
    <2>1. PICK c \in Codes \ drawn :
             /\ drawn' = drawn \cup {c}
             /\ hashes' = [hashes EXCEPT ![loc[t].user] = @ \cup {c}]
             /\ \/ /\ loc' = [loc EXCEPT ![t].list = loc[t].list \cup {c}]
                   /\ UNCHANGED <<pc, replaced>>
                \/ Return(t) /\ replaced' = replaced \cup loc[t].old
      BY <1>3 DEF Store
    <2>2. loc[t].user \in Users /\ pc[t] = "store"
      BY <1>3 DEF IInv, Threading, Store
    <2>3. \A v \in Users : hashes'[v] \subseteq hashes[v] \cup {c}
      BY <2>1, <2>2 DEF IInv, TypeOK
    <2>4. replaced' \subseteq drawn /\ ReplacedCodesDead'
      BY <2>1, <2>2, <2>3 DEF OldCodes, ReplacedCodesDead
    <2>5. CASE Return(t)
      BY <2>1, <2>3, <2>4, <2>5, ReturnKeepsOld
    <2>6. CASE loc' = [loc EXCEPT ![t].list = loc[t].list \cup {c}]
                 /\ UNCHANGED <<pc, replaced>>
      <3>1. \A s \in Threads :
               loc'[s].user = loc[s].user /\ loc'[s].old = loc[s].old
        BY <2>6 DEF IInv, TypeOK, Local
      <3> QED
        BY <2>1, <2>3, <2>4, <2>6, <3>1 DEF OldCodes
    <2> QED
      BY <2>1, <2>5, <2>6
  <1>4. ASSUME NEW t \in Threads, StoreFails(t)
        PROVE  OldCodes'
    BY <1>4, ReturnKeepsOld DEF StoreFails, OldCodes, ReplacedCodesDead
  <1>5. ASSUME NEW t \in Threads, NEW u \in Users, NEW c \in shown,
               recover_with_code(t, u, c)
        PROVE  OldCodes'
    <2>1. /\ pc'[t] = "consume" /\ loc'[t].old = {}
          /\ \A s \in Threads \ {t} : pc'[s] = pc[s] /\ loc'[s] = loc[s]
      BY <1>5 DEF IInv, TypeOK, NoLocal, recover_with_code
    <2> QED
      BY <1>5, <2>1 DEF OldCodes, ReplacedCodesDead, recover_with_code
  <1>6. ASSUME NEW t \in Threads, Consume(t)
        PROVE  OldCodes'
    <2>1. loc[t].user \in Users
      BY <1>6 DEF IInv, Threading, Consume
    <2>2. \A u \in Users : hashes'[u] \subseteq hashes[u]
      BY <1>6, <2>1 DEF IInv, TypeOK, Consume, consume_recovery_hash
    <2>3. UNCHANGED <<drawn, replaced>> /\ Return(t)
      BY <1>6 DEF Consume
    <2>4. ReplacedCodesDead'
      BY <2>2, <2>3 DEF OldCodes, ReplacedCodesDead
    <2> QED
      BY <2>2, <2>3, <2>4, ReturnKeepsOld DEF OldCodes
  <1>7. CASE UNCHANGED vars
    BY <1>7 DEF vars, OldCodes, ReplacedCodesDead
  <1> QED
    BY <1>1, <1>2, <1>3, <1>4, <1>5, <1>6, <1>7 DEF Next, RecoveryRoutes

\* Unless a storage call fails, the codes stored when a generate call began are
\* dead for good once it has succeeded, whatever other calls overlap it.
THEOREM OldCodesDie ==
    ASSUME StorageMayFail = FALSE
    PROVE  Spec => []ReplacedCodesDead
  <1>1. Init => IInv /\ OldCodes
    BY InitOK, OldCodesInit
  <1>2. IInv /\ OldCodes /\ [Next]_vars => (IInv /\ OldCodes)'
    BY NextOK, OldCodesStep
  <1>3. OldCodes => ReplacedCodesDead
    BY DEF OldCodes
  <1> QED
    BY <1>1, <1>2, <1>3, PTL DEF Spec

----------------------------------------------------------------------------
(* The list a generate call hands out.                                     *)

\* While a call generates alone for its user, what it drew so far is stored and
\* nobody else has seen it; a handed-out list is watched only while no call
\* generates for that user.
Alone ==
    /\ \A t \in Threads :
          /\ pc[t] # "store" => loc[t].list = {}
          /\ loc[t].list \cap shown = {}
          /\ \A s \in Threads \ {t} : loc[t].list \cap loc[s].list = {}
          /\ pc[t] = "consume" => loc[t].code \in shown
          /\ pc[t] \in {"clear", "store"} /\ loc[t].solo =>
                /\ \A s \in Threads \ {t} : ~Generating(s, loc[t].user)
                /\ loc[t].list \subseteq hashes[loc[t].user]
    /\ \A u \in Users :
          working[u] # {} => \A t \in Threads : ~Generating(t, u)
    /\ ListWorks

LEMMA AloneInit == ASSUME Init PROVE Alone
  BY DEF Init, Alone, ListWorks, NoLocal, Generating

\* A call that ends leaves nothing of its own.
LEMMA ReturnKeepsAlone ==
    ASSUME IInv, Alone, NEW t \in Threads, Return(t),
           shown \subseteq shown',
           \A s \in Threads \ {t} :
              /\ loc[s].list \cap shown' = {}
              /\ pc[s] = "store" /\ loc[s].solo =>
                    loc[s].list \subseteq hashes'[loc[s].user],
           \A u \in Users :
              /\ working'[u] \subseteq hashes'[u]
              /\ working'[u] # {} =>
                    \A s \in Threads \ {t} : ~Generating(s, u)
    PROVE  Alone'
  <1>1. /\ pc'[t] = "idle" /\ loc'[t].list = {}
        /\ \A s \in Threads \ {t} : pc'[s] = pc[s] /\ loc'[s] = loc[s]
    BY DEF IInv, TypeOK, Return, NoLocal
  <1>2. \A u \in Users : ~Generating(t, u)'
    BY <1>1 DEF Generating
  <1>3. \A s \in Threads \ {t} : \A u \in Users :
           Generating(s, u)' <=> Generating(s, u)
    BY <1>1 DEF Generating
  <1>4. ListWorks'
    BY DEF ListWorks
  <1>5. \A u \in Users :
           working'[u] # {} => \A s \in Threads : ~Generating(s, u)'
    BY <1>2, <1>3
  <1>6. ASSUME NEW s \in Threads \ {t},
               pc'[s] \in {"clear", "store"}, loc'[s].solo
        PROVE  /\ \A r \in Threads \ {s} : ~Generating(r, loc[s].user)'
               /\ loc[s].list \subseteq hashes'[loc[s].user]
    <2>1. pc[s] \in {"clear", "store"} /\ loc[s].solo /\ loc'[s] = loc[s]
      BY <1>1, <1>6
    <2>2. \A r \in Threads \ {s} : ~Generating(r, loc[s].user)
      BY <2>1 DEF Alone
    <2>3. \A r \in Threads \ {s} : ~Generating(r, loc[s].user)'
      BY <1>1, <2>1, <2>2 DEF Generating
    <2> QED
      BY <1>6, <2>1, <2>3 DEF Alone
  <1>7. \A s \in Threads :
           /\ pc'[s] # "store" => loc'[s].list = {}
           /\ loc'[s].list \cap shown' = {}
           /\ \A r \in Threads \ {s} : loc'[s].list \cap loc'[r].list = {}
           /\ pc'[s] = "consume" => loc'[s].code \in shown'
    BY <1>1 DEF Alone
  <1>8. \A s \in Threads :
           pc'[s] \in {"clear", "store"} /\ loc'[s].solo =>
              /\ \A r \in Threads \ {s} : ~Generating(r, loc[s].user)'
              /\ loc'[s].list \subseteq hashes'[loc'[s].user]
    BY <1>1, <1>6
  <1> QED
    BY <1>4, <1>5, <1>7, <1>8 DEF Alone

LEMMA AloneGenerate ==
    ASSUME IInv, Alone, NEW t \in Threads, NEW u \in Users,
           generate_recovery_codes(t, u)
    PROVE  Alone'
  <1>1. loc'[t] = [NoLocal EXCEPT !.user = u, !.old = hashes[u],
                      !.solo = \A r \in Threads : ~Generating(r, u)]
    BY DEF generate_recovery_codes
  <1>2. /\ loc'[t].user = u /\ loc'[t].list = {}
        /\ loc'[t].solo => \A r \in Threads : ~Generating(r, u)
    BY <1>1 DEF NoLocal
  <1>3. \A s \in Threads \ {t} :
           loc'[s] = [loc[s] EXCEPT !.solo = loc[s].solo /\ ~Generating(s, u)]
    BY DEF generate_recovery_codes
  <1>4. \A s \in Threads \ {t} :
           /\ loc'[s].user = loc[s].user /\ loc'[s].list = loc[s].list
           /\ loc'[s].code = loc[s].code
           /\ loc'[s].solo => loc[s].solo /\ ~Generating(s, u)
    BY <1>3 DEF IInv, TypeOK, Local
  <1>5. /\ pc[t] = "idle" /\ pc'[t] = "clear"
        /\ \A s \in Threads \ {t} : pc'[s] = pc[s]
    BY DEF IInv, TypeOK, generate_recovery_codes
  <1>6. working'[u] = {} /\ \A v \in Users \ {u} : working'[v] = working[v]
    BY DEF IInv, TypeOK, generate_recovery_codes
  <1>7. UNCHANGED <<hashes, shown>>
    BY DEF generate_recovery_codes
  <1>8. ListWorks'
    BY <1>6, <1>7 DEF Alone, ListWorks
  <1>9. \A v \in Users :
           working'[v] # {} => \A s \in Threads : ~Generating(s, v)'
    BY <1>2, <1>4, <1>5, <1>6 DEF Alone, Generating
  <1>10. \A s \in Threads :
            /\ pc'[s] # "store" => loc'[s].list = {}
            /\ loc'[s].list \cap shown' = {}
            /\ \A r \in Threads \ {s} : loc'[s].list \cap loc'[r].list = {}
            /\ pc'[s] = "consume" => loc'[s].code \in shown'
    BY <1>2, <1>4, <1>5, <1>7 DEF Alone
  <1>11. ASSUME NEW s \in Threads, pc'[s] \in {"clear", "store"}, loc'[s].solo
         PROVE  /\ \A r \in Threads \ {s} : ~Generating(r, loc[s].user)'
                /\ loc'[s].list \subseteq hashes'[loc'[s].user]
    <2>1. CASE s = t
      BY <1>2, <1>4, <1>5, <1>11, <2>1 DEF Generating
    <2>2. CASE s # t
      <3>1. /\ pc[s] \in {"clear", "store"} /\ loc[s].solo
            /\ loc[s].user # u
        BY <1>4, <1>5, <1>11, <2>2 DEF Generating
      <3>2. /\ \A r \in Threads \ {s} : ~Generating(r, loc[s].user)
            /\ loc[s].list \subseteq hashes[loc[s].user]
        BY <3>1 DEF Alone
      <3> QED
        BY <1>2, <1>4, <1>5, <1>7, <2>2, <3>1, <3>2 DEF Generating
    <2> QED
      BY <2>1, <2>2
  <1>12. \A s \in Threads :
            pc'[s] \in {"clear", "store"} /\ loc'[s].solo =>
               /\ \A r \in Threads \ {s} : ~Generating(r, loc[s].user)'
               /\ loc'[s].list \subseteq hashes'[loc'[s].user]
    BY <1>11
  <1> QED
    BY <1>8, <1>9, <1>10, <1>12 DEF Alone

LEMMA AloneClear ==
    ASSUME IInv, Alone, NEW t \in Threads, Clear(t)
    PROVE  Alone'
  <1> DEFINE u == loc[t].user
  <1>1. u \in Users /\ pc[t] = "clear" /\ Generating(t, u)
    BY DEF IInv, Threading, Clear, Generating
  <1>2. \A v \in Users \ {u} : hashes'[v] = hashes[v]
    BY <1>1 DEF IInv, TypeOK, Clear
  <1>3. pc'[t] = "store" /\ \A s \in Threads \ {t} : pc'[s] = pc[s]
    BY DEF IInv, TypeOK, Clear
  <1>4. UNCHANGED <<loc, shown, working>>
    BY DEF Clear
  <1>5. \A s \in Threads, v \in Users : Generating(s, v)' <=> Generating(s, v)
    BY <1>1, <1>3, <1>4 DEF Generating
  <1>6. ListWorks'
    <2>1. working[u] = {}
      BY <1>1 DEF Alone
    <2> QED
      BY <1>2, <1>4, <2>1 DEF Alone, ListWorks
  <1>7. ASSUME NEW s \in Threads, pc'[s] \in {"clear", "store"}, loc'[s].solo
        PROVE  /\ \A r \in Threads \ {s} : ~Generating(r, loc[s].user)'
               /\ loc'[s].list \subseteq hashes'[loc'[s].user]
    <2>1. pc[s] \in {"clear", "store"} /\ loc[s].solo /\ loc[s].user \in Users
      BY <1>1, <1>3, <1>4, <1>7 DEF IInv, Threading
    <2>2. \A r \in Threads \ {s} : ~Generating(r, loc[s].user)'
      BY <1>4, <1>5, <2>1 DEF Alone
    <2>3. CASE s = t
      BY <1>1, <1>4, <2>2, <2>3 DEF Alone
    <2>4. CASE s # t
      <3>1. loc[s].user # u
        BY <1>1, <2>1, <2>4 DEF Alone
      <3> QED
        BY <1>2, <1>4, <2>1, <2>2, <3>1 DEF Alone
    <2> QED
      BY <2>3, <2>4
  <1>8. \A s \in Threads :
           pc'[s] \in {"clear", "store"} /\ loc'[s].solo =>
              /\ \A r \in Threads \ {s} : ~Generating(r, loc[s].user)'
              /\ loc'[s].list \subseteq hashes'[loc'[s].user]
    BY <1>7
  <1>9. \A s \in Threads :
           /\ pc'[s] # "store" => loc'[s].list = {}
           /\ loc'[s].list \cap shown' = {}
           /\ \A r \in Threads \ {s} : loc'[s].list \cap loc'[r].list = {}
           /\ pc'[s] = "consume" => loc'[s].code \in shown'
    BY <1>1, <1>3, <1>4 DEF Alone
  <1>10. \A v \in Users :
            working'[v] # {} => \A s \in Threads : ~Generating(s, v)'
    BY <1>4, <1>5 DEF Alone
  <1> QED
    BY <1>6, <1>8, <1>9, <1>10 DEF Alone

LEMMA AloneStore ==
    ASSUME IInv, Alone, NEW t \in Threads, Store(t)
    PROVE  Alone'
  <1> DEFINE u == loc[t].user
  <1>1. PICK c \in Codes \ drawn :
           /\ hashes' = [hashes EXCEPT ![u] = @ \cup {c}]
           /\ \/ /\ loc' = [loc EXCEPT ![t].list = loc[t].list \cup {c}]
                 /\ UNCHANGED <<pc, shown, working>>
              \/ /\ Return(t)
                 /\ shown' = shown \cup loc[t].list \cup {c}
                 /\ working' = IF loc[t].solo
                                 THEN [working EXCEPT ![u] = loc[t].list \cup {c}]
                                 ELSE working
    BY DEF Store
  <1>2. u \in Users /\ pc[t] = "store" /\ Generating(t, u)
    BY DEF IInv, Threading, Store, Generating
  <1>3. /\ hashes'[u] = hashes[u] \cup {c}
        /\ \A v \in Users : hashes[v] \subseteq hashes'[v]
    BY <1>1, <1>2 DEF IInv, TypeOK
  <1>4. c \notin shown /\ \A s \in Threads : c \notin loc[s].list
    BY DEF IInv, Ledger
  <1>5. \A s \in Threads \ {t} :
           pc[s] = "store" /\ loc[s].solo =>
              loc[s].list \subseteq hashes'[loc[s].user]
    BY <1>3 DEF Alone, IInv, Threading
  <1>6. CASE Return(t)
             /\ shown' = shown \cup loc[t].list \cup {c}
             /\ working' = IF loc[t].solo
                             THEN [working EXCEPT ![u] = loc[t].list \cup {c}]
                             ELSE working
    <2>1. \A s \in Threads \ {t} : loc[s].list \cap shown' = {}
      BY <1>4, <1>6 DEF Alone
    <2>2. ASSUME NEW v \in Users
          PROVE  /\ working'[v] \subseteq hashes'[v]
                 /\ working'[v] # {} =>
                       \A s \in Threads \ {t} : ~Generating(s, v)
      <3>1. CASE loc[t].solo /\ v = u
        <4>1. working'[u] = loc[t].list \cup {c}
          BY <1>2, <1>6, <3>1 DEF IInv, TypeOK
        <4>2. /\ loc[t].list \subseteq hashes[u]
              /\ \A s \in Threads \ {t} : ~Generating(s, u)
          BY <1>2, <3>1 DEF Alone
        <4> QED
          BY <1>3, <3>1, <4>1, <4>2
      <3>2. CASE ~(loc[t].solo /\ v = u)
        <4>1. working'[v] = working[v]
          BY <1>2, <1>6, <3>2 DEF IInv, TypeOK
        <4> QED
          BY <1>3, <4>1 DEF Alone, ListWorks
      <3> QED
        BY <3>1, <3>2
    <2> QED
      BY <1>5, <1>6, <2>1, <2>2, ReturnKeepsAlone
  <1>7. CASE loc' = [loc EXCEPT ![t].list = loc[t].list \cup {c}]
             /\ UNCHANGED <<pc, shown, working>>
    <2>1. /\ loc'[t].list = loc[t].list \cup {c}
          /\ \A s \in Threads \ {t} : loc'[s] = loc[s]
          /\ \A s \in Threads :
                /\ loc'[s].user = loc[s].user /\ loc'[s].code = loc[s].code
                /\ loc'[s].solo = loc[s].solo
      BY <1>7 DEF IInv, TypeOK, Local
    <2>2. \A s \in Threads, v \in Users : Generating(s, v)' <=> Generating(s, v)
      BY <1>7, <2>1 DEF Generating
    <2>3. ListWorks'
      BY <1>3, <1>7 DEF Alone, ListWorks
    <2>4. \A v \in Users :
             working'[v] # {} => \A s \in Threads : ~Generating(s, v)'
      BY <1>7, <2>2 DEF Alone
    <2>5. \A s \in Threads :
             /\ pc'[s] # "store" => loc'[s].list = {}
             /\ loc'[s].list \cap shown' = {}
             /\ pc'[s] = "consume" => loc'[s].code \in shown'
      BY <1>2, <1>4, <1>7, <2>1 DEF Alone
    <2>6. \A s \in Threads : \A r \in Threads \ {s} :
             loc'[s].list \cap loc'[r].list = {}
      BY <1>4, <2>1 DEF Alone
    <2>7. ASSUME NEW s \in Threads, pc'[s] \in {"clear", "store"}, loc'[s].solo
          PROVE  /\ \A r \in Threads \ {s} : ~Generating(r, loc[s].user)'
                 /\ loc'[s].list \subseteq hashes'[loc'[s].user]
      <3>1. pc[s] \in {"clear", "store"} /\ loc[s].solo /\ loc[s].user \in Users
        BY <1>7, <2>1, <2>7 DEF IInv, Threading
      <3>2. /\ \A r \in Threads \ {s} : ~Generating(r, loc[s].user)
            /\ loc[s].list \subseteq hashes'[loc[s].user]
        BY <1>3, <3>1 DEF Alone
      <3>3. \A r \in Threads \ {s} : ~Generating(r, loc[s].user)'
        BY <1>7, <2>1, <3>2 DEF Generating
      <3> QED
        BY <1>3, <2>1, <3>2, <3>3
    <2>8. \A s \in Threads :
             pc'[s] \in {"clear", "store"} /\ loc'[s].solo =>
                /\ \A r \in Threads \ {s} : ~Generating(r, loc[s].user)'
                /\ loc'[s].list \subseteq hashes'[loc'[s].user]
      BY <2>7
    <2> QED
      BY <2>3, <2>4, <2>5, <2>6, <2>8 DEF Alone
  <1> QED
    BY <1>1, <1>6, <1>7

LEMMA AloneStep ==
    ASSUME IInv, Alone, [Next]_vars
    PROVE  Alone'
  <1>1. ASSUME NEW t \in Threads, StoreFails(t)
        PROVE  Alone'
    BY <1>1, ReturnKeepsAlone DEF StoreFails, Alone, ListWorks
  <1>2. ASSUME NEW t \in Threads, NEW u \in Users, NEW c \in shown,
               recover_with_code(t, u, c)
        PROVE  Alone'
    <2>1. /\ pc[t] = "idle" /\ pc'[t] = "consume"
          /\ loc'[t].list = {} /\ loc'[t].code = c
          /\ \A s \in Threads \ {t} : pc'[s] = pc[s] /\ loc'[s] = loc[s]
      BY <1>2 DEF IInv, TypeOK, NoLocal, recover_with_code
    <2>2. UNCHANGED <<hashes, shown, working>>
      BY <1>2 DEF recover_with_code
    <2>3. \A s \in Threads, v \in Users : Generating(s, v)' <=> Generating(s, v)
      BY <2>1 DEF Generating
    <2>4. ListWorks'
      BY <2>2 DEF Alone, ListWorks
    <2>5. \A v \in Users :
             working'[v] # {} => \A s \in Threads : ~Generating(s, v)'
      BY <2>2, <2>3 DEF Alone
    <2>6. \A s \in Threads :
             /\ pc'[s] # "store" => loc'[s].list = {}
             /\ loc'[s].list \cap shown' = {}
             /\ \A r \in Threads \ {s} : loc'[s].list \cap loc'[r].list = {}
             /\ pc'[s] = "consume" => loc'[s].code \in shown'
      BY <2>1, <2>2 DEF Alone
    <2>7. ASSUME NEW s \in Threads, pc'[s] \in {"clear", "store"}, loc'[s].solo
          PROVE  /\ \A r \in Threads \ {s} : ~Generating(r, loc[s].user)'
                 /\ loc'[s].list \subseteq hashes'[loc'[s].user]
      <3>1. /\ pc[s] \in {"clear", "store"} /\ loc[s].solo
            /\ loc'[s] = loc[s] /\ s # t
        BY <2>1, <2>7
      <3>2. /\ \A r \in Threads \ {s} : ~Generating(r, loc[s].user)
            /\ loc[s].list \subseteq hashes[loc[s].user]
        BY <3>1 DEF Alone
      <3>3. \A r \in Threads \ {s} : ~Generating(r, loc[s].user)'
        BY <2>1, <3>1, <3>2 DEF Generating
      <3> QED
        BY <2>2, <3>1, <3>2, <3>3
    <2>8. \A s \in Threads :
             pc'[s] \in {"clear", "store"} /\ loc'[s].solo =>
                /\ \A r \in Threads \ {s} : ~Generating(r, loc[s].user)'
                /\ loc'[s].list \subseteq hashes'[loc'[s].user]
      BY <2>7
    <2> QED
      BY <2>4, <2>5, <2>6, <2>8 DEF Alone
  <1>3. ASSUME NEW t \in Threads, Consume(t)
        PROVE  Alone'
    <2> DEFINE u == loc[t].user
               c == loc[t].code
    <2>1. u \in Users /\ c \in shown
      BY <1>3 DEF IInv, Threading, Consume, Alone
    <2>2. \A v \in Users : hashes[v] \ {c} \subseteq hashes'[v]
      BY <1>3, <2>1 DEF IInv, TypeOK, Consume, consume_recovery_hash
    <2>3. \A v \in Users : working'[v] = working[v] \ {c}
      BY <1>3 DEF Consume
    <2>4. Return(t) /\ shown' = shown
      BY <1>3 DEF Consume
    <2>5. \A s \in Threads \ {t} :
             pc[s] = "store" /\ loc[s].solo =>
                loc[s].list \subseteq hashes'[loc[s].user]
      BY <2>1, <2>2 DEF Alone, IInv, Threading
    <2>6. \A v \in Users :
             /\ working'[v] \subseteq hashes'[v]
             /\ working'[v] # {} => \A s \in Threads \ {t} : ~Generating(s, v)
      BY <2>2, <2>3 DEF Alone, ListWorks
    <2> QED
      BY <2>4, <2>5, <2>6, ReturnKeepsAlone DEF Alone
  <1>4. CASE UNCHANGED vars
    BY <1>4 DEF vars, Alone, ListWorks, Generating
  <1> QED
    BY <1>1, <1>2, <1>3, <1>4, AloneGenerate, AloneClear, AloneStore
    DEF Next, RecoveryRoutes

\* The codes a user was shown are all stored, until one is presented or new
\* ones are asked for, when no other generate call overlapped theirs: whatever
\* other users' calls, and failing storage calls, do meanwhile.
THEOREM ShownListWorks == Spec => []ListWorks
  <1>1. Init => IInv /\ Alone
    BY InitOK, AloneInit
  <1>2. IInv /\ Alone /\ [Next]_vars => (IInv /\ Alone)'
    BY NextOK, AloneStep
  <1>3. Alone => ListWorks
    BY DEF Alone
  <1> QED
    BY <1>1, <1>2, <1>3, PTL DEF Spec

----------------------------------------------------------------------------
(* How many codes a user has.                                              *)

\* Each stored code has a place of its own in the list of the thread that
\* stored it, and a list under way has no code of the thread past its end.
Accounted(place) ==
    /\ \A u \in Users : \A c, d \in hashes[u] : place[c] = place[d] => c = d
    /\ \A t \in Threads : pc[t] = "store" =>
          \A c \in hashes[loc[t].user] :
             place[c][1] = t => place[c][2] <= Cardinality(loc[t].list)

Places == [drawn -> Threads \X (1..CodeCount)]

Lists ==
    \A t \in Threads :
        /\ IsFiniteSet(loc[t].list)
        /\ pc[t] = "clear" => loc[t].list = {}
        /\ pc[t] = "store" => Cardinality(loc[t].list) < CodeCount

AllAccounted == Lists /\ \E place \in Places : Accounted(place)

LEMMA AccountedInit == ASSUME Init PROVE AllAccounted
  <1>1. Lists
    BY FS_EmptySet DEF Init, Lists, NoLocal
  <1>2. [c \in {} |-> <<>>] \in Places
    BY DEF Init, Places
  <1>3. Accounted([c \in {} |-> <<>>])
    BY DEF Init, Accounted
  <1> QED
    BY <1>1, <1>2, <1>3 DEF AllAccounted

\* A step that stores no code, and begins a list at an empty table.
LEMMA NothingStored ==
    ASSUME IInv, AllAccounted, drawn' = drawn,
           \A u \in Users : hashes'[u] \subseteq hashes[u],
           \A t \in Threads :
              /\ IsFiniteSet(loc'[t].list)
              /\ pc'[t] = "clear" => loc'[t].list = {}
              /\ pc'[t] = "store" =>
                    /\ loc'[t].user \in Users
                    /\ loc'[t].list = loc[t].list /\ loc'[t].user = loc[t].user
                    /\ \/ pc[t] = "store"
                       \/ hashes'[loc[t].user] = {} /\ loc[t].list = {}
    PROVE  AllAccounted'
  <1>1. Lists'
    <2>1. Cardinality({}) = 0 /\ 0 < CodeCount
      BY FS_EmptySet, RecoveryAssumption
    <2> QED
      BY <2>1 DEF AllAccounted, Lists
  <1>2. PICK place \in Places : Accounted(place)
    BY DEF AllAccounted
  <1>3. place \in Places'
    BY DEF Places
  <1>4. Accounted(place)'
    BY <1>2 DEF Accounted
  <1> QED
    BY <1>1, <1>3, <1>4 DEF AllAccounted

LEMMA AccountedStore ==
    ASSUME IInv, AllAccounted, NEW t \in Threads, Store(t)
    PROVE  AllAccounted'
  <1> DEFINE u == loc[t].user
             n == Cardinality(loc[t].list)
  <1>1. PICK c \in Codes \ drawn :
           /\ drawn' = drawn \cup {c}
           /\ hashes' = [hashes EXCEPT ![u] = @ \cup {c}]
           /\ IF Cardinality(loc[t].list \cup {c}) < CodeCount
                THEN loc' = [loc EXCEPT ![t].list = loc[t].list \cup {c}] /\ pc' = pc
                ELSE Return(t)
    BY DEF Store, More
  <1>2. /\ u \in Users /\ pc[t] = "store" /\ hashes \in [Users -> SUBSET Codes]
        /\ hashes'[u] = hashes[u] \cup {c}
        /\ \A v \in Users \ {u} : hashes'[v] = hashes[v]
        /\ \A v \in Users : hashes[v] \subseteq drawn
        /\ c \notin loc[t].list
    BY <1>1 DEF Store, IInv, Threading, TypeOK, Ledger
  <1>3. /\ IsFiniteSet(loc[t].list) /\ n \in Nat /\ n < CodeCount
        /\ IsFiniteSet(loc[t].list \cup {c})
        /\ Cardinality(loc[t].list \cup {c}) = n + 1
    BY <1>2, FS_CardinalityType, FS_AddElement DEF AllAccounted, Lists
  <1>4. /\ \A s \in Threads \ {t} : loc'[s] = loc[s] /\ pc'[s] = pc[s]
        /\ \/ /\ n + 1 < CodeCount /\ pc'[t] = "store"
              /\ loc'[t].list = loc[t].list \cup {c} /\ loc'[t].user = u
           \/ pc'[t] = "idle" /\ loc'[t].list = {}
    BY <1>1, <1>2, <1>3 DEF Return, NoLocal, IInv, TypeOK, Local
  <1> HIDE DEF n
  <1>5. Lists'
    BY <1>3, <1>4, FS_EmptySet DEF AllAccounted, Lists
  <1>6. PICK place \in Places : Accounted(place)
    BY DEF AllAccounted
  <1>7. PICK at : at = [d \in drawn \cup {c} |-> IF d = c THEN <<t, n + 1>> ELSE place[d]]
    OBVIOUS
  <1>8. at \in Places'
    <2>1. <<t, n + 1>> \in Threads \X (1..CodeCount)
      BY <1>3, RecoveryAssumption
    <2> QED
      BY <1>1, <1>6, <1>7, <2>1 DEF Places
  <1>9. /\ at[c] = <<t, n + 1>> /\ \A v \in Users : c \notin hashes[v]
        /\ \A v \in Users : \A d \in hashes[v] : at[d] = place[d]
    BY <1>1, <1>2, <1>7
  <1>10. \A d \in hashes[u] : at[d] # at[c]
    <2>1. \A d \in hashes[u] : place[d][1] = t => place[d][2] <= n
      BY <1>2, <1>6 DEF Accounted, n
    <2> QED
      BY <1>2, <1>3, <1>9, <2>1
  <1>11. ASSUME NEW v \in Users, NEW d \in hashes'[v], NEW e \in hashes'[v], at[d] = at[e]
         PROVE  d = e
    BY <1>2, <1>6, <1>9, <1>10, <1>11 DEF Accounted
  <1>12. ASSUME NEW s \in Threads, pc'[s] = "store", NEW d \in hashes'[loc'[s].user],
                at[d][1] = s
         PROVE  at[d][2] <= Cardinality(loc'[s].list)
    <2>1. CASE s = t
      <3>1. /\ loc'[t].list = loc[t].list \cup {c} /\ loc'[t].user = u
            /\ d \in hashes[u] \cup {c}
        BY <1>2, <1>4, <1>12, <2>1
      <3>2. \A x \in hashes[u] : place[x][1] = t => place[x][2] <= n
        BY <1>2, <1>6 DEF Accounted, n
      <3>3. \A x \in hashes[u] : place[x][2] \in Int
        BY <1>2, <1>6 DEF Places
      <3> QED
        BY <1>3, <1>9, <1>2, <1>12, <2>1, <3>1, <3>2, <3>3
    <2>2. CASE s # t
      <3>1. loc'[s] = loc[s] /\ pc[s] = "store" /\ loc[s].user \in Users
        BY <1>4, <1>12, <2>2 DEF IInv, Threading
      <3>2. d # c
        BY <1>9, <1>12, <2>2
      <3>3. d \in hashes[loc[s].user]
        BY <1>2, <1>12, <3>1, <3>2
      <3> QED
        BY <1>6, <1>9, <1>12, <3>1, <3>3 DEF Accounted
    <2> QED
      BY <2>1, <2>2
  <1>13. Accounted(at)'
    BY <1>11, <1>12 DEF Accounted
  <1> QED
    BY <1>5, <1>8, <1>13 DEF AllAccounted

LEMMA AccountedStep ==
    ASSUME StorageMayFail = FALSE, IInv, IInv', AllAccounted, [Next]_vars
    PROVE  AllAccounted'
  <1> USE DEF IInv, TypeOK, Threading
  <1>1. ASSUME NEW t \in Threads, NEW u \in Users, generate_recovery_codes(t, u)
        PROVE  AllAccounted'
    <2>1. /\ loc'[t].list = {} /\ pc'[t] = "clear"
          /\ \A s \in Threads \ {t} :
                /\ pc'[s] = pc[s] /\ loc'[s].user = loc[s].user
                /\ loc'[s].list = loc[s].list
      <3>1. \A s \in Threads \ {t} :
               loc'[s] = [loc[s] EXCEPT !.solo = loc[s].solo /\ ~Generating(s, u)]
        BY <1>1 DEF generate_recovery_codes
      <3>2. loc'[t] = [NoLocal EXCEPT !.user = u, !.old = hashes[u],
                          !.solo = \A r \in Threads : ~Generating(r, u)]
        BY <1>1 DEF generate_recovery_codes
      <3> QED
        BY <1>1, <3>1, <3>2 DEF generate_recovery_codes, NoLocal, Local
    <2>2. UNCHANGED <<hashes, drawn>>
      BY <1>1 DEF generate_recovery_codes
    <2> QED
      BY <2>1, <2>2, FS_EmptySet, NothingStored DEF AllAccounted, Lists
  <1>2. ASSUME NEW t \in Threads, Clear(t)
        PROVE  AllAccounted'
    <2>1. /\ hashes' = [hashes EXCEPT ![loc[t].user] = {}] /\ loc' = loc
          /\ pc[t] = "clear" /\ pc' = [pc EXCEPT ![t] = "store"] /\ drawn' = drawn
      BY <1>2 DEF Clear
    <2> QED
      BY <2>1, NothingStored DEF AllAccounted, Lists
  <1>3. ASSUME NEW t \in Threads, Return(t), drawn' = drawn,
               \A u \in Users : hashes'[u] \subseteq hashes[u]
        PROVE  AllAccounted'
    BY <1>3, FS_EmptySet, NothingStored DEF AllAccounted, Lists, Return, NoLocal
  <1>4. ASSUME NEW t \in Threads, StoreFails(t) \/ Consume(t)
        PROVE  AllAccounted'
    BY <1>3, <1>4 DEF StoreFails, Consume, consume_recovery_hash
  <1>5. ASSUME NEW t \in Threads, NEW u \in Users, NEW c \in shown,
               recover_with_code(t, u, c)
        PROVE  AllAccounted'
    BY <1>5, FS_EmptySet, NothingStored
       DEF recover_with_code, AllAccounted, Lists, NoLocal
  <1>6. CASE UNCHANGED vars
    BY <1>6, NothingStored DEF vars, AllAccounted, Lists
  <1> QED
    BY <1>1, <1>2, <1>4, <1>5, <1>6, AccountedStore DEF Next, RecoveryRoutes

\* For any number of threads, users and codes, when the storage reports no
\* error: each stored code has its own place among the CodeCount of the last
\* list of the thread that stored it, because a call clears what the thread's
\* calls before it left.
THEOREM StoredCodesBounded ==
    ASSUME StorageMayFail = FALSE, IsFiniteSet(Threads)
    PROVE  Spec => []CodesBounded
  <1>1. Init => IInv /\ AllAccounted
    BY InitOK, AccountedInit
  <1>2. IInv /\ AllAccounted /\ [Next]_vars => (IInv /\ AllAccounted)'
    BY NextOK, AccountedStep
  <1>3. ASSUME IInv, AllAccounted
        PROVE  CodesBounded
    <2> SUFFICES ASSUME NEW u \in Users
                 PROVE  Cardinality(hashes[u]) <= CodeCount * Cardinality(Threads)
      BY DEF CodesBounded
    <2>1. PICK place \in Places : Accounted(place)
      BY <1>3 DEF AllAccounted
    <2> DEFINE f == [c \in hashes[u] |-> place[c]]
               T == Threads \X (1..CodeCount)
    <2>2. f \in Injection(hashes[u], T)
      BY <1>3, <2>1 DEF Injection, IsInjective, Accounted, Places, IInv, Ledger
    <2>3. IsFiniteSet(1..CodeCount) /\ Cardinality(1..CodeCount) = CodeCount
      BY FS_Interval, RecoveryAssumption
    <2>4. IsFiniteSet(T) /\ Cardinality(T) = Cardinality(Threads) * CodeCount
      BY <2>3, FS_Product
    <2> HIDE DEF f, T
    <2>5. Cardinality(hashes[u]) <= Cardinality(T)
      BY <2>2, <2>4, FS_Injection
    <2>6. Cardinality(Threads) \in Nat /\ CodeCount \in Nat
      BY FS_CardinalityType, RecoveryAssumption
    <2> QED
      BY <2>4, <2>5, <2>6
  <1> QED
    BY <1>1, <1>2, <1>3, PTL DEF Spec
=============================================================================
