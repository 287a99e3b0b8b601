------------------------- MODULE Whitelist_proofs -------------------------
(***************************************************************************)
(* Proofs about Whitelist, for every set of wallets, requests and lists.   *)
(***************************************************************************)
EXTENDS Whitelist, TLAPS

LEMMA BagFacts ==
  /\ None \in Bags
  /\ \A w \in Wallets : One(w) \in Bags /\ In(One(w)) = {w}
  /\ \A list \in Bags : \A W : Only(list, W) \in Bags
  BY DEF Bags, None, One, In, Only

LEMMA RestIsRequest ==
  ASSUME NEW pc \in {"idle", "create", "update", "ask", "delete", "insert",
                     "done", "refused", "lost"}
  PROVE  Rest(pc) \in Request
  BY BagFacts DEF Rest, Request

----------------------------------------------------------------------------
(* Type correctness.                                                       *)

LEMMA TypeInit == Init => TypeOK
  BY BagFacts, RestIsRequest DEF Init, TypeOK

\* A step that gives q the request r.
LEMMA TypeRequest ==
  ASSUME TypeOK, NEW q \in Requests, NEW r \in Request, req' = [req EXCEPT ![q] = r]
  PROVE  req' \in [Requests -> Request]
  BY DEF TypeOK

LEMMA TypeBegin ==
  ASSUME TypeOK, NEW q \in Requests, NEW list, NEW r \in Request, Begin(q, list, r)
  PROVE  TypeOK'
<1>1. In(list) \in SUBSET Wallets
  BY DEF In
<1>2. [r EXCEPT !.names = In(list), !.clean = In(list)] \in Request
  BY <1>1 DEF Request
<1> QED BY <1>1, <1>2, TypeRequest DEF Begin, TypeOK

LEMMA TypeAcknowledge ==
  ASSUME TypeOK, NEW q \in Requests, NEW W, Acknowledge(q, W), docs' \in Bags
  PROVE  TypeOK'
<1>1. req[q].clean \in SUBSET Wallets
  BY DEF TypeOK, Request
<1>2. req' \in [Requests -> Request]
  BY TypeRequest, RestIsRequest DEF Acknowledge
<1> QED BY <1>1, <1>2 DEF Acknowledge, TypeOK

LEMMA TypeAdd ==
  ASSUME TypeOK, NEW q \in Adds, addUserToWhitelist(q)
  PROVE  TypeOK'
<1>0. q \in Requests
  BY DEF Requests, Inserters
<1>1. ASSUME NEW w \in Wallets, AddFind(q, w) PROVE TypeOK'
  <2> DEFINE r == [Rest(IF w \in Listed THEN "update" ELSE "create") EXCEPT !.todo = One(w)]
  <2>1. r \in Request
    BY BagFacts DEF Rest, Request
  <2> QED BY <1>0, <1>1, <2>1, TypeBegin DEF AddFind
<1>2. CASE AddCreate(q)
  <2>1. docs' \in Bags
    BY <1>0, <1>2 DEF AddCreate, TypeOK, Request, Bags
  <2> QED BY <1>0, <1>2, <2>1, TypeAcknowledge DEF AddCreate
<1>3. CASE AddUpdate(q)
  BY <1>0, <1>3, TypeAcknowledge DEF AddUpdate, TypeOK
<1> QED BY <1>1, <1>2, <1>3 DEF addUserToWhitelist

LEMMA TypeInsert ==
  ASSUME TypeOK, NEW q \in Requests, NEW w \in Wallets, Insert(q, w)
  PROVE  TypeOK'
<1>1. docs' \in Bags
  BY DEF Insert, TypeOK, Request, Bags
<1>2. [req[q] EXCEPT !.todo[w] = 0] \in Request
  BY DEF TypeOK, Request, Bags
<1> QED BY <1>1, <1>2, TypeRequest DEF Insert, TypeOK

LEMMA TypeBatch ==
  ASSUME TypeOK, NEW q \in Batches, addBatchUserToWhitelist(q)
  PROVE  TypeOK'
<1>0. q \in Requests
  BY DEF Requests, Inserters
<1>1. ASSUME NEW list \in Lists, BatchFind(q, list) PROVE TypeOK'
  <2> DEFINE r == [Rest("insert") EXCEPT !.todo = Only(list, Wallets \ Listed)]
  <2>1. r \in Request
    BY BagFacts, ListsAssumption DEF Rest, Request
  <2> QED BY <1>0, <1>1, <2>1, TypeBegin DEF BatchFind
<1>2. CASE Inserted(q)
  BY <1>0, <1>2, TypeAcknowledge DEF Inserted, TypeOK
<1> QED BY <1>0, <1>1, <1>2, TypeInsert DEF addBatchUserToWhitelist

LEMMA TypeCheck ==
  ASSUME TypeOK, NEW q \in Checks, checkAndAddMissing(q)
  PROVE  TypeOK'
<1>0. q \in Requests /\ req[q] \in Request
  BY DEF Requests, Inserters, TypeOK
<1>1. ASSUME NEW list \in Lists, CheckFind(q, list) PROVE TypeOK'
  <2> DEFINE r == [Rest("ask") EXCEPT !.ask = list, !.found = Listed]
  <2>1. Listed \in SUBSET Wallets
    BY DEF Listed, In
  <2>2. r \in Request
    BY <2>1, BagFacts, ListsAssumption DEF Rest, Request
  <2> QED BY <1>0, <1>1, <2>2, TypeBegin DEF CheckFind
<1>2. ASSUME NEW list \in Lists, CheckRefused(q, list) PROVE TypeOK'
  <2>1. [req[q] EXCEPT !.pc = "refused"] \in Request
    BY <1>0 DEF Request
  <2> QED BY <1>0, <1>2, <2>1, TypeRequest DEF CheckRefused, TypeOK
<1>3. CASE CheckAskFails(q)
  BY <1>0, <1>3, RestIsRequest, TypeRequest DEF CheckAskFails, TypeOK
<1>4. CASE CheckAnswered(q)
  <2> DEFINE W == In(req[q].todo)
  <2>1. [req[q] EXCEPT !.pc = "delete", !.del = W] \in Request
    BY <1>0 DEF Request, In
  <2> QED BY <1>0, <1>4, <2>1, TypeRequest DEF CheckAnswered, CheckDelete, TypeOK
<1>5. CASE CheckDeleted(q)
  <2>1. [req[q] EXCEPT !.pc = "insert"] \in Request
    BY <1>0 DEF Request
  <2> QED BY <1>0, <1>5, <2>1, TypeRequest DEF CheckDeleted, TypeOK
<1>6. ASSUME NEW w \in Wallets, CheckAsk(q, w) PROVE TypeOK'
  <2>1. PICK known \in BOOLEAN :
          req' = [req EXCEPT
            ![q].ask[w] = @ - 1,
            ![q].todo[w] = IF known /\ w \notin req[q].found THEN @ + 1 ELSE @]
    BY <1>6 DEF CheckAsk
  <2> DEFINE r == [req[q] EXCEPT
            !.ask[w] = @ - 1,
            !.todo[w] = IF known /\ w \notin req[q].found THEN @ + 1 ELSE @]
  <2>2. r \in Request
    <3> DEFINE fewer == [req[q].ask EXCEPT ![w] = @ - 1]
               more == [req[q].todo EXCEPT
                          ![w] = IF known /\ w \notin req[q].found THEN @ + 1 ELSE @]
    <3>1. req[q].ask \in Bags /\ req[q].todo \in Bags /\ req[q].ask[w] > 0
      BY <1>0, <1>6 DEF CheckAsk, Request
    <3>2. fewer \in Bags /\ more \in Bags
      BY <3>1 DEF Bags
    <3>3. r = [req[q] EXCEPT !.ask = fewer, !.todo = more]
      BY <1>0 DEF Request
    <3> QED BY <1>0, <3>2, <3>3 DEF Request
  <2>3. req' = [req EXCEPT ![q] = r]
    BY <1>0, <2>1 DEF TypeOK, Request, Bags
  <2> QED BY <1>0, <1>6, <2>2, <2>3, TypeRequest DEF CheckAsk, TypeOK
<1>7. ASSUME NEW w \in Wallets, CheckDeletes(q, w) PROVE TypeOK'
  <2>1. [req[q] EXCEPT !.del = @ \ {w}] \in Request
    BY <1>0 DEF Request
  <2> QED BY <1>0, <1>7, <2>1, TypeRequest DEF CheckDeletes, TypeOK, Bags
<1>8. CASE Inserted(q)
  BY <1>0, <1>8, TypeAcknowledge DEF Inserted, TypeOK
<1> QED BY <1>0, <1>1, <1>2, <1>3, <1>4, <1>5, <1>6, <1>7, <1>8, TypeInsert
        DEF checkAndAddMissing

LEMMA TypeRemove ==
  ASSUME TypeOK, NEW q \in Removes, removeUserToWhitelist(q)
  PROVE  TypeOK'
<1>0. q \in Requests
  BY DEF Requests
<1>1. ASSUME NEW list \in Lists, RemoveBegins(q, list) PROVE TypeOK'
  <2>1. [Rest("delete") EXCEPT !.names = In(list), !.del = In(list)] \in Request
    BY BagFacts DEF Rest, Request, In
  <2> QED BY <1>0, <1>1, <2>1, TypeRequest DEF RemoveBegins, TypeOK
<1>2. ASSUME NEW w \in Wallets, RemoveDeletes(q, w) PROVE TypeOK'
  <2>1. \A p \in Requests : /\ [req[p] EXCEPT !.del = @ \ {w}] \in Request
                            /\ [req[p] EXCEPT !.clean = @ \ {w}] \in Request
    BY DEF TypeOK, Request
  <2> QED BY <1>2, <2>1 DEF RemoveDeletes, Delete, TypeOK, Bags
<1>3. CASE RemoveEnds(q)
  BY <1>0, <1>3, RestIsRequest, TypeRequest DEF RemoveEnds, TypeOK
<1> QED BY <1>1, <1>2, <1>3 DEF removeUserToWhitelist

LEMMA TypeStep == TypeOK /\ [Next]_vars => TypeOK'
<1> SUFFICES ASSUME TypeOK, [Next]_vars PROVE TypeOK'
  OBVIOUS
<1>1. CASE Crash
  BY <1>1, RestIsRequest DEF Crash, TypeOK
<1>2. CASE UNCHANGED vars
  BY <1>2 DEF TypeOK, vars
<1> QED BY <1>1, <1>2, TypeAdd, TypeBatch, TypeCheck, TypeRemove DEF Next

(* The documents are counted by naturals, and every request's wallets stay *)
(* wallets, whatever the lists and however the requests interleave.        *)
THEOREM WhitelistTypeCorrect == Spec => []TypeOK
  BY TypeInit, TypeStep, PTL DEF Spec

----------------------------------------------------------------------------
(* DuplicatesAreRaced says what holds between the commands, not within     *)
(* them: between the read of a request and its insert, what the request is *)
(* to insert must still be missing from the documents.                     *)

\* At most one request that inserts names w.
OneInserter(w) ==
  \A p, q \in Requests : Inserting(p, w) /\ Inserting(q, w) => p = q

\* An inserter has at most one document of w to insert, and then names w.
InsertsOne(q, w) ==
  req[q].todo[w] + req[q].ask[w] > 0 =>
    req[q].todo[w] + req[q].ask[w] = 1 /\ w \in req[q].names

\* What it is about to insert is missing, what it deletes first is deleted.
InsertsMissing(q, w) ==
  req[q].todo[w] > 0 =>
    \/ docs[w] = 0
    \/ req[q].pc \in {"update", "ask"}
    \/ req[q].pc = "delete" /\ w \in req[q].del

Unraced(w) ==
  /\ docs[w] <= 1
  /\ OneInserter(w)
  /\ \A q \in Inserters : InFlight(q) => InsertsOne(q, w) /\ InsertsMissing(q, w)

UnracedInv == \A w \in Wallets \ raced : Unraced(w)

LEMMA UnracedInit == Init => UnracedInv
<1> SUFFICES ASSUME Init PROVE UnracedInv
  OBVIOUS
<1>1. \A q \in Requests : ~InFlight(q)
  BY DEF Init, InFlight, Rest
<1>2. \A w \in Wallets : docs[w] = 0
  BY DEF Init, None
<1> QED BY <1>1, <1>2 DEF UnracedInv, Unraced, OneInserter, Inserting, Requests

\* A step of q disturbs neither what q itself is about to insert nor what the
\* others are, and does not make q an inserter of w.
LEMMA UnracedKept ==
  ASSUME TypeOK, NEW w \in Wallets, Unraced(w),
         NEW q \in Requests, NEW r \in Request, req' = [req EXCEPT ![q] = r],
         docs'[w] <= 1,
         Inserting(q, w)' => Inserting(q, w),
         q \in Inserters /\ InFlight(q)' => InsertsOne(q, w)' /\ InsertsMissing(q, w)',
         \A p \in Inserters \ {q} : InFlight(p) =>
           docs'[w] \in {docs[w], 0} \/ req[p].todo[w] = 0
  PROVE  Unraced(w)'
<1>1. \A p \in Requests \ {q} : req'[p] = req[p]
  BY DEF TypeOK
<1>2. OneInserter(w)'
  <2>1. \A p \in Requests : Inserting(p, w)' => Inserting(p, w)
    BY <1>1 DEF Inserting, InFlight
  <2> QED BY <2>1 DEF Unraced, OneInserter
<1>3. ASSUME NEW p \in Inserters, InFlight(p)', p # q
      PROVE  InsertsOne(p, w)' /\ InsertsMissing(p, w)'
  <2>1. req'[p] = req[p] /\ InFlight(p)
    BY <1>1, <1>3 DEF InFlight, Requests
  <2>2. InsertsOne(p, w) /\ InsertsMissing(p, w)
    BY <2>1 DEF Unraced
  <2>3. docs'[w] \in {docs[w], 0} \/ req[p].todo[w] = 0
    BY <1>3, <2>1
  <2> QED BY <2>1, <2>2, <2>3 DEF InsertsOne, InsertsMissing
<1> QED BY <1>2, <1>3 DEF Unraced

\* While q has a document of w to insert, no other request has.
LEMMA SoleInserter ==
  ASSUME TypeOK, NEW w \in Wallets, Unraced(w),
         NEW q \in Inserters, InFlight(q), req[q].todo[w] > 0,
         NEW p \in Inserters \ {q}, InFlight(p)
  PROVE  req[p].todo[w] = 0
<1>1. /\ req[p].todo[w] \in Nat /\ req[p].ask[w] \in Nat
      /\ req[q].todo[w] \in Nat /\ req[q].ask[w] \in Nat
  BY DEF TypeOK, Request, Bags, Requests
<1>2. InsertsOne(p, w) /\ InsertsOne(q, w)
  BY DEF Unraced
<1>3. Inserting(q, w)
  BY <1>1, <1>2 DEF InsertsOne, Inserting
<1>4. ~Inserting(p, w)
  BY <1>3 DEF Unraced, OneInserter, Requests
<1> QED BY <1>1, <1>2, <1>4 DEF InsertsOne, Inserting

\* A request that starts to insert.
LEMMA UnracedBegin ==
  ASSUME TypeOK, UnracedInv, NEW q \in Inserters, NEW list \in Bags, NEW r \in Request,
         Begin(q, list, r),
         \A w \in Wallets : r.todo[w] + r.ask[w] \in {0, list[w]},
         \A w \in Wallets : r.todo[w] > 0 => docs[w] = 0 \/ r.pc \in {"update", "ask"},
         \A w \in Wallets : docs[w] \in Nat
  PROVE  UnracedInv'
<1> SUFFICES ASSUME NEW w \in Wallets, w \notin raced' PROVE Unraced(w)'
  BY DEF UnracedInv
<1> DEFINE s == [r EXCEPT !.names = In(list), !.clean = In(list)]
<1>1. /\ s \in Request /\ s.todo = r.todo /\ s.ask = r.ask /\ s.pc = r.pc
      /\ s.names = In(list)
  BY DEF Request, In
<1>2. req' = [req EXCEPT ![q] = s] /\ docs' = docs /\ q \in Requests
  BY DEF Begin, Requests
<1>3. req'[q] = s /\ \A p \in Requests \ {q} : req'[p] = req[p]
  BY <1>2 DEF TypeOK
<1>4. w \notin raced /\ Unraced(w)
  BY DEF UnracedInv, Begin
<1>5. w \in In(list) => list[w] <= 1 /\ \A p \in Requests : ~Inserting(p, w)
  BY DEF Begin, In, Bags
<1>6. list[w] \in Nat /\ r.todo[w] \in Nat /\ r.ask[w] \in Nat
  BY DEF Bags, Request
<1>7. InsertsOne(q, w)' /\ InsertsMissing(q, w)'
  <2>1. r.todo[w] + r.ask[w] > 0 => r.todo[w] + r.ask[w] = 1 /\ w \in In(list)
    BY <1>5, <1>6 DEF In
  <2>2. InsertsOne(q, w)'
    BY <1>1, <1>3, <2>1 DEF InsertsOne
  <2>3. InsertsMissing(q, w)'
    BY <1>1, <1>2, <1>3 DEF InsertsMissing
  <2> QED BY <2>2, <2>3
<1>8. CASE w \in In(list)
  <2>1. \A p \in Requests \ {q} : ~Inserting(p, w)'
    BY <1>3, <1>5, <1>8 DEF Inserting, InFlight
  <2>2. OneInserter(w)'
    BY <2>1 DEF OneInserter
  <2>3. ASSUME NEW p \in Inserters \ {q}, InFlight(p)'
        PROVE  InsertsOne(p, w)' /\ InsertsMissing(p, w)'
    <3>1. req'[p] = req[p] /\ InFlight(p)
      BY <1>3, <2>3 DEF InFlight, Requests
    <3> QED BY <1>2, <1>4, <3>1 DEF Unraced, InsertsOne, InsertsMissing
  <2> QED BY <1>2, <1>4, <1>7, <2>2, <2>3 DEF Unraced
<1>9. CASE w \notin In(list)
  <2>1. ~Inserting(q, w)'
    BY <1>1, <1>3, <1>9 DEF Inserting
  <2>2. docs'[w] <= 1 /\ docs'[w] \in {docs[w], 0}
    BY <1>2, <1>4 DEF Unraced
  <2> QED BY <1>1, <1>2, <1>4, <1>7, <2>1, <2>2, UnracedKept
<1> QED BY <1>8, <1>9

\* A step after which q is no longer in flight.
LEMMA UnracedEnded ==
  ASSUME TypeOK, NEW w \in Wallets, Unraced(w),
         NEW q \in Requests, NEW r \in Request, req' = [req EXCEPT ![q] = r],
         r.pc \in {"done", "refused"},
         docs'[w] <= 1,
         \A p \in Inserters \ {q} : InFlight(p) =>
           docs'[w] \in {docs[w], 0} \/ req[p].todo[w] = 0
  PROVE  Unraced(w)'
<1>1. ~InFlight(q)'
  BY DEF InFlight, TypeOK
<1> QED BY <1>1, UnracedKept DEF Inserting

LEMMA UnracedAdd ==
  ASSUME TypeOK, UnracedInv, NEW q \in Adds, addUserToWhitelist(q)
  PROVE  UnracedInv'
<1>0. /\ q \in Inserters /\ q \in Requests /\ Rest("done") \in Request
      /\ Rest("done").pc = "done" /\ \A w \in Wallets : docs[w] \in Nat
  BY RestIsRequest DEF Inserters, Requests, TypeOK, Bags, Rest
<1>1. ASSUME NEW v \in Wallets, AddFind(q, v) PROVE UnracedInv'
  <2> DEFINE r == [Rest(IF v \in Listed THEN "update" ELSE "create") EXCEPT !.todo = One(v)]
  <2>1. /\ r \in Request /\ r.todo = One(v) /\ r.ask = None
        /\ r.pc = IF v \in Listed THEN "update" ELSE "create"
    BY BagFacts DEF Rest, Request
  <2>2. \A w \in Wallets : r.todo[w] + r.ask[w] \in {0, One(v)[w]}
    BY <2>1 DEF One, None
  <2>3. \A w \in Wallets : r.todo[w] > 0 => docs[w] = 0 \/ r.pc \in {"update", "ask"}
    BY <1>0, <2>1 DEF One, None, Listed, In
  <2> QED BY <1>0, <1>1, <2>1, <2>2, <2>3, BagFacts, UnracedBegin DEF AddFind
<1>2. CASE AddCreate(q)
  <2> SUFFICES ASSUME NEW w \in Wallets, w \notin raced PROVE Unraced(w)'
    BY <1>2 DEF UnracedInv, AddCreate, Acknowledge
  <2>1. Unraced(w) /\ InFlight(q)
    BY <1>2 DEF UnracedInv, AddCreate, InFlight
  <2>2. /\ docs'[w] = docs[w] + req[q].todo[w]
        /\ docs[w] \in Nat /\ req[q].todo[w] \in Nat /\ req[q].ask[w] \in Nat
    BY <1>0, <1>2 DEF AddCreate, TypeOK, Request, Bags
  <2>3. req[q].todo[w] > 0 => req[q].todo[w] = 1 /\ docs[w] = 0
    BY <1>0, <1>2, <2>1, <2>2 DEF Unraced, InsertsOne, InsertsMissing, AddCreate
  <2>4. docs[w] <= 1
    BY <2>1 DEF Unraced
  <2>5. docs'[w] <= 1
    BY <2>2, <2>3, <2>4
  <2>6. ASSUME NEW p \in Inserters \ {q}, InFlight(p)
        PROVE  docs'[w] \in {docs[w], 0} \/ req[p].todo[w] = 0
    <3>1. CASE req[q].todo[w] > 0
      BY <1>0, <2>1, <2>6, <3>1, SoleInserter
    <3>2. CASE req[q].todo[w] = 0
      BY <2>2, <3>2
    <3> QED BY <2>2, <3>1, <3>2
  <2> QED BY <1>0, <1>2, <2>1, <2>5, <2>6, UnracedEnded DEF AddCreate, Acknowledge
<1>3. CASE AddUpdate(q)
  <2> SUFFICES ASSUME NEW w \in Wallets, w \notin raced PROVE Unraced(w)'
    BY <1>3 DEF UnracedInv, AddUpdate, Acknowledge
  <2>1. Unraced(w) /\ docs'[w] = docs[w] /\ docs[w] <= 1
    BY <1>3 DEF UnracedInv, Unraced, AddUpdate
  <2> QED BY <1>0, <1>3, <2>1, UnracedEnded DEF AddUpdate, Acknowledge
<1> QED BY <1>1, <1>2, <1>3 DEF addUserToWhitelist

LEMMA UnracedInsert ==
  ASSUME TypeOK, UnracedInv, NEW q \in Inserters, NEW v \in Wallets, Insert(q, v)
  PROVE  UnracedInv'
<1> SUFFICES ASSUME NEW w \in Wallets, w \notin raced PROVE Unraced(w)'
  BY DEF UnracedInv, Insert
<1> DEFINE r == [req[q] EXCEPT !.todo[v] = 0]
<1>1. q \in Requests /\ r \in Request /\ req' = [req EXCEPT ![q] = r]
  BY DEF Requests, Insert, TypeOK, Request, Bags
<1>2. Unraced(w) /\ InFlight(q) /\ docs[w] <= 1
  BY DEF UnracedInv, Unraced, Insert, InFlight
<1>3. /\ docs[w] \in Nat /\ req[q].todo[w] \in Nat /\ req[q].ask[w] \in Nat
      /\ req[q].todo[v] > 0
  BY <1>1 DEF Insert, TypeOK, Request, Bags
<1>4. /\ r.pc = req[q].pc /\ r.names = req[q].names /\ r.ask = req[q].ask
      /\ r.todo[w] = IF w = v THEN 0 ELSE req[q].todo[w]
  BY <1>1 DEF TypeOK, Request, Bags
<1>5. req'[q] = r
  BY <1>1 DEF TypeOK
<1>6. docs'[w] = IF w = v THEN docs[w] + req[q].todo[w] ELSE docs[w]
  BY DEF Insert, TypeOK, Bags
<1>7. InsertsOne(q, w) /\ InsertsMissing(q, w)
  BY <1>2 DEF Unraced
<1>8. w = v => req[q].todo[w] = 1 /\ docs[w] = 0
  BY <1>3, <1>7 DEF InsertsOne, InsertsMissing, Insert
<1>9. Inserting(q, w)' => Inserting(q, w)
  BY <1>2, <1>4, <1>5 DEF Inserting, InFlight
<1>10. InsertsOne(q, w)'
  BY <1>3, <1>4, <1>5, <1>7 DEF InsertsOne
<1>11. InsertsMissing(q, w)'
  <2>1. CASE w = v
    BY <1>4, <1>5, <2>1 DEF InsertsMissing
  <2>2. CASE w # v
    <3>1. req[q].todo[w] > 0 => docs[w] = 0
      BY <1>7 DEF InsertsMissing, Insert
    <3> QED BY <1>4, <1>5, <1>6, <2>2, <3>1 DEF InsertsMissing
  <2> QED BY <2>1, <2>2
<1>12. ASSUME NEW p \in Inserters \ {q}, InFlight(p)
       PROVE  docs'[w] \in {docs[w], 0} \/ req[p].todo[w] = 0
  <2>1. CASE w = v
    BY <1>2, <1>3, <1>12, <2>1, SoleInserter
  <2> QED BY <1>6, <2>1
<1>13. docs'[w] <= 1
  BY <1>2, <1>3, <1>6, <1>8
<1> QED BY <1>1, <1>2, <1>9, <1>10, <1>11, <1>12, <1>13, UnracedKept

LEMMA UnracedInserted ==
  ASSUME TypeOK, UnracedInv, NEW q \in Inserters, Inserted(q)
  PROVE  UnracedInv'
<1> SUFFICES ASSUME NEW w \in Wallets, w \notin raced PROVE Unraced(w)'
  BY DEF UnracedInv, Inserted, Acknowledge
<1>1. q \in Requests /\ Rest("done") \in Request /\ Rest("done").pc = "done"
  BY RestIsRequest DEF Requests, Rest
<1>2. Unraced(w) /\ docs'[w] = docs[w] /\ docs[w] <= 1
  BY DEF UnracedInv, Unraced, Inserted
<1> QED BY <1>1, <1>2, UnracedEnded DEF Inserted, Acknowledge

LEMMA UnracedBatch ==
  ASSUME TypeOK, UnracedInv, NEW q \in Batches, addBatchUserToWhitelist(q)
  PROVE  UnracedInv'
<1>0. q \in Inserters /\ \A w \in Wallets : docs[w] \in Nat
  BY DEF Inserters, TypeOK, Bags
<1>1. ASSUME NEW list \in Lists, BatchFind(q, list) PROVE UnracedInv'
  <2> DEFINE r == [Rest("insert") EXCEPT !.todo = Only(list, Wallets \ Listed)]
  <2>1. /\ list \in Bags /\ r \in Request /\ r.ask = None
        /\ r.todo = Only(list, Wallets \ Listed)
    BY BagFacts, ListsAssumption DEF Rest, Request
  <2>2. \A w \in Wallets : r.todo[w] + r.ask[w] \in {0, list[w]}
    BY <2>1 DEF Only, None, Bags
  <2>3. \A w \in Wallets : r.todo[w] > 0 => docs[w] = 0
    BY <1>0, <2>1 DEF Only, Listed, In
  <2> QED BY <1>0, <1>1, <2>1, <2>2, <2>3, UnracedBegin DEF BatchFind
<1> QED BY <1>0, <1>1, UnracedInsert, UnracedInserted DEF addBatchUserToWhitelist

LEMMA UnracedCheck ==
  ASSUME TypeOK, UnracedInv, NEW q \in Checks, checkAndAddMissing(q)
  PROVE  UnracedInv'
<1>0. /\ q \in Inserters /\ q \in Requests /\ req[q] \in Request
      /\ \A w \in Wallets : /\ docs[w] \in Nat /\ req[q].todo[w] \in Nat
                           /\ req[q].ask[w] \in Nat
  BY DEF Inserters, Requests, TypeOK, Bags, Request
<1>1. ASSUME NEW list \in Lists, CheckFind(q, list) PROVE UnracedInv'
  <2> DEFINE r == [Rest("ask") EXCEPT !.ask = list, !.found = Listed]
  <2>1. Listed \in SUBSET Wallets /\ list \in Bags
    BY ListsAssumption DEF Listed, In
  <2>2. r \in Request /\ r.todo = None /\ r.ask = list
    BY <2>1, BagFacts DEF Rest, Request
  <2> HIDE DEF r
  <2>3. \A w \in Wallets : r.todo[w] + r.ask[w] \in {0, list[w]}
    BY <2>1, <2>2 DEF None, Bags
  <2>4. \A w \in Wallets : ~(r.todo[w] > 0)
    BY <2>2 DEF None
  <2>5. Begin(q, list, r)
    BY <1>1 DEF CheckFind, r
  <2> QED BY <1>0, <2>1, <2>2, <2>3, <2>4, <2>5, UnracedBegin
\* The other steps leave raced alone; what remains is each of them for a wallet
\* that is not in it.
<1> DEFINE Kept == raced' = raced /\ \A w \in Wallets : Unraced(w) => Unraced(w)'
<1>2. ASSUME NEW list \in Lists, CheckRefused(q, list) PROVE Kept
  <2> DEFINE r == [req[q] EXCEPT !.pc = "refused"]
  <2>1. r \in Request /\ r.pc = "refused" /\ req' = [req EXCEPT ![q] = r]
    BY <1>0, <1>2 DEF CheckRefused, Request
  <2>2. docs' = docs /\ raced' = raced
    BY <1>2 DEF CheckRefused
  <2> SUFFICES ASSUME NEW w \in Wallets, Unraced(w) PROVE Unraced(w)'
    BY <2>2
  <2>3. docs'[w] <= 1
    BY <2>2 DEF Unraced
  <2> HIDE DEF r
  <2> QED BY <1>0, <2>1, <2>2, <2>3, UnracedEnded
<1>3. ASSUME CheckAskFails(q) PROVE Kept
  <2>1. /\ Rest("refused") \in Request /\ Rest("refused").pc = "refused"
        /\ req' = [req EXCEPT ![q] = Rest("refused")]
        /\ docs' = docs /\ raced' = raced
    BY <1>3, RestIsRequest DEF CheckAskFails, Rest
  <2> SUFFICES ASSUME NEW w \in Wallets, Unraced(w) PROVE Unraced(w)'
    BY <2>1
  <2>2. docs'[w] <= 1
    BY <2>1 DEF Unraced
  <2> QED BY <1>0, <2>1, <2>2, UnracedEnded
<1>4. ASSUME CheckAnswered(q) PROVE Kept
  <2> DEFINE r == [req[q] EXCEPT !.pc = "delete", !.del = In(req[q].todo)]
  <2>1. /\ r \in Request /\ r.todo = req[q].todo /\ r.ask = req[q].ask
        /\ r.names = req[q].names /\ r.pc = "delete" /\ r.del = In(req[q].todo)
    BY <1>0 DEF Request, In
  <2>2. /\ req' = [req EXCEPT ![q] = r] /\ docs' = docs /\ raced' = raced
        /\ InFlight(q)
    BY <1>4 DEF CheckAnswered, CheckDelete, InFlight
  <2> HIDE DEF r
  <2>3. req'[q] = r
    BY <1>0, <2>1, <2>2 DEF TypeOK
  <2> SUFFICES ASSUME NEW w \in Wallets, Unraced(w) PROVE Unraced(w)'
    BY <2>2
  <2>4. docs'[w] <= 1 /\ InsertsOne(q, w)
    BY <1>0, <2>2 DEF Unraced
  <2>5. InsertsOne(q, w)'
    BY <2>1, <2>3, <2>4 DEF InsertsOne
  <2>6. InsertsMissing(q, w)'
    BY <2>1, <2>3 DEF InsertsMissing, In
  <2>7. Inserting(q, w)' => Inserting(q, w)
    BY <2>1, <2>2, <2>3 DEF Inserting
  <2> QED BY <1>0, <2>1, <2>2, <2>4, <2>5, <2>6, <2>7, UnracedKept
<1>5. ASSUME CheckDeleted(q) PROVE Kept
  <2> DEFINE r == [req[q] EXCEPT !.pc = "insert"]
  <2>1. /\ r \in Request /\ r.todo = req[q].todo /\ r.ask = req[q].ask
        /\ r.names = req[q].names /\ r.pc = "insert"
    BY <1>0 DEF Request
  <2>2. /\ req' = [req EXCEPT ![q] = r] /\ docs' = docs /\ raced' = raced
        /\ req[q].pc = "delete" /\ req[q].del = {} /\ InFlight(q)
    BY <1>0, <1>5 DEF CheckDeleted, InFlight
  <2> HIDE DEF r
  <2>3. req'[q] = r
    BY <1>0, <2>1, <2>2 DEF TypeOK
  <2> SUFFICES ASSUME NEW w \in Wallets, Unraced(w) PROVE Unraced(w)'
    BY <2>2
  <2>4. docs'[w] <= 1 /\ InsertsOne(q, w) /\ InsertsMissing(q, w)
    BY <1>0, <2>2 DEF Unraced
  <2>5. InsertsOne(q, w)'
    BY <2>1, <2>3, <2>4 DEF InsertsOne
  <2>6. InsertsMissing(q, w)'
    BY <2>1, <2>2, <2>3, <2>4 DEF InsertsMissing
  <2>7. Inserting(q, w)' => Inserting(q, w)
    BY <2>1, <2>2, <2>3 DEF Inserting
  <2> QED BY <1>0, <2>1, <2>2, <2>4, <2>5, <2>6, <2>7, UnracedKept
<1>6. ASSUME NEW v \in Wallets, CheckAsk(q, v) PROVE Kept
  <2>1. PICK known \in BOOLEAN :
          req' = [req EXCEPT
            ![q].ask[v] = @ - 1,
            ![q].todo[v] = IF known /\ v \notin req[q].found THEN @ + 1 ELSE @]
    BY <1>6 DEF CheckAsk
  <2> DEFINE fewer == [req[q].ask EXCEPT ![v] = @ - 1]
             more == [req[q].todo EXCEPT
                        ![v] = IF known /\ v \notin req[q].found THEN @ + 1 ELSE @]
             r == [req[q] EXCEPT !.ask = fewer, !.todo = more]
  <2>2. /\ req[q].ask \in Bags /\ req[q].todo \in Bags /\ req[q].ask[v] > 0
        /\ req[q].pc = "ask" /\ docs' = docs /\ raced' = raced
    BY <1>0, <1>6 DEF CheckAsk, Request
  <2>3. fewer \in Bags /\ more \in Bags
    BY <2>2 DEF Bags
  <2>4. \A w \in Wallets : /\ more[w] \in Nat /\ fewer[w] \in Nat
                           /\ more[w] + fewer[w] <= req[q].todo[w] + req[q].ask[w]
    BY <1>0, <2>2 DEF Bags
  <2>5. req' = [req EXCEPT ![q] = r]
    BY <1>0, <2>1 DEF TypeOK, Request
  <2>6. /\ r \in Request /\ r.todo = more /\ r.ask = fewer
        /\ r.names = req[q].names /\ r.pc = "ask"
    BY <1>0, <2>2, <2>3 DEF Request
  <2> HIDE DEF fewer, more, r
  <2>7. req'[q] = r
    BY <1>0, <2>5, <2>6 DEF TypeOK
  <2> SUFFICES ASSUME NEW w \in Wallets, Unraced(w) PROVE Unraced(w)'
    BY <2>2
  <2>8. docs'[w] <= 1 /\ InsertsOne(q, w)
    BY <1>0, <2>2 DEF Unraced, InFlight
  <2>9. InsertsOne(q, w)'
    BY <1>0, <2>4, <2>6, <2>7, <2>8 DEF InsertsOne
  <2>10. InsertsMissing(q, w)'
    BY <2>6, <2>7 DEF InsertsMissing
  <2>11. Inserting(q, w)' => Inserting(q, w)
    BY <2>2, <2>6, <2>7 DEF Inserting, InFlight
  <2> QED BY <1>0, <2>2, <2>5, <2>6, <2>8, <2>9, <2>10, <2>11, UnracedKept
<1>7. ASSUME NEW v \in Wallets, CheckDeletes(q, v) PROVE Kept
  <2> DEFINE r == [req[q] EXCEPT !.del = @ \ {v}]
  <2>1. /\ r \in Request /\ r.todo = req[q].todo /\ r.ask = req[q].ask
        /\ r.names = req[q].names /\ r.pc = req[q].pc /\ r.del = req[q].del \ {v}
    BY <1>0 DEF Request
  <2>2. /\ req' = [req EXCEPT ![q] = r] /\ raced' = raced
        /\ docs' = [docs EXCEPT ![v] = 0] /\ req[q].pc = "delete" /\ InFlight(q)
    BY <1>7 DEF CheckDeletes, InFlight
  <2> HIDE DEF r
  <2>3. req'[q] = r
    BY <1>0, <2>1, <2>2 DEF TypeOK
  <2> SUFFICES ASSUME NEW w \in Wallets, Unraced(w) PROVE Unraced(w)'
    BY <2>2
  <2>4. docs'[w] = IF w = v THEN 0 ELSE docs[w]
    BY <2>2 DEF TypeOK, Bags
  <2>5. docs[w] <= 1 /\ InsertsOne(q, w) /\ InsertsMissing(q, w)
    BY <1>0, <2>2 DEF Unraced
  <2>6. InsertsOne(q, w)'
    BY <2>1, <2>3, <2>5 DEF InsertsOne
  <2>7. InsertsMissing(q, w)'
    BY <2>1, <2>2, <2>3, <2>4, <2>5 DEF InsertsMissing
  <2>8. Inserting(q, w)' => Inserting(q, w)
    BY <2>1, <2>2, <2>3 DEF Inserting
  <2>9. docs'[w] <= 1 /\ docs'[w] \in {docs[w], 0}
    BY <2>4, <2>5
  <2> QED BY <1>0, <2>1, <2>2, <2>6, <2>7, <2>8, <2>9, UnracedKept
<1>8. ASSUME Kept PROVE UnracedInv'
  BY <1>8 DEF UnracedInv
<1> QED BY <1>0, <1>1, <1>2, <1>3, <1>4, <1>5, <1>6, <1>7, <1>8,
           UnracedInsert, UnracedInserted DEF checkAndAddMissing

LEMMA UnracedRemove ==
  ASSUME TypeOK, UnracedInv, NEW q \in Removes, removeUserToWhitelist(q)
  PROVE  UnracedInv'
<1>0. q \in Requests /\ q \notin Inserters
  BY DisjointAssumption DEF Requests, Inserters
<1> SUFFICES ASSUME NEW w \in Wallets, w \notin raced' PROVE Unraced(w)'
  BY DEF UnracedInv
<1>1. Unraced(w) /\ docs[w] <= 1
  BY DEF UnracedInv, Unraced, removeUserToWhitelist, RemoveBegins, RemoveDeletes,
         Delete, RemoveEnds
<1>2. ASSUME NEW r \in Request, req' = [req EXCEPT ![q] = r], docs' = docs
      PROVE  Unraced(w)'
  BY <1>0, <1>1, <1>2, UnracedKept DEF Inserting
<1>3. ASSUME NEW list \in Lists, RemoveBegins(q, list) PROVE Unraced(w)'
  <2> DEFINE r == [Rest("delete") EXCEPT !.names = In(list), !.del = In(list)]
  <2>1. r \in Request
    BY BagFacts DEF Rest, Request, In
  <2> QED BY <1>2, <1>3, <2>1 DEF RemoveBegins
<1>4. ASSUME NEW v \in Wallets, RemoveDeletes(q, v) PROVE Unraced(w)'
  <2>1. docs'[w] \in {docs[w], 0} /\ docs'[w] <= 1
    BY <1>1, <1>4 DEF RemoveDeletes, Delete, TypeOK, Bags
  <2>2. \A p \in Inserters :
          /\ req'[p].pc = req[p].pc /\ req'[p].names = req[p].names
          /\ req'[p].todo = req[p].todo /\ req'[p].ask = req[p].ask
          /\ req'[p].del = req[p].del
    BY <1>0, <1>4 DEF RemoveDeletes, Delete, TypeOK, Request, Requests
  <2>3. OneInserter(w)'
    BY <1>1, <2>2 DEF Unraced, OneInserter, Inserting, InFlight
  <2>4. ASSUME NEW p \in Inserters, InFlight(p)'
        PROVE  InsertsOne(p, w)' /\ InsertsMissing(p, w)'
    <3>1. InsertsOne(p, w) /\ InsertsMissing(p, w)
      BY <1>1, <2>2, <2>4 DEF Unraced, InFlight
    <3>2. InsertsOne(p, w)'
      BY <2>2, <3>1 DEF InsertsOne
    <3>3. InsertsMissing(p, w)'
      BY <2>1, <2>2, <3>1 DEF InsertsMissing
    <3> QED BY <3>2, <3>3
  <2> QED BY <2>1, <2>3, <2>4 DEF Unraced
<1>5. CASE RemoveEnds(q)
  BY <1>2, <1>5, RestIsRequest DEF RemoveEnds
<1> QED BY <1>3, <1>4, <1>5 DEF removeUserToWhitelist

LEMMA UnracedStep == TypeOK /\ UnracedInv /\ [Next]_vars => UnracedInv'
<1> SUFFICES ASSUME TypeOK, UnracedInv, [Next]_vars PROVE UnracedInv'
  OBVIOUS
<1>1. CASE Crash
  <2>1. \A q \in Requests : ~InFlight(q)'
    BY <1>1 DEF Crash, InFlight, Rest
  <2> QED BY <1>1, <2>1 DEF Crash, UnracedInv, Unraced, OneInserter, Inserting, Requests
<1>2. CASE UNCHANGED vars
  BY <1>2 DEF vars, UnracedInv, Unraced, OneInserter, Inserting, InFlight,
              InsertsOne, InsertsMissing
<1> QED BY <1>1, <1>2, UnracedAdd, UnracedBatch, UnracedCheck, UnracedRemove DEF Next

(* Nothing but two inserters of a wallet at once, or a list that names it  *)
(* twice, gives it a second document, for any requests, lists and crashes. *)
THEOREM OnlyRacesDuplicate == Spec => []DuplicatesAreRaced
<1>1. Init => TypeOK /\ UnracedInv
  BY TypeInit, UnracedInit
<1>2. TypeOK /\ UnracedInv /\ [Next]_vars => (TypeOK /\ UnracedInv)'
  BY TypeStep, UnracedStep
<1>3. TypeOK /\ UnracedInv => DuplicatesAreRaced
  BY DEF TypeOK, Bags, UnracedInv, Unraced, DuplicatesAreRaced
<1> QED BY <1>1, <1>2, <1>3, PTL DEF Spec
----------------------------------------------------------------------------
(* What is removed stays out, and what is added stays listed.              *)
(*                                                                         *)
(* Neither is inductive.  What a request is still to insert may not be     *)
(* removed (NamesOnly, NamedAreIn); and what a request will acknowledge    *)
(* must be there, or still to be inserted (Due), although a check may have *)
(* deleted it for the moment.                                              *)

\* A request inserts and asks about the wallets it names, while in flight.
NamesOnly ==
  \A q \in Inserters : \A w \in Wallets :
    req[q].todo[w] > 0 \/ req[q].ask[w] > 0 => Inserting(q, w)

\* Naming a wallet takes it out of the removed ones, for as long as it lasts.
NamedAreIn == \A q \in Requests : \A w \in Wallets : Inserting(q, w) => w \notin removed

OutInv == RemovedIsOut /\ NamesOnly /\ NamedAreIn

Present(w) == w \in Listed \/ \E q \in Checks : Rewriting(q, w)

\* What q relies on for a wallet that it names and no remove has deleted since.
Due(q, w) ==
  /\ req[q].pc = "create" => req[q].todo[w] > 0
  /\ req[q].pc = "update" => Present(w)
  /\ req[q].pc = "insert" => req[q].todo[w] > 0 \/ Present(w)

\* A check deletes what it will insert.
DeletesItsOwn == \A q \in Checks : req[q].pc = "delete" => req[q].del \subseteq In(req[q].todo)

ListedInv ==
  /\ \A w \in added : Present(w)
  /\ \A q \in Adds \cup Batches : \A w \in req[q].clean : Due(q, w)
  /\ DeletesItsOwn

LEMMA Kinds ==
  /\ \A q \in Adds : q \in Inserters /\ q \in Requests /\ q \notin Checks /\ q \notin Batches
  /\ \A q \in Batches : q \in Inserters /\ q \in Requests /\ q \notin Checks /\ q \notin Adds
  /\ \A q \in Checks : q \in Inserters /\ q \in Requests /\ q \notin Adds /\ q \notin Batches
  /\ \A q \in Removes : q \in Requests /\ q \notin Inserters /\ q \notin Checks
                        /\ q \notin Adds /\ q \notin Batches
  /\ \A q \in Inserters : q \in Requests
  BY DisjointAssumption DEF Inserters, Requests

LEMMA OutInit == Init => OutInv
  BY DEF Init, OutInv, RemovedIsOut, NamesOnly, NamedAreIn, Inserting, InFlight, Rest, None,
         Requests

LEMMA ListedInit == Init => ListedInv
  BY Kinds DEF Init, ListedInv, DeletesItsOwn, Rest

LEMMA OutKept ==
  ASSUME TypeOK, OutInv, NEW q \in Requests, NEW r \in Request, req' = [req EXCEPT ![q] = r],
         removed' \subseteq removed,
         \A w \in Wallets : docs'[w] > 0 =>
           docs[w] > 0 \/ \E p \in Inserters : req[p].todo[w] > 0,
         \A w \in Wallets : Inserting(q, w)' => w \notin removed',
         q \in Inserters => \A w \in Wallets :
           r.todo[w] > 0 \/ r.ask[w] > 0 => Inserting(q, w)'
  PROVE  OutInv'
<1>1. req'[q] = r /\ \A p \in Requests \ {q} : req'[p] = req[p]
  BY DEF TypeOK
<1>2. \A p \in Requests \ {q} : \A w : Inserting(p, w)' <=> Inserting(p, w)
  BY <1>1 DEF Inserting, InFlight
<1>3. NamesOnly'
  <2> SUFFICES ASSUME NEW p \in Inserters, NEW w \in Wallets,
                      req'[p].todo[w] > 0 \/ req'[p].ask[w] > 0
               PROVE  Inserting(p, w)'
    BY DEF NamesOnly
  <2>1. CASE p = q
    BY <1>1, <2>1
  <2>2. CASE p # q
    BY <1>1, <1>2, <2>2, Kinds DEF OutInv, NamesOnly
  <2> QED BY <2>1, <2>2
<1>4. NamedAreIn'
  BY <1>2 DEF OutInv, NamedAreIn
<1>5. RemovedIsOut'
  <2> SUFFICES ASSUME NEW w \in Wallets, w \in removed, docs'[w] > 0 PROVE FALSE
    BY DEF RemovedIsOut, Listed, In
  <2>1. docs[w] = 0 \/ ~(docs[w] > 0)
    BY DEF OutInv, RemovedIsOut, Listed, In
  <2>2. PICK p \in Inserters : req[p].todo[w] > 0
    BY <2>1
  <2> QED BY <2>2, Kinds DEF OutInv, NamesOnly, NamedAreIn
<1> QED BY <1>3, <1>4, <1>5 DEF OutInv

LEMMA PresentStays ==
  ASSUME TypeOK, NEW q \in Requests, NEW r \in Request, req' = [req EXCEPT ![q] = r],
         NEW w \in Wallets,
         docs[w] > 0 \/ Rewriting(q, w) => docs'[w] > 0 \/ Rewriting(q, w)'
  PROVE  Present(w) => Present(w)'
<1>1. \A p \in Checks \ {q} : Rewriting(p, w)' <=> Rewriting(p, w)
  BY Kinds DEF TypeOK, Rewriting
<1> QED BY <1>1 DEF Present, Listed, In, Rewriting

LEMMA ListedKept ==
  ASSUME TypeOK, ListedInv, NEW q \in Requests, NEW r \in Request,
         req' = [req EXCEPT ![q] = r],
         \A w \in Wallets :
           docs[w] > 0 \/ Rewriting(q, w) => docs'[w] > 0 \/ Rewriting(q, w)',
         \A w \in added' \ added : w \in Wallets /\ Present(w)',
         q \in Adds \cup Batches => \A w \in r.clean : Due(q, w)',
         q \in Checks /\ r.pc = "delete" => r.del \subseteq In(r.todo)
  PROVE  ListedInv'
<1>1. req'[q] = r /\ \A p \in Requests \ {q} : req'[p] = req[p]
  BY DEF TypeOK
<1>2. \A w \in Wallets : Present(w) => Present(w)'
  BY PresentStays
<1>3. \A w \in added' : Present(w)'
  BY <1>2 DEF ListedInv, TypeOK
<1>4. ASSUME NEW p \in Adds \cup Batches, NEW w \in req'[p].clean
      PROVE  Due(p, w)'
  <2>1. CASE p = q
    BY <1>1, <1>4, <2>1
  <2>2. CASE p # q
    <3>1. p \in Requests /\ req'[p] = req[p] /\ w \in Wallets
      BY <1>1, <1>4, <2>2, Kinds DEF TypeOK, Request
    <3>2. Due(p, w)
      BY <1>4, <3>1 DEF ListedInv
    <3> QED BY <1>2, <3>1, <3>2 DEF Due
  <2> QED BY <2>1, <2>2
<1>5. DeletesItsOwn'
  BY <1>1, Kinds DEF ListedInv, DeletesItsOwn, In
<1> QED BY <1>3, <1>4, <1>5 DEF ListedInv

\* A step of q that leaves the documents, and what q names, as they are.
LEMMA BothKept ==
  ASSUME TypeOK, OutInv, ListedInv, NEW q \in Requests, NEW r \in Request,
         req' = [req EXCEPT ![q] = r], UNCHANGED <<docs, added, removed>>,
         r.names = req[q].names,
         r.pc \in {"ask", "delete", "insert"} => InFlight(q),
         r.pc \in {"idle", "ask", "delete", "insert", "done", "refused"},
         r.pc \in {"idle", "done", "refused"} => r.todo = None /\ r.ask = None,
         \A w \in Wallets : q \in Inserters /\ (r.todo[w] > 0 \/ r.ask[w] > 0) =>
           Inserting(q, w),
         \A w \in Wallets : Rewriting(q, w) => r.pc \in {"delete", "insert"} /\ r.todo[w] > 0,
         q \notin Adds \cup Batches,
         q \in Checks /\ r.pc = "delete" => r.del \subseteq In(r.todo)
  PROVE  OutInv' /\ ListedInv'
<1>1. req'[q] = r
  BY DEF TypeOK
<1>2. \A w \in Wallets : Inserting(q, w)' => w \notin removed
  BY <1>1 DEF Inserting, InFlight, OutInv, NamedAreIn
<1>3. q \in Inserters =>
        \A w \in Wallets : r.todo[w] > 0 \/ r.ask[w] > 0 => Inserting(q, w)'
  BY <1>1 DEF Inserting, InFlight, None
<1>4. OutInv'
  BY <1>2, <1>3, OutKept
<1>5. \A w \in Wallets : docs[w] > 0 \/ Rewriting(q, w) => docs'[w] > 0 \/ Rewriting(q, w)'
  BY <1>1 DEF Rewriting
<1>6. ListedInv'
  BY <1>5, ListedKept
<1> QED BY <1>4, <1>6

LEMMA BothBegin ==
  ASSUME TypeOK, OutInv, ListedInv, NEW q \in Inserters, NEW list \in Bags, NEW r \in Request,
         Begin(q, list, r),
         r.pc \in {"create", "update", "ask", "insert"},
         \A w \in Wallets : r.todo[w] > 0 \/ r.ask[w] > 0 => list[w] > 0,
         q \in Adds \cup Batches => \A w \in In(list) :
           /\ r.pc = "create" => r.todo[w] > 0
           /\ r.pc = "update" => w \in Listed
           /\ r.pc = "insert" => r.todo[w] > 0 \/ w \in Listed
  PROVE  OutInv' /\ ListedInv'
<1> DEFINE s == [r EXCEPT !.names = In(list), !.clean = In(list)]
<1>0. q \in Requests
  BY Kinds
<1>1. /\ s \in Request /\ s.pc = r.pc /\ s.names = In(list) /\ s.clean = In(list)
      /\ s.todo = r.todo /\ s.ask = r.ask
  BY DEF Request, In
<1>2. /\ req[q].pc = "idle" /\ req' = [req EXCEPT ![q] = s] /\ removed' = removed \ In(list)
      /\ docs' = docs /\ added' = added
  BY DEF Begin
<1> HIDE DEF s
<1>3. req'[q] = s
  BY <1>0, <1>2 DEF TypeOK
<1>4. \A w \in Wallets : Inserting(q, w)' <=> w \in In(list)
  BY <1>1, <1>3 DEF Inserting, InFlight
<1>5. OutInv'
  <2>1. \A w \in Wallets : Inserting(q, w)' => w \notin removed'
    BY <1>2, <1>4
  <2>2. \A w \in Wallets : s.todo[w] > 0 \/ s.ask[w] > 0 => Inserting(q, w)'
    BY <1>1, <1>4 DEF In
  <2> QED BY <1>0, <1>1, <1>2, <2>1, <2>2, OutKept
<1>6. ListedInv'
  <2>1. \A w \in Wallets : docs[w] > 0 \/ Rewriting(q, w) => docs'[w] > 0 \/ Rewriting(q, w)'
    BY <1>2 DEF Rewriting
  <2>2. q \in Adds \cup Batches => \A w \in s.clean : Due(q, w)'
    BY <1>1, <1>2, <1>3 DEF Due, Present, Listed
  <2> QED BY <1>0, <1>1, <1>2, <2>1, <2>2, ListedKept
<1> QED BY <1>5, <1>6

\* The request ends: the wallets it acknowledges are there.
LEMMA BothAcknowledge ==
  ASSUME TypeOK, OutInv, ListedInv, NEW q \in Inserters, NEW W, Acknowledge(q, W),
         \A w \in Wallets : docs'[w] > 0 => docs[w] > 0 \/ req[q].todo[w] > 0,
         \A w \in Wallets : docs[w] > 0 \/ Rewriting(q, w) => docs'[w] > 0,
         \A w \in W \cap req[q].clean : w \in Wallets => Present(w)'
  PROVE  OutInv' /\ ListedInv'
<1> DEFINE s == Rest("done")
<1>0. q \in Requests
  BY Kinds
<1>1. s \in Request /\ s.pc = "done" /\ s.clean = {} /\ s.todo = None /\ s.ask = None
  BY RestIsRequest DEF Rest
<1>2. /\ req' = [req EXCEPT ![q] = s] /\ removed' = removed
      /\ added' = added \cup (W \cap req[q].clean)
  BY DEF Acknowledge
<1> HIDE DEF s
<1>3. req'[q] = s
  BY <1>0, <1>2 DEF TypeOK
<1>4. \A w \in Wallets : ~Inserting(q, w)' /\ ~(s.todo[w] > 0) /\ ~(s.ask[w] > 0)
  BY <1>1, <1>3 DEF Inserting, InFlight, None
<1>5. OutInv'
  BY <1>0, <1>1, <1>2, <1>4, OutKept
<1>6. \A w \in added' \ added : w \in Wallets /\ Present(w)'
  BY <1>0, <1>2 DEF TypeOK, Request
<1>7. ListedInv'
  BY <1>0, <1>1, <1>2, <1>6, ListedKept
<1> QED BY <1>5, <1>7

LEMMA BothAdd ==
  ASSUME TypeOK, OutInv, ListedInv, NEW q \in Adds, addUserToWhitelist(q)
  PROVE  OutInv' /\ ListedInv'
<1>0. /\ q \in Inserters /\ q \in Requests /\ q \notin Checks /\ req[q] \in Request
      /\ docs \in Bags /\ req[q].todo \in Bags /\ req[q].clean \subseteq Wallets
  BY Kinds DEF TypeOK, Request
<1>1. ASSUME NEW v \in Wallets, AddFind(q, v) PROVE OutInv' /\ ListedInv'
  <2> DEFINE r == [Rest(IF v \in Listed THEN "update" ELSE "create") EXCEPT !.todo = One(v)]
  <2>1. /\ r \in Request /\ r.pc = (IF v \in Listed THEN "update" ELSE "create")
        /\ r.todo = One(v) /\ r.ask = None /\ One(v) \in Bags /\ In(One(v)) = {v}
    BY BagFacts DEF Rest, Request
  <2>2. Begin(q, One(v), r)
    BY <1>1 DEF AddFind
  <2> HIDE DEF r
  <2>3. One(v)[v] > 0 /\ \A w \in Wallets : ~(None[w] > 0)
    BY DEF One, None
  <2> QED BY <1>0, <2>1, <2>2, <2>3, BothBegin
<1>2. CASE AddCreate(q)
  <2>1. /\ \A w \in Wallets : docs'[w] = docs[w] + req[q].todo[w]
        /\ Acknowledge(q, req[q].names) /\ req[q].pc = "create"
    BY <1>2 DEF AddCreate
  <2>2. \A w \in req[q].clean : Present(w)'
    <3> SUFFICES ASSUME NEW w \in req[q].clean PROVE docs'[w] > 0 /\ w \in Wallets
      BY DEF Present, Listed, In
    <3>1. Due(q, w)
      BY DEF ListedInv
    <3> QED BY <1>0, <2>1, <3>1 DEF Due, Bags
  <2>3. \A w \in Wallets : docs'[w] > 0 => docs[w] > 0 \/ req[q].todo[w] > 0
    BY <1>0, <2>1 DEF Bags
  <2>4. \A w \in Wallets : docs[w] > 0 \/ Rewriting(q, w) => docs'[w] > 0
    BY <1>0, <2>1 DEF Bags, Rewriting
  <2> QED BY <1>0, <2>1, <2>2, <2>3, <2>4, BothAcknowledge
<1>3. CASE AddUpdate(q)
  <2>1. Acknowledge(q, req[q].names) /\ req[q].pc = "update" /\ docs' = docs
    BY <1>3 DEF AddUpdate
  <2>2. req' = [req EXCEPT ![q] = Rest("done")] /\ Rest("done") \in Request
    BY <2>1, RestIsRequest DEF Acknowledge
  <2>3. \A w \in Wallets : ~Rewriting(q, w)
    BY <1>0 DEF Rewriting
  <2>4. \A w \in req[q].clean : Present(w)'
    <3> SUFFICES ASSUME NEW w \in req[q].clean PROVE Present(w)'
      OBVIOUS
    <3>1. Present(w)
      BY <2>1 DEF ListedInv, Due
    <3> QED BY <1>0, <2>1, <2>2, <2>3, <3>1, PresentStays
  <2> QED BY <1>0, <2>1, <2>3, <2>4, BothAcknowledge
<1> QED BY <1>1, <1>2, <1>3 DEF addUserToWhitelist

LEMMA BothInsert ==
  ASSUME TypeOK, OutInv, ListedInv, NEW q \in Batches \cup Checks, NEW v \in Wallets,
         Insert(q, v)
  PROVE  OutInv' /\ ListedInv'
<1> DEFINE r == [req[q] EXCEPT !.todo[v] = 0]
<1>0. /\ q \in Inserters /\ q \in Requests /\ req[q] \in Request
      /\ docs \in Bags /\ req[q].todo \in Bags
  BY Kinds DEF TypeOK, Request
<1>1. /\ r \in Request /\ r.pc = req[q].pc /\ r.names = req[q].names /\ r.ask = req[q].ask
      /\ r.clean = req[q].clean /\ r.todo = [req[q].todo EXCEPT ![v] = 0]
  BY <1>0 DEF Request, Bags
<1>2. /\ req' = [req EXCEPT ![q] = r] /\ removed' = removed /\ added' = added
      /\ req[q].pc = "insert" /\ req[q].todo[v] > 0
      /\ docs' = [docs EXCEPT ![v] = @ + req[q].todo[v]]
  BY DEF Insert
<1> HIDE DEF r
<1>3. req'[q] = r
  BY <1>0, <1>2 DEF TypeOK
<1>4. /\ docs'[v] > 0 /\ ~(r.todo[v] > 0)
      /\ \A w \in Wallets \ {v} : docs'[w] = docs[w] /\ r.todo[w] = req[q].todo[w]
  BY <1>0, <1>1, <1>2 DEF Bags
<1>5. \A w \in Wallets : Inserting(q, w)' <=> Inserting(q, w)
  BY <1>1, <1>3 DEF Inserting, InFlight
<1>6. OutInv'
  <2>1. \A w \in Wallets : docs'[w] > 0 =>
          docs[w] > 0 \/ \E p \in Inserters : req[p].todo[w] > 0
    BY <1>0, <1>2, <1>4
  <2>2. \A w \in Wallets : Inserting(q, w)' => w \notin removed'
    BY <1>0, <1>2, <1>5 DEF OutInv, NamedAreIn
  <2>3. \A w \in Wallets : r.todo[w] > 0 \/ r.ask[w] > 0 => Inserting(q, w)'
    BY <1>0, <1>1, <1>4, <1>5 DEF OutInv, NamesOnly
  <2> QED BY <1>0, <1>1, <1>2, <2>1, <2>2, <2>3, OutKept
<1>7. \A w \in Wallets : docs[w] > 0 \/ Rewriting(q, w) => docs'[w] > 0 \/ Rewriting(q, w)'
  BY <1>1, <1>3, <1>4 DEF Rewriting
<1>8. ASSUME NEW w \in r.clean, q \in Adds \cup Batches PROVE Due(q, w)'
  <2>1. Due(q, w) /\ w \in Wallets
    BY <1>0, <1>1, <1>8 DEF ListedInv, Request
  <2>2. r.todo[w] > 0 \/ Present(w)'
    <3>1. CASE w = v
      BY <1>4, <2>1, <3>1 DEF Present, Listed, In
    <3>2. CASE w # v /\ ~(r.todo[w] > 0)
      BY <1>0, <1>1, <1>2, <1>4, <1>7, <2>1, <3>2, PresentStays DEF Due
    <3> QED BY <3>1, <3>2
  <2> QED BY <1>1, <1>2, <1>3, <2>2 DEF Due
<1>9. ListedInv'
  BY <1>0, <1>1, <1>2, <1>7, <1>8, ListedKept
<1> QED BY <1>6, <1>9

LEMMA BothInserted ==
  ASSUME TypeOK, OutInv, ListedInv, NEW q \in Batches \cup Checks, Inserted(q)
  PROVE  OutInv' /\ ListedInv'
<1> DEFINE W == IF q \in Batches THEN req[q].names ELSE {}
<1>0. q \in Inserters /\ q \in Requests /\ req[q] \in Request
  BY Kinds DEF TypeOK
<1>1. Acknowledge(q, W) /\ req[q].pc = "insert" /\ req[q].todo = None /\ docs' = docs
  BY DEF Inserted
<1>2. req' = [req EXCEPT ![q] = Rest("done")] /\ Rest("done") \in Request
  BY <1>1, RestIsRequest DEF Acknowledge
<1>3. \A w \in Wallets : ~(req[q].todo[w] > 0) /\ ~Rewriting(q, w)
  BY <1>1 DEF None, Rewriting
<1>4. \A w \in W \cap req[q].clean : w \in Wallets => Present(w)'
  <2> SUFFICES ASSUME NEW w \in req[q].clean, w \in Wallets, q \in Batches
               PROVE  Present(w)'
    OBVIOUS
  <2>1. Present(w)
    BY <1>1, <1>3 DEF ListedInv, Due
  <2> QED BY <1>0, <1>1, <1>2, <1>3, <2>1, PresentStays
<1> HIDE DEF W
<1> QED BY <1>0, <1>1, <1>3, <1>4, BothAcknowledge

LEMMA BothBatch ==
  ASSUME TypeOK, OutInv, ListedInv, NEW q \in Batches, addBatchUserToWhitelist(q)
  PROVE  OutInv' /\ ListedInv'
<1>1. ASSUME NEW list \in Lists, BatchFind(q, list) PROVE OutInv' /\ ListedInv'
  <2> DEFINE r == [Rest("insert") EXCEPT !.todo = Only(list, Wallets \ Listed)]
  <2>0. list \in Bags /\ q \in Inserters
    BY ListsAssumption, Kinds
  <2>1. /\ r \in Request /\ r.pc = "insert" /\ r.todo = Only(list, Wallets \ Listed)
        /\ r.ask = None
    BY <2>0, BagFacts DEF Rest, Request
  <2>2. Begin(q, list, r)
    BY <1>1 DEF BatchFind
  <2> HIDE DEF r
  <2>3. \A w \in Wallets : r.todo[w] > 0 \/ r.ask[w] > 0 => list[w] > 0
    BY <2>1 DEF Only, None
  <2>4. \A w \in In(list) : r.todo[w] > 0 \/ w \in Listed
    BY <2>1 DEF Only, In
  <2> QED BY <2>0, <2>1, <2>2, <2>3, <2>4, BothBegin
<1> QED BY <1>1, BothInsert, BothInserted DEF addBatchUserToWhitelist

LEMMA BothCheck ==
  ASSUME TypeOK, OutInv, ListedInv, NEW q \in Checks, checkAndAddMissing(q)
  PROVE  OutInv' /\ ListedInv'
<1>0. /\ q \in Inserters /\ q \in Requests /\ q \notin Adds \cup Batches
      /\ req[q] \in Request /\ docs \in Bags
      /\ \A w \in Wallets : req[q].todo[w] > 0 \/ req[q].ask[w] > 0 => Inserting(q, w)
  BY Kinds DEF TypeOK, OutInv, NamesOnly
<1>1. ASSUME NEW list \in Lists, CheckFind(q, list) PROVE OutInv' /\ ListedInv'
  <2> DEFINE r == [Rest("ask") EXCEPT !.ask = list, !.found = Listed]
  <2>1. list \in Bags
    BY ListsAssumption
  <2>2. /\ r \in Request /\ r.pc = "ask" /\ r.ask = list /\ r.todo = None
    BY <2>1, BagFacts DEF Rest, Request, Listed, In
  <2>3. Begin(q, list, r)
    BY <1>1 DEF CheckFind
  <2> HIDE DEF r
  <2>4. \A w \in Wallets : r.todo[w] > 0 \/ r.ask[w] > 0 => list[w] > 0
    BY <2>2 DEF None
  <2> QED BY <1>0, <2>1, <2>2, <2>3, <2>4, BothBegin
<1>2. ASSUME NEW list \in Lists, CheckRefused(q, list) PROVE OutInv' /\ ListedInv'
  <2> DEFINE r == [req[q] EXCEPT !.pc = "refused"]
  <2>1. /\ r \in Request /\ r.pc = "refused" /\ r.names = req[q].names
        /\ r.todo = req[q].todo /\ r.ask = req[q].ask
    BY <1>0 DEF Request
  <2>2. /\ req' = [req EXCEPT ![q] = r] /\ req[q].pc = "idle"
        /\ UNCHANGED <<docs, added, removed>>
    BY <1>2 DEF CheckRefused
  <2> HIDE DEF r
  <2>3. /\ \A w \in Wallets : ~(r.todo[w] > 0) /\ ~(r.ask[w] > 0) /\ ~Rewriting(q, w)
    BY <1>0, <2>1, <2>2 DEF Inserting, InFlight, Rewriting
  <2>4. r.todo = None /\ r.ask = None
    BY <1>0, <2>1, <2>3 DEF None, Request, Bags
  <2> QED BY <1>0, <2>1, <2>2, <2>3, <2>4, BothKept
<1>3. CASE CheckAskFails(q)
  <2>1. req' = [req EXCEPT ![q] = Rest("refused")] /\ req[q].pc = "ask"
        /\ UNCHANGED <<docs, added, removed>>
    BY <1>3 DEF CheckAskFails
  <2>2. /\ Rest("refused") \in Request /\ Rest("refused").pc = "refused"
        /\ Rest("refused").todo = None /\ Rest("refused").ask = None
    BY RestIsRequest DEF Rest
  <2>3. req'[q] = Rest("refused")
    BY <1>0, <2>1 DEF TypeOK
  <2>4. \A w \in Wallets : ~Inserting(q, w)' /\ ~Rewriting(q, w) /\ ~(None[w] > 0)
    BY <2>1, <2>2, <2>3 DEF Inserting, InFlight, Rewriting, None
  <2>5. OutInv'
    BY <1>0, <2>1, <2>2, <2>4, OutKept
  <2>6. ListedInv'
    BY <1>0, <2>1, <2>2, <2>4, ListedKept
  <2> QED BY <2>5, <2>6
<1>4. CASE CheckAnswered(q)
  <2> DEFINE r == [req[q] EXCEPT !.pc = "delete", !.del = In(req[q].todo)]
  <2>1. /\ r \in Request /\ r.pc = "delete" /\ r.names = req[q].names
        /\ r.todo = req[q].todo /\ r.ask = req[q].ask /\ r.del = In(req[q].todo)
    BY <1>0 DEF Request, In
  <2>2. /\ req' = [req EXCEPT ![q] = r] /\ req[q].pc = "ask" /\ InFlight(q)
        /\ UNCHANGED <<docs, added, removed>>
    BY <1>4 DEF CheckAnswered, CheckDelete, InFlight
  <2> HIDE DEF r
  <2>3. \A w \in Wallets : ~Rewriting(q, w)
    BY <2>2 DEF Rewriting
  <2> QED BY <1>0, <2>1, <2>2, <2>3, BothKept
<1>5. CASE CheckDeleted(q)
  <2> DEFINE r == [req[q] EXCEPT !.pc = "insert"]
  <2>1. /\ r \in Request /\ r.pc = "insert" /\ r.names = req[q].names
        /\ r.todo = req[q].todo /\ r.ask = req[q].ask
    BY <1>0 DEF Request
  <2>2. /\ req' = [req EXCEPT ![q] = r] /\ req[q].pc = "delete" /\ InFlight(q)
        /\ UNCHANGED <<docs, added, removed>>
    BY <1>5 DEF CheckDeleted, InFlight
  <2> HIDE DEF r
  <2>3. \A w \in Wallets : Rewriting(q, w) => r.todo[w] > 0
    BY <2>1 DEF Rewriting
  <2> QED BY <1>0, <2>1, <2>2, <2>3, BothKept
<1>6. ASSUME NEW v \in Wallets, CheckAsk(q, v) PROVE OutInv' /\ ListedInv'
  <2>1. PICK known \in BOOLEAN :
          req' = [req EXCEPT
            ![q].ask[v] = @ - 1,
            ![q].todo[v] = IF known /\ v \notin req[q].found THEN @ + 1 ELSE @]
    BY <1>6 DEF CheckAsk
  <2> DEFINE fewer == [req[q].ask EXCEPT ![v] = @ - 1]
             more == [req[q].todo EXCEPT
                        ![v] = IF known /\ v \notin req[q].found THEN @ + 1 ELSE @]
             r == [req[q] EXCEPT !.ask = fewer, !.todo = more]
  <2>2. /\ req[q].ask \in Bags /\ req[q].todo \in Bags /\ req[q].ask[v] > 0
        /\ req[q].pc = "ask" /\ InFlight(q) /\ UNCHANGED <<docs, added, removed>>
    BY <1>0, <1>6 DEF CheckAsk, Request, InFlight
  <2>3. fewer \in Bags /\ more \in Bags
    BY <2>2 DEF Bags
  <2>4. \A w \in Wallets : more[w] > 0 \/ fewer[w] > 0 => req[q].todo[w] > 0 \/ req[q].ask[w] > 0
    BY <2>2 DEF Bags
  <2>5. req' = [req EXCEPT ![q] = r]
    BY <1>0, <2>1 DEF TypeOK, Request
  <2>6. /\ r \in Request /\ r.todo = more /\ r.ask = fewer
        /\ r.names = req[q].names /\ r.pc = "ask"
    BY <1>0, <2>2, <2>3 DEF Request
  <2> HIDE DEF fewer, more, r
  <2>7. \A w \in Wallets : ~Rewriting(q, w)
    BY <2>2 DEF Rewriting
  <2> QED BY <1>0, <2>2, <2>4, <2>5, <2>6, <2>7, BothKept
<1>7. ASSUME NEW v \in Wallets, CheckDeletes(q, v) PROVE OutInv' /\ ListedInv'
  <2> DEFINE r == [req[q] EXCEPT !.del = @ \ {v}]
  <2>1. /\ r \in Request /\ r.todo = req[q].todo /\ r.ask = req[q].ask
        /\ r.names = req[q].names /\ r.pc = req[q].pc /\ r.del = req[q].del \ {v}
    BY <1>0 DEF Request
  <2>2. /\ req' = [req EXCEPT ![q] = r] /\ docs' = [docs EXCEPT ![v] = 0]
        /\ req[q].pc = "delete" /\ v \in req[q].del
        /\ added' = added /\ removed' = removed
    BY <1>7 DEF CheckDeletes
  <2> HIDE DEF r
  <2>3. req'[q] = r
    BY <1>0, <2>2 DEF TypeOK
  <2>4. \A w \in Wallets : docs'[w] = IF w = v THEN 0 ELSE docs[w]
    BY <1>0, <2>2 DEF Bags
  <2>5. req[q].del \subseteq In(req[q].todo)
    BY <2>2 DEF ListedInv, DeletesItsOwn
  <2>6. OutInv'
    <3>1. \A w \in Wallets : Inserting(q, w)' <=> Inserting(q, w)
      BY <2>1, <2>3 DEF Inserting, InFlight
    <3>2. \A w \in Wallets : Inserting(q, w)' => w \notin removed'
      BY <1>0, <2>2, <3>1 DEF OutInv, NamedAreIn
    <3>3. \A w \in Wallets : docs'[w] > 0 => docs[w] > 0
      BY <2>4
    <3> QED BY <1>0, <2>1, <2>2, <3>1, <3>2, <3>3, OutKept
  <2>7. \A w \in Wallets : docs[w] > 0 \/ Rewriting(q, w) => docs'[w] > 0 \/ Rewriting(q, w)'
    BY <2>1, <2>2, <2>3, <2>4, <2>5 DEF Rewriting, In
  <2>8. ListedInv'
    BY <1>0, <2>1, <2>2, <2>5, <2>7, ListedKept
  <2> QED BY <2>6, <2>8
<1> QED BY <1>1, <1>2, <1>3, <1>4, <1>5, <1>6, <1>7, BothInsert, BothInserted
        DEF checkAndAddMissing

\* A removal deletes the wallet under the others: no request that had named it
\* before will acknowledge it.
LEMMA BothDelete ==
  ASSUME TypeOK, OutInv, ListedInv, NEW q \in Removes, NEW v \in Wallets, RemoveDeletes(q, v)
  PROVE  OutInv' /\ ListedInv'
<1>0. q \in Requests /\ q \notin Inserters /\ docs \in Bags
  BY Kinds DEF TypeOK
<1>1. \A w \in Wallets : docs'[w] = IF w = v THEN 0 ELSE docs[w]
  BY <1>0 DEF RemoveDeletes, Delete, Bags
<1>2. \A p \in Inserters :
        /\ req'[p].pc = req[p].pc /\ req'[p].names = req[p].names
        /\ req'[p].todo = req[p].todo /\ req'[p].ask = req[p].ask
        /\ req'[p].del = req[p].del /\ req'[p].clean = req[p].clean \ {v}
  BY <1>0, Kinds DEF RemoveDeletes, Delete, TypeOK, Request
<1>3. \A p, w : Inserting(p, w)' <=> Inserting(p, w)
  BY <1>2 DEF Inserting, InFlight
<1>4. /\ added' = added \ {v}
      /\ removed' = IF \E p \in Requests : Inserting(p, v) THEN removed ELSE removed \cup {v}
  BY DEF RemoveDeletes, Delete
<1>5. OutInv'
  <2>1. RemovedIsOut'
    BY <1>1, <1>4 DEF OutInv, RemovedIsOut, Listed, In
  <2>2. NamesOnly'
    BY <1>2, <1>3 DEF OutInv, NamesOnly
  <2>3. NamedAreIn'
    BY <1>3, <1>4 DEF OutInv, NamedAreIn
  <2> QED BY <2>1, <2>2, <2>3 DEF OutInv
<1>6. \A p \in Checks : \A w : Rewriting(p, w)' <=> Rewriting(p, w)
  BY <1>2, Kinds DEF Rewriting
<1>7. \A w \in Wallets \ {v} : Present(w) => Present(w)'
  BY <1>1, <1>6 DEF Present, Listed, In
<1>8. ListedInv'
  <2>1. \A w \in added' : Present(w)'
    BY <1>4, <1>7 DEF ListedInv, TypeOK
  <2>2. ASSUME NEW p \in Adds \cup Batches, NEW w \in req'[p].clean PROVE Due(p, w)'
    <3>1. p \in Inserters /\ w \in req[p].clean /\ w \in Wallets \ {v}
      BY <1>2, <2>2, Kinds DEF TypeOK, Request
    <3>2. Due(p, w)
      BY <3>1 DEF ListedInv
    <3> QED BY <1>2, <1>7, <3>1, <3>2 DEF Due
  <2>3. DeletesItsOwn'
    BY <1>2, Kinds DEF ListedInv, DeletesItsOwn, In
  <2> QED BY <2>1, <2>2, <2>3 DEF ListedInv
<1> QED BY <1>5, <1>8

LEMMA BothRemove ==
  ASSUME TypeOK, OutInv, ListedInv, NEW q \in Removes, removeUserToWhitelist(q)
  PROVE  OutInv' /\ ListedInv'
<1>0. /\ q \in Requests /\ q \notin Inserters /\ q \notin Checks /\ q \notin Adds \cup Batches
  BY Kinds
<1>1. ASSUME NEW r \in Request, req' = [req EXCEPT ![q] = r],
             UNCHANGED <<docs, added, removed>>
      PROVE  OutInv' /\ ListedInv'
  <2>1. \A w \in Wallets : ~Inserting(q, w)' /\ ~Rewriting(q, w)
    BY <1>0 DEF Inserting, Rewriting
  <2>2. OutInv'
    BY <1>0, <1>1, <2>1, OutKept
  <2>3. ListedInv'
    BY <1>0, <1>1, <2>1, ListedKept
  <2> QED BY <2>2, <2>3
<1>2. ASSUME NEW list \in Lists, RemoveBegins(q, list) PROVE OutInv' /\ ListedInv'
  <2> DEFINE r == [Rest("delete") EXCEPT !.names = In(list), !.del = In(list)]
  <2>1. r \in Request
    BY BagFacts DEF Rest, Request, In
  <2> QED BY <1>1, <1>2, <2>1 DEF RemoveBegins
<1>3. CASE RemoveEnds(q)
  BY <1>1, <1>3, RestIsRequest DEF RemoveEnds
<1> QED BY <1>2, <1>3, BothDelete DEF removeUserToWhitelist

\* The lost requests insert nothing more and acknowledge nothing more.
LEMMA BothCrash ==
  ASSUME TypeOK, OutInv, ListedInv, Crash
  PROVE  OutInv' /\ ListedInv'
<1>1. \A p \in Requests : req'[p] = IF InFlight(p) THEN Rest("lost") ELSE req[p]
  BY DEF Crash
<1>2. /\ added' = {w \in added : \A q \in Requests : ~Rewriting(q, w)}
      /\ docs' = docs /\ removed' = removed
  BY DEF Crash
<1>3. \A p \in Requests : ~InFlight(p)'
  BY <1>1 DEF InFlight, Rest
<1>4. OutInv'
  <2>1. ASSUME NEW p \in Inserters, NEW w \in Wallets
        PROVE  ~(req'[p].todo[w] > 0) /\ ~(req'[p].ask[w] > 0)
    <3>1. CASE InFlight(p)
      BY <1>1, <3>1, Kinds DEF Rest, None
    <3>2. CASE ~InFlight(p)
      BY <1>1, <3>2, Kinds DEF OutInv, NamesOnly, Inserting
    <3> QED BY <3>1, <3>2
  <2> QED BY <1>2, <1>3, <2>1 DEF OutInv, RemovedIsOut, Listed, NamesOnly, NamedAreIn, Inserting
<1>5. ListedInv'
  <2>1. \A w \in added' : Present(w)'
    BY <1>2, Kinds DEF ListedInv, Present, Listed
  <2>2. \A p \in Adds \cup Batches : \A w \in req'[p].clean : Due(p, w)'
    BY <1>3, Kinds DEF Due, InFlight
  <2>3. DeletesItsOwn'
    BY <1>3, Kinds DEF DeletesItsOwn, InFlight
  <2> QED BY <2>1, <2>2, <2>3 DEF ListedInv
<1> QED BY <1>4, <1>5

LEMMA BothStep == TypeOK /\ OutInv /\ ListedInv /\ [Next]_vars => OutInv' /\ ListedInv'
<1> SUFFICES ASSUME TypeOK, OutInv, ListedInv, [Next]_vars PROVE OutInv' /\ ListedInv'
  OBVIOUS
<1>1. CASE UNCHANGED vars
  BY <1>1 DEF vars, OutInv, RemovedIsOut, NamesOnly, NamedAreIn, Inserting, InFlight,
              ListedInv, Present, Listed, Rewriting, Due, DeletesItsOwn
<1> QED BY <1>1, BothAdd, BothBatch, BothCheck, BothRemove, BothCrash DEF Next

LEMMA BothHold == Spec => [](TypeOK /\ OutInv /\ ListedInv)
<1>1. Init => TypeOK /\ OutInv /\ ListedInv
  BY TypeInit, OutInit, ListedInit
<1>2. TypeOK /\ OutInv /\ ListedInv /\ [Next]_vars => (TypeOK /\ OutInv /\ ListedInv)'
  BY TypeStep, BothStep
<1> QED BY <1>1, <1>2, PTL DEF Spec

(* A removed wallet stays out, with all its duplicates, until a request    *)
(* that inserts names it: no insert or rewrite of another request that     *)
(* read the documents before the removal brings it back.                   *)
THEOREM RemovedStaysOut == Spec => []RemovedIsOut
<1>1. OutInv => RemovedIsOut
  BY DEF OutInv
<1> QED BY <1>1, BothHold, PTL

(* A wallet that an add or a batch acknowledged is listed, or about to be  *)
(* inserted again by the check that deleted it, until it is removed.       *)
THEOREM AddedStaysListed == Spec => []AddedIsListed
<1>1. ListedInv => AddedIsListed
  BY DEF ListedInv, AddedIsListed, Present
<1> QED BY <1>1, BothHold, PTL
=============================================================================
