----------------------------- MODULE Whitelist -----------------------------
(***************************************************************************)
(* The whitelist documents of one pool (WhitelistsService): adding one     *)
(* wallet, adding a batch, adding the wallets that the chain knows and the *)
(* database misses, and removing.  No index makes the pair of pool and     *)
(* wallet unique, every handler first reads and then writes, and a batch   *)
(* is rewritten by a delete and an insert: each command is a step for each *)
(* of its wallets.                                                         *)
(*                                                                         *)
(* The service only ever writes isWhitelisted TRUE, so the documents of a  *)
(* wallet are alike and are counted.                                       *)
(***************************************************************************)
EXTENDS Naturals, Functions

CONSTANTS
  Wallets,
  Adds,         \* addUserToWhitelist requests
  Batches,      \* addBatchUserToWhitelist requests
  Checks,       \* checkAndAddMissing requests
  Removes,      \* removeUserToWhitelist requests
  Lists,        \* the lists of wallets requests carry: how often each occurs
  MaxAccounts   \* the most accounts checkAndAddMissing accepts

Bags == [Wallets -> Nat]

ASSUME ListsAssumption == Lists \subseteq Bags /\ MaxAccounts \in Nat
ASSUME DisjointAssumption ==
  /\ Adds \cap Batches = {} /\ Adds \cap Checks = {} /\ Adds \cap Removes = {}
  /\ Batches \cap Checks = {} /\ Batches \cap Removes = {} /\ Checks \cap Removes = {}

VARIABLES
  docs,     \* how many documents each wallet has
  req,      \* the requests
  raced,    \* history variable: wallets two inserters, or one list twice, named at once
  added,    \* history variable: wallets acknowledged as added, and not removed since
  removed   \* history variable: wallets removed, and named by no inserter since

vars == <<docs, req, raced, added, removed>>

Inserters == Adds \cup Batches \cup Checks
Requests == Inserters \cup Removes

None == [w \in Wallets |-> 0]
One(w) == [None EXCEPT ![w] = 1]
In(list) == {w \in Wallets : list[w] > 0}
Only(list, W) == [w \in Wallets |-> IF w \in W THEN list[w] ELSE 0]
Listed == In(docs)

\* A request: the wallets it names, those no remove has deleted meanwhile, the
\* accounts to ask the chain about, those found listed, those to delete and
\* those to insert.
Request == [pc : {"idle", "create", "update", "ask", "delete", "insert",
                  "done", "refused", "lost"},
            names : SUBSET Wallets, clean : SUBSET Wallets, ask : Bags,
            found : SUBSET Wallets, del : SUBSET Wallets, todo : Bags]

Rest(pc) == [pc |-> pc, names |-> {}, clean |-> {}, ask |-> None,
             found |-> {}, del |-> {}, todo |-> None]

InFlight(q) == req[q].pc \in {"create", "update", "ask", "delete", "insert"}
Inserting(q, w) == q \in Inserters /\ InFlight(q) /\ w \in req[q].names
Rewriting(q, w) == /\ q \in Checks /\ req[q].pc \in {"delete", "insert"}
                   /\ req[q].todo[w] > 0

----------------------------------------------------------------------------
Init ==
  /\ docs = None
  /\ req = [q \in Requests |-> Rest("idle")]
  /\ raced = {} /\ added = {} /\ removed = {}

\* An inserter for the wallets of the list has read the documents.
Begin(q, list, r) ==
  /\ req[q].pc = "idle"
  /\ req' = [req EXCEPT ![q] = [r EXCEPT !.names = In(list), !.clean = In(list)]]
  /\ raced' = raced \cup {w \in In(list) : list[w] > 1 \/ \E p \in Requests : Inserting(p, w)}
  /\ removed' = removed \ In(list)
  /\ UNCHANGED <<docs, added>>

\* The request answers ok; it has added the wallets of W.
Acknowledge(q, W) ==
  /\ req' = [req EXCEPT ![q] = Rest("done")]
  /\ added' = added \cup (W \cap req[q].clean)
  /\ UNCHANGED <<raced, removed>>

----------------------------------------------------------------------------
(* addUserToWhitelist: recordWhitelistData for one wallet.                 *)

AddFind(q, w) ==
  Begin(q, One(w), [Rest(IF w \in Listed THEN "update" ELSE "create") EXCEPT !.todo = One(w)])

AddCreate(q) ==
  /\ req[q].pc = "create"
  /\ docs' = [w \in Wallets |-> docs[w] + req[q].todo[w]]
  /\ Acknowledge(q, req[q].names)

\* updateOne does not insert: if the document is gone, nothing is written.
AddUpdate(q) ==
  /\ req[q].pc = "update"
  /\ Acknowledge(q, req[q].names)
  /\ UNCHANGED docs

----------------------------------------------------------------------------
(* addBatchUserToWhitelist: what the list names and the documents do not.  *)

\* Mutant: the existing documents are not looked at.
BatchInsertsAll(q, list) == Begin(q, list, [Rest("insert") EXCEPT !.todo = list])

BatchFind(q, list) ==
  Begin(q, list, [Rest("insert") EXCEPT !.todo = Only(list, Wallets \ Listed)])

----------------------------------------------------------------------------
(* checkAndAddMissing                                                      *)

\* At least one account and, counted with repetitions, at most MaxAccounts.
Acceptable(list) == FoldFunction(+, 0, list) \in 1..MaxAccounts

CheckFind(q, list) ==
  /\ Acceptable(list)
  /\ Begin(q, list, [Rest("ask") EXCEPT !.ask = list, !.found = Listed])

CheckRefused(q, list) ==
  /\ ~Acceptable(list)
  /\ req[q].pc = "idle"
  /\ req' = [req EXCEPT ![q].pc = "refused"]
  /\ UNCHANGED <<docs, raced, added, removed>>

\* isAccountWhitelisted for an account that remains to be asked: the chain
\* knows the wallet or not, whatever it answered before.
CheckAsk(q, w) ==
  /\ req[q].pc = "ask"
  /\ req[q].ask[w] > 0
  /\ \E known \in BOOLEAN :
       req' = [req EXCEPT
         ![q].ask[w] = @ - 1,
         ![q].todo[w] = IF known /\ w \notin req[q].found THEN @ + 1 ELSE @]
  /\ UNCHANGED <<docs, raced, added, removed>>

CheckAskFails(q) ==
  /\ req[q].pc = "ask"
  /\ req[q].ask # None
  /\ req' = [req EXCEPT ![q] = Rest("refused")]
  /\ UNCHANGED <<docs, raced, added, removed>>

CheckDelete(q, W) ==
  /\ req[q].pc = "ask"
  /\ req[q].ask = None
  /\ req' = [req EXCEPT ![q].pc = "delete", ![q].del = W]
  /\ UNCHANGED <<docs, raced, added, removed>>

\* Mutant: the documents of all the accounts of the request are deleted.
CheckAnsweredDeletesAll(q) == CheckDelete(q, req[q].names)

\* Every account has its answer: those to insert are deleted first.
CheckAnswered(q) == CheckDelete(q, In(req[q].todo))

CheckDeletes(q, w) ==
  /\ q \in Checks /\ req[q].pc = "delete"
  /\ w \in req[q].del
  /\ docs' = [docs EXCEPT ![w] = 0]
  /\ req' = [req EXCEPT ![q].del = @ \ {w}]
  /\ UNCHANGED <<raced, added, removed>>

CheckDeleted(q) ==
  /\ q \in Checks /\ req[q].pc = "delete"
  /\ req[q].del = {}
  /\ req' = [req EXCEPT ![q].pc = "insert"]
  /\ UNCHANGED <<docs, raced, added, removed>>

----------------------------------------------------------------------------
(* insertMany, of a batch or a check.                                      *)

Insert(q, w) ==
  /\ req[q].pc = "insert"
  /\ req[q].todo[w] > 0
  /\ docs' = [docs EXCEPT ![w] = @ + req[q].todo[w]]
  /\ req' = [req EXCEPT ![q].todo[w] = 0]
  /\ UNCHANGED <<raced, added, removed>>

\* A batch answers for the wallets of its list, a check for none it found or
\* the chain does not know.
Inserted(q) ==
  /\ req[q].pc = "insert"
  /\ req[q].todo = None
  /\ Acknowledge(q, IF q \in Batches THEN req[q].names ELSE {})
  /\ UNCHANGED docs

----------------------------------------------------------------------------
(* removeUserToWhitelist                                                   *)

RemoveBegins(q, list) ==
  /\ req[q].pc = "idle"
  /\ req' = [req EXCEPT ![q] = [Rest("delete") EXCEPT !.names = In(list), !.del = In(list)]]
  /\ UNCHANGED <<docs, raced, added, removed>>

\* A deletion leaves n documents of the wallet.
Delete(q, w, n) ==
  /\ q \in Removes /\ req[q].pc = "delete"
  /\ w \in req[q].del
  /\ docs' = [docs EXCEPT ![w] = n]
  /\ req' = [p \in Requests |->
               IF p = q THEN [req[p] EXCEPT !.del = @ \ {w}]
               ELSE [req[p] EXCEPT !.clean = @ \ {w}]]
  /\ added' = added \ {w}
  /\ removed' = IF \E p \in Requests : Inserting(p, w) THEN removed ELSE removed \cup {w}
  /\ UNCHANGED raced

\* Mutant: deleteOne.
RemoveOne(q, w) == Delete(q, w, IF docs[w] = 0 THEN 0 ELSE docs[w] - 1)

RemoveDeletes(q, w) == Delete(q, w, 0)

RemoveEnds(q) ==
  /\ q \in Removes /\ req[q].pc = "delete"
  /\ req[q].del = {}
  /\ req' = [req EXCEPT ![q] = Rest("done")]
  /\ UNCHANGED <<docs, raced, added, removed>>

----------------------------------------------------------------------------
(* The process ends: requests in flight are lost, and with them the wallets *)
(* a check has deleted and not inserted again.                              *)
Crash ==
  /\ \E q \in Requests : InFlight(q)
  /\ added' = {w \in added : \A q \in Requests : ~Rewriting(q, w)}
  /\ req' = [q \in Requests |-> IF InFlight(q) THEN Rest("lost") ELSE req[q]]
  /\ UNCHANGED <<docs, raced, removed>>

----------------------------------------------------------------------------
addUserToWhitelist(q) ==
  (\E w \in Wallets : AddFind(q, w)) \/ AddCreate(q) \/ AddUpdate(q)

addBatchUserToWhitelist(q) ==
  (\E list \in Lists : BatchFind(q, list)) \/ (\E w \in Wallets : Insert(q, w)) \/ Inserted(q)

checkAndAddMissing(q) ==
  \/ \E list \in Lists : CheckFind(q, list) \/ CheckRefused(q, list)
  \/ CheckAskFails(q)
  \/ CheckAnswered(q)
  \/ CheckDeleted(q)
  \/ \E w \in Wallets : CheckAsk(q, w) \/ CheckDeletes(q, w) \/ Insert(q, w)
  \/ Inserted(q)

removeUserToWhitelist(q) ==
  \/ \E list \in Lists : RemoveBegins(q, list)
  \/ \E w \in Wallets : RemoveDeletes(q, w)
  \/ RemoveEnds(q)

Next ==
  \/ \E q \in Adds : addUserToWhitelist(q)
  \/ \E q \in Batches : addBatchUserToWhitelist(q)
  \/ \E q \in Checks : checkAndAddMissing(q)
  \/ \E q \in Removes : removeUserToWhitelist(q)
  \/ Crash

Spec == Init /\ [][Next]_vars

----------------------------------------------------------------------------
(* Properties.                                                             *)

TypeOK ==
  /\ docs \in Bags
  /\ req \in [Requests -> Request]
  /\ raced \subseteq Wallets /\ added \subseteq Wallets /\ removed \subseteq Wallets

(* A wallet has at most one document, though nothing but the handlers'     *)
(* reads keeps it so, unless two requests that insert named it at the same *)
(* time or one list named it twice.                                        *)
DuplicatesAreRaced == \A w \in Wallets : docs[w] > 1 => w \in raced

(* A wallet that an add or a batch has acknowledged is listed until a      *)
(* remove names it, also when the request found it listed and wrote        *)
(* nothing: or a check has deleted it and is about to insert it again.     *)
AddedIsListed ==
  \A w \in added : w \in Listed \/ \E q \in Checks : Rewriting(q, w)

(* A removed wallet, with all its duplicates, stays out until a request    *)
(* that inserts names it.                                                  *)
RemovedIsOut == removed \cap Listed = {}
=============================================================================
