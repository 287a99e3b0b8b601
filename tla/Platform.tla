------------------------------ MODULE Platform ------------------------------
(***************************************************************************)
(* The platform accounts: PlatformService.generate, which hands out the    *)
(* account of a program and creates it, on chain and then in the database, *)
(* when it finds none.  It is called by the handlers of GET platform/get   *)
(* (no program), GET platform/latest (the current program) and, in a       *)
(* process of its own, by scripts/initTiers.                               *)
(*                                                                         *)
(* Each await is a step.  The account a call creates is named by the call. *)
(***************************************************************************)
CONSTANTS
  Calls,        \* calls of the service
  Scripts,      \* runs of initTiers
  OldAccounts,  \* the account created before documents had a programId, if any
  Programs,     \* the programs deployed so far and to come
  NoProgram     \* no owner, no programId

ASSUME ProgramAssumption == NoProgram \notin Programs
ASSUME CallAssumption ==
  /\ Calls \cap Scripts = {}
  /\ OldAccounts \cap (Calls \cup Scripts) = {}
  /\ \A a, b \in OldAccounts : a = b

VARIABLES
  current,    \* CURRENT_POOL_PROGRAM_ID of the deployed service
  owner,      \* on chain: the program that owns an account
  stored,     \* the accounts that have a document
  programId,  \* programId of the documents
  req,        \* the calls
  tiers,      \* on chain: the scripts that have initialised the tiers, at most one
  overtaken,  \* history variable: calls that found no document at all, before
              \* one of another program was stored
  raced,      \* history variable: programs that may have several documents
  lost        \* history variable: accounts created whose document will never be

vars == <<current, owner, stored, programId, req, tiers, overtaken, raced, lost>>

Requests == Calls \cup Scripts
Accounts == Requests \cup OldAccounts
Steps == {"idle", "find", "owner", "findProgram", "send", "store", "refind",
          "label", "answered", "failed", "init"}

\* given: programId was passed; target: it, or the current program;
\* rec: the document found; first: no document at all was found.
Request == [pc : Steps, given : BOOLEAN, target : Programs,
            rec : Accounts, first : BOOLEAN]

TypeOK ==
  /\ current \in Programs
  /\ owner \in [Accounts -> Programs \cup {NoProgram}]
  /\ stored \subseteq Accounts
  /\ programId \in [Accounts -> Programs \cup {NoProgram}]
  /\ req \in [Requests -> Request]
  /\ tiers \subseteq Scripts
  /\ overtaken \subseteq Requests
  /\ raced \subseteq Programs
  /\ lost \subseteq Requests

\* The documents of a program, those that do not say so included.
OfProgram(p) == {a \in stored : owner[a] = p}

\* A call between the read that found nothing and the document it stores.
Creating(q) == req[q].pc \in {"send", "store"}

----------------------------------------------------------------------------
(* An old account may be stored, without programId.                        *)
Init ==
  /\ current \in Programs
  /\ owner \in [Accounts -> Programs \cup {NoProgram}]
  /\ \A a \in Accounts : owner[a] # NoProgram <=> a \in OldAccounts
  /\ stored \in SUBSET OldAccounts
  /\ programId = [a \in Accounts |-> NoProgram]
  /\ req = [q \in Requests |-> [pc |-> "idle", given |-> FALSE, target |-> current,
                                rec |-> q, first |-> FALSE]]
  /\ tiers = {}
  /\ overtaken = {} /\ raced = {} /\ lost = {}

\* The request q takes a step that touches no document and no account.
Goto(q, r) ==
  /\ req' = [req EXCEPT ![q] = r]
  /\ UNCHANGED <<current, owner, stored, programId, tiers, overtaken, lost>>

\* Mutant: an account is created for programId even if none was passed.
BeginUndefined(q) ==
  /\ req[q].pc = "idle"
  /\ \E given \in BOOLEAN :
       Goto(q, [req[q] EXCEPT !.pc = "find", !.given = given,
                              !.target = IF given THEN current ELSE NoProgram])
  /\ UNCHANGED raced

Begin(q) ==
  /\ req[q].pc = "idle"
  /\ \E given \in BOOLEAN :
       /\ q \in Scripts => given
       /\ Goto(q, [req[q] EXCEPT !.pc = "find", !.given = given, !.target = current])
  /\ UNCHANGED raced

\* Two calls that create for one program both store a document; and a document
\* without programId is not found by the query for its program.
Raced(q) ==
  raced' = raced \cup
    {p \in {req[q].target} :
       \/ \E other \in Requests \ {q} : Creating(other) /\ req[other].target = p
       \/ \E a \in OfProgram(p) : programId[a] = NoProgram}

\* findOne(): any document.
FindFirst(q) ==
  /\ req[q].pc = "find"
  /\ \/ /\ stored = {}
        /\ Goto(q, [req[q] EXCEPT !.pc = "send", !.first = TRUE])
        /\ Raced(q)
     \/ \E a \in stored :
        /\ Goto(q, [req[q] EXCEPT !.pc = IF req[q].given THEN "owner" ELSE "answered", !.rec = a])
        /\ UNCHANGED raced

\* Mutant: the document is trusted to belong to the program.
AskNobody(q) ==
  /\ req[q].pc = "owner"
  /\ Goto(q, [req[q] EXCEPT !.pc = "label"])
  /\ UNCHANGED raced

\* getOwner: an RPC call, which may also fail.
AskOwner(q) ==
  LET r == req[q] IN
  /\ r.pc = "owner"
  /\ \E pc \in IF owner[r.rec] # r.target THEN {"findProgram", "failed"}
               ELSE IF programId[r.rec] = NoProgram THEN {"label", "failed"}
               ELSE {"answered", "failed"} :
       Goto(q, [r EXCEPT !.pc = pc])
  /\ UNCHANGED raced

\* updateOne: the programId a document lacks.
Label(q) ==
  /\ req[q].pc = "label"
  /\ programId' = [programId EXCEPT ![req[q].rec] = req[q].target]
  /\ req' = [req EXCEPT ![q].pc = "answered"]
  /\ UNCHANGED <<current, owner, stored, tiers, overtaken, raced, lost>>

Labelled(p) == {a \in stored : programId[a] = p}

\* Mutant: the query for the program finds nothing.
FindNothing(q) ==
  /\ req[q].pc = "findProgram"
  /\ Goto(q, [req[q] EXCEPT !.pc = "send", !.first = FALSE])
  /\ Raced(q)

\* findOne({programId}): any document of the program.
FindProgram(q) ==
  /\ req[q].pc = "findProgram"
  /\ \/ /\ Labelled(req[q].target) = {}
        /\ Goto(q, [req[q] EXCEPT !.pc = "send", !.first = FALSE])
        /\ Raced(q)
     \/ \E a \in Labelled(req[q].target) :
        /\ Goto(q, [req[q] EXCEPT !.pc = "answered", !.rec = a])
        /\ UNCHANGED raced

----------------------------------------------------------------------------
(* generateNewPlatformAccount                                              *)

\* createAccount on chain.  It may fail, or land although its confirmation fails.
Send(q) ==
  /\ req[q].pc = "send"
  /\ \E landed, confirmed \in BOOLEAN :
       /\ confirmed => landed
       /\ owner' = IF landed THEN [owner EXCEPT ![q] = req[q].target] ELSE owner
       /\ req' = [req EXCEPT ![q].pc = IF confirmed THEN "store" ELSE "failed"]
       /\ lost' = IF landed /\ ~confirmed THEN lost \cup {q} ELSE lost
  /\ UNCHANGED <<current, stored, programId, tiers, overtaken, raced>>

\* The calls that found no document and are overtaken by one of program p.
Overtaken(p) ==
  {q \in Requests : /\ req[q].pc \in {"send", "store", "refind"}
                    /\ req[q].first /\ req[q].target # p}

Stores(q, ok) ==
  /\ req[q].pc = "store"
  /\ IF ok
     THEN /\ stored' = stored \cup {q}
          /\ programId' = [programId EXCEPT ![q] = req[q].target]
          /\ overtaken' = overtaken \cup Overtaken(req[q].target)
     ELSE UNCHANGED <<stored, programId, overtaken>>
  /\ req' = [req EXCEPT ![q].pc = "refind"]
  /\ UNCHANGED <<current, owner, tiers, raced, lost>>

\* Mutant: the document is stored unless another one has been stored meanwhile.
StoreOnce(q) == Stores(q, OfProgram(req[q].target) = {})

Store(q) == Stores(q, TRUE)

Refind(q) ==
  /\ req[q].pc = "refind"
  /\ \E a \in IF req[q].first THEN stored ELSE Labelled(req[q].target) :
       Goto(q, [req[q] EXCEPT !.pc = "answered", !.rec = a])
  /\ UNCHANGED raced

----------------------------------------------------------------------------
(* initTiers, with the account it was given: nothing if the stake account  *)
(* exists, else one transaction, which the chain refuses if it exists.     *)

CheckTiers(q) ==
  /\ q \in Scripts /\ req[q].pc = "answered" /\ q \notin tiers
  /\ Goto(q, [req[q] EXCEPT !.pc = IF tiers = {} THEN "init" ELSE "failed"])
  /\ UNCHANGED raced

InitTiers(q) ==
  /\ req[q].pc = "init"
  /\ \E landed \in BOOLEAN :
       /\ landed => tiers = {}
       /\ tiers' = IF landed THEN {q} ELSE tiers
       /\ req' = [req EXCEPT ![q].pc = IF landed THEN "answered" ELSE "failed"]
  /\ UNCHANGED <<current, owner, stored, programId, overtaken, raced, lost>>

(* The service restarts, with the same SDK or another one; the scripts run *)
(* on.                                                                     *)
Restart(p) ==
  /\ current' = p
  /\ req' = [q \in Requests |->
               IF q \in Calls /\ req[q].pc \notin {"idle", "answered"}
               THEN [req[q] EXCEPT !.pc = "failed"] ELSE req[q]]
  /\ lost' = lost \cup {q \in Calls : req[q].pc = "store"}
  /\ UNCHANGED <<owner, stored, programId, tiers, overtaken, raced>>

generate(q) ==
  \/ Begin(q)
  \/ FindFirst(q)
  \/ AskOwner(q)
  \/ Label(q)
  \/ FindProgram(q)
  \/ Send(q)
  \/ Store(q)
  \/ Refind(q)

Next ==
  \/ \E q \in Requests : generate(q)
  \/ \E q \in Scripts : CheckTiers(q) \/ InitTiers(q)
  \/ \E p \in Programs : Restart(p)

Spec == Init /\ [][Next]_vars

----------------------------------------------------------------------------
(* A document that names a program names the one that owns its account, so *)
(* the answer to a call for a program is an account of it, on chain and    *)
(* stored, across deployments of other programs.  The exception is a first *)
(* call that another program's call overtook: its second findOne() takes   *)
(* no program.                                                             *)
AnswerIsOwned ==
  /\ \A a \in stored : programId[a] \in {NoProgram, owner[a]}
  /\ \A q \in Requests \ overtaken :
       req[q].pc \in {"answered", "init"} /\ req[q].given =>
         req[q].rec \in OfProgram(req[q].target)

(* A program has one account for all time, and every call for it is        *)
(* answered the same, unless two calls created at the same time or a       *)
(* document without programId was missed.                                  *)
AnswersAgree ==
  \A p \in Programs \ raced :
    \A q1, q2 \in {q \in Requests \ overtaken : /\ req[q].pc = "answered"
                                                /\ req[q].given /\ req[q].target = p} :
      req[q1].rec = req[q2].rec

(* No key of an account that exists on chain is thrown away, but by a      *)
(* process that ends, or a confirmation that fails, between the two        *)
(* writes.                                                                 *)
NothingLeaks ==
  \A q \in Requests \ lost : owner[q] # NoProgram => q \in stored \/ req[q].pc = "store"
=============================================================================
