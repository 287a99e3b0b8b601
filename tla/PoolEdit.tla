------------------------------ MODULE PoolEdit ------------------------------
(***************************************************************************)
(* Who may change a pool document, and what an edit leaves in it: the      *)
(* guards, PoolsService.updateOffchainPool, and the requests it runs       *)
(* against, commitInitPool and syncPool, which copy the campaign and the   *)
(* administrator from the chain.  The pools share one contract address.    *)
(*                                                                         *)
(* A step is what runs between two awaits.  The guard reads the stored     *)
(* administrator, the service then reads the campaign on chain and checks  *)
(* pool_start against it, and only then writes.                            *)
(***************************************************************************)
EXTENDS Naturals

CONSTANTS
  Commits,    \* commitInitPool requests; each names the pool it creates
  Syncs,      \* syncPool requests
  Edits,      \* updateOffchainPool requests
  Managers,   \* requests of the whitelist routes
  Addresses,  \* the addresses of access tokens, and of administrators
  Settings,   \* the admin of the common setting: of the default program, of the pool's
  Version,    \* of the contract: an old one (below 2) has no exclusive phase
  Early,      \* whether its early phase is active
  Bodies,     \* what an edit may ask for
  MaxTime,    \* bound of the dates
  MaxMoves    \* bound of the changes on chain

ASSUME BoundsAssumption == MaxTime \in Nat /\ MaxMoves \in Nat /\ Version \in Nat
ASSUME SettingsAssumption ==
  Early \in BOOLEAN /\ Settings \in [{"default", "own"} -> Addresses]

ASSUME RequestsAssumption ==
  /\ Commits \cap (Syncs \cup Edits \cup Managers) = {}
  /\ Syncs \cap (Edits \cup Managers) = {}
  /\ Edits \cap Managers = {}
ASSUME BodiesAssumption ==
  Bodies \subseteq [pool_start : Nat, name : STRING, slug : STRING,
                    liquidity_percentage : STRING, token : BOOLEAN]

VARIABLES
  chain,   \* start of the first active phase, administrator, and how often they changed
  pool,    \* the pool documents
  req,     \* the requests
  ever,    \* history variable: the administrators so far
  asked    \* history variable: the last value an edit or the commit asked for, by field

vars == <<chain, pool, req, ever, asked>>

Requests == Commits \cup Syncs \cup Edits \cup Managers
Times == 1..MaxTime
Missing == "missing"
NoDate == 0
Empty == ""

\* The document: what its owner writes; what is copied from the chain; and, as
\* history, the campaign that pool_start was checked against (since) and the
\* one join_pool_start comes from (as_of).
Absent == [pool_start |-> NoDate, name |-> Missing, slug |-> Missing,
           liquidity_percentage |-> Missing, join_pool_start |-> NoDate,
           root_admin |-> Missing, since |-> 0, as_of |-> 0]

Pools == {p \in Commits : pool[p] # Absent}
Owned == {"pool_start", "name", "slug", "liquidity_percentage"}

Idle == [pc |-> "idle", pool |-> Missing, address |-> Missing,
         read |-> [start |-> NoDate, admin |-> Missing, moves |-> 0],
         body |-> [pool_start |-> NoDate, name |-> Missing, slug |-> Missing,
                   liquidity_percentage |-> Missing, token |-> FALSE]]

----------------------------------------------------------------------------
(* Guards.  An address is that of a valid access token (AuthMiddleware).   *)

AdminGuard(address) == address # Missing

\* Mutant: any signed in address passes.
PoolOwnerGuardAnyone(address, doc) == AdminGuard(address)

\* The setting is always that of the default program.
PoolOwnerGuard(address, doc) ==
  AdminGuard(address) /\ address \in {doc.root_admin, Settings["default"]}

\* Of the whitelist routes: the setting of the pool's program from version 4.
PoolOwnerBodyGuard(address, doc) ==
  /\ AdminGuard(address)
  /\ address \in {doc.root_admin, Settings[IF Version < 4 THEN "default" ELSE "own"]}

----------------------------------------------------------------------------
Init ==
  /\ chain \in [start : Times, admin : Addresses, moves : {0}]
  /\ pool = [p \in Commits |-> Absent]
  /\ req = [q \in Requests |-> Idle]
  /\ ever = {chain.admin}
  /\ asked = [p \in Commits |-> Absent]

\* External: the owner changes the campaign or hands the pool over.
ChainMoves ==
  /\ chain.moves < MaxMoves
  /\ \E start \in Times, admin \in Addresses :
       /\ chain' = [start |-> start, admin |-> admin, moves |-> chain.moves + 1]
       /\ ever' = ever \cup {admin}
  /\ UNCHANGED <<pool, req, asked>>

\* The start of the first active phase cannot be read of an old contract: it has
\* no exclusive_phase, which is looked at when the early phase is not active.
StartReadable == Early \/ Version >= 2

Ends(q) == req' = [req EXCEPT ![q] = [Idle EXCEPT !.pc = "done"]]
Keep == UNCHANGED <<pool, asked>>

\* The unique index: the contract address is the same, the token fields are not
\* at the top of a document.
Collides(p, doc) ==
  \E other \in Pools \ {p} : pool[other].name = doc.name /\ pool[other].slug = doc.slug

Store(p, doc, fields) ==
  /\ pool' = [pool EXCEPT ![p] = doc]
  /\ asked' = [asked EXCEPT ![p] = [f \in DOMAIN Absent |->
                 IF f \in fields THEN doc[f] ELSE asked[p][f]]]

----------------------------------------------------------------------------
(* commitInitPool                                                          *)

\* slugify(slug || name-token_symbol): of the request, not of the document.
Slug(body) == IF body.slug \in {Empty, Missing} THEN body.name ELSE body.slug

CommitRead(q) ==
  /\ req[q].pc = "idle"
  /\ \E body \in Bodies :
       /\ body.pool_start # NoDate /\ body.name # Missing
       /\ IF StartReadable /\ body.pool_start < chain.start
          THEN req' = [req EXCEPT ![q] = [Idle EXCEPT !.pc = "write", !.pool = q,
                                                      !.read = chain, !.body = body]]
          ELSE Ends(q)
  /\ Keep /\ UNCHANGED <<chain, ever>>

CommitCreate(q) ==
  LET body == req[q].body
      doc == [pool_start |-> body.pool_start, name |-> body.name, slug |-> Slug(body),
              liquidity_percentage |-> body.liquidity_percentage,
              join_pool_start |-> req[q].read.start, root_admin |-> req[q].read.admin,
              since |-> req[q].read.moves, as_of |-> req[q].read.moves]
  IN /\ q \in Commits /\ req[q].pc = "write"
     /\ IF Collides(q, doc) THEN Keep ELSE Store(q, doc, Owned)
     /\ Ends(q) /\ UNCHANGED <<chain, ever>>

----------------------------------------------------------------------------
(* syncPool                                                                *)

SyncRead(q) ==
  /\ req[q].pc = "idle"
  /\ \E p \in Pools :
       req' = [req EXCEPT ![q] = [Idle EXCEPT !.pc = "write", !.pool = p, !.read = chain]]
  /\ Keep /\ UNCHANGED <<chain, ever>>

SyncWrite(q) ==
  LET p == req[q].pool IN
  /\ q \in Syncs /\ req[q].pc = "write"
  /\ pool' = [pool EXCEPT ![p].join_pool_start = req[q].read.start,
                          ![p].root_admin = req[q].read.admin,
                          ![p].as_of = req[q].read.moves]
  /\ Ends(q) /\ UNCHANGED <<chain, ever, asked>>

----------------------------------------------------------------------------
(* PUT admin/pools/:id/off-chain                                           *)

Guard(q) ==
  /\ req[q].pc = "idle"
  /\ \E p \in Pools, address \in Addresses \cup {Missing}, body \in Bodies :
       IF PoolOwnerGuard(address, pool[p]) /\ body.token
       THEN req' = [req EXCEPT ![q] = [Idle EXCEPT !.pc = "read", !.pool = p,
                                          !.address = address, !.body = body]]
       ELSE Ends(q)     \* refused, or input.token is not there to be read
  /\ Keep /\ UNCHANGED <<chain, ever>>

\* Mutant: pool_start is not checked.
EditReadUnchecked(q) ==
  /\ q \in Edits /\ req[q].pc = "read"
  /\ IF ~StartReadable THEN Ends(q)
     ELSE req' = [req EXCEPT ![q].pc = "write", ![q].read = chain]
  /\ Keep /\ UNCHANGED <<chain, ever>>

EditRead(q) ==
  /\ q \in Edits /\ req[q].pc = "read"
  /\ IF ~StartReadable \/ (req[q].body.pool_start # NoDate
                           /\ req[q].body.pool_start > chain.start)
     THEN Ends(q)
     ELSE req' = [req EXCEPT ![q].pc = "write", ![q].read = chain]
  /\ Keep /\ UNCHANGED <<chain, ever>>

\* Mutant: a field that is missing is written too.
UpdatedAllFields(doc, body, moves) ==
  [doc EXCEPT !.pool_start = body.pool_start, !.name = body.name,
              !.slug = Slug(body), !.since = moves,
              !.liquidity_percentage = body.liquidity_percentage]

\* What findOneAndUpdate leaves of a document: a field that is missing from the
\* body is kept, but a missing liquidity_percentage is "0".
Updated(doc, body, moves) ==
  [doc EXCEPT
     !.pool_start = IF body.pool_start # NoDate THEN body.pool_start ELSE @,
     !.since = IF body.pool_start # NoDate THEN moves ELSE @,
     !.name = IF body.name # Missing THEN body.name ELSE @,
     !.slug = IF body.slug = Missing THEN @
              ELSE IF body.slug = Empty /\ body.name = Missing THEN "undefined"
              ELSE Slug(body),
     !.liquidity_percentage =
        IF body.liquidity_percentage \in {Missing, Empty} THEN "0"
        ELSE body.liquidity_percentage]

Named(body) ==
  {"liquidity_percentage"}
  \cup (IF body.pool_start # NoDate THEN {"pool_start"} ELSE {})
  \cup (IF body.name # Missing THEN {"name"} ELSE {})
  \cup (IF body.slug # Missing THEN {"slug"} ELSE {})

EditWrite(q) ==
  LET p == req[q].pool
      doc == Updated(pool[p], req[q].body, req[q].read.moves)
  IN /\ q \in Edits /\ req[q].pc = "write"
     /\ IF Collides(p, doc) THEN Keep ELSE Store(p, doc, Named(req[q].body))
     /\ Ends(q) /\ UNCHANGED <<chain, ever>>

\* A whitelist request passes its guard; what it then does is in Whitelist.
GuardBody(q) ==
  /\ req[q].pc = "idle"
  /\ \E p \in Pools, address \in Addresses \cup {Missing} :
       IF PoolOwnerBodyGuard(address, pool[p])
       THEN req' = [req EXCEPT ![q] = [Idle EXCEPT !.pc = "allowed", !.pool = p,
                                                   !.address = address]]
       ELSE Ends(q)
  /\ Keep /\ UNCHANGED <<chain, ever>>

Next ==
  \/ ChainMoves
  \/ \E q \in Commits : CommitRead(q) \/ CommitCreate(q)
  \/ \E q \in Syncs : SyncRead(q) \/ SyncWrite(q)
  \/ \E q \in Edits : Guard(q) \/ EditRead(q) \/ EditWrite(q)
  \/ \E q \in Managers : GuardBody(q)

Spec == Init /\ [][Next]_vars

----------------------------------------------------------------------------
(* Properties.                                                             *)

\* A stored pool has all that its schema requires.
TypeOK ==
  /\ chain \in [start : Times, admin : Addresses, moves : 0..MaxMoves]
  /\ \A p \in Pools :
       /\ pool[p].pool_start \in Times /\ pool[p].join_pool_start \in Times
       /\ Missing \notin {pool[p].name, pool[p].slug} /\ pool[p].root_admin \in Addresses
  /\ \A q \in Requests : req[q].pc \in {"idle", "read", "write", "allowed", "done"}

\* Sections of the listings rely on a pool opening before it can be joined: it
\* opens no later, when pool_start was checked against the campaign that
\* join_pool_start comes from.  (It is not checked again when the campaign
\* moves and is synced.)
OpensBeforeJoin ==
  \A p \in Pools :
    pool[p].since = pool[p].as_of => pool[p].pool_start <= pool[p].join_pool_start

\* A request past a guard is of an address that was at some time administrator
\* of the pool on chain, or is admin of a common setting: a former one passes
\* until a sync copies the change, and again if a late sync writes an older read.
AllowedWereAdmins ==
  \A q \in Edits \cup Managers :
    req[q].pc \in {"read", "write", "allowed"} =>
      req[q].address \in ever \cup {Settings["default"], Settings["own"]}

\* Whatever the commits, edits and syncs in flight, a field of the owner's holds
\* what the last request that named it gave it.  liquidity_percentage is named
\* by every edit.
EditsSurvive ==
  \A p \in Pools : \A f \in Owned : pool[p][f] = asked[p][f]
=============================================================================
