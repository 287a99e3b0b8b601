-------------------------- MODULE PoolEdit_proofs ---------------------------
(***************************************************************************)
(* Proofs about PoolEdit, for every set of requests, bodies and dates.     *)
(***************************************************************************)
EXTENDS PoolEdit, TLAPS

Moves == 0..MaxMoves
\* All strings; the provers do not know that these literals are in STRING.
Text == STRING \cup {Missing, "0", "undefined"}

Doc == [pool_start : Times, name : Text \ {Missing}, slug : Text \ {Missing},
        liquidity_percentage : Text, join_pool_start : Times, root_admin : Addresses,
        since : Moves, as_of : Moves]
Body == [pool_start : Nat, name : Text, slug : Text, liquidity_percentage : Text,
         token : BOOLEAN]
Campaign == [start : Times, admin : Addresses, moves : Moves]
NoCampaign == [start |-> NoDate, admin |-> Missing, moves |-> 0]
Request == [pc : {"idle", "read", "write", "allowed", "done"}, pool : Commits \cup {Missing},
            address : Addresses \cup {Missing}, read : Campaign \cup {NoCampaign}, body : Body]

Typed ==
  /\ chain \in Campaign
  /\ pool \in [Commits -> Doc \cup {Absent}]
  /\ req \in [Requests -> Request]
  /\ ever \subseteq Addresses

Writers == {q \in Requests : req[q].pc = "write"}

(* What a request in flight has made sure of.                              *)
InFlight ==
  /\ \A q \in Writers : req[q].read \in Campaign
  /\ \A q \in Syncs \cup Edits : req[q].pc \in {"read", "write"} => req[q].pool \in Pools
  /\ \A q \in Commits : req[q].pc = "write" =>
       /\ req[q].body.pool_start # NoDate /\ req[q].body.name # Missing
       /\ req[q].body.pool_start <= req[q].read.start
  /\ \A q \in Edits : req[q].pc = "write" /\ req[q].body.pool_start # NoDate =>
       req[q].body.pool_start <= req[q].read.start

Admins ==
  /\ chain.admin \in ever
  /\ \A q \in Writers : req[q].read.admin \in ever
  /\ \A p \in Pools : pool[p].root_admin \in ever

(* All that was copied from the chain is what the chain was: the same      *)
(* number of moves is the same start.                                      *)
Same(start, moves, start2, moves2) == moves = moves2 => start = start2

Copies ==
  /\ \A q \in Writers :
       /\ req[q].read.moves <= chain.moves
       /\ Same(req[q].read.start, req[q].read.moves, chain.start, chain.moves)
       /\ \A r \in Writers :
            Same(req[q].read.start, req[q].read.moves, req[r].read.start, req[r].read.moves)
  /\ \A p \in Pools :
       /\ pool[p].as_of <= chain.moves
       /\ Same(pool[p].join_pool_start, pool[p].as_of, chain.start, chain.moves)
       /\ \A q \in Writers :
            Same(pool[p].join_pool_start, pool[p].as_of, req[q].read.start, req[q].read.moves)

(* A pool opens no later than the campaign it was checked against starts,  *)
(* wherever that campaign still is.                                        *)
Opens(start, since, start2, moves2) == since = moves2 => start <= start2

Opening ==
  \A p \in Pools :
    /\ pool[p].since <= chain.moves
    /\ Opens(pool[p].pool_start, pool[p].since, chain.start, chain.moves)
    /\ Opens(pool[p].pool_start, pool[p].since, pool[p].join_pool_start, pool[p].as_of)
    /\ \A q \in Writers :
         Opens(pool[p].pool_start, pool[p].since, req[q].read.start, req[q].read.moves)

IInv == Typed /\ InFlight /\ Admins /\ AllowedWereAdmins /\ Copies /\ Opening

----------------------------------------------------------------------------
LEMMA Sets ==
  /\ \A q \in Syncs : q \in Requests /\ q \notin Commits /\ q \notin Edits /\ q \notin Managers
  /\ \A q \in Edits : q \in Requests /\ q \notin Commits /\ q \notin Syncs /\ q \notin Managers
  /\ \A q \in Commits : q \in Requests /\ q \notin Edits /\ q \notin Syncs /\ q \notin Managers
  /\ \A q \in Managers : q \in Requests /\ q \notin Edits /\ q \notin Syncs /\ q \notin Commits
  BY RequestsAssumption DEF Requests

LEMMA Numbers ==
  /\ \A t \in Times : t \in Nat /\ t # NoDate
  /\ \A m \in Moves : m \in Nat
  /\ MaxMoves \in Nat
  BY BoundsAssumption DEF Times, Moves, NoDate

LEMMA PoolsAreDocs ==
  ASSUME Typed
  PROVE  /\ \A p \in Pools : p \in Commits /\ pool[p] \in Doc
         /\ \A d \in Doc : d # Absent
  <1>1. \A d \in Doc : d # Absent
    BY Numbers DEF Doc, Absent
  <1> QED BY <1>1 DEF Typed, Pools

LEMMA Literals ==
  /\ Missing \in Text /\ "0" \in Text /\ "undefined" \in Text
  /\ "undefined" # Missing
  BY DEF Text, Missing

LEMMA IdleIsRequest ==
  /\ Idle \in Request /\ Idle.read = NoCampaign /\ Idle.address = Missing
  /\ \A pc \in {"idle", "read", "write", "allowed", "done"} :
       [Idle EXCEPT !.pc = pc] \in Request /\ [Idle EXCEPT !.pc = pc].pc = pc
<1>1. Idle.body \in Body
  BY Literals DEF Idle, Body, NoDate
<1>2. Idle.read = NoCampaign /\ Idle.address = Missing /\ Idle.pool = Missing /\ Idle.pc = "idle"
  BY DEF Idle, NoCampaign
<1>3. Idle = [pc |-> Idle.pc, pool |-> Idle.pool, address |-> Idle.address,
              read |-> Idle.read, body |-> Idle.body]
  BY DEF Idle
<1>4. Idle \in Request
  BY <1>1, <1>2, <1>3 DEF Request
<1>5. ASSUME NEW pc \in {"idle", "read", "write", "allowed", "done"}
      PROVE  [Idle EXCEPT !.pc = pc] \in Request /\ [Idle EXCEPT !.pc = pc].pc = pc
  BY <1>4 DEF Request
<1> QED BY <1>2, <1>4, <1>5

LEMMA BodiesAreTyped == Bodies \subseteq Body
  BY BodiesAssumption DEF Body, Text

LEMMA InvInit == Init => IInv
<1> SUFFICES ASSUME Init PROVE IInv
  OBVIOUS
<1>1. \A q \in Requests : req[q] = Idle /\ req[q].pc = "idle"
  BY DEF Init, Idle
<1>2. Pools = {} /\ Writers = {}
  BY <1>1 DEF Init, Pools, Writers
<1>3. chain \in Campaign /\ ever \subseteq Addresses /\ chain.admin \in ever
  BY BoundsAssumption DEF Init, Campaign, Moves
<1>4. Typed
  BY <1>3, IdleIsRequest DEF Init, Typed
<1>5. InFlight
  BY <1>1, <1>2, Sets DEF InFlight
<1>6. AllowedWereAdmins
  BY <1>1, Sets DEF AllowedWereAdmins
<1> QED BY <1>2, <1>3, <1>4, <1>5, <1>6 DEF IInv, Admins, Copies, Opening

----------------------------------------------------------------------------
(* Steps that change one request only.                                     *)

(* q goes to a state in which it will not write.                           *)
LEMMA StepsAside ==
  ASSUME IInv, NEW q \in Requests, NEW r \in Request, req' = [req EXCEPT ![q] = r],
         UNCHANGED <<pool, chain, ever>>,
         r.pc # "write",
         r.pc = "read" => r.pool \in Pools,
         r.pc \in {"read", "allowed"} =>
           r.address \in ever \cup {Settings["default"], Settings["own"]}
  PROVE  IInv'
<1>1. \A s \in Requests : req'[s] = IF s = q THEN r ELSE req[s]
  BY DEF IInv, Typed
<1>2. Typed'
  BY DEF IInv, Typed
<1>3. Pools' = Pools
  BY DEF Pools
<1>4. \A s \in Writers' : s \in Writers /\ req'[s] = req[s]
  BY <1>1 DEF Writers
<1>5. InFlight'
  <2>1. \A s \in Writers' : req'[s].read \in Campaign
    BY <1>4 DEF IInv, InFlight
  <2>2. \A s \in Syncs \cup Edits : req'[s].pc \in {"read", "write"} => req'[s].pool \in Pools'
    BY <1>1, <1>3, Sets DEF IInv, InFlight
  <2>3. \A s \in Commits \cup Edits : req'[s].pc = "write" => req'[s] = req[s]
    BY <1>1, Sets
  <2> QED BY <2>1, <2>2, <2>3 DEF IInv, InFlight
<1>6. AllowedWereAdmins'
  BY <1>1, Sets DEF IInv, AllowedWereAdmins
<1>7. Admins' /\ Copies' /\ Opening'
  BY <1>3, <1>4 DEF IInv, Admins, Copies, Opening
<1> QED BY <1>2, <1>5, <1>6, <1>7 DEF IInv

LEMMA InvEnds ==
  ASSUME IInv, NEW q \in Requests, Ends(q), Keep, UNCHANGED <<chain, ever>>
  PROVE  IInv'
<1>1. [Idle EXCEPT !.pc = "done"] \in Request /\ [Idle EXCEPT !.pc = "done"].pc = "done"
  BY IdleIsRequest
<1> QED BY <1>1, StepsAside DEF Ends, Keep

(* q has read the campaign and will write.                                 *)
LEMMA WillWrite ==
  ASSUME IInv, NEW q \in Requests, NEW r \in Request, req' = [req EXCEPT ![q] = r],
         UNCHANGED <<pool, chain, ever>>,
         r.pc = "write", r.read = chain,
         q \in Syncs \cup Edits => r.pool \in Pools,
         q \in Commits => /\ r.body.pool_start # NoDate /\ r.body.name # Missing
                          /\ r.body.pool_start <= chain.start,
         q \in Edits => /\ r.body.pool_start # NoDate => r.body.pool_start <= chain.start
                        /\ r.address \in ever \cup {Settings["default"], Settings["own"]},
         q \notin Managers
  PROVE  IInv'
<1>1. \A s \in Requests : req'[s] = IF s = q THEN r ELSE req[s]
  BY DEF IInv, Typed
<1>2. Typed'
  BY DEF IInv, Typed
<1>3. Pools' = Pools
  BY DEF Pools
<1>4. \A s \in Writers' : \/ s = q /\ req'[s].read = chain
                          \/ s \in Writers /\ req'[s].read = req[s].read
  BY <1>1 DEF Writers
<1>5. InFlight'
  <2>1. \A s \in Writers' : req'[s].read \in Campaign
    BY <1>4 DEF IInv, InFlight, Typed
  <2>2. \A s \in Syncs \cup Edits : req'[s].pc \in {"read", "write"} => req'[s].pool \in Pools'
    BY <1>1, <1>3, Sets DEF IInv, InFlight
  <2>3. \A s \in Commits : req'[s].pc = "write" =>
          /\ req'[s].body.pool_start # NoDate /\ req'[s].body.name # Missing
          /\ req'[s].body.pool_start <= req'[s].read.start
    BY <1>1, Sets DEF IInv, InFlight
  <2>4. \A s \in Edits : req'[s].pc = "write" /\ req'[s].body.pool_start # NoDate =>
          req'[s].body.pool_start <= req'[s].read.start
    BY <1>1, Sets DEF IInv, InFlight
  <2> QED BY <2>1, <2>2, <2>3, <2>4 DEF InFlight
<1>6. AllowedWereAdmins'
  BY <1>1, Sets DEF IInv, AllowedWereAdmins
<1>7. Admins'
  BY <1>3, <1>4 DEF IInv, Admins
<1>8. Copies'
  <2>1. \A s \in Writers' : /\ req'[s].read.moves <= chain.moves
                            /\ Same(req'[s].read.start, req'[s].read.moves, chain.start, chain.moves)
    BY <1>4, Numbers DEF IInv, Copies, Same, Typed, Campaign
  <2>2. \A s, t \in Writers' :
          Same(req'[s].read.start, req'[s].read.moves, req'[t].read.start, req'[t].read.moves)
    BY <1>4 DEF IInv, Copies, Same
  <2>3. \A p \in Pools : \A s \in Writers' :
          Same(pool[p].join_pool_start, pool[p].as_of, req'[s].read.start, req'[s].read.moves)
    BY <1>4 DEF IInv, Copies, Same
  <2> QED BY <1>3, <2>1, <2>2, <2>3 DEF IInv, Copies
<1>9. Opening'
  BY <1>3, <1>4 DEF IInv, Opening, Opens
<1> QED BY <1>2, <1>5, <1>6, <1>7, <1>8, <1>9 DEF IInv

----------------------------------------------------------------------------
(* The chain moves: it has never been at this count.                       *)
LEMMA InvChainMoves ==
  ASSUME IInv, ChainMoves
  PROVE  IInv'
<1>1. PICK start \in Times, admin \in Addresses :
        /\ chain' = [start |-> start, admin |-> admin, moves |-> chain.moves + 1]
        /\ ever' = ever \cup {admin}
  BY DEF ChainMoves
<1>2. chain.moves \in Nat /\ chain.moves < MaxMoves /\ chain.moves + 1 \in Moves
  BY Numbers DEF ChainMoves, IInv, Typed, Campaign, Moves
<1>3. Pools' = Pools /\ Writers' = Writers /\ req' = req /\ pool' = pool
  BY DEF ChainMoves, Pools, Writers
<1>4. Typed'
  BY <1>1, <1>2 DEF IInv, Typed, Campaign, ChainMoves
<1>5. InFlight'
  BY <1>3 DEF IInv, InFlight
<1>6. Admins' /\ AllowedWereAdmins'
  BY <1>1, <1>3 DEF IInv, Admins, AllowedWereAdmins
<1>7. \A q \in Writers : req[q].read.moves \in Nat /\ req[q].read.moves <= chain.moves
  BY Numbers DEF IInv, InFlight, Copies, Campaign
<1>8. \A p \in Pools : /\ pool[p].as_of \in Nat /\ pool[p].as_of <= chain.moves
                       /\ pool[p].since \in Nat /\ pool[p].since <= chain.moves
  BY Numbers, PoolsAreDocs DEF IInv, Copies, Opening, Doc
<1>9. chain'.moves = chain.moves + 1
  BY <1>1
<1>10. Copies'
  BY <1>2, <1>3, <1>7, <1>8, <1>9 DEF IInv, Copies, Same
<1>11. Opening'
  BY <1>2, <1>3, <1>8, <1>9 DEF IInv, Opening, Opens
<1> QED BY <1>4, <1>5, <1>6, <1>10, <1>11 DEF IInv

----------------------------------------------------------------------------
(* The steps of each request that write no document.                       *)

LEMMA RequestFacts ==
  ASSUME IInv, NEW q \in Requests
  PROVE  /\ req[q] \in Request /\ req[q].body \in Body
         /\ \A p \in Pools : pool[p] \in Doc /\ p \in Commits
         /\ chain \in Campaign
  BY PoolsAreDocs DEF IInv, Typed, Request

LEMMA InvCommitRead ==
  ASSUME IInv, NEW q \in Commits, CommitRead(q)
  PROVE  IInv'
<1>1. q \in Requests /\ q \notin Syncs /\ q \notin Edits /\ q \notin Managers
  BY Sets
<1>2. CASE Ends(q)
  BY <1>1, <1>2, InvEnds DEF CommitRead
<1>3. ASSUME NEW body \in Bodies, body.pool_start # NoDate, body.name # Missing,
             body.pool_start < chain.start,
             req' = [req EXCEPT ![q] = [Idle EXCEPT !.pc = "write", !.pool = q,
                                                    !.read = chain, !.body = body]]
      PROVE  IInv'
  <2> DEFINE r == [Idle EXCEPT !.pc = "write", !.pool = q, !.read = chain, !.body = body]
  <2>1. /\ r \in Request /\ r.pc = "write" /\ r.read = chain /\ r.body = body
    BY IdleIsRequest, BodiesAreTyped, RequestFacts, <1>1 DEF Request
  <2>2. body.pool_start <= chain.start
    BY <1>3, RequestFacts, BodiesAreTyped, Numbers, <1>1 DEF Body, Campaign
  <2>3. req' = [req EXCEPT ![q] = r] /\ UNCHANGED <<pool, chain, ever>>
    BY <1>3 DEF CommitRead, Keep
  <2> HIDE DEF r
  <2> QED BY <1>1, <1>3, <2>1, <2>2, <2>3, WillWrite
<1> QED BY <1>2, <1>3 DEF CommitRead

LEMMA InvSyncRead ==
  ASSUME IInv, NEW q \in Syncs, SyncRead(q)
  PROVE  IInv'
<1>1. q \in Requests /\ q \notin Commits /\ q \notin Edits /\ q \notin Managers
  BY Sets
<1>2. PICK p \in Pools :
        req' = [req EXCEPT ![q] = [Idle EXCEPT !.pc = "write", !.pool = p, !.read = chain]]
  BY DEF SyncRead
<1> DEFINE r == [Idle EXCEPT !.pc = "write", !.pool = p, !.read = chain]
<1>3. r \in Request /\ r.pc = "write" /\ r.read = chain /\ r.pool = p
  BY IdleIsRequest, RequestFacts, <1>1 DEF Request
<1>4. req' = [req EXCEPT ![q] = r] /\ UNCHANGED <<pool, chain, ever>>
  BY <1>2 DEF SyncRead, Keep
<1> HIDE DEF r
<1> QED BY <1>1, <1>3, <1>4, WillWrite

(* An address that passes a guard is the pool's administrator or a         *)
(* setting's.                                                              *)
LEMMA Guarded ==
  ASSUME IInv, NEW p \in Pools, NEW address
  PROVE  PoolOwnerGuard(address, pool[p]) \/ PoolOwnerBodyGuard(address, pool[p]) =>
           address \in ever \cup {Settings["default"], Settings["own"]}
<1>1. pool[p].root_admin \in ever
  BY DEF IInv, Admins
<1> QED BY <1>1 DEF PoolOwnerGuard, PoolOwnerBodyGuard

LEMMA InvGuard ==
  ASSUME IInv, NEW q \in Edits, Guard(q)
  PROVE  IInv'
<1>1. q \in Requests
  BY Sets
<1>2. CASE Ends(q)
  BY <1>1, <1>2, InvEnds DEF Guard
<1>3. ASSUME NEW p \in Pools, NEW address \in Addresses \cup {Missing}, NEW body \in Bodies,
             PoolOwnerGuard(address, pool[p]),
             req' = [req EXCEPT ![q] = [Idle EXCEPT !.pc = "read", !.pool = p,
                                          !.address = address, !.body = body]]
      PROVE  IInv'
  <2> DEFINE r == [Idle EXCEPT !.pc = "read", !.pool = p, !.address = address, !.body = body]
  <2>1. r \in Request /\ r.pc = "read" /\ r.pool = p /\ r.address = address
    BY IdleIsRequest, BodiesAreTyped, RequestFacts, <1>1 DEF Request
  <2>2. req' = [req EXCEPT ![q] = r] /\ UNCHANGED <<pool, chain, ever>>
    BY <1>3 DEF Guard, Keep
  <2>3. address \in ever \cup {Settings["default"], Settings["own"]}
    BY <1>3, Guarded
  <2> HIDE DEF r
  <2> QED BY <1>1, <2>1, <2>2, <2>3, StepsAside
<1> QED BY <1>2, <1>3 DEF Guard

LEMMA InvGuardBody ==
  ASSUME IInv, NEW q \in Managers, GuardBody(q)
  PROVE  IInv'
<1>1. q \in Requests
  BY Sets
<1>2. CASE Ends(q)
  BY <1>1, <1>2, InvEnds DEF GuardBody
<1>3. ASSUME NEW p \in Pools, NEW address \in Addresses \cup {Missing},
             PoolOwnerBodyGuard(address, pool[p]),
             req' = [req EXCEPT ![q] = [Idle EXCEPT !.pc = "allowed", !.pool = p,
                                                   !.address = address]]
      PROVE  IInv'
  <2> DEFINE r == [Idle EXCEPT !.pc = "allowed", !.pool = p, !.address = address]
  <2>1. r \in Request /\ r.pc = "allowed" /\ r.address = address
    BY IdleIsRequest, RequestFacts, <1>1 DEF Request
  <2>2. req' = [req EXCEPT ![q] = r] /\ UNCHANGED <<pool, chain, ever>>
    BY <1>3 DEF GuardBody, Keep
  <2>3. address \in ever \cup {Settings["default"], Settings["own"]}
    BY <1>3, Guarded
  <2> HIDE DEF r
  <2> QED BY <1>1, <2>1, <2>2, <2>3, StepsAside
<1> QED BY <1>2, <1>3 DEF GuardBody

LEMMA InvEditRead ==
  ASSUME IInv, NEW q \in Edits, EditRead(q)
  PROVE  IInv'
<1>1. q \in Requests /\ q \notin Commits /\ q \notin Syncs /\ q \notin Managers
  BY Sets
<1>2. CASE Ends(q)
  BY <1>1, <1>2, InvEnds DEF EditRead
<1>3. CASE /\ ~(req[q].body.pool_start # NoDate /\ req[q].body.pool_start > chain.start)
           /\ req' = [req EXCEPT ![q].pc = "write", ![q].read = chain]
  <2> DEFINE r == [req[q] EXCEPT !.pc = "write", !.read = chain]
  <2>1. /\ r \in Request /\ r.pc = "write" /\ r.read = chain /\ r.pool = req[q].pool
        /\ r.body = req[q].body /\ r.address = req[q].address
    BY RequestFacts, <1>1 DEF Request
  <2>2. req[q].body.pool_start # NoDate => req[q].body.pool_start <= chain.start
    BY <1>1, <1>3, RequestFacts, Numbers DEF Body, Campaign
  <2>3. req' = [req EXCEPT ![q] = r] /\ UNCHANGED <<pool, chain, ever>>
    BY <1>1, <1>3, RequestFacts DEF EditRead, Keep, IInv, Typed, Request
  <2>4. req[q].pool \in Pools /\ req[q].address \in ever \cup {Settings["default"], Settings["own"]}
    BY <1>1 DEF EditRead, IInv, InFlight, AllowedWereAdmins
  <2> HIDE DEF r
  <2> QED BY <1>1, <2>1, <2>2, <2>3, <2>4, WillWrite
<1> QED BY <1>2, <1>3 DEF EditRead

----------------------------------------------------------------------------
(* Writes.                                                                 *)

(* The request q ends and leaves the document d in p.                      *)
LEMMA Written ==
  ASSUME IInv, NEW q \in Requests, NEW p \in Commits, NEW d \in Doc,
         pool' = [pool EXCEPT ![p] = d], Ends(q), UNCHANGED <<chain, ever>>,
         d.root_admin \in ever,
         d.as_of <= chain.moves, d.since <= chain.moves,
         Same(d.join_pool_start, d.as_of, chain.start, chain.moves),
         Opens(d.pool_start, d.since, chain.start, chain.moves),
         Opens(d.pool_start, d.since, d.join_pool_start, d.as_of),
         \A w \in Writers :
           /\ Same(d.join_pool_start, d.as_of, req[w].read.start, req[w].read.moves)
           /\ Opens(d.pool_start, d.since, req[w].read.start, req[w].read.moves)
  PROVE  IInv'
<1>1. /\ \A s \in Requests : s # q => req'[s] = req[s]
      /\ req'[q].pc = "done" /\ req' \in [Requests -> Request]
  BY IdleIsRequest DEF Ends, IInv, Typed
<1>2. \A s \in Writers' : s \in Writers /\ req'[s] = req[s]
  BY <1>1 DEF Writers
<1>3. \A o \in Commits : pool'[o] = IF o = p THEN d ELSE pool[o]
  BY DEF IInv, Typed
<1>4. d # Absent
  BY PoolsAreDocs DEF IInv
<1>5. Pools' = Pools \cup {p}
  BY <1>3, <1>4 DEF Pools
<1>6. Typed'
  BY <1>1 DEF IInv, Typed
<1>7. InFlight'
  BY <1>1, <1>2, <1>5, Sets DEF IInv, InFlight
<1>8. AllowedWereAdmins'
  BY <1>1, Sets DEF IInv, AllowedWereAdmins
<1>9. \A o \in Pools' : o \in Commits /\ (o # p => o \in Pools /\ pool'[o] = pool[o])
  BY <1>3, <1>5 DEF Pools
<1>10. pool'[p] = d
  BY <1>3
<1>11. Admins'
  BY <1>2, <1>9, <1>10 DEF IInv, Admins
<1>12. Copies'
  BY <1>2, <1>9, <1>10 DEF IInv, Copies
<1>13. Opening'
  BY <1>2, <1>9, <1>10 DEF IInv, Opening
<1> QED BY <1>6, <1>7, <1>8, <1>11, <1>12, <1>13 DEF IInv

\* What a writer has read.
LEMMA ReadFacts ==
  ASSUME IInv, NEW q \in Requests, req[q].pc = "write"
  PROVE  /\ q \in Writers /\ req[q].read \in Campaign
         /\ req[q].read.start \in Times /\ req[q].read.start \in Nat
         /\ req[q].read.moves \in Moves /\ req[q].read.admin \in Addresses
         /\ req[q].read.admin \in ever
         /\ req[q].read.moves <= chain.moves
         /\ Same(req[q].read.start, req[q].read.moves, chain.start, chain.moves)
         /\ \A w \in Writers :
              Same(req[q].read.start, req[q].read.moves, req[w].read.start, req[w].read.moves)
  BY Numbers DEF IInv, InFlight, Admins, Copies, Writers, Campaign

LEMMA InvCommitCreate ==
  ASSUME IInv, NEW q \in Commits, CommitCreate(q)
  PROVE  IInv'
<1> DEFINE body == req[q].body
           read == req[q].read
           doc == [pool_start |-> body.pool_start, name |-> body.name, slug |-> Slug(body),
                   liquidity_percentage |-> body.liquidity_percentage,
                   join_pool_start |-> read.start, root_admin |-> read.admin,
                   since |-> read.moves, as_of |-> read.moves]
<1>1. q \in Requests /\ req[q].pc = "write"
  BY Sets DEF CommitCreate
<1>2. CASE Collides(q, doc)
  BY <1>1, <1>2, InvEnds DEF CommitCreate
<1>3. CASE ~Collides(q, doc)
  <2>1. /\ body.pool_start \in Nat /\ body.pool_start # NoDate /\ body.pool_start <= read.start
        /\ body.name \in Text \ {Missing} /\ body.slug \in Text
        /\ body.liquidity_percentage \in Text
    BY <1>1, RequestFacts DEF IInv, InFlight, Body
  <2>2. body.pool_start \in Times
    BY <1>1, <2>1, ReadFacts, BoundsAssumption DEF Times, NoDate
  <2>3. Slug(body) \in Text \ {Missing}
    BY <2>1 DEF Slug, Text, Empty, Missing
  <2>4. /\ read.start \in Times /\ read.moves \in Moves /\ read.admin \in Addresses
    BY <1>1, ReadFacts
  <2>5. doc \in Doc
    BY <2>1, <2>2, <2>3, <2>4 DEF Doc
  <2>6. /\ doc.pool_start = body.pool_start /\ doc.join_pool_start = read.start
        /\ doc.root_admin = read.admin /\ doc.since = read.moves /\ doc.as_of = read.moves
    OBVIOUS
  <2>7. pool' = [pool EXCEPT ![q] = doc] /\ Ends(q) /\ UNCHANGED <<chain, ever>>
    BY <1>3 DEF CommitCreate, Store
  <2> DEFINE start == body.pool_start
  <2>8. /\ Opens(start, read.moves, chain.start, chain.moves)
        /\ Opens(start, read.moves, read.start, read.moves)
        /\ \A w \in Writers : Opens(start, read.moves, req[w].read.start, req[w].read.moves)
    BY <1>1, <2>1, ReadFacts DEF Opens, Same
  <2> HIDE DEF doc
  <2> QED BY <1>1, <2>5, <2>6, <2>7, <2>8, ReadFacts, Written
<1> QED BY <1>2, <1>3

LEMMA InvSyncWrite ==
  ASSUME IInv, NEW q \in Syncs, SyncWrite(q)
  PROVE  IInv'
<1> DEFINE p == req[q].pool
           read == req[q].read
           doc == [pool[p] EXCEPT !.join_pool_start = read.start, !.root_admin = read.admin,
                                  !.as_of = read.moves]
<1>1. q \in Requests /\ req[q].pc = "write" /\ p \in Pools
  BY Sets DEF SyncWrite, IInv, InFlight
<1>2. p \in Commits /\ pool[p] \in Doc
  BY <1>1, RequestFacts
<1>3. /\ doc \in Doc /\ doc.pool_start = pool[p].pool_start /\ doc.since = pool[p].since
      /\ doc.join_pool_start = read.start /\ doc.root_admin = read.admin
      /\ doc.as_of = read.moves
  BY <1>1, <1>2, ReadFacts DEF Doc
<1>4. pool' = [pool EXCEPT ![p] = doc] /\ Ends(q) /\ UNCHANGED <<chain, ever>>
  BY <1>2 DEF SyncWrite, IInv, Typed, Doc
<1>5. /\ pool[p].since <= chain.moves
      /\ Opens(pool[p].pool_start, pool[p].since, chain.start, chain.moves)
      /\ Opens(pool[p].pool_start, pool[p].since, read.start, read.moves)
      /\ \A w \in Writers :
           Opens(pool[p].pool_start, pool[p].since, req[w].read.start, req[w].read.moves)
  BY <1>1, ReadFacts DEF IInv, Opening
<1> HIDE DEF doc
<1> QED BY <1>1, <1>2, <1>3, <1>4, <1>5, ReadFacts, Written

LEMMA InvEditWrite ==
  ASSUME IInv, NEW q \in Edits, EditWrite(q)
  PROVE  IInv'
<1> DEFINE p == req[q].pool
           read == req[q].read
           body == req[q].body
           doc == Updated(pool[p], body, read.moves)
<1>1. q \in Requests /\ req[q].pc = "write" /\ p \in Pools
  BY Sets DEF EditWrite, IInv, InFlight
<1>2. p \in Commits /\ pool[p] \in Doc /\ body \in Body
  BY <1>1, RequestFacts
<1>3. CASE Collides(p, doc)
  BY <1>1, <1>3, InvEnds DEF EditWrite
<1>4. CASE ~Collides(p, doc)
  <2>1. body.pool_start # NoDate => body.pool_start \in Times /\ body.pool_start <= read.start
    <3>1. body.pool_start # NoDate => body.pool_start <= read.start
      BY <1>1 DEF IInv, InFlight
    <3> QED BY <1>1, <1>2, <3>1, ReadFacts, BoundsAssumption DEF Times, NoDate, Body
  <2>2. /\ doc.pool_start = IF body.pool_start # NoDate THEN body.pool_start ELSE pool[p].pool_start
        /\ doc.since = IF body.pool_start # NoDate THEN read.moves ELSE pool[p].since
        /\ doc.join_pool_start = pool[p].join_pool_start /\ doc.as_of = pool[p].as_of
        /\ doc.root_admin = pool[p].root_admin
    BY <1>2 DEF Updated, Doc
  <2>3. doc \in Doc
    <3>1. (IF body.name # Missing THEN body.name ELSE pool[p].name) \in Text \ {Missing}
      BY <1>2 DEF Doc, Body
    <3>2. (IF body.slug = Missing THEN pool[p].slug
           ELSE IF body.slug = Empty /\ body.name = Missing THEN "undefined"
           ELSE Slug(body)) \in Text \ {Missing}
      BY <1>2, Literals DEF Doc, Body, Slug
    <3>3. (IF body.liquidity_percentage \in {Missing, Empty} THEN "0"
           ELSE body.liquidity_percentage) \in Text
      BY <1>2, Literals DEF Body
    <3>4. (IF body.pool_start # NoDate THEN body.pool_start ELSE pool[p].pool_start) \in Times
      BY <1>2, <2>1 DEF Doc
    <3>5. (IF body.pool_start # NoDate THEN read.moves ELSE pool[p].since) \in Moves
      BY <1>1, <1>2, ReadFacts DEF Doc
    <3> QED BY <1>2, <3>1, <3>2, <3>3, <3>4, <3>5 DEF Updated, Doc
  <2>4. pool' = [pool EXCEPT ![p] = doc] /\ Ends(q) /\ UNCHANGED <<chain, ever>>
    BY <1>4 DEF EditWrite, Store
  <2>5. /\ pool[p].root_admin \in ever /\ pool[p].as_of <= chain.moves
        /\ Same(pool[p].join_pool_start, pool[p].as_of, chain.start, chain.moves)
        /\ \A w \in Writers :
             Same(pool[p].join_pool_start, pool[p].as_of, req[w].read.start, req[w].read.moves)
    BY <1>1 DEF IInv, Admins, Copies
  <2>6. CASE body.pool_start # NoDate
    <3>1. doc.pool_start = body.pool_start /\ doc.since = read.moves
          /\ body.pool_start <= read.start
      BY <2>1, <2>2, <2>6
    <3>2. /\ Opens(doc.pool_start, doc.since, chain.start, chain.moves)
          /\ \A w \in Writers :
               Opens(doc.pool_start, doc.since, req[w].read.start, req[w].read.moves)
      BY <1>1, <3>1, ReadFacts DEF Opens, Same
    <3>3. Opens(doc.pool_start, doc.since, doc.join_pool_start, doc.as_of)
      <4>1. Same(pool[p].join_pool_start, pool[p].as_of, read.start, read.moves)
        BY <1>1, <2>5, ReadFacts
      <4> QED BY <2>2, <3>1, <4>1 DEF Opens, Same
    <3>4. doc.since <= chain.moves
      BY <1>1, <3>1, ReadFacts
    <3> HIDE DEF doc
    <3> QED BY <1>1, <1>2, <2>2, <2>3, <2>4, <2>5, <3>2, <3>3, <3>4, Written
  <2>7. CASE body.pool_start = NoDate
    <3>1. doc.pool_start = pool[p].pool_start /\ doc.since = pool[p].since
      BY <2>2, <2>7
    <3>2. /\ pool[p].since <= chain.moves
          /\ Opens(pool[p].pool_start, pool[p].since, chain.start, chain.moves)
          /\ Opens(pool[p].pool_start, pool[p].since, pool[p].join_pool_start, pool[p].as_of)
          /\ \A w \in Writers :
               Opens(pool[p].pool_start, pool[p].since, req[w].read.start, req[w].read.moves)
      BY <1>1 DEF IInv, Opening
    <3> HIDE DEF doc
    <3> QED BY <1>1, <1>2, <2>2, <2>3, <2>4, <2>5, <3>1, <3>2, Written
  <2> QED BY <2>6, <2>7
<1> QED BY <1>3, <1>4

LEMMA InvStutter == IInv /\ UNCHANGED vars => IInv'
<1> SUFFICES ASSUME IInv, UNCHANGED vars PROVE IInv'
  OBVIOUS
<1>1. Pools' = Pools /\ Writers' = Writers
  BY DEF vars, Pools, Writers
<1> QED BY <1>1 DEF IInv, vars, Typed, InFlight, Admins, AllowedWereAdmins, Copies, Opening

LEMMA InvNext == IInv /\ [Next]_vars => IInv'
<1> SUFFICES ASSUME IInv, [Next]_vars PROVE IInv'
  OBVIOUS
<1>1. CASE ChainMoves
  BY <1>1, InvChainMoves
<1>2. ASSUME NEW q \in Commits, CommitRead(q) \/ CommitCreate(q) PROVE IInv'
  BY <1>2, InvCommitRead, InvCommitCreate
<1>3. ASSUME NEW q \in Syncs, SyncRead(q) \/ SyncWrite(q) PROVE IInv'
  BY <1>3, InvSyncRead, InvSyncWrite
<1>4. ASSUME NEW q \in Edits, Guard(q) \/ EditRead(q) \/ EditWrite(q) PROVE IInv'
  BY <1>4, InvGuard, InvEditRead, InvEditWrite
<1>5. ASSUME NEW q \in Managers, GuardBody(q) PROVE IInv'
  BY <1>5, InvGuardBody
<1>6. CASE UNCHANGED vars
  BY <1>6, InvStutter
<1> QED BY <1>1, <1>2, <1>3, <1>4, <1>5, <1>6 DEF Next

LEMMA Invariance == Spec => []IInv
  BY InvInit, InvNext, PTL DEF Spec

----------------------------------------------------------------------------
(* The theorems.                                                           *)

\* A request past a guard is of an address that is or was an administrator,
\* for any guards, syncs and changes on chain.
THEOREM OnlyAdminsAllowed == Spec => []AllowedWereAdmins
<1>1. IInv => AllowedWereAdmins
  BY DEF IInv
<1> QED BY <1>1, Invariance, PTL

\* A pool opens no later than it can be joined, as long as its pool_start was
\* checked against the campaign its join_pool_start comes from, for any commits,
\* edits and syncs in flight.
THEOREM PoolsOpenBeforeJoin == Spec => []OpensBeforeJoin
<1>1. IInv => OpensBeforeJoin
  BY DEF IInv, Opening, Opens, OpensBeforeJoin
<1> QED BY <1>1, Invariance, PTL

\* A stored pool has what its schema requires.
THEOREM EditTypeCorrect == Spec => []TypeOK
<1>1. IInv => TypeOK
  <2> SUFFICES ASSUME IInv PROVE TypeOK
    OBVIOUS
  <2>1. \A p \in Pools :
          /\ pool[p].pool_start \in Times /\ pool[p].join_pool_start \in Times
          /\ Missing \notin {pool[p].name, pool[p].slug} /\ pool[p].root_admin \in Addresses
    BY PoolsAreDocs DEF IInv, Doc
  <2>2. chain \in [start : Times, admin : Addresses, moves : 0..MaxMoves]
    BY DEF IInv, Typed, Campaign, Moves
  <2>3. \A q \in Requests : req[q].pc \in {"idle", "read", "write", "allowed", "done"}
    BY DEF IInv, Typed, Request
  <2> QED BY <2>1, <2>2, <2>3 DEF TypeOK
<1> QED BY <1>1, Invariance, PTL

----------------------------------------------------------------------------
(* Edits survive: what a write does not name, it leaves.                   *)

Survive == EditsSurvive /\ asked = [p \in Commits |-> asked[p]]

LEMMA OwnedFields == Owned \subseteq DOMAIN Absent
  BY DEF Owned, Absent

LEMMA StoreSurvives ==
  ASSUME IInv, Survive, NEW p \in Commits, NEW d, NEW fields, Store(p, d, fields),
         \A f \in Owned : f \in fields \/ (p \in Pools /\ d[f] = pool[p][f])
  PROVE  Survive'
<1>0. pool = [o \in Commits |-> pool[o]]
  BY DEF IInv, Typed
<1>1. \A o \in Commits : pool'[o] = IF o = p THEN d ELSE pool[o]
  BY <1>0 DEF Store
<1>2. /\ \A o \in Commits \ {p} : asked'[o] = asked[o]
      /\ \A f \in Owned : asked'[p][f] = IF f \in fields THEN d[f] ELSE asked[p][f]
      /\ asked' = [o \in Commits |-> asked'[o]]
  BY <1>0, OwnedFields DEF Store, Survive
<1>3. ASSUME NEW o \in Pools', NEW f \in Owned PROVE pool'[o][f] = asked'[o][f]
  <2>1. CASE o = p /\ f \in fields
    BY <1>0, <1>1, <1>2, <2>1
  <2>2. CASE o = p /\ f \notin fields
    BY <1>0, <1>1, <1>2, <2>2 DEF Survive, EditsSurvive
  <2>3. CASE o # p
    <3>1. o \in Pools
      BY <1>1, <1>3, <2>3 DEF Pools
    <3> QED BY <1>1, <1>2, <2>3, <3>1 DEF Survive, EditsSurvive, Pools
  <2> QED BY <2>1, <2>2, <2>3
<1> QED BY <1>2, <1>3 DEF Survive, EditsSurvive

LEMMA CommitSurvives ==
  ASSUME IInv, Survive, NEW q \in Commits, CommitCreate(q)
  PROVE  Survive'
<1> DEFINE body == req[q].body
           read == req[q].read
           doc == [pool_start |-> body.pool_start, name |-> body.name, slug |-> Slug(body),
                   liquidity_percentage |-> body.liquidity_percentage,
                   join_pool_start |-> read.start, root_admin |-> read.admin,
                   since |-> read.moves, as_of |-> read.moves]
<1>1. CASE Collides(q, doc)
  BY <1>1 DEF CommitCreate, Keep, Survive, EditsSurvive, Pools
<1>2. CASE ~Collides(q, doc)
  <2>1. Store(q, doc, Owned)
    BY <1>2 DEF CommitCreate
  <2> HIDE DEF doc
  <2> QED BY <2>1, StoreSurvives
<1> QED BY <1>1, <1>2

LEMMA SyncSurvives ==
  ASSUME IInv, Survive, NEW q \in Syncs, SyncWrite(q)
  PROVE  Survive'
<1> DEFINE p == req[q].pool
<1>1. p \in Pools /\ p \in Commits /\ pool[p] \in Doc
  BY Sets, PoolsAreDocs DEF SyncWrite, IInv, InFlight
<1>2. \A o \in Commits \ {p} : pool'[o] = pool[o]
  BY <1>1 DEF SyncWrite, IInv, Typed
<1>3. \A f \in Owned : pool'[p][f] = pool[p][f]
  BY <1>1 DEF SyncWrite, IInv, Typed, Doc, Owned
<1>4. asked' = asked /\ Pools' \subseteq Pools
  BY <1>1, <1>2 DEF SyncWrite, Pools
<1> QED BY <1>2, <1>3, <1>4 DEF Survive, EditsSurvive, Pools

LEMMA EditSurvives ==
  ASSUME IInv, Survive, NEW q \in Edits, EditWrite(q)
  PROVE  Survive'
<1> DEFINE p == req[q].pool
           body == req[q].body
           doc == Updated(pool[p], body, req[q].read.moves)
<1>1. p \in Pools /\ p \in Commits /\ pool[p] \in Doc
  BY Sets, PoolsAreDocs DEF EditWrite, IInv, InFlight
<1>2. \A f \in Owned : f \in Named(body) \/ doc[f] = pool[p][f]
  BY <1>1 DEF Owned, Named, Updated, Doc
<1>3. CASE Collides(p, doc)
  BY <1>3 DEF EditWrite, Keep, Survive, EditsSurvive, Pools
<1>4. CASE ~Collides(p, doc)
  <2>1. Store(p, doc, Named(body))
    BY <1>4 DEF EditWrite
  <2> HIDE DEF doc, body, p
  <2> QED BY <1>1, <1>2, <2>1, StoreSurvives
<1> QED BY <1>3, <1>4

LEMMA SurviveNext == IInv /\ Survive /\ [Next]_vars => Survive'
<1> SUFFICES ASSUME IInv, Survive, [Next]_vars PROVE Survive'
  OBVIOUS
<1>1. ASSUME UNCHANGED <<pool, asked>> PROVE Survive'
  BY <1>1 DEF Survive, EditsSurvive, Pools
<1>2. CASE ChainMoves \/ UNCHANGED vars
  BY <1>1, <1>2 DEF ChainMoves, vars
<1>3. ASSUME NEW q \in Commits, CommitRead(q) PROVE Survive'
  BY <1>1, <1>3 DEF CommitRead, Keep
<1>4. ASSUME NEW q \in Syncs, SyncRead(q) PROVE Survive'
  BY <1>1, <1>4 DEF SyncRead, Keep
<1>5. ASSUME NEW q \in Edits, Guard(q) \/ EditRead(q) PROVE Survive'
  BY <1>1, <1>5 DEF Guard, EditRead, Keep
<1>6. ASSUME NEW q \in Managers, GuardBody(q) PROVE Survive'
  BY <1>1, <1>6 DEF GuardBody, Keep
<1> QED BY <1>2, <1>3, <1>4, <1>5, <1>6, CommitSurvives, SyncSurvives, EditSurvives DEF Next

\* What the owner last asked for, field by field, is in the document: no write of
\* a request that read the document earlier undoes it.
THEOREM OwnersEditsSurvive == Spec => []EditsSurvive
<1>1. Init => Survive
  BY DEF Init, Survive, EditsSurvive, Pools
<1>2. Survive => EditsSurvive
  BY DEF Survive
<1> QED BY <1>1, <1>2, InvInit, InvNext, SurviveNext, PTL DEF Spec
=============================================================================
