------------------------- MODULE PoolVoting_proofs -------------------------
(***************************************************************************)
(* Proofs about PoolVoting, for any votes, syncs, plans and bounds.        *)
(***************************************************************************)
EXTENDS PoolVoting, TLAPS

----------------------------------------------------------------------------
(* Type correctness.                                                       *)

LEMMA NothingIsDocument == Nothing \in Document
  BY VotesAssumption DEF Nothing, Document, Totals

LEMMA TypeInit == Init => TypeOK
<1> SUFFICES ASSUME Init PROVE TypeOK
  OBVIOUS
<1>1. [pc |-> "idle", copy |-> Nothing, new |-> Nothing]
        \in [pc : {"idle", "save", "write", "done"}, copy : Document, new : Document]
  BY NothingIsDocument
<1>2. req \in [Requests -> [pc : {"idle", "save", "write", "done"},
                          copy : Document, new : Document]]
  BY <1>1 DEF Init
<1>3. now \in 0..MaxTime /\ plan \in Plans
  BY VotesAssumption DEF Init
<1>5. exact \in BOOLEAN
  BY Zenon DEF Init
<1>4. chain \in Document /\ pool \in Document
      /\ commit \in [pc : {"idle", "read", "stored"}, read : Document]
  BY NothingIsDocument DEF Init
<1> QED BY <1>2, <1>3, <1>4, <1>5 DEF TypeOK

\* The fields a save keeps and the fields it writes make a document.
LEMMA SavedIsDocument ==
  ASSUME NEW p \in Document, NEW copy \in Document, NEW new \in Document
  PROVE  [f \in DOMAIN p |-> IF new[f] # copy[f] THEN new[f] ELSE p[f]] \in Document
<1> DEFINE saved == [f \in DOMAIN p |-> IF new[f] # copy[f] THEN new[f] ELSE p[f]]
<1>1. DOMAIN p = {"up", "down", "is_active", "is_ready"}
  BY DEF Document
<1>2. saved = [up |-> saved.up, down |-> saved.down,
               is_active |-> saved.is_active, is_ready |-> saved.is_ready]
  BY <1>1
<1>3. /\ saved.up \in Totals /\ saved.down \in Totals
      /\ saved.is_active \in BOOLEAN /\ saved.is_ready \in BOOLEAN
  BY <1>1 DEF Document
<1> QED BY <1>2, <1>3 DEF Document

LEMMA TypeStep == TypeOK /\ [Next]_vars => TypeOK'
<1> SUFFICES ASSUME TypeOK, [Next]_vars PROVE TypeOK'
  OBVIOUS
<1> USE NothingIsDocument, VotesAssumption
<1>1. CASE Tick
  BY <1>1 DEF TypeOK, Tick
<1>2. CASE ChainMoves
  <2>1. chain' \in Document
    <3> USE DEF Document, Totals
    <3>1. CASE chain.up < MaxVotes /\ chain' = [chain EXCEPT !.up = @ + 1]
      BY <3>1 DEF TypeOK
    <3>2. CASE chain.down < MaxVotes /\ chain' = [chain EXCEPT !.down = @ + 1]
      BY <3>2 DEF TypeOK
    <3>3. CASE chain' = [chain EXCEPT !.is_active = TRUE]
      BY <3>3 DEF TypeOK
    <3> QED BY <1>2, <3>1, <3>2, <3>3 DEF ChainMoves
  <2> QED BY <1>2, <2>1 DEF TypeOK, ChainMoves
<1>3. CASE CommitRead
  BY <1>3 DEF TypeOK, CommitRead
<1>4. CASE CommitStore
  <2>1. pool' \in Document
    BY <1>4 DEF TypeOK, CommitStore, Document, ReadyAtCommit, AtLeast4, Enough
  <2> QED BY <1>4, <2>1 DEF TypeOK, CommitStore
<1>5. ASSUME NEW q \in Votes, NEW up \in Totals, NEW down \in Totals, VoteLoad(q, up, down)
      PROVE  TypeOK'
  <2>1. Voted(up, down, Enough([up |-> up, down |-> down])) \in Document
    <3>1. (Enough([up |-> up, down |-> down])) \in BOOLEAN
      BY DEF Enough
    <3> HIDE VotesAssumption
    <3> QED BY <3>1 DEF TypeOK, Voted, Document
  <2> QED BY <1>5, <2>1 DEF TypeOK, VoteLoad, LoadAndSet, Requests
<1>6. ASSUME NEW q \in Votes, VoteSave(q) PROVE TypeOK'
  <2>1. pool' \in Document
    BY <1>6, SavedIsDocument DEF TypeOK, VoteSave, Requests
  <2> QED BY <1>6, <2>1 DEF TypeOK, VoteSave
<1>7. ASSUME NEW q \in Syncs, SyncRead(q) PROVE TypeOK'
  BY <1>7 DEF TypeOK, SyncRead, Requests
<1>8. ASSUME NEW q \in Syncs, SyncWrite(q) PROVE TypeOK'
  <2>1. pool' \in Document
    BY <1>8 DEF TypeOK, SyncWrite, Refreshed, Document, Requests
  <2> QED BY <1>8, <2>1 DEF TypeOK, SyncWrite
<1>9. CASE UNCHANGED vars
  BY <1>9 DEF TypeOK, vars
<1> QED BY <1>1, <1>2, <1>3, <1>4, <1>5, <1>6, <1>7, <1>8, <1>9 DEF Next

\* Whatever votes, syncs and the chain do, the stored pool keeps its fields and
\* the totals their bounds: the save of a vote writes field by field.
THEOREM VotingTypeCorrect == Spec => []TypeOK
  BY TypeInit, TypeStep, PTL DEF Spec

----------------------------------------------------------------------------
(* The pool document and the listings.                                     *)

LEMMA DocFields ==
  ASSUME TypeOK
  PROVE  /\ Doc.version = plan.version /\ Doc.version \in Nat
         /\ (Doc.voting_active <=> plan.voting_active)
         /\ Doc.pool_start = plan.pool_start /\ Doc.pool_start \in Nat
         /\ Doc.voting_start = plan.voting_start /\ Doc.voting_start \in Nat
         /\ Doc.voting_end = plan.voting_end /\ Doc.voting_end \in Nat
         /\ Doc.join_pool_start = plan.join_pool_start /\ Doc.join_pool_start \in Nat
         /\ Doc.join_pool_end = plan.join_pool_end /\ Doc.join_pool_end \in Nat
         /\ (Doc.is_active <=> pool.is_active)
         /\ (Doc.is_ready <=> pool.is_ready)
         /\ now \in Nat
         /\ plan \in Plans
<1>1. plan \in [version : Nat, voting_active : BOOLEAN, pool_start : Nat,
                voting_start : Nat, voting_end : Nat,
                join_pool_start : Nat, join_pool_end : Nat,
                required_absolute_vote : Int]
  BY PlansAssumption DEF TypeOK
<1>2. pool \in [up : Totals, down : Totals, is_active : BOOLEAN, is_ready : BOOLEAN]
  BY DEF TypeOK, Document
<1>3. DOMAIN plan = {"version", "voting_active", "pool_start", "voting_start",
                     "voting_end", "join_pool_start", "join_pool_end",
                     "required_absolute_vote"}
  BY <1>1
<1>4. DOMAIN pool = {"up", "down", "is_active", "is_ready"}
  BY <1>2
<1>5. /\ \A f \in DOMAIN plan : Doc[f] = plan[f]
      /\ \A f \in DOMAIN pool \ DOMAIN plan : Doc[f] = pool[f]
  BY DEF Doc
<1>6. /\ Doc.version = plan.version /\ Doc.voting_active = plan.voting_active
      /\ Doc.pool_start = plan.pool_start /\ Doc.voting_start = plan.voting_start
      /\ Doc.voting_end = plan.voting_end /\ Doc.join_pool_start = plan.join_pool_start
      /\ Doc.join_pool_end = plan.join_pool_end
  BY <1>3, <1>5
<1>7. Doc.is_active = pool.is_active /\ Doc.is_ready = pool.is_ready
  BY <1>3, <1>4, <1>5
<1> QED BY <1>1, <1>2, <1>6, <1>7, VotesAssumption DEF TypeOK

\* The sections of GET /pools meet only at the instants that separate them, for any
\* dates at all, whatever votes, syncs and activations did to the document; only a
\* pool whose join phase ends no later than it starts is both upcoming and past.
THEOREM SectionsMeet == Spec => []SectionsMeetAtBoundaries
<1>1. TypeOK => SectionsMeetAtBoundaries
  BY DocFields
  DEF SectionsMeetAtBoundaries, Upcoming, Featured, Past, Published, Below4, NoVotingNeeded,
      NoVersion, AtLeast4, VotingPassed
<1> QED BY <1>1, VotingTypeCorrect, PTL

\* An active, published pool that needs no voting is in some section of GET /pools
\* at every instant, for any dates: the sections leave no gap.
THEOREM ActivePoolsAreShown == Spec => []ActivePoolIsShown
<1>1. TypeOK => ActivePoolIsShown
  BY DocFields
  DEF ActivePoolIsShown, Shown, Upcoming, Featured, Past, Published, Below4, NoVotingNeeded,
      NoVersion, AtLeast4
<1> QED BY <1>1, VotingTypeCorrect, PTL

\* A published pool with voting that is not active is in one of the two listings,
\* whatever races wrote its flag, and in both only when its voting ends.
THEOREM InactivePoolsAreListed == Spec => []InactivePoolIsListed
<1>1. TypeOK => InactivePoolIsListed
  BY DocFields
  DEF InactivePoolIsListed, Listed, VotingListed, Published, Below4, NoVotingNeeded,
      NoVersion, AtLeast4, VotingPassed
<1> QED BY <1>1, VotingTypeCorrect, PTL

----------------------------------------------------------------------------
(* The votes.                                                              *)

\* What a vote is about to save is ready if its own totals are enough, and so is
\* the pool after the save of a vote that nothing came between.
Consistent(p) == p.is_ready <=> Enough(p)

VotesInv ==
  /\ \A q \in Requests : req[q].pc = "save" =>
       Stored /\ AtLeast4(plan) /\ Consistent(req[q].new)
  /\ exact => Stored /\ AtLeast4(plan) /\ Consistent(pool)

LEMMA VotesInit == Init => VotesInv
  BY DEF Init, VotesInv

LEMMA VotesStep == TypeOK /\ VotesInv /\ [Next]_vars => VotesInv'
<1> SUFFICES ASSUME TypeOK, VotesInv, [Next]_vars PROVE VotesInv'
  OBVIOUS
<1> USE DEF VotesInv, Stored, Consistent, Enough
<1>1. CASE Tick
  BY <1>1 DEF Tick, AtLeast4
<1>2. CASE ChainMoves
  BY <1>2 DEF ChainMoves, AtLeast4
<1>3. CASE CommitRead
  BY <1>3 DEF CommitRead
<1>4. CASE CommitStore
  BY <1>4 DEF CommitStore
<1>5. ASSUME NEW q \in Votes, NEW up \in Totals, NEW down \in Totals, VoteLoad(q, up, down)
      PROVE  VotesInv'
  <2>1. Consistent(Voted(up, down, Enough([up |-> up, down |-> down])))
    BY DEF Voted, TypeOK, Document
  <2> QED BY <1>5, <2>1 DEF VoteLoad, LoadAndSet, TypeOK, AtLeast4
<1>6. ASSUME NEW q \in Votes, VoteSave(q) PROVE VotesInv'
  <2> DEFINE copy == req[q].copy
             new == req[q].new
  <2>1. exact' => pool' = new
    <3>1. pool \in Document /\ new \in Document /\ DOMAIN pool = DOMAIN new
      BY DEF TypeOK, Requests, Document
    <3>2. new = [f \in DOMAIN new |-> new[f]]
      BY <3>1 DEF Document
    <3>3. ASSUME pool = copy PROVE pool' = [f \in DOMAIN new |-> new[f]]
      BY <1>6, <3>1, <3>3 DEF VoteSave
    <3> QED BY <1>6, <3>2, <3>3 DEF VoteSave
  <2>2. Stored /\ AtLeast4(plan) /\ Consistent(new)
    BY <1>6 DEF VoteSave, Requests
  <2>3. exact' => Stored' /\ AtLeast4(plan)' /\ Consistent(pool)'
    BY <1>6, <2>1, <2>2 DEF VoteSave
  <2>4. \A r \in Requests : req'[r].pc = "save" => r # q /\ req'[r] = req[r]
    BY <1>6 DEF VoteSave, TypeOK
  <2> QED BY <1>6, <2>3, <2>4 DEF VoteSave
<1>7. ASSUME NEW q \in Syncs, SyncRead(q) PROVE VotesInv'
  BY <1>7 DEF SyncRead, TypeOK, AtLeast4
<1>8. ASSUME NEW q \in Syncs, SyncWrite(q) PROVE VotesInv'
  BY <1>8 DEF SyncWrite, TypeOK, AtLeast4
<1>9. CASE UNCHANGED vars
  BY <1>9 DEF vars
<1> QED BY <1>1, <1>2, <1>3, <1>4, <1>5, <1>6, <1>7, <1>8, <1>9 DEF Next

LEMMA VotesInvariant == Spec => [](TypeOK /\ VotesInv)
  BY TypeInit, TypeStep, VotesInit, VotesStep, PTL DEF Spec

\* After the voting, the totals of a vote that was saved on the document it had
\* loaded decide where the pool is listed, for any number of votes and syncs.
THEOREM VotesDecideListing == Spec => []VoteDecidesListing
<1>1. TypeOK /\ VotesInv => VoteDecidesListing
  <2> SUFFICES ASSUME TypeOK, VotesInv, exact, plan.voting_active, Published(Doc, now),
                      now >= plan.voting_end
               PROVE  IF Enough(pool)
                      THEN Listed(Doc, now) /\ ~Deactivated(Doc, now)
                      ELSE ~Upcoming(Doc, now) /\ (~pool.is_active => Deactivated(Doc, now))
    BY DEF VoteDecidesListing
  <2>1. AtLeast4(plan) /\ (pool.is_ready <=> Enough(pool))
    BY DEF VotesInv, Consistent
  <2>2. AtLeast4(Doc) /\ ~Below4(Doc) /\ ~NoVotingNeeded(Doc)
    BY <2>1, DocFields DEF NoVersion, AtLeast4, Below4, NoVotingNeeded
  <2>3. VotingPassed(Doc, now) <=> Enough(pool)
    BY <2>1, <2>2, DocFields DEF VotingPassed
  <2> QED BY <2>1, <2>2, <2>3, DocFields DEF Listed, Deactivated, VotingListed, Upcoming
<1> QED BY <1>1, VotesInvariant, PTL
=============================================================================
