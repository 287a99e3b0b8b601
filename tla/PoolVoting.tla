----------------------------- MODULE PoolVoting -----------------------------
(***************************************************************************)
(* The life of one pool document as the listings see it: its commit, the   *)
(* vote requests that save the totals and flags.is_ready                   *)
(* (PoolsService.userVote), and the syncs that overwrite what was read on  *)
(* chain (syncPool).                                                       *)
(*                                                                         *)
(* A vote loads the document, changes the loaded copy and saves it.  The   *)
(* save writes only the fields whose value differs from the one loaded and *)
(* checks no version, so concurrent votes mix their fields.                *)
(***************************************************************************)
EXTENDS Integers, PoolSections

CONSTANTS
  Votes,      \* userVote requests
  Syncs,      \* syncPool requests
  MaxVotes,   \* bound of the totals
  Plans,      \* the versions, dates and votes required a pool may have
  MaxTime     \* bound of the clock

ASSUME VotesAssumption == MaxVotes \in Nat /\ MaxTime \in Nat
ASSUME PlansAssumption ==
  Plans \subseteq [version : Nat, voting_active : BOOLEAN, pool_start : Nat,
                   voting_start : Nat, voting_end : Nat,
                   join_pool_start : Nat, join_pool_end : Nat,
                   required_absolute_vote : Int]

VARIABLES
  now,     \* the clock
  plan,    \* version, dates and votes required, which do not change here
  chain,   \* the pool on chain: totals and activation
  commit,  \* commitInitPool: what it has read and whether it has stored the pool
  pool,    \* the fields of the pool document that change
  req,     \* the requests
  exact    \* history variable: the last save was a vote's, on the document it had loaded

vars == <<now, plan, chain, commit, pool, req, exact>>

Requests == Votes \cup Syncs
Totals == 0..MaxVotes

Nothing == [up |-> 0, down |-> 0, is_active |-> FALSE, is_ready |-> FALSE]
Stored == commit.pc = "stored"

\* The pool document.
Doc == [f \in DOMAIN plan \cup DOMAIN pool |-> IF f \in DOMAIN plan THEN plan[f] ELSE pool[f]]

\* The fields readPool replaces, with the flag kept.
Refreshed(doc, read) == [read EXCEPT !.is_ready = doc.is_ready]

\* userVote and commitInitPool compare with >=.
Enough(p) == p.up - p.down >= plan.required_absolute_vote

----------------------------------------------------------------------------
Init ==
  /\ now = 0
  /\ plan \in Plans
  /\ chain = Nothing
  /\ commit = [pc |-> "idle", read |-> Nothing]
  /\ pool = Nothing
  /\ req = [q \in Requests |-> [pc |-> "idle", copy |-> Nothing, new |-> Nothing]]
  /\ exact = FALSE

Tick ==
  /\ now < MaxTime
  /\ now' = now + 1
  /\ UNCHANGED <<plan, chain, commit, pool, req, exact>>

(* External: votes on chain while the voting is open, and the owner's      *)
(* activation of the pool.                                                 *)
ChainMoves ==
  /\ \/ /\ plan.voting_active /\ plan.voting_start <= now /\ now <= plan.voting_end
        /\ \/ chain.up < MaxVotes /\ chain' = [chain EXCEPT !.up = @ + 1]
           \/ chain.down < MaxVotes /\ chain' = [chain EXCEPT !.down = @ + 1]
     \/ ~chain.is_active /\ chain' = [chain EXCEPT !.is_active = TRUE]
  /\ UNCHANGED <<now, plan, commit, pool, req, exact>>

----------------------------------------------------------------------------
(* commitInitPool                                                          *)

CommitRead ==
  /\ commit.pc = "idle"
  /\ commit' = [pc |-> "read", read |-> chain]
  /\ UNCHANGED <<now, plan, chain, pool, req, exact>>

\* TRUE unless the voting is over and failed.
ReadyAtCommit(read) ==
  AtLeast4(plan) /\ now > plan.voting_end => plan.required_absolute_vote <= 0 \/ Enough(read)

CommitStore ==
  /\ commit.pc = "read"
  /\ commit' = [commit EXCEPT !.pc = "stored"]
  /\ pool' = [commit.read EXCEPT !.is_ready = ReadyAtCommit(commit.read)]
  /\ UNCHANGED <<now, plan, chain, req, exact>>

----------------------------------------------------------------------------
(* userVote.  The totals are the client's.  A pool without data.voting     *)
(* makes the handler throw, answer false and change nothing.               *)

LoadAndSet(q, new) ==
  /\ Stored
  /\ AtLeast4(plan)
  /\ req[q].pc = "idle"
  /\ req' = [req EXCEPT ![q] = [pc |-> "save", copy |-> pool, new |-> new]]
  /\ UNCHANGED <<now, plan, chain, commit, pool, exact>>

Voted(up, down, is_ready) ==
  [pool EXCEPT !.up = up, !.down = down, !.is_ready = is_ready]

\* Mutant: the request's votes are added to the totals.
VoteAdds(q, up, down) ==
  LoadAndSet(q, Voted(pool.up + up, pool.down + down, FALSE))

\* Mutant: the flag is computed before the totals are set.
VoteStale(q, up, down) == LoadAndSet(q, Voted(up, down, Enough(pool)))

VoteLoad(q, up, down) ==
  LoadAndSet(q, Voted(up, down, Enough([up |-> up, down |-> down])))

\* pool.save(): only the fields that differ from the loaded copy are written.
VoteSave(q) ==
  LET copy == req[q].copy  new == req[q].new IN
  /\ req[q].pc = "save"
  /\ pool' = [f \in DOMAIN pool |-> IF new[f] # copy[f] THEN new[f] ELSE pool[f]]
  /\ req' = [req EXCEPT ![q] = [pc |-> "done", copy |-> Nothing, new |-> Nothing]]
  /\ exact' = (pool = copy)
  /\ UNCHANGED <<now, plan, chain, commit>>

----------------------------------------------------------------------------
(* syncPool: data is replaced by the pool on chain, the flags are not.     *)

SyncRead(q) ==
  /\ Stored
  /\ req[q].pc = "idle"
  /\ req' = [req EXCEPT ![q].pc = "write", ![q].new = chain]
  /\ UNCHANGED <<now, plan, chain, commit, pool, exact>>

SyncWrite(q) ==
  /\ req[q].pc = "write"
  /\ pool' = Refreshed(pool, req[q].new)
  /\ req' = [req EXCEPT ![q] = [pc |-> "done", copy |-> Nothing, new |-> Nothing]]
  /\ exact' = FALSE
  /\ UNCHANGED <<now, plan, chain, commit>>

----------------------------------------------------------------------------
Next ==
  \/ Tick
  \/ ChainMoves
  \/ CommitRead
  \/ CommitStore
  \/ \E q \in Votes, up, down \in Totals : VoteLoad(q, up, down)
  \/ \E q \in Votes : VoteSave(q)
  \/ \E q \in Syncs : SyncRead(q) \/ SyncWrite(q)

Spec == Init /\ [][Next]_vars

----------------------------------------------------------------------------
(* Properties.                                                             *)

Document == [up : Totals, down : Totals, is_active : BOOLEAN, is_ready : BOOLEAN]

TypeOK ==
  /\ now \in 0..MaxTime
  /\ plan \in Plans
  /\ chain \in Document
  /\ commit \in [pc : {"idle", "read", "stored"}, read : Document]
  /\ pool \in Document
  /\ req \in [Requests -> [pc : {"idle", "save", "write", "done"},
                           copy : Document, new : Document]]
  /\ exact \in BOOLEAN

Shown(p) == Upcoming(p, now) \/ Featured(p, now) \/ Past(p, now)

(* The sections of GET /pools meet only at the instants that separate      *)
(* them, whatever votes, syncs and activations did to the document.  The   *)
(* dates are copied from the chain unchecked: a pool whose join phase ends *)
(* no later than it starts is upcoming and past from its end to its start, *)
(* and no other pool ever is.                                              *)
SectionsMeetAtBoundaries ==
  Stored =>
    /\ Upcoming(Doc, now) /\ Featured(Doc, now) => now = plan.join_pool_start
    /\ Featured(Doc, now) /\ Past(Doc, now) => now = plan.join_pool_end
    /\ Upcoming(Doc, now) /\ Past(Doc, now)
         => plan.join_pool_end <= now /\ now <= plan.join_pool_start

(* An active, published pool that needs no voting is in some section of    *)
(* GET /pools at every instant of its life.                                *)
ActivePoolIsShown ==
  Stored /\ Published(Doc, now) /\ pool.is_active /\ (Below4(Doc) \/ NoVotingNeeded(Doc))
    => Shown(Doc)

(* A published pool with voting that is not active yet is listed by        *)
(* GET /pools or by GET /pools/voting, whatever races wrote its totals and *)
(* its flag, and by both only at the instant its voting ends.              *)
InactivePoolIsListed ==
  Stored /\ Published(Doc, now) /\ ~pool.is_active /\ AtLeast4(Doc) /\ plan.voting_active =>
    /\ Listed(Doc, now) \/ VotingListed(Doc, now)
    /\ Listed(Doc, now) /\ VotingListed(Doc, now) => now = plan.voting_end

(* After the voting, the totals a vote has stored decide where the pool    *)
(* is listed, unless another write came between the load and the save or   *)
(* after it: enough votes list it among the pools, too few keep it out of  *)
(* the upcoming ones and, while it is not active, among the deactivated.   *)
VoteDecidesListing ==
  exact /\ plan.voting_active /\ Published(Doc, now) /\ now >= plan.voting_end =>
    IF Enough(pool)
    THEN Listed(Doc, now) /\ ~Deactivated(Doc, now)
    ELSE ~Upcoming(Doc, now) /\ (~pool.is_active => Deactivated(Doc, now))

(* What the comment on flags.is_ready (pools.schema.ts) promises: the flag *)
(* of a pool with voting is set once the voting has ended and the absolute *)
(* vote reaches the required one.                                          *)
ReadyIsVoted ==
  Stored /\ AtLeast4(plan) /\ plan.voting_active /\ now > plan.voting_end /\ pool.is_ready
    => Enough(pool) \/ plan.required_absolute_vote <= 0

(* The threshold of the same comment: the flag that a vote sets, on the    *)
(* document it had loaded, says that the voting has ended with an absolute *)
(* vote above the required one.                                            *)
ReadyIsMore ==
  exact /\ plan.voting_active /\ now > plan.voting_end /\ pool.is_ready
    => pool.up - pool.down > plan.required_absolute_vote
=============================================================================
