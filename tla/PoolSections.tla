---------------------------- MODULE PoolSections ----------------------------
(***************************************************************************)
(* Which stored pools the listings select: the queries of                  *)
(* PoolsService.index (GET /pools) and indexPoolsVoting (GET /pools/voting)*)
(* as predicates of one pool document p at time `now`.                     *)
(***************************************************************************)
EXTENDS Naturals

\* data.version of a pool that has none: no range condition selects it.
NoVersion == 0

Below4(p) == p.version # NoVersion /\ p.version < 4
AtLeast4(p) == p.version # NoVersion /\ p.version >= 4

----------------------------------------------------------------------------
(* index                                                                   *)

Published(p, now) == p.pool_start <= now

NoVotingNeeded(p) == AtLeast4(p) /\ ~p.voting_active

VotingPassed(p, now) ==
  /\ AtLeast4(p)
  /\ p.voting_active
  /\ p.is_ready
  /\ p.voting_end <= now

\* Mutant: of the $or on data.is_active only the first branch is there.
UpcomingInactive(p, now) ==
  /\ Published(p, now)
  /\ \/ Below4(p) /\ p.join_pool_start >= now /\ ~p.is_active
     \/ NoVotingNeeded(p) /\ (p.join_pool_start >= now \/ ~p.is_active)
     \/ VotingPassed(p, now) /\ p.join_pool_start >= now

\* The $or on data.is_active of the old versions is implied by join_pool_start.
Upcoming(p, now) ==
  /\ Published(p, now)
  /\ \/ Below4(p) /\ p.join_pool_start >= now
     \/ NoVotingNeeded(p) /\ (p.join_pool_start >= now \/ ~p.is_active)
     \/ VotingPassed(p, now) /\ p.join_pool_start >= now

Featured(p, now) ==
  /\ Published(p, now)
  /\ p.is_active
  /\ p.join_pool_start <= now
  /\ p.join_pool_end >= now

\* Mutant: a pool is past once its join phase has started.
PastOnceStarted(p, now) ==
  Published(p, now) /\ p.is_active /\ p.join_pool_start <= now

Past(p, now) ==
  /\ Published(p, now)
  /\ p.is_active
  /\ p.join_pool_end <= now

UpcomingFeatured(p, now) == Upcoming(p, now) \/ Featured(p, now)

\* No section asked for.
Listed(p, now) ==
  /\ Published(p, now)
  /\ Below4(p) \/ NoVotingNeeded(p) \/ VotingPassed(p, now)

----------------------------------------------------------------------------
(* indexPoolsVoting                                                        *)

\* Mutant: the pools whose voting failed are not looked for once it is over.
VotingListedWhileOpen(p, now) ==
  /\ Published(p, now) /\ ~p.is_active /\ AtLeast4(p)
  /\ p.voting_end >= now

VotingListed(p, now) ==
  /\ Published(p, now)
  /\ ~p.is_active
  /\ AtLeast4(p)
  /\ \/ p.voting_end >= now
     \/ p.voting_end < now /\ ~p.is_ready

VotingUpcoming(p, now) ==
  VotingListed(p, now) /\ ~p.is_ready /\ p.voting_start >= now

InVoting(p, now) ==
  VotingListed(p, now) /\ p.voting_start <= now /\ p.voting_end >= now

Deactivated(p, now) ==
  VotingListed(p, now) /\ p.voting_end <= now /\ ~p.is_ready
=============================================================================
