---------------------------- MODULE MCPoolVoting ----------------------------
(* Instances of PoolVoting: the plans of a pool.                           *)
EXTENDS PoolVoting

Plan(version, voting_active, required, join_pool_start, join_pool_end) ==
  [version |-> version, voting_active |-> voting_active, pool_start |-> 1,
   voting_start |-> 1, voting_end |-> 2,
   join_pool_start |-> join_pool_start, join_pool_end |-> join_pool_end,
   required_absolute_vote |-> required]

\* The voting ends before the join phase starts, or at that instant.  With the
\* totals 0 and 1, an absolute vote misses or meets a required 1, and misses,
\* meets or passes a required 0.
VotingPlans == {Plan(4, TRUE, 1, 2, 3), Plan(4, TRUE, 0, 3, 4)}

\* No voting: of no version, of version 3, of version 4.
PlainPlans == {Plan(0, FALSE, 1, 2, 3), Plan(3, FALSE, 1, 2, 3), Plan(4, FALSE, 1, 2, 3)}

\* The join phase ends when it starts, or before.
OddPlans == {Plan(4, TRUE, 1, 4, 2), Plan(3, FALSE, 1, 4, 2), Plan(4, FALSE, 1, 2, 2)}

AllPlans == VotingPlans \cup PlainPlans \cup OddPlans
=============================================================================
