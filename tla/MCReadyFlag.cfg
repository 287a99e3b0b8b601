\* A pool committed before its voting ends, and no vote request at all.
CONSTANTS
  Votes = {}
  Syncs = {s1}
  MaxVotes = 1
  Plans <- VotingPlans
  MaxTime = 3
SPECIFICATION Spec
CHECK_DEADLOCK FALSE
INVARIANT
  ReadyIsVoted
