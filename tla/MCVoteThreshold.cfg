\* One vote, whose totals may miss, meet or pass what is required.
CONSTANTS
  Votes = {v1}
  Syncs = {}
  MaxVotes = 1
  Plans <- VotingPlans
  MaxTime = 3
SPECIFICATION Spec
CHECK_DEADLOCK FALSE
INVARIANT
  ReadyIsMore
