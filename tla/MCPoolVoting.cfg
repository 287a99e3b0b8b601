\* Two concurrent votes and a sync, pools with voting and without.
CONSTANTS
  Votes = {v1, v2}
  Syncs = {s1}
  MaxVotes = 1
  Plans <- AllPlans
  MaxTime = 5
SPECIFICATION Spec
CHECK_DEADLOCK FALSE
INVARIANTS
  TypeOK
  SectionsMeetAtBoundaries
  ActivePoolIsShown
  InactivePoolIsListed
  VoteDecidesListing
