\* One pool: a sync of it, one join and a restart; or three joins and a restart.
CONSTANTS
  u1 = u1
  h1 = h1
  Commits = {c1}
  Syncs = {s1}
  PoolKey <- DistinctKeys
  MaxTime = 2
  MaxRestarts = 1
  Users = {u1}
  Histories = {h1, h2, h3}
  HistoryUser <- OneUser
SPECIFICATION PartSpec
INVARIANT EarlyDecisionIsStale
PROPERTY JoinInTimeIsDecided
CHECK_DEADLOCK FALSE
