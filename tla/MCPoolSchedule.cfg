\* One pool, a second commit of it and two syncs, with a restart.
CONSTANTS
  Commits = {c1, c2}
  Syncs = {s1, s2}
  PoolKey <- OneName
  MaxTime = 2
  MaxRestarts = 1
SPECIFICATION FairSpec
INVARIANTS
  TypeOK
  EndIsArmed
PROPERTY EndIsFinalized
