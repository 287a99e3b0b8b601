\* One request of each kind, on two wallets; when all have answered the model stops.
CONSTANTS
  w1 = w1
  w2 = w2
  Wallets = {w1, w2}
  Adds = {a1}
  Batches = {b1}
  Checks = {c1}
  Removes = {r1}
  Lists <- SmallLists
  MaxAccounts = 2
SPECIFICATION Spec
CHECK_DEADLOCK FALSE
INVARIANTS
  DuplicatesAreRaced
  AddedIsListed
  RemovedIsOut
