\* Two jobs armed for one address, free to overlap; two joins of one user.
CONSTANTS
  u1 = u1
  Users = {u1}
  Histories = {h1, h2}
  HistoryUser <- SameUser
  Jobs = {j1, j2}
SPECIFICATION Spec
INVARIANTS
  TypeOK
  NoCreditLost
  IdsMatchAmount
  CreditedAtMostOnce
  CreditedIsSucceeded
  SucceededIsAccounted
PROPERTY ImplementsLedger
