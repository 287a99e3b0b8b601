CONSTANTS
  Calls = {c1, c2}
  Scripts = {s1}
  OldAccounts = {old}
  Programs = {p1, p2}
  NoProgram = NoProgram
  Logins = {l1, l2, l3}
  Creates = {n1}
  Addresses = {w1, w2}
  Names = {name}
  Unset = Unset
  None = None
  MaxDocs = 5
  Instant <- Instants
  Moving = {1, 2, 4}
  Limit = 2
  Stakers = {user1, user2}
  StakeAccounts = {account1, account2}
  Amounts = {1, 2}
  Operations = {op1, op2, op3}
SPECIFICATION ServicesSpec
CHECK_DEADLOCK FALSE
INVARIANTS
  ServicesTypeOK
  AnswerIsOwned
  AnswersAgree
  NothingLeaks
  TokenNamesItsUser
  OneUserUnlessRaced
  WalkSeesAll
  NothingTwice
  ExportAddsUp
PROPERTY
  WalkEnds
