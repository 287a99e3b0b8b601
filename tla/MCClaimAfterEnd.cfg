\* One update, over all the combinations of dates.
CONSTANTS
  Base = 10
  Width = 4
  Second = 2
  Unit = 2
  Precision = 100
  Scale = 10
  Fine = 2
  Updates = {"u1"}
  Activations = {}
  AdminChanges = {}
  Admins = {"alice", "bob"}
  Accounts <- MCAccounts
  Inputs <- DateInputs
SPECIFICATION Spec
CHECK_DEADLOCK FALSE
INVARIANTS
  ClaimAfterEnd
