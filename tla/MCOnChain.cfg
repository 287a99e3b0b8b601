CONSTANTS
  Base = 10
  Width = 4
  Second = 2
  Unit = 2
  Precision = 100
  Scale = 10
  Fine = 2
  Updates = {"u1", "u2"}
  Activations = {"a1"}
  AdminChanges = {"d1"}
  Admins = {"alice", "bob"}
  Accounts <- MCAccounts
  Inputs <- RaceInputs
  Values <- MCValues
  Numerals <- MCNumerals
SPECIFICATION OnChainSpec
CHECK_DEADLOCK FALSE
INVARIANTS
  NumbersKeepTheirWidth
  PhasesMeet
  ProgramReadsWhatWasGiven
PROPERTIES
  UnnamedFieldsKept
  
