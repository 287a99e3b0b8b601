\* Two pools of one contract, two edits, a sync, a whitelist request.
CONSTANTS
  Commits = {p1, p2}
  Syncs = {y1}
  Edits = {e1, e2}
  Managers = {m1}
  Addresses <- MCAddresses
  Settings <- MCSettings
  Version = 4
  Early = FALSE
  Bodies <- MCBodies
  MaxTime = 2
  MaxMoves = 1
SPECIFICATION Spec
CHECK_DEADLOCK FALSE
INVARIANTS
  TypeOK
  OpensBeforeJoin
  AllowedWereAdmins
  EditsSurvive
