\* The comment on Flags.is_cron_running, against what the cron does.
CONSTANTS
  u1 = u1
  Users = {u1}
  Histories = {h1}
  HistoryUser <- SameUser
  Jobs = {j1}
SPECIFICATION Spec
INVARIANT CronFlagTellsRunning
