--------------------------- MODULE FinalizeSystem ---------------------------
(***************************************************************************)
(* The composition of PoolSchedule and FinalizeRun: the jobs that commits  *)
(* and syncs arm are the jobs that decide the join-pool histories, one     *)
(* clock and one process for both.  A job is named by its request.         *)
(***************************************************************************)
EXTENDS Naturals

CONSTANTS Commits, Syncs, PoolKey, MaxTime, MaxRestarts,
          Users, Histories, HistoryUser

ASSUME BoundsAssumption == MaxTime \in Nat /\ MaxRestarts \in Nat
ASSUME RequestsAssumption == Commits \cap Syncs = {}
ASSUME HistoryUserAssumption == HistoryUser \in [Histories -> Users]

VARIABLES
  now, chainEnd, poolEnd, req, timer, restarts,           \* of PoolSchedule
  history, account, flags, run, pc, copy, participants, contended
                                                          \* of FinalizeRun

scheduleVars == <<now, chainEnd, poolEnd, req, timer, restarts>>
runVars == <<history, account, flags, run, pc, copy, participants, contended>>
vars == <<scheduleVars, runVars>>

Schedule == INSTANCE PoolSchedule WITH job <- timer
Run == INSTANCE FinalizeRun WITH Jobs <- Schedule!Requests, job <- run

Init == Schedule!Init /\ Run!Init

----------------------------------------------------------------------------
(* Steps of one part only.                                                 *)

ScheduleStep ==
  /\ \/ Schedule!Tick
     \/ \E e \in Schedule!Times : Schedule!CampaignMoved(e)
     \/ \E q \in Commits : Schedule!commitInitPool(q)
     \/ \E q \in Syncs, p \in Schedule!Pools : Schedule!SyncLoad(q, p)
     \/ \E q \in Syncs : Schedule!syncPool(q)
  /\ UNCHANGED runVars

\* A join is recorded only if the pool is stored; its dates are not looked at.
userJoinPool(h) ==
  /\ Schedule!Pools # {}
  /\ Run!userJoinPool(h)
  /\ UNCHANGED scheduleVars

ClientStep ==
  /\ \/ \E h \in Histories, s \in Run!Status : Run!updateJoinPoolHistory(h, s)
     \/ \E u \in Users : Run!AccountCreated(u)
  /\ UNCHANGED scheduleVars

CallbackStep(q) ==
  /\ Run!SaveCronRunning(q) \/ Run!FindPending(q)
  /\ UNCHANGED scheduleVars

WorkerStep(w) ==
  /\ \/ Run!CheckAccount(w)
     \/ Run!SaveFailed(w)
     \/ Run!SaveSucceeded(w)
     \/ Run!FindParticipant(w)
     \/ Run!CreateParticipant(w)
     \/ Run!UpdateParticipant(w)
  /\ UNCHANGED scheduleVars

----------------------------------------------------------------------------
(* Joint steps.                                                            *)

addJobFinalizePool(q) == Schedule!addJobFinalizePool(q) /\ Run!addJobFinalizePool(q)

AddJobThrows(q) == Schedule!AddJobThrows(q) /\ UNCHANGED runVars

JobFires(q) == Schedule!JobFires(q) /\ Run!JobFires(q)

\* The life of a job: armed or refused, fired, its callback.
JobStep(q) ==
  \/ addJobFinalizePool(q)
  \/ AddJobThrows(q)
  \/ JobFires(q)
  \/ CallbackStep(q)

\* A deployment or a crash, whether or not a job is armed or running.
Restart ==
  /\ Schedule!Restart
  /\ \/ Run!Exit
     \/ (\A q \in Schedule!Requests : run[q] \in {"none", "lost"}) /\ UNCHANGED runVars

\* A rejected save ends the process.
UpdateRejected(w) == Run!UpdateRejected(w) /\ Schedule!Restart

Next ==
  \/ ScheduleStep
  \/ \E h \in Histories : userJoinPool(h)
  \/ ClientStep
  \/ \E q \in Schedule!Requests : JobStep(q)
  \/ \E w \in Run!Workers : WorkerStep(w) \/ UpdateRejected(w)
  \/ Restart

Spec == Init /\ [][Next]_vars

Fairness ==
  /\ WF_vars(Schedule!Tick /\ UNCHANGED runVars)
  /\ \A q \in Schedule!Requests : WF_vars(JobStep(q))
  /\ \A w \in Run!Workers : WF_vars(WorkerStep(w) \/ UpdateRejected(w))

FairSpec == Spec /\ Fairness

----------------------------------------------------------------------------
(* Properties.                                                             *)

(* A join recorded before the end of its pool does not stay pending: a job *)
(* waits for that end, finds the history and decides it, unless the        *)
(* process restarts or the pool was stored too late to arm a job.          *)
JoinInTimeIsDecided ==
  \A h \in Histories :
    /\ history[h].status = "pending"
    /\ \E p \in Schedule!Pools : poolEnd[p] > now
    ~> \/ history[h].status # "pending"
       \/ \E q \in Schedule!Requests :
            /\ req[q].pc = "refused" /\ req[q].end # Schedule!Absent
            /\ poolEnd[req[q].pool] # Schedule!Absent
       \/ restarts > 0

(* The cron decides a history before the end of every stored pool only on  *)
(* a stale job: one armed for an end that a sync has replaced since.       *)
EarlyDecisionIsStale ==
  (\E h \in Histories : history[h].by = "cron") =>
    \/ \E p \in Schedule!Pools : poolEnd[p] <= now
    \/ \E q \in Schedule!Requests :
         timer[q] = "fired" /\ req[q].end # poolEnd[req[q].pool]
=============================================================================
