----------------------- MODULE FinalizeSystem_proofs ------------------------
(***************************************************************************)
(* Proofs about FinalizeSystem, for any commits, syncs, users, histories   *)
(* and bounds: each of its parts behaves as it does alone, and a join that *)
(* the cron has decided before the ends of all pools was decided by a job  *)
(* that a sync has made stale.                                             *)
(***************************************************************************)
EXTENDS FinalizeSystem, TLAPS

----------------------------------------------------------------------------
(* The parts.                                                              *)

LEMMA ScheduleSteps == [Next]_vars => [Schedule!Next]_(Schedule!vars)
<1> SUFFICES ASSUME [Next]_vars PROVE Schedule!Next \/ UNCHANGED scheduleVars
  BY DEF Schedule!vars, scheduleVars
<1>1. CASE ScheduleStep
  BY <1>1 DEF ScheduleStep, Schedule!Next
<1>2. CASE (\E h \in Histories : userJoinPool(h)) \/ ClientStep
  BY <1>2 DEF userJoinPool, ClientStep
<1>3. ASSUME NEW q \in Schedule!Requests, JobStep(q)
      PROVE  Schedule!Next \/ UNCHANGED scheduleVars
  BY <1>3 DEF JobStep, addJobFinalizePool, AddJobThrows, JobFires, CallbackStep,
              Schedule!Next, Schedule!Arm
<1>4. ASSUME NEW w \in Run!Workers, WorkerStep(w) \/ UpdateRejected(w)
      PROVE  Schedule!Next \/ UNCHANGED scheduleVars
  BY <1>4 DEF WorkerStep, UpdateRejected, Schedule!Next
<1>5. CASE Restart
  BY <1>5 DEF Restart, Schedule!Next
<1>6. CASE UNCHANGED vars
  BY <1>6 DEF vars
<1> QED BY <1>1, <1>2, <1>3, <1>4, <1>5, <1>6 DEF Next

LEMMA RunSteps == [Next]_vars => [Run!Next]_(Run!vars)
<1> SUFFICES ASSUME [Next]_vars PROVE Run!Next \/ UNCHANGED runVars
  BY DEF Run!vars, runVars
<1>1. CASE ScheduleStep
  BY <1>1 DEF ScheduleStep
<1>2. CASE (\E h \in Histories : userJoinPool(h)) \/ ClientStep
  BY <1>2 DEF userJoinPool, ClientStep, Run!Next
<1>3. ASSUME NEW q \in Schedule!Requests, JobStep(q) PROVE Run!Next \/ UNCHANGED runVars
  BY <1>3 DEF JobStep, addJobFinalizePool, AddJobThrows, JobFires, CallbackStep,
              Run!Next, Run!JobStep
<1>4. ASSUME NEW w \in Run!Workers, WorkerStep(w) \/ UpdateRejected(w)
      PROVE  Run!Next \/ UNCHANGED runVars
  BY <1>4 DEF WorkerStep, UpdateRejected, Run!Next, Run!WorkerStep
<1>5. CASE Restart
  BY <1>5 DEF Restart, Run!Next
<1>6. CASE UNCHANGED vars
  BY <1>6 DEF vars
<1> QED BY <1>1, <1>2, <1>3, <1>4, <1>5, <1>6 DEF Next

\* The commits, syncs and jobs of the system behave as PoolSchedule says, so that
\* what is proved of it alone holds in the system.
THEOREM SystemImplementsSchedule == Spec => Schedule!Spec
<1>1. Init => Schedule!Init
  BY DEF Init
<1> QED BY <1>1, ScheduleSteps, PTL DEF Spec, Schedule!Spec

\* The callbacks of its jobs behave as FinalizeRun says, restarts included.
THEOREM SystemImplementsRun == Spec => Run!Spec
<1>1. Init => Run!Init
  BY DEF Init
<1> QED BY <1>1, RunSteps, PTL DEF Spec, Run!Spec
----------------------------------------------------------------------------
(* Early decisions.  What the cron has decided was decided by a job that   *)
(* has fired, and a job fires when its end has passed; so an end that has  *)
(* not passed is not the end of that job.                                  *)

Ends == Schedule!Times \cup {Schedule!Absent}

ScheduleTypes ==
  /\ now \in Nat
  /\ chainEnd \in Schedule!Times
  /\ poolEnd \in [Commits -> Ends]
  /\ req \in [Schedule!Requests ->
               [pc : {"idle", "create", "read", "write", "arm", "done", "refused", "lost"},
                pool : Schedule!Requests, base : Ends, end : Ends]]
  /\ timer \in [Schedule!Requests -> {"none", "armed", "fired", "lost"}]

\* A request names a pool from the moment it has one.
PoolsNamed ==
  \A q \in Schedule!Requests :
    q \in Commits \/ req[q].pc # "idle" => req[q].pool \in Commits

\* A request that has armed a job is over: the end of the job does not change.
ArmedAreDone ==
  \A q \in Schedule!Requests :
    timer[q] \in {"armed", "fired"} => req[q].pc = "done" /\ req[q].end # Schedule!Absent

FiredInTime ==
  \A q \in Schedule!Requests : timer[q] = "fired" => req[q].end <= now

ScheduleInv == ScheduleTypes /\ PoolsNamed /\ ArmedAreDone /\ FiredInTime

FiredStays ==
  \A q \in Schedule!Requests : timer[q] = "fired" => timer'[q] = "fired"

RunTypes ==
  /\ run \in [Schedule!Requests -> {"none", "armed", "saving", "finding", "running", "lost"}]
  /\ pc \in [Run!Workers -> {"idle", "account", "fail", "failed", "succeed",
                             "find", "create", "update", "credited"}]
  /\ \A h \in Histories : history[h].by \in {"nobody", "join", "client", "cron"}
  /\ DOMAIN history = Histories

\* Only a job that has fired runs, has workers, or has decided.
RunsAreFired ==
  /\ \A q \in Schedule!Requests :
       run[q] \in {"saving", "finding", "running"} => timer[q] = "fired"
  /\ \A w \in Run!Workers : pc[w] # "idle" => timer[Run!JobOf(w)] = "fired"

DecisionsAreFired ==
  (\E h \in Histories : history[h].by = "cron") =>
    \E q \in Schedule!Requests : timer[q] = "fired"

RunInv == RunTypes /\ RunsAreFired /\ DecisionsAreFired

LEMMA EndsAreNat ==
  /\ Schedule!Times \subseteq Ends /\ Ends \subseteq Nat
  /\ Schedule!Absent \in Ends /\ Schedule!Absent = 0
  /\ \A q \in Commits \cup Syncs : q \in Schedule!Requests
  BY BoundsAssumption DEF Ends, Schedule!Times, Schedule!Absent, Schedule!Requests

LEMMA ScheduleInvInit == Init => ScheduleInv
<1> SUFFICES ASSUME Init PROVE ScheduleInv
  OBVIOUS
<1>1. ScheduleTypes
  BY EndsAreNat DEF Init, Schedule!Init, ScheduleTypes, Schedule!NewRequest
<1>2. PoolsNamed /\ ArmedAreDone /\ FiredInTime
  BY EndsAreNat DEF Init, Schedule!Init, PoolsNamed, ArmedAreDone, FiredInTime,
                    Schedule!NewRequest
<1> QED BY <1>1, <1>2 DEF ScheduleInv

\* A step that leaves the jobs alone, and the requests that are over.
LEMMA JobsAlone ==
  ASSUME ScheduleInv, ScheduleTypes', PoolsNamed', timer' = timer, now' \in {now, now + 1},
         \A q \in Schedule!Requests : req[q].pc = "done" => req'[q] = req[q]
  PROVE  ScheduleInv' /\ FiredStays
<1> USE EndsAreNat
<1>1. ArmedAreDone'
  BY DEF ScheduleInv, ArmedAreDone
<1>2. FiredInTime'
  <2> SUFFICES ASSUME NEW q \in Schedule!Requests, timer[q] = "fired" PROVE req'[q].end <= now'
    BY DEF FiredInTime
  <2>1. req[q].pc = "done" /\ req[q].end <= now
    BY DEF ScheduleInv, ArmedAreDone, FiredInTime
  <2>2. req[q].end \in Nat /\ now \in Nat
    BY DEF ScheduleInv, ScheduleTypes
  <2>3. req'[q].end = req[q].end
    BY <2>1
  <2> QED BY <2>1, <2>2, <2>3
<1>3. FiredStays
  BY DEF FiredStays
<1> QED BY <1>1, <1>2, <1>3 DEF ScheduleInv

LEMMA ScheduleInvNext ==
  ASSUME ScheduleInv, [Schedule!Next]_(Schedule!vars)
  PROVE  ScheduleInv' /\ FiredStays
<1> USE EndsAreNat DEF ScheduleInv
<1>1. CASE Schedule!Tick
  <2>1. ScheduleTypes' /\ PoolsNamed'
    BY <1>1 DEF Schedule!Tick, ScheduleTypes, PoolsNamed
  <2> QED BY <1>1, <2>1, JobsAlone DEF Schedule!Tick
<1>2. ASSUME NEW e \in Schedule!Times, Schedule!CampaignMoved(e)
      PROVE  ScheduleInv' /\ FiredStays
  <2>1. ScheduleTypes' /\ PoolsNamed'
    BY <1>2 DEF Schedule!CampaignMoved, ScheduleTypes, PoolsNamed
  <2> QED BY <1>2, <2>1, JobsAlone DEF Schedule!CampaignMoved
<1>3. ASSUME NEW q \in Commits, Schedule!commitInitPool(q)
      PROVE  ScheduleInv' /\ FiredStays
  <2> USE DEF Schedule!Goto
  <2>1. ScheduleTypes' /\ PoolsNamed' /\ timer' = timer /\ now' = now
        /\ req[q].pc # "done" /\ \A r \in Schedule!Requests \ {q} : req'[r] = req[r]
    <3>1. CASE Schedule!CommitRead(q)
      BY <3>1 DEF Schedule!CommitRead, ScheduleTypes, PoolsNamed
    <3>2. CASE Schedule!CommitRefused(q)
      BY <3>2 DEF Schedule!CommitRefused, ScheduleTypes, PoolsNamed
    <3>3. CASE Schedule!CommitCreate(q)
      BY <3>3 DEF Schedule!CommitCreate, ScheduleTypes, PoolsNamed
    <3>4. CASE Schedule!CommitDuplicate(q)
      BY <3>4 DEF Schedule!CommitDuplicate, ScheduleTypes, PoolsNamed
    <3> QED BY <1>3, <3>1, <3>2, <3>3, <3>4 DEF Schedule!commitInitPool
  <2> QED BY <2>1, JobsAlone
<1>4. ASSUME NEW q \in Syncs, NEW p \in Schedule!Pools, Schedule!SyncLoad(q, p)
      PROVE  ScheduleInv' /\ FiredStays
  <2>1. p \in Commits
    BY DEF Schedule!Pools
  <2>2. ScheduleTypes' /\ PoolsNamed'
    BY <1>4, <2>1 DEF Schedule!SyncLoad, ScheduleTypes, PoolsNamed
  <2> QED BY <1>4, <2>2, JobsAlone DEF Schedule!SyncLoad, ScheduleTypes
<1>5. ASSUME NEW q \in Syncs, Schedule!syncPool(q)
      PROVE  ScheduleInv' /\ FiredStays
  <2> USE DEF Schedule!Goto
  <2>1. ScheduleTypes' /\ PoolsNamed' /\ timer' = timer /\ now' = now
        /\ req[q].pc # "done" /\ \A r \in Schedule!Requests \ {q} : req'[r] = req[r]
    <3>1. CASE Schedule!SyncRead(q)
      BY <3>1 DEF Schedule!SyncRead, ScheduleTypes, PoolsNamed
    <3>2. CASE Schedule!SyncFails(q)
      BY <3>2 DEF Schedule!SyncFails, ScheduleTypes, PoolsNamed
    <3>3. CASE Schedule!SyncWrite(q)
      BY <3>3 DEF Schedule!SyncWrite, Schedule!WriteEnd, ScheduleTypes, PoolsNamed
    <3>4. CASE Schedule!SyncUnchanged(q)
      BY <3>4 DEF Schedule!SyncUnchanged, ScheduleTypes, PoolsNamed
    <3> QED BY <1>5, <3>1, <3>2, <3>3, <3>4 DEF Schedule!syncPool
  <2> QED BY <2>1, JobsAlone
<1>6. ASSUME NEW q \in Schedule!Requests, Schedule!addJobFinalizePool(q)
      PROVE  ScheduleInv' /\ FiredStays
  <2> USE <1>6 DEF Schedule!addJobFinalizePool, Schedule!Goto
  <2>1. timer[q] \notin {"armed", "fired"} /\ req[q].end # Schedule!Absent
    BY DEF ArmedAreDone, ScheduleTypes
  <2>2. ScheduleTypes' /\ PoolsNamed'
    BY DEF ScheduleTypes, PoolsNamed
  <2>3. ArmedAreDone' /\ FiredInTime' /\ FiredStays
    BY <2>1 DEF ArmedAreDone, FiredInTime, FiredStays, ScheduleTypes
  <2> QED BY <2>2, <2>3
<1>7. ASSUME NEW q \in Schedule!Requests, Schedule!AddJobThrows(q)
      PROVE  ScheduleInv' /\ FiredStays
  <2>1. ScheduleTypes' /\ PoolsNamed'
    BY <1>7 DEF Schedule!AddJobThrows, Schedule!Goto, ScheduleTypes, PoolsNamed
  <2> QED BY <1>7, <2>1, JobsAlone DEF Schedule!AddJobThrows, Schedule!Goto, ScheduleTypes
<1>8. ASSUME NEW q \in Schedule!Requests, Schedule!JobFires(q)
      PROVE  ScheduleInv' /\ FiredStays
  BY <1>8 DEF Schedule!JobFires, ScheduleTypes, PoolsNamed, ArmedAreDone, FiredInTime, FiredStays
<1>9. CASE Schedule!Restart
  <2>1. ScheduleTypes' /\ PoolsNamed'
    BY <1>9 DEF Schedule!Restart, ScheduleTypes, PoolsNamed
  <2>2. ArmedAreDone' /\ FiredInTime' /\ FiredStays
    BY <1>9 DEF Schedule!Restart, ScheduleTypes, ArmedAreDone, FiredInTime, FiredStays
  <2> QED BY <2>1, <2>2
<1>10. CASE UNCHANGED Schedule!vars
  <2>1. ScheduleTypes' /\ PoolsNamed'
    BY <1>10 DEF Schedule!vars, ScheduleTypes, PoolsNamed
  <2> QED BY <1>10, <2>1, JobsAlone DEF Schedule!vars
<1> QED BY <1>1, <1>2, <1>3, <1>4, <1>5, <1>6, <1>7, <1>8, <1>9, <1>10
           DEF Schedule!Next, Schedule!Arm

LEMMA RunInvInit == Init => RunInv
<1> SUFFICES ASSUME Init PROVE RunInv
  OBVIOUS
<1>1. RunTypes /\ DecisionsAreFired
  BY DEF Init, Run!Init, RunTypes, DecisionsAreFired
<1>2. RunsAreFired
  BY DEF Init, Run!Init, RunsAreFired
<1> QED BY <1>1, <1>2 DEF RunInv

Active == {"saving", "finding", "running"}

\* What a step does: a job becomes active when its timer fires, and only an
\* active one starts workers or decides.
Drives ==
  /\ \A q \in Schedule!Requests : run'[q] \in Active => run[q] \in Active \/ timer'[q] = "fired"
  /\ \A w \in Run!Workers : pc'[w] # "idle" => pc[w] # "idle" \/ run[Run!JobOf(w)] \in Active
  /\ \A h \in Histories : history'[h].by = "cron" =>
       history[h].by = "cron" \/ \E q \in Schedule!Requests : run[q] \in Active

LEMMA WorkersHaveJobs ==
  \A w \in Run!Workers : Run!JobOf(w) \in Schedule!Requests /\ Run!HistoryOf(w) \in Histories
  BY DEF Run!Workers, Run!JobOf, Run!HistoryOf

LEMMA JobsDrive ==
  ASSUME RunTypes, NEW q \in Schedule!Requests, JobStep(q), ScheduleInv'
  PROVE  RunTypes' /\ Drives
<1> USE WorkersHaveJobs DEF RunTypes, Drives, Active
<1>1. CASE addJobFinalizePool(q)
  BY <1>1 DEF addJobFinalizePool, Run!addJobFinalizePool
<1>2. CASE AddJobThrows(q)
  BY <1>2 DEF AddJobThrows, runVars
<1>3. CASE JobFires(q)
  <2>1. timer'[q] = "fired"
    BY <1>3 DEF JobFires, Schedule!JobFires, ScheduleInv, ScheduleTypes
  <2> QED BY <1>3, <2>1 DEF JobFires, Run!JobFires
<1>4. CASE Run!SaveCronRunning(q)
  BY <1>4 DEF Run!SaveCronRunning
<1>5. CASE Run!FindPending(q)
  BY <1>5 DEF Run!FindPending, Run!StartWorkers
<1> QED BY <1>1, <1>2, <1>3, <1>4, <1>5 DEF JobStep, CallbackStep

LEMMA WorkersDrive ==
  ASSUME RunTypes, NEW w \in Run!Workers, WorkerStep(w) \/ UpdateRejected(w)
  PROVE  RunTypes' /\ Drives
<1> USE WorkersHaveJobs DEF RunTypes, Drives, Active, Run!Transition, Run!Live
<1>1. CASE Run!CheckAccount(w)
  BY <1>1 DEF Run!CheckAccount
<1>2. CASE Run!SaveFailed(w) \/ Run!SaveSucceeded(w)
  BY <1>2 DEF Run!SaveFailed, Run!SaveSucceeded, Run!SaveStatus
<1>3. CASE Run!FindParticipant(w)
  BY <1>3 DEF Run!FindParticipant
<1>4. CASE Run!CreateParticipant(w)
  BY <1>4 DEF Run!CreateParticipant
<1>5. CASE Run!UpdateParticipant(w)
  BY <1>5 DEF Run!UpdateParticipant, Run!SaveRow
<1>6. CASE UpdateRejected(w)
  BY <1>6 DEF UpdateRejected, Run!UpdateRejected, Run!Exit
<1> QED BY <1>1, <1>2, <1>3, <1>4, <1>5, <1>6 DEF WorkerStep

LEMMA StepsDrive ==
  ASSUME RunTypes, [Next]_vars, ScheduleInv'
  PROVE  RunTypes' /\ Drives
<1>1. CASE UNCHANGED runVars
  BY <1>1 DEF RunTypes, Drives, Active, runVars, Run!Workers
<1>2. ASSUME NEW h \in Histories, userJoinPool(h)
      PROVE  RunTypes' /\ Drives
  BY <1>2 DEF userJoinPool, Run!userJoinPool, RunTypes, Drives, Active
<1>3. CASE ClientStep
  <2>1. ASSUME NEW h \in Histories, NEW s, Run!updateJoinPoolHistory(h, s)
        PROVE  RunTypes' /\ Drives
    BY <2>1 DEF Run!updateJoinPoolHistory, Run!OverwriteStatus, RunTypes, Drives, Active
  <2>2. ASSUME NEW u, Run!AccountCreated(u)
        PROVE  RunTypes' /\ Drives
    BY <2>2 DEF Run!AccountCreated, RunTypes, Drives, Active
  <2> QED BY <1>3, <2>1, <2>2 DEF ClientStep
<1>4. CASE Restart
  <2>1. CASE Run!Exit
    BY <2>1 DEF Run!Exit, RunTypes, Drives, Active
  <2> QED BY <1>1, <1>4, <2>1 DEF Restart
<1>5. CASE ScheduleStep \/ UNCHANGED vars
  BY <1>1, <1>5 DEF ScheduleStep, vars
<1> QED BY <1>2, <1>3, <1>4, <1>5, JobsDrive, WorkersDrive DEF Next

LEMMA RunInvNext ==
  ASSUME RunInv, [Next]_vars, ScheduleInv', FiredStays
  PROVE  RunInv'
<1>1. RunTypes' /\ Drives
  BY StepsDrive DEF RunInv
<1>2. \A q \in Schedule!Requests : run[q] \in Active => timer'[q] = "fired"
  BY DEF RunInv, RunsAreFired, FiredStays, Active
<1>3. RunsAreFired'
  <2>1. \A q \in Schedule!Requests : run'[q] \in Active => timer'[q] = "fired"
    BY <1>1, <1>2 DEF Drives
  <2>2. \A w \in Run!Workers : pc'[w] # "idle" => timer'[Run!JobOf(w)] = "fired"
    BY <1>1, <1>2, WorkersHaveJobs DEF Drives, RunInv, RunsAreFired, FiredStays
  <2> QED BY <2>1, <2>2 DEF RunsAreFired, Active, Run!JobOf
<1>4. DecisionsAreFired'
  BY <1>1, <1>2 DEF Drives, RunInv, DecisionsAreFired, FiredStays
<1> QED BY <1>1, <1>3, <1>4 DEF RunInv

LEMMA DecidedEarly == ScheduleInv /\ DecisionsAreFired => EarlyDecisionIsStale
<1> SUFFICES ASSUME ScheduleInv, DecisionsAreFired, \E h \in Histories : history[h].by = "cron"
             PROVE  \/ \E p \in Schedule!Pools : poolEnd[p] <= now
                    \/ \E q \in Schedule!Requests :
                         timer[q] = "fired" /\ req[q].end # poolEnd[req[q].pool]
  BY DEF EarlyDecisionIsStale
<1>1. PICK q \in Schedule!Requests : timer[q] = "fired"
  BY DEF DecisionsAreFired
<1>2. req[q].pool \in Commits /\ req[q].end # Schedule!Absent /\ req[q].end <= now
  BY <1>1 DEF ScheduleInv, PoolsNamed, ArmedAreDone, FiredInTime
<1>3. CASE req[q].end = poolEnd[req[q].pool]
  BY <1>2, <1>3 DEF Schedule!Pools
<1> QED BY <1>1, <1>3

\* The cron decides a join before the end of every stored pool only on a job
\* that a sync has made stale, for any number of requests and restarts.
THEOREM OnlyStaleJobsDecideEarly == Spec => []EarlyDecisionIsStale
<1>1. Init => ScheduleInv /\ RunInv
  BY ScheduleInvInit, RunInvInit
<1>2. ScheduleInv /\ RunInv /\ [Next]_vars => (ScheduleInv /\ RunInv)'
  BY ScheduleSteps, ScheduleInvNext, RunInvNext
<1>3. ScheduleInv /\ RunInv => EarlyDecisionIsStale
  BY DecidedEarly DEF RunInv
<1> QED BY <1>1, <1>2, <1>3, PTL DEF Spec

=============================================================================
