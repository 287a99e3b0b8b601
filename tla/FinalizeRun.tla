---------------------------- MODULE FinalizeRun ----------------------------
(***************************************************************************)
(* What happens to the join-pool histories of ONE pool address: users      *)
(* record a join, clients report its outcome, and the finalize cron job    *)
(* (PoolsService.addJobFinalizePool) decides every history that is still   *)
(* pending and credits it to a pool-participants row.                      *)
(*                                                                         *)
(* The callback of a job is asynchronous and its Promise.all runs one      *)
(* chain of awaits per pending history: such a chain is a WORKER, the pair *)
(* of the job and the history.  Every await is a step of its own, so the   *)
(* workers of one job, and of two jobs armed for the same address,         *)
(* interleave as they do on the event loop and in MongoDB.                 *)
(*                                                                         *)
(* When an await rejects, nothing catches it: the rejection escapes the    *)
(* cron callback and Node 16 ends the process, as a crash does.  The       *)
(* container restarts it with no job and no worker.                        *)
(***************************************************************************)
EXTENDS Naturals

CONSTANTS
  Users,        \* wallets
  Histories,    \* the join-pool histories users may record
  HistoryUser,  \* the user_address of each history
  Jobs          \* the cron jobs that may ever be armed for the address

ASSUME HistoryUserAssumption == HistoryUser \in [Histories -> Users]

VARIABLES
  history,       \* history[h]: status, and who wrote it last (a history variable)
  account,       \* users whose associated account exists on chain in the pool
  flags,         \* Pool.flags of the pool document
  job,           \* progress of the callback of each job
  pc,            \* progress of each worker
  copy,          \* the participant row a worker has read and is about to save
  participants,  \* the pool-participants rows, named by the worker that created them
  contended      \* history variable: histories two workers may both credit

vars == <<history, account, flags, job, pc, copy, participants, contended>>

Workers == Jobs \X Histories
JobOf(w) == w[1]
HistoryOf(w) == w[2]
UserOf(w) == HistoryUser[HistoryOf(w)]
WorkersOf(h) == {w \in Workers : HistoryOf(w) = h}

Status == {"pending", "succeeded", "failed"}

\* A row's amount and join_pool_history_ids as the sets of workers whose
\* history they contain (a worker adds its history at most once), and the
\* version key __v.  A row that does not exist has an empty amount.
Row == [amount : SUBSET Workers, ids : SUBSET Workers, v : Nat]
NoRow == [amount |-> {}, ids |-> {}, v |-> 0]
Exists(d) == participants[d].amount # {}
NoCopy(w) == [row |-> w, read |-> NoRow]

RowsOf(u) == {d \in Workers : Exists(d) /\ UserOf(d) = u}

----------------------------------------------------------------------------
(* Workers by progress.                                                    *)

Live(w) == job[JobOf(w)] = "running"

\* The status of the history is read but not written yet.
Undecided(w) == Live(w) /\ pc[w] \in {"account", "fail", "succeed"}

\* The history is saved as succeeded and its credit is due or done.
Crediting(w) == \/ pc[w] = "credited"
                \/ Live(w) /\ pc[w] \in {"find", "create", "update"}

Transition(w, from, to) ==
  /\ Live(w)
  /\ pc[w] = from
  /\ pc' = [pc EXCEPT ![w] = to]

----------------------------------------------------------------------------
Init ==
  /\ history = [h \in Histories |-> [status |-> "absent", by |-> "nobody"]]
  /\ account = {}
  /\ flags = [is_cron_running |-> FALSE, is_finalize_participants |-> FALSE]
  /\ job = [j \in Jobs |-> "none"]
  /\ pc = [w \in Workers |-> "idle"]
  /\ copy = [w \in Workers |-> NoCopy(w)]
  /\ participants = [w \in Workers |-> NoRow]
  /\ contended = {}

(* POST /join-pool-history: the join is recorded as pending, whatever the  *)
(* time: before the job fires, while it runs, or after it.                 *)
userJoinPool(h) ==
  /\ history[h].status = "absent"
  /\ history' = [history EXCEPT ![h] = [status |-> "pending", by |-> "join"]]
  /\ UNCHANGED <<account, flags, job, pc, copy, participants, contended>>

(* PUT /join-pool-history/:id: a client overwrites the status.  Reopening  *)
(* a history that a worker has credited, or is crediting, contends it.     *)
OverwriteStatus(h, s) ==
  /\ history[h].status # "absent"
  /\ history' = [history EXCEPT ![h] = [status |-> s, by |-> "client"]]
  /\ contended' = IF s = "pending" /\ \E w \in WorkersOf(h) : Crediting(w)
                  THEN contended \cup {h} ELSE contended
  /\ UNCHANGED <<account, flags, job, pc, copy, participants>>

\* Mutant: the DTO does not validate the status.
updateUnvalidated(h, s) == OverwriteStatus(h, "any string")

updateJoinPoolHistory(h, s) == OverwriteStatus(h, s)

(* External: the user's join transaction creates the associated account.   *)
AccountCreated(u) ==
  /\ u \notin account
  /\ account' = account \cup {u}
  /\ UNCHANGED <<history, flags, job, pc, copy, participants, contended>>

----------------------------------------------------------------------------
(* The cron job.                                                           *)

addJobFinalizePool(j) ==
  /\ job[j] = "none"
  /\ job' = [job EXCEPT ![j] = "armed"]
  /\ UNCHANGED <<history, account, flags, pc, copy, participants, contended>>

JobFires(j) ==
  /\ job[j] = "armed"
  /\ job' = [job EXCEPT ![j] = "saving"]
  /\ UNCHANGED <<history, account, flags, pc, copy, participants, contended>>

SaveCronRunning(j) ==
  /\ job[j] = "saving"
  /\ job' = [job EXCEPT ![j] = "finding"]
  /\ flags' = [flags EXCEPT !.is_cron_running = TRUE]
  /\ UNCHANGED <<history, account, pc, copy, participants, contended>>

\* The histories with one of the statuses are read at once; each gets its worker.
StartWorkers(j, statuses) ==
  LET found == {h \in Histories : history[h].status \in statuses} IN
  /\ job[j] = "finding"
  /\ job' = [job EXCEPT ![j] = "running"]
  /\ pc' = [w \in Workers |->
              IF JobOf(w) = j /\ HistoryOf(w) \in found THEN "account" ELSE pc[w]]
  /\ contended' = contended \cup
                  {h \in found : \E w \in WorkersOf(h) : Undecided(w)}
  /\ UNCHANGED <<history, account, flags, copy, participants>>

\* Mutant: every history that has not failed, as indexUserJoinPoolHistory lists them.
FindNotFailed(j) == StartWorkers(j, {"pending", "succeeded"})

FindPending(j) == StartWorkers(j, {"pending"})

----------------------------------------------------------------------------
(* A worker: one history of Promise.all.                                   *)

\* getPoolAssociatedAccountInfo: the answer is the chain's at this step.
CheckAccount(w) ==
  /\ Transition(w, "account", IF UserOf(w) \in account THEN "succeed" ELSE "fail")
  /\ UNCHANGED <<history, account, flags, job, copy, participants, contended>>

SaveStatus(w, from, to, s) ==
  /\ Transition(w, from, to)
  /\ history' = [history EXCEPT ![HistoryOf(w)] = [status |-> s, by |-> "cron"]]
  /\ UNCHANGED <<account, flags, job, copy, participants, contended>>

\* Mutant: the `return null` after the save of a failed history is missing.
SaveFailedAndGoOn(w) == SaveStatus(w, "fail", "find", "failed")

SaveFailed(w) == SaveStatus(w, "fail", "failed", "failed")

SaveSucceeded(w) == SaveStatus(w, "succeed", "find", "succeeded")

\* Mutant: a user who has a row is taken for credited.
FindOrReturn(w) ==
  /\ Transition(w, "find", IF RowsOf(UserOf(w)) = {} THEN "create" ELSE "failed")
  /\ UNCHANGED <<history, account, flags, job, copy, participants, contended>>

\* findOne by user and pool address: any of the user's rows, or none.
FindParticipant(w) ==
  /\ \/ /\ RowsOf(UserOf(w)) = {}
        /\ Transition(w, "find", "create")
        /\ UNCHANGED copy
     \/ \E d \in RowsOf(UserOf(w)) :
          /\ Transition(w, "find", "update")
          /\ copy' = [copy EXCEPT ![w] = [row |-> d, read |-> participants[d]]]
  /\ UNCHANGED <<history, account, flags, job, participants, contended>>

\* create names the new row's history `join_pool_history_id`, which the schema
\* does not have and drops: join_pool_history_ids starts empty.
CreateParticipant(w) ==
  /\ Transition(w, "create", "credited")
  /\ participants' = [participants EXCEPT ![w] =
                        [amount |-> {w}, ids |-> {}, v |-> 0]]
  /\ UNCHANGED <<history, account, flags, job, copy, contended>>

\* The row that was read is saved with the history added to amount and ids.
SaveRow(w, ids, v) ==
  /\ Transition(w, "update", "credited")
  /\ participants' = [participants EXCEPT ![copy[w].row] =
        [amount |-> copy[w].read.amount \cup {w}, ids |-> ids \cup {w}, v |-> v]]
  /\ copy' = [copy EXCEPT ![w] = NoCopy(w)]
  /\ UNCHANGED <<history, account, flags, job, contended>>

\* The version of the row is still the one that was read.
SameVersion(w) == participants[copy[w].row].v = copy[w].read.v

\* Mutant: the row is saved whatever its version.
UpdateUnversioned(w) == SaveRow(w, copy[w].read.ids, copy[w].read.v + 1)

\* Mutant: the id is appended in the database ($push), which checks no version.
UpdatePushingId(w) ==
  SaveRow(w, participants[copy[w].row].ids, participants[copy[w].row].v)

\* save writes the whole array, so mongoose matches the row on the __v that was
\* read and increments it.
UpdateParticipant(w) ==
  /\ SameVersion(w)
  /\ SaveRow(w, copy[w].read.ids, copy[w].read.v + 1)

----------------------------------------------------------------------------
(* The process ends: a crash, a deployment, or a rejected await (an RPC or *)
(* database error) that nothing catches.  Armed jobs and running callbacks *)
(* are lost; a worker keeps the pc it had reached.                         *)
Exit ==
  /\ \E j \in Jobs : job[j] \notin {"none", "lost"}
  /\ job' = [j \in Jobs |-> IF job[j] = "none" THEN "none" ELSE "lost"]
  /\ UNCHANGED <<history, account, flags, pc, copy, participants, contended>>

\* The row changed since it was read: save rejects with a VersionError.
UpdateRejected(w) ==
  /\ Live(w)
  /\ pc[w] = "update"
  /\ ~SameVersion(w)
  /\ Exit

----------------------------------------------------------------------------
WorkerStep(w) ==
  \/ CheckAccount(w)
  \/ SaveFailed(w)
  \/ SaveSucceeded(w)
  \/ FindParticipant(w)
  \/ CreateParticipant(w)
  \/ UpdateParticipant(w)
  \/ UpdateRejected(w)

JobStep(j) ==
  \/ JobFires(j)
  \/ SaveCronRunning(j)
  \/ FindPending(j)

Next ==
  \/ \E h \in Histories : userJoinPool(h)
  \/ \E h \in Histories, s \in Status : updateJoinPoolHistory(h, s)
  \/ \E u \in Users : AccountCreated(u)
  \/ \E j \in Jobs : addJobFinalizePool(j)
  \/ \E j \in Jobs : JobStep(j)
  \/ \E w \in Workers : WorkerStep(w)
  \/ Exit

Spec == Init /\ [][Next]_vars

----------------------------------------------------------------------------
(* Properties.                                                             *)

TypeOK ==
  /\ history \in [Histories -> [status : Status \cup {"absent"},
                                by : {"nobody", "join", "client", "cron"}]]
  /\ account \subseteq Users
  /\ flags \in [is_cron_running : BOOLEAN, is_finalize_participants : BOOLEAN]
  /\ job \in [Jobs -> {"none", "armed", "saving", "finding", "running", "lost"}]
  /\ pc \in [Workers -> {"idle", "account", "fail", "failed", "succeed",
                         "find", "create", "update", "credited"}]
  /\ copy \in [Workers -> [row : Workers, read : Row]]
  /\ participants \in [Workers -> Row]
  /\ contended \subseteq Histories

\* What GET /pool-participants/export/:poolAddress adds up for a user: the
\* amounts of all the rows of the user, whose duplicates it groups.
exportParticipants(u) == UNION {participants[d].amount : d \in RowsOf(u)}

(* Nothing a worker credited is lost or counted twice: every finished      *)
(* credit is in exactly one row, a row of its own user, however the        *)
(* read-modify-write of addJobFinalizePool's workers interleave and even   *)
(* when a user ends up with several rows.                                  *)
NoCreditLost ==
  /\ \A w \in Workers :
       /\ pc[w] = "credited" <=> w \in exportParticipants(UserOf(w))
       /\ \A d, e \in Workers :
            w \in participants[d].amount \cap participants[e].amount => d = e
  /\ \A d, w \in Workers : w \in participants[d].amount => UserOf(w) = UserOf(d)

(* The two fields a worker updates together stay together: the ids of a    *)
(* row are the histories of its amount, but for the first one, which       *)
(* create() misnames.                                                      *)
IdsMatchAmount ==
  \A d \in Workers : Exists(d) =>
    /\ d \in participants[d].amount
    /\ participants[d].ids = participants[d].amount \ {d}

(* A history is credited at most once, whatever jobs are armed for the     *)
(* address and wherever the process dies, unless two runs had it undecided *)
(* at the same time or a client reopened it after its credit was due.      *)
CreditedAtMostOnce ==
  \A h \in Histories \ contended : \A w1, w2 \in WorkersOf(h) :
    pc[w1] = "credited" /\ pc[w2] = "credited" => w1 = w2

(* A credited history is not left as failed by the cron: the status and    *)
(* the ledger, two collections written without a transaction, agree unless *)
(* the history was contended or a client wrote the status.                 *)
CreditedIsSucceeded ==
  \A w \in Workers :
    LET h == HistoryOf(w) IN
    pc[w] = "credited" /\ h \notin contended /\ history[h].by = "cron"
      => history[h].status = "succeeded"

(* The status is saved before the credit: what the cron reports as         *)
(* succeeded is credited, or on its way, unless the process died between   *)
(* the two saves.                                                          *)
SucceededIsAccounted ==
  \A h \in Histories :
    history[h] = [status |-> "succeeded", by |-> "cron"] =>
      \E w \in WorkersOf(h) :
        \/ Crediting(w)
        \/ ~Live(w) /\ pc[w] \in {"find", "create", "update"}

(* The ledger: what an export adds up for a user only ever grows, by one    *)
(* credit at a time, of a join of the user that is recorded, decided and   *)
(* not credited yet unless it was contended.                               *)
Ledger == INSTANCE ParticipantLedger
            WITH status <- [h \in Histories |-> history[h].status],
                 total <- [u \in Users |-> exportParticipants(u)],
                 disputed <- contended

ImplementsLedger == Ledger!LedgerSpec

----------------------------------------------------------------------------
(* What the comments on Flags (pools.schema.ts) promise.                   *)

Finished(j) == job[j] = "running" /\ \A w \in Workers :
                 JobOf(w) = j => pc[w] \in {"idle", "failed", "credited"}

(* "Check cron finalize participants is running or not": the flag is set   *)
(* only while some job's callback is running.                              *)
CronFlagTellsRunning ==
  flags.is_cron_running =>
    \E j \in Jobs : job[j] \in {"saving", "finding", "running"} /\ ~Finished(j)
=============================================================================
