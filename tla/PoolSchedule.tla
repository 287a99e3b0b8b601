---------------------------- MODULE PoolSchedule ----------------------------
(***************************************************************************)
(* When the finalize cron jobs of one contract address are armed and fire. *)
(*                                                                         *)
(* Committing a pool (PoolsService.commitInitPool) and syncing it          *)
(* (syncPool) read the campaign on chain, write the pool document and then *)
(* arm a job at its join_pool_end; every await of the two handlers is a    *)
(* step.  A job lives in the memory of the process: it is never cancelled, *)
(* and a restart forgets it.  A job is named by the request that arms it.  *)
(***************************************************************************)
EXTENDS Naturals

CONSTANTS
  Commits,      \* commitInitPool requests; each names the pool it creates
  Syncs,        \* syncPool requests
  PoolKey,      \* the fields of the unique index, for the pool of each commit
  MaxTime,      \* bound of the clock and of the campaign's dates
  MaxRestarts   \* bound of the restarts of the process

ASSUME BoundsAssumption == MaxTime \in Nat /\ MaxRestarts \in Nat
ASSUME RequestsAssumption == Commits \cap Syncs = {}

VARIABLES
  now,       \* the clock
  chainEnd,  \* end of the join phases in the on-chain campaign
  poolEnd,   \* join_pool_end of the pool documents, Absent if there is none
  req,       \* the requests
  job,       \* the job of each request that armed one
  restarts   \* restarts so far

vars == <<now, chainEnd, poolEnd, req, job, restarts>>

Requests == Commits \cup Syncs
Times == 1..MaxTime
Absent == 0

Pools == {p \in Commits : poolEnd[p] # Absent}

\* A request: where it is, its pool, the end it found in the document it loaded
\* and the end it read from the chain.
NewRequest(q) == [pc |-> "idle", pool |-> q, base |-> Absent, end |-> Absent]

\* The end to write differs from the one the request loaded (a commit loads none).
EndChanged(q) == req[q].end # req[q].base

Goto(q, from, to) ==
  /\ req[q].pc = from
  /\ req' = [req EXCEPT ![q].pc = to]

----------------------------------------------------------------------------
Init ==
  /\ now = 0
  /\ chainEnd \in Times
  /\ poolEnd = [p \in Commits |-> Absent]
  /\ req = [q \in Requests |-> NewRequest(q)]
  /\ job = [q \in Requests |-> "none"]
  /\ restarts = 0

Tick ==
  /\ now < MaxTime
  /\ now' = now + 1
  /\ UNCHANGED <<chainEnd, poolEnd, req, job, restarts>>

(* External: the owner moves the end of the campaign on chain.             *)
CampaignMoved(e) ==
  /\ e # chainEnd
  /\ chainEnd' = e
  /\ UNCHANGED <<now, poolEnd, req, job, restarts>>

----------------------------------------------------------------------------
(* commitInitPool                                                          *)

CommitRead(q) ==
  /\ req[q].pc = "idle"
  /\ req' = [req EXCEPT ![q].pc = "create", ![q].end = chainEnd]
  /\ UNCHANGED <<now, chainEnd, poolEnd, job, restarts>>

\* readPool fails, or pool_start is not before the first phase on chain.
CommitRefused(q) ==
  /\ Goto(q, "idle", "refused")
  /\ UNCHANGED <<now, chainEnd, poolEnd, job, restarts>>

CommitCreate(q) ==
  /\ \A p \in Pools : PoolKey[p] # PoolKey[q]
  /\ Goto(q, "create", "arm")
  /\ poolEnd' = [poolEnd EXCEPT ![q] = req[q].end]
  /\ UNCHANGED <<now, chainEnd, job, restarts>>

\* The unique index refuses a second pool with the same key.
CommitDuplicate(q) ==
  /\ \E p \in Pools : PoolKey[p] = PoolKey[q]
  /\ Goto(q, "create", "refused")
  /\ UNCHANGED <<now, chainEnd, poolEnd, job, restarts>>

----------------------------------------------------------------------------
(* syncPool                                                                *)

SyncLoad(q, p) ==
  /\ req[q].pc = "idle"
  /\ req' = [req EXCEPT ![q] = [@ EXCEPT !.pc = "read", !.pool = p, !.base = poolEnd[p]]]
  /\ UNCHANGED <<now, chainEnd, poolEnd, job, restarts>>

SyncRead(q) ==
  /\ req[q].pc = "read"
  /\ req' = [req EXCEPT ![q].pc = "write", ![q].end = chainEnd]
  /\ UNCHANGED <<now, chainEnd, poolEnd, job, restarts>>

\* Mutant: the failure of readPool is not turned into an answer.
SyncFailsUnanswered(q) ==
  /\ Goto(q, "read", "failed")
  /\ UNCHANGED <<now, chainEnd, poolEnd, job, restarts>>

\* readPool fails: the request answers 500.
SyncFails(q) ==
  /\ Goto(q, "read", "refused")
  /\ UNCHANGED <<now, chainEnd, poolEnd, job, restarts>>

WriteEnd(q, base) ==
  /\ req[q].pc = "write"
  /\ poolEnd' = [poolEnd EXCEPT ![req[q].pool] = req[q].end]
  /\ req' = [req EXCEPT ![q].pc = "arm", ![q].base = base]
  /\ UNCHANGED <<now, chainEnd, job, restarts>>

\* Mutant: the new end is compared with the document findOneAndUpdate returns.
SyncWriteForgetsBase(q) == WriteEnd(q, req[q].end)

SyncWrite(q) == WriteEnd(q, req[q].base)

SyncUnchanged(q) ==
  /\ ~EndChanged(q)
  /\ Goto(q, "arm", "done")
  /\ UNCHANGED <<now, chainEnd, poolEnd, job, restarts>>

----------------------------------------------------------------------------
(* addJobFinalizePool, and the cron library (external)                     *)

addJobFinalizePool(q) ==
  /\ EndChanged(q)
  /\ req[q].end > now
  /\ Goto(q, "arm", "done")
  /\ job' = [job EXCEPT ![q] = "armed"]
  /\ UNCHANGED <<now, chainEnd, poolEnd, restarts>>

\* job.start() throws for a date in the past: the request fails, the pool stays.
AddJobThrows(q) ==
  /\ EndChanged(q)
  /\ req[q].end <= now
  /\ Goto(q, "arm", "refused")
  /\ UNCHANGED <<now, chainEnd, poolEnd, job, restarts>>

\* Mutant: the job runs when it is started.
JobFiresAtOnce(q) ==
  /\ job[q] = "armed"
  /\ job' = [job EXCEPT ![q] = "fired"]
  /\ UNCHANGED <<now, chainEnd, poolEnd, req, restarts>>

JobFires(q) ==
  /\ job[q] = "armed"
  /\ req[q].end <= now
  /\ job' = [job EXCEPT ![q] = "fired"]
  /\ UNCHANGED <<now, chainEnd, poolEnd, req, restarts>>

(* The process restarts: requests and armed jobs are forgotten, and nothing *)
(* at start-up arms the jobs of the stored pools again.                     *)
Restart ==
  /\ restarts < MaxRestarts
  /\ restarts' = restarts + 1
  /\ req' = [q \in Requests |->
               IF req[q].pc \in {"idle", "done", "refused"} THEN req[q]
               ELSE [req[q] EXCEPT !.pc = "lost"]]
  /\ job' = [q \in Requests |-> IF job[q] = "armed" THEN "lost" ELSE job[q]]
  /\ UNCHANGED <<now, chainEnd, poolEnd>>

----------------------------------------------------------------------------
commitInitPool(q) ==
  \/ CommitRead(q)
  \/ CommitRefused(q)
  \/ CommitCreate(q)
  \/ CommitDuplicate(q)

syncPool(q) ==
  \/ SyncRead(q)
  \/ SyncFails(q)
  \/ SyncWrite(q)
  \/ SyncUnchanged(q)

Arm(q) == addJobFinalizePool(q) \/ AddJobThrows(q)

Next ==
  \/ Tick
  \/ \E e \in Times : CampaignMoved(e)
  \/ \E q \in Commits : commitInitPool(q)
  \/ \E q \in Syncs, p \in Pools : SyncLoad(q, p)
  \/ \E q \in Syncs : syncPool(q)
  \/ \E q \in Requests : Arm(q)
  \/ \E q \in Requests : JobFires(q)
  \/ Restart

Spec == Init /\ [][Next]_vars

(* Time passes, a due timer fires and a handler that has stored a pool goes *)
(* on to arm its job.                                                       *)
Fairness ==
  /\ WF_vars(Tick)
  /\ \A q \in Requests : WF_vars(Arm(q)) /\ WF_vars(JobFires(q))

FairSpec == Spec /\ Fairness

----------------------------------------------------------------------------
(* Properties.                                                             *)

TypeOK ==
  /\ now \in 0..MaxTime
  /\ chainEnd \in Times
  /\ poolEnd \in [Commits -> Times \cup {Absent}]
  /\ req \in [Requests -> [pc : {"idle", "create", "read", "write", "arm", "done",
                                 "refused", "lost"},
                           pool : Requests,
                           base : Times \cup {Absent},
                           end : Times \cup {Absent}]]
  /\ job \in [Requests -> {"none", "armed", "fired", "lost"}]
  /\ restarts \in 0..MaxRestarts

\* The request has armed a job for the pool at end e, is about to, or lost it
\* when the process restarted.
Arms(q, p, e) ==
  /\ req[q].pool = p
  /\ req[q].end = e
  /\ EndChanged(q)
  /\ job[q] \in {"armed", "lost"} \/ req[q].pc \in {"arm", "lost"}

(* While the join phase of a stored pool is not over, a job waits for its  *)
(* end, whatever syncs raced to write it and although only a sync that     *)
(* changed the end it had loaded arms one: unless a restart lost the job.  *)
EndIsArmed ==
  \A p \in Pools : poolEnd[p] > now => \E q \in Requests : Arms(q, p, poolEnd[p])

(* Every end a stored pool has, while it is in the future, is followed by  *)
(* a run of the cron job for it, unless the process restarts, or the end   *)
(* passes between the write of the document and addJobFinalizePool.        *)
EndIsFinalized ==
  \A p \in Commits, e \in Times :
    (poolEnd[p] = e /\ e > now) ~>
      \/ \E q \in Requests : /\ req[q].pool = p /\ req[q].end = e
                             /\ job[q] = "fired" \/ req[q].pc = "refused"
      \/ restarts > 0
=============================================================================
