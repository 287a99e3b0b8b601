------------------------- MODULE PoolSchedule_proofs ------------------------
(***************************************************************************)
(* The proof that every end to come of a stored pool is armed, for any     *)
(* number of pools, commits, syncs and restarts.                           *)
(*                                                                         *)
(* EndIsArmed is not inductive: a sync that finds its end unchanged writes *)
(* it and arms nothing, although another one may have replaced the end in  *)
(* the meantime.  It may, because the end it loaded was armed then, and an *)
(* end that is to come stays armed (ArmsStands, BasesArmed).               *)
(***************************************************************************)
EXTENDS PoolSchedule, TLAPS

Armed(p, e) == e > now => \E r \in Requests : Arms(r, p, e)

\* A request that armed a job has answered: what it armed is not changed.
JobsAreDone == \A q \in Requests : job[q] # "none" => req[q].pc = "done"

\* A commit loads no end, and names its pool.
CommitsNameTheirs ==
  \A q \in Commits : req[q].base = Absent /\ req[q].pool = q

\* The end a sync has loaded is armed, as long as it is to come.
BasesArmed ==
  \A q \in Syncs : req[q].pc \in {"read", "write"} =>
    req[q].pool \in Commits /\ Armed(req[q].pool, req[q].base)

\* What is about to be written is an end.
EndsRead ==
  \A q \in Requests : req[q].pc \in {"create", "write"} => req[q].end \in Times

\* Commits create and syncs write.
StepsOfTheirOwn ==
  /\ \A q \in Commits : req[q].pc \notin {"read", "write"}
  /\ \A q \in Syncs : req[q].pc # "create"

PoolsArmed == \A p \in Commits : Armed(p, poolEnd[p])

Shape ==
  /\ TypeOK
  /\ JobsAreDone
  /\ CommitsNameTheirs
  /\ EndsRead
  /\ StepsOfTheirOwn

IInv == Shape /\ BasesArmed /\ PoolsArmed

----------------------------------------------------------------------------
(* Steps.                                                                  *)

LEMMA TimesAreNat ==
  /\ Times \subseteq Nat /\ Absent \notin Times /\ Absent \in Nat
  /\ \A p \in Commits : p \in Requests /\ p \notin Syncs
  /\ \A q \in Syncs : q \in Requests
  BY BoundsAssumption, RequestsAssumption DEF Times, Absent, Requests

LEMMA InvInit == Init => IInv
<1> SUFFICES ASSUME Init PROVE IInv
  OBVIOUS
<1> USE TimesAreNat
<1>1. TypeOK
  BY BoundsAssumption DEF Init, TypeOK, NewRequest
<1>2. JobsAreDone /\ CommitsNameTheirs /\ EndsRead /\ StepsOfTheirOwn /\ BasesArmed
  BY DEF Init, JobsAreDone, CommitsNameTheirs, EndsRead, StepsOfTheirOwn, BasesArmed, NewRequest
<1>3. PoolsArmed
  BY DEF Init, PoolsArmed, Armed, Absent
<1> QED BY <1>1, <1>2, <1>3 DEF IInv, Shape

\* A request that has armed a job for an end to come, or is about to, is not
\* about to read or to write: no step of its own, and none of another, changes that.
LEMMA ArmsStays ==
  ASSUME IInv, NEW r \in Requests, NEW p, NEW e, Arms(r, p, e),
         \/ req'[r] = req[r] /\ job'[r] = job[r]
         \/ req'[r] = [req[r] EXCEPT !.pc = "lost"] /\ job'[r] = job[r] /\ job[r] = "none"
         \/ req'[r] = req[r] /\ job[r] = "armed" /\ job'[r] = "lost"
  PROVE  Arms(r, p, e)'
  BY TimesAreNat DEF IInv, Shape, TypeOK, Arms, EndChanged

LEMMA ArmsStands ==
  ASSUME IInv, [Next]_vars, NEW r \in Requests, NEW p, NEW e \in Nat,
         Arms(r, p, e), e > now'
  PROVE  Arms(r, p, e)'
<1> USE TimesAreNat
<1>1. /\ req[r].end = e /\ req[r].base # e
      /\ req[r].pc \notin {"idle", "create", "read", "write"}
      /\ now \in Nat /\ job[r] \in {"none", "armed", "fired", "lost"}
      /\ DOMAIN req = Requests /\ DOMAIN job = Requests
  BY BoundsAssumption DEF IInv, Shape, TypeOK, JobsAreDone, Arms, EndChanged
<1>2. ASSUME req'[r] = req[r], job'[r] = job[r] PROVE Arms(r, p, e)'
  BY <1>2, ArmsStays
<1>3. CASE Tick \/ (\E t \in Times : CampaignMoved(t)) \/ UNCHANGED vars
  BY <1>2, <1>3 DEF Tick, CampaignMoved, vars
<1>4. ASSUME NEW q \in Commits, commitInitPool(q) PROVE Arms(r, p, e)'
  BY <1>1, <1>2, <1>4 DEF commitInitPool, CommitRead, CommitRefused, CommitCreate,
                          CommitDuplicate, Goto
<1>5. ASSUME NEW q \in Syncs, NEW s \in Pools, SyncLoad(q, s) PROVE Arms(r, p, e)'
  BY <1>1, <1>2, <1>5 DEF SyncLoad
<1>6. ASSUME NEW q \in Syncs, syncPool(q) PROVE Arms(r, p, e)'
  <2>1. CASE SyncUnchanged(q)
    BY <1>1, <1>2, <2>1 DEF SyncUnchanged, Goto, EndChanged
  <2>2. CASE SyncRead(q) \/ SyncFails(q) \/ SyncWrite(q)
    BY <1>1, <1>2, <2>2 DEF SyncRead, SyncFails, SyncWrite, WriteEnd, Goto
  <2> QED BY <1>6, <2>1, <2>2 DEF syncPool
<1>7. ASSUME NEW q \in Requests, Arm(q) PROVE Arms(r, p, e)'
  <2>1. CASE q # r
    BY <1>1, <1>2, <1>7, <2>1 DEF Arm, addJobFinalizePool, AddJobThrows, Goto
  <2>2. CASE q = r /\ addJobFinalizePool(q)
    BY <2>2 DEF IInv, Shape, TypeOK, addJobFinalizePool, Goto, Arms, EndChanged
  <2>3. ~(q = r /\ AddJobThrows(q))
    BY <1>1 DEF AddJobThrows
  <2> QED BY <1>7, <2>1, <2>2, <2>3 DEF Arm
<1>8. ASSUME NEW q \in Requests, JobFires(q) PROVE Arms(r, p, e)'
  BY <1>1, <1>2, <1>8 DEF JobFires
<1>9. CASE Restart
  <2>1. /\ req'[r] = IF req[r].pc \in {"idle", "done", "refused"} THEN req[r]
                     ELSE [req[r] EXCEPT !.pc = "lost"]
        /\ job'[r] = IF job[r] = "armed" THEN "lost" ELSE job[r]
    BY <1>9 DEF Restart
  <2>2. job[r] # "none" => req[r].pc = "done"
    BY DEF IInv, Shape, JobsAreDone
  <2> QED BY <2>1, <2>2, ArmsStays
<1> QED BY <1>3, <1>4, <1>5, <1>6, <1>7, <1>8, <1>9 DEF Next

LEMMA Clock == [Next]_vars => now' \in {now, now + 1}
<1> SUFFICES ASSUME [Next]_vars PROVE now' \in {now, now + 1}
  OBVIOUS
<1>1. CASE Tick \/ (\E t \in Times : CampaignMoved(t)) \/ UNCHANGED vars \/ Restart
  BY <1>1 DEF Tick, CampaignMoved, vars, Restart
<1>2. ASSUME NEW q \in Commits, commitInitPool(q) PROVE now' = now
  BY <1>2 DEF commitInitPool, CommitRead, CommitRefused, CommitCreate, CommitDuplicate
<1>3. ASSUME NEW q \in Syncs, NEW s \in Pools, SyncLoad(q, s) PROVE now' = now
  BY <1>3 DEF SyncLoad
<1>4. ASSUME NEW q \in Syncs, syncPool(q) PROVE now' = now
  BY <1>4 DEF syncPool, SyncRead, SyncFails, SyncWrite, WriteEnd, SyncUnchanged
<1>5. ASSUME NEW q \in Requests, Arm(q) \/ JobFires(q) PROVE now' = now
  BY <1>5 DEF Arm, addJobFinalizePool, AddJobThrows, JobFires
<1> QED BY <1>1, <1>2, <1>3, <1>4, <1>5 DEF Next

\* So an end that is to come and armed stays armed.
LEMMA ArmedStands ==
  ASSUME IInv, [Next]_vars
  PROVE  /\ now \in Nat /\ now' \in Nat /\ now <= now'
         /\ \A p, e : e \in Nat /\ Armed(p, e) => Armed(p, e)'
<1>1. now \in Nat /\ now' \in Nat /\ now <= now'
  <2>1. now' \in {now, now + 1}
    BY Clock
  <2> QED BY <2>1, BoundsAssumption DEF IInv, Shape, TypeOK
<1>2. ASSUME NEW p, NEW e \in Nat, Armed(p, e), e > now'
      PROVE  \E r \in Requests : Arms(r, p, e)'
  <2>1. PICK r \in Requests : Arms(r, p, e)
    BY <1>1, <1>2 DEF Armed
  <2> QED BY <1>2, <2>1, ArmsStands
<1> QED BY <1>1, <1>2 DEF Armed

----------------------------------------------------------------------------
(* Every step keeps the invariant.                                         *)

\* A request that is about to write, or writes, and what it has loaded.
LEMMA Requested ==
  ASSUME IInv
  PROVE  /\ now \in Nat /\ DOMAIN req = Requests /\ DOMAIN job = Requests
         /\ DOMAIN poolEnd = Commits
         /\ \A p \in Commits : poolEnd[p] \in Nat
         /\ \A q \in Requests : req[q].base \in Nat
<1>1. now \in Nat /\ DOMAIN req = Requests /\ DOMAIN job = Requests /\ DOMAIN poolEnd = Commits
  BY BoundsAssumption DEF IInv, Shape, TypeOK
<1>2. ASSUME NEW p \in Commits PROVE poolEnd[p] \in Nat
  BY TimesAreNat DEF IInv, Shape, TypeOK
<1>3. ASSUME NEW q \in Requests PROVE req[q].base \in Nat
  BY TimesAreNat DEF IInv, Shape, TypeOK
<1> QED BY <1>1, <1>2, <1>3

\* A pool stays armed while its end stays.
LEMMA OthersStayArmed ==
  ASSUME IInv, [Next]_vars, NEW p \in Commits, poolEnd'[p] = poolEnd[p]
  PROVE  Armed(p, poolEnd[p])'
<1>1. PICK e \in Nat : poolEnd[p] = e
  BY Requested
<1>2. Armed(p, e)
  BY <1>1 DEF IInv, PoolsArmed, Armed
<1>3. Armed(p, e)'
  BY <1>2, ArmedStands
<1> QED BY <1>1, <1>3 DEF Armed, Arms, EndChanged

LEMMA PoolsStayArmed ==
  ASSUME IInv, [Next]_vars, poolEnd' = poolEnd
  PROVE  PoolsArmed'
BY OthersStayArmed DEF PoolsArmed

\* So does the end that a sync has loaded.
LEMMA BaseStaysArmed ==
  ASSUME IInv, [Next]_vars, NEW q \in Syncs, req[q].pc \in {"read", "write"},
         req'[q].pool = req[q].pool, req'[q].base = req[q].base
  PROVE  req'[q].pool \in Commits /\ Armed(req[q].pool, req[q].base)'
<1>1. PICK p \in Commits, e \in Nat : req[q].pool = p /\ req[q].base = e
  BY Requested, TimesAreNat DEF IInv, BasesArmed
<1>2. Armed(p, e)
  BY <1>1 DEF IInv, BasesArmed, Armed
<1>3. Armed(p, e)'
  BY <1>2, ArmedStands
<1> QED BY <1>1, <1>3 DEF Armed, Arms, EndChanged

LEMMA BasesStayArmed ==
  ASSUME IInv, [Next]_vars,
         \A q \in Syncs : req'[q].pc \in {"read", "write"} =>
           /\ req[q].pc \in {"read", "write"}
           /\ req'[q].pool = req[q].pool /\ req'[q].base = req[q].base
  PROVE  BasesArmed'
BY BaseStaysArmed DEF BasesArmed

\* The request q moves to another place without an end to keep.
LEMMA InvMove ==
  ASSUME IInv, [Next]_vars, NEW q \in Requests, NEW pc, req[q].pc # "done",
         req' = [req EXCEPT ![q].pc = pc], pc \in {"done", "refused"},
         UNCHANGED <<now, chainEnd, poolEnd, restarts>>,
         job' = job \/ (pc = "done" /\ job' = [job EXCEPT ![q] = "armed"])
  PROVE  IInv'
<1>1. Shape'
  BY TimesAreNat DEF IInv, Shape, TypeOK, JobsAreDone, CommitsNameTheirs, EndsRead, StepsOfTheirOwn
<1>2. BasesArmed'
  BY BasesStayArmed, TimesAreNat, Requested
<1>3. PoolsArmed'
  BY PoolsStayArmed
<1> QED BY <1>1, <1>2, <1>3 DEF IInv

LEMMA InvCommitRead ==
  ASSUME IInv, [Next]_vars, NEW q \in Commits, CommitRead(q)
  PROVE  IInv'
<1>1. Shape'
  BY TimesAreNat DEF IInv, CommitRead, Shape, TypeOK, JobsAreDone, CommitsNameTheirs, EndsRead, StepsOfTheirOwn
<1>2. BasesArmed'
  BY BasesStayArmed, TimesAreNat, Requested DEF CommitRead
<1>3. PoolsArmed'
  BY PoolsStayArmed DEF CommitRead
<1> QED BY <1>1, <1>2, <1>3 DEF IInv

\* A commit loaded no end, so that it arms the one it writes.
LEMMA InvCommitCreate ==
  ASSUME IInv, [Next]_vars, NEW q \in Commits, CommitCreate(q)
  PROVE  IInv'
<1>1. Shape'
  BY TimesAreNat DEF IInv, CommitCreate, Goto, Shape, TypeOK, JobsAreDone, CommitsNameTheirs, EndsRead, StepsOfTheirOwn
<1>2. BasesArmed'
  BY BasesStayArmed, TimesAreNat, Requested DEF CommitCreate, Goto
<1>3. Arms(q, q, poolEnd[q])'
  BY TimesAreNat DEF IInv, CommitCreate, Goto, Arms, EndChanged, Shape, TypeOK, JobsAreDone, CommitsNameTheirs, EndsRead, StepsOfTheirOwn
<1>4. \A p \in Commits \ {q} : poolEnd'[p] = poolEnd[p]
  BY DEF CommitCreate, IInv, Shape, TypeOK
<1>5. PoolsArmed'
  BY <1>3, <1>4, OthersStayArmed, TimesAreNat DEF PoolsArmed, Armed
<1> QED BY <1>1, <1>2, <1>5 DEF IInv

\* The end that a sync loads is armed.
LEMMA InvSyncLoad ==
  ASSUME IInv, [Next]_vars, NEW q \in Syncs, NEW p \in Pools, SyncLoad(q, p)
  PROVE  IInv'
<1>1. Shape'
  <2>1. p \in Requests /\ poolEnd[p] \in Times \cup {Absent}
    BY TimesAreNat DEF Pools, IInv, Shape, TypeOK
  <2>2. TypeOK'
    BY <2>1, TimesAreNat DEF IInv, SyncLoad, Shape, TypeOK
  <2>3. (JobsAreDone /\ CommitsNameTheirs /\ EndsRead /\ StepsOfTheirOwn)'
    BY TimesAreNat DEF IInv, SyncLoad, Shape, TypeOK, JobsAreDone, CommitsNameTheirs, EndsRead, StepsOfTheirOwn
  <2> QED BY <2>2, <2>3 DEF Shape
<1>2. PoolsArmed'
  BY PoolsStayArmed DEF SyncLoad
<1>3. /\ req'[q].pool = p /\ req'[q].base = poolEnd[p] /\ p \in Commits /\ poolEnd' = poolEnd
      /\ \A t \in Syncs \ {q} : req'[t] = req[t]
  BY TimesAreNat DEF IInv, SyncLoad, Shape, TypeOK, Pools
<1>4. BasesArmed'
  <2>1. ASSUME NEW t \in Syncs, t # q, req'[t].pc \in {"read", "write"}
        PROVE  req'[t].pool \in Commits /\ Armed(req[t].pool, req[t].base)'
    BY <1>3, <2>1, BaseStaysArmed
  <2>2. Armed(req[q].pool, req[q].base)'
    BY <1>2, <1>3 DEF PoolsArmed, Armed, Arms, EndChanged
  <2> QED BY <1>3, <2>1, <2>2 DEF BasesArmed
<1> QED BY <1>1, <1>2, <1>4 DEF IInv

LEMMA InvSyncRead ==
  ASSUME IInv, [Next]_vars, NEW q \in Syncs, SyncRead(q)
  PROVE  IInv'
<1>1. Shape'
  BY TimesAreNat DEF IInv, SyncRead, Shape, TypeOK, JobsAreDone, CommitsNameTheirs, EndsRead, StepsOfTheirOwn
<1>2. BasesArmed'
  BY BasesStayArmed, TimesAreNat, Requested DEF SyncRead
<1>3. PoolsArmed'
  BY PoolsStayArmed DEF SyncRead
<1> QED BY <1>1, <1>2, <1>3 DEF IInv

\* A sync arms the end it writes, or it is the one it loaded, which is armed.
LEMMA InvSyncWrite ==
  ASSUME IInv, [Next]_vars, NEW q \in Syncs, SyncWrite(q)
  PROVE  IInv'
<1> DEFINE p == req[q].pool
           e == req[q].end
<1>1. Shape'
  BY TimesAreNat DEF IInv, SyncWrite, WriteEnd, BasesArmed, Shape, TypeOK, JobsAreDone, CommitsNameTheirs, EndsRead, StepsOfTheirOwn
<1>2. BasesArmed'
  BY BasesStayArmed, TimesAreNat, Requested DEF SyncWrite, WriteEnd
<1>3. /\ p \in Commits /\ e \in Times /\ q \in Requests
      /\ poolEnd'[p] = e /\ \A o \in Commits \ {p} : poolEnd'[o] = poolEnd[o]
      /\ req'[q].pc = "arm" /\ req'[q].pool = p /\ req'[q].end = e /\ req'[q].base = req[q].base
  <2>1. p \in Commits /\ e \in Times /\ q \in Requests
    BY TimesAreNat DEF IInv, SyncWrite, WriteEnd, BasesArmed, Shape, EndsRead
  <2>2. /\ poolEnd' = [poolEnd EXCEPT ![p] = e]
        /\ req' = [req EXCEPT ![q].pc = "arm", ![q].base = req[q].base]
    BY DEF SyncWrite, WriteEnd
  <2> QED BY <2>1, <2>2 DEF IInv, Shape, TypeOK
<1>4. Armed(p, poolEnd[p])'
  <2>1. CASE e = req[q].base
    <3>1. Armed(req[q].pool, req[q].base)
      BY DEF IInv, BasesArmed, SyncWrite, WriteEnd
    <3>2. PICK o \in Commits, n \in Nat : o = p /\ n = e
      BY <1>3, TimesAreNat
    <3>3. Armed(o, n)'
      BY <2>1, <3>1, <3>2, ArmedStands
    <3> QED BY <1>3, <3>2, <3>3 DEF Armed, Arms, EndChanged
  <2>2. CASE e # req[q].base
    BY <1>3, <2>2, TimesAreNat DEF Armed, Arms, EndChanged, IInv, Shape, TypeOK
  <2> QED BY <2>1, <2>2
<1>5. PoolsArmed'
  BY <1>3, <1>4, OthersStayArmed DEF PoolsArmed
<1> QED BY <1>1, <1>2, <1>5 DEF IInv

\* Crashed requests and jobs are lost, the pools and what was armed are not.
LEMMA InvRestart ==
  ASSUME IInv, [Next]_vars, Restart
  PROVE  IInv'
<1>1. /\ \A q \in Requests : req'[q] = IF req[q].pc \in {"idle", "done", "refused"} THEN req[q]
                                     ELSE [req[q] EXCEPT !.pc = "lost"]
      /\ \A q \in Requests : job'[q] = IF job[q] = "armed" THEN "lost" ELSE job[q]
  BY DEF Restart
<1>5. ASSUME NEW q \in Requests
      PROVE  /\ req'[q].pc \in {"idle", "done", "refused", "lost"}
             /\ req'[q].pool = req[q].pool /\ req'[q].base = req[q].base
             /\ req'[q].end = req[q].end
             /\ req[q].pc = "done" => req'[q].pc = "done"
             /\ req'[q] \in [pc : {"idle", "create", "read", "write", "arm", "done",
                                  "refused", "lost"},
                            pool : Requests, base : Times \cup {Absent},
                            end : Times \cup {Absent}]
  <2>1. req[q] \in [pc : {"idle", "create", "read", "write", "arm", "done", "refused", "lost"},
                    pool : Requests, base : Times \cup {Absent}, end : Times \cup {Absent}]
    BY DEF IInv, Shape, TypeOK
  <2>2. CASE req[q].pc \in {"idle", "done", "refused"}
    BY <1>1, <2>1, <2>2
  <2>3. CASE req[q].pc \notin {"idle", "done", "refused"}
    <3>1. req'[q] = [req[q] EXCEPT !.pc = "lost"]
      BY <1>1, <2>3
    <3> QED BY <2>1, <2>3, <3>1
  <2> QED BY <2>2, <2>3
<1>2. Shape'
  <2>1. TypeOK'
    <3>1. req' = [q \in Requests |-> req'[q]] /\ job' = [q \in Requests |-> job'[q]]
      BY DEF Restart
    <3>2. job' \in [Requests -> {"none", "armed", "fired", "lost"}]
      BY DEF IInv, Shape, TypeOK, Restart
    <3>3. now' = now /\ chainEnd' = chainEnd /\ poolEnd' = poolEnd
          /\ restarts' \in 0..MaxRestarts
      BY BoundsAssumption DEF IInv, Shape, TypeOK, Restart
    <3> QED BY <1>5, <3>1, <3>2, <3>3 DEF IInv, Shape, TypeOK
  <2>2. JobsAreDone'
    BY <1>1, <1>5 DEF IInv, Shape, JobsAreDone
  <2>3. (CommitsNameTheirs /\ EndsRead /\ StepsOfTheirOwn)'
    BY <1>5, TimesAreNat DEF IInv, Shape, CommitsNameTheirs, EndsRead, StepsOfTheirOwn
  <2> QED BY <2>1, <2>2, <2>3 DEF Shape
<1>3. BasesArmed'
  BY <1>5, BasesStayArmed, TimesAreNat
<1>4. PoolsArmed'
  BY PoolsStayArmed DEF Restart
<1> QED BY <1>2, <1>3, <1>4 DEF IInv

\* The clock and the campaign touch no request.
LEMMA InvWorld ==
  ASSUME IInv, [Next]_vars,
         Tick \/ (\E e \in Times : CampaignMoved(e)) \/ UNCHANGED vars
  PROVE  IInv'
<1>1. req' = req /\ job' = job /\ poolEnd' = poolEnd
  BY DEF Tick, CampaignMoved, vars
<1>2. Shape'
  <2>1. TypeOK'
    BY BoundsAssumption DEF IInv, Tick, CampaignMoved, vars, Shape, TypeOK
  <2> QED BY <1>1, <2>1 DEF IInv, Shape, JobsAreDone, CommitsNameTheirs, EndsRead,
                            StepsOfTheirOwn
<1>3. BasesArmed'
  BY <1>1, BasesStayArmed
<1>4. PoolsArmed'
  BY <1>1, PoolsStayArmed
<1> QED BY <1>2, <1>3, <1>4 DEF IInv

\* A job that fires was armed, and its end is over.
LEMMA InvFires ==
  ASSUME IInv, [Next]_vars, NEW q \in Requests, JobFires(q)
  PROVE  IInv'
<1>1. Shape'
  BY DEF IInv, JobFires, Shape, TypeOK, JobsAreDone, CommitsNameTheirs, EndsRead, StepsOfTheirOwn
<1>2. BasesArmed' /\ PoolsArmed'
  BY BasesStayArmed, PoolsStayArmed DEF JobFires
<1> QED BY <1>1, <1>2 DEF IInv

LEMMA InvNext == IInv /\ [Next]_vars => IInv'
<1> SUFFICES ASSUME IInv, [Next]_vars PROVE IInv'
  OBVIOUS
<1> USE TimesAreNat
<1>1. CASE Tick \/ (\E e \in Times : CampaignMoved(e)) \/ UNCHANGED vars
  BY <1>1, InvWorld
<1>2. ASSUME NEW q \in Commits, commitInitPool(q) PROVE IInv'
  <2>1. CASE CommitRefused(q) \/ CommitDuplicate(q)
    BY <2>1, InvMove DEF CommitRefused, CommitDuplicate, Goto
  <2> QED BY <1>2, <2>1, InvCommitRead, InvCommitCreate DEF commitInitPool
<1>3. ASSUME NEW q \in Syncs, NEW p \in Pools, SyncLoad(q, p) PROVE IInv'
  BY <1>3, InvSyncLoad
<1>4. ASSUME NEW q \in Syncs, syncPool(q) PROVE IInv'
  <2>1. CASE SyncFails(q)
    BY <2>1, InvMove DEF SyncFails, Goto
  <2>2. CASE SyncUnchanged(q)
    BY <2>2, InvMove DEF SyncUnchanged, Goto
  <2> QED BY <1>4, <2>1, <2>2, InvSyncRead, InvSyncWrite DEF syncPool
<1>5. ASSUME NEW q \in Requests, Arm(q) PROVE IInv'
  <2>1. CASE addJobFinalizePool(q)
    BY <2>1, InvMove DEF addJobFinalizePool, Goto
  <2>2. CASE AddJobThrows(q)
    BY <2>2, InvMove DEF AddJobThrows, Goto
  <2> QED BY <1>5, <2>1, <2>2 DEF Arm
<1>6. ASSUME NEW q \in Requests, JobFires(q) PROVE IInv'
  BY <1>6, InvFires
<1>7. CASE Restart
  BY <1>7, InvRestart
<1> QED BY <1>1, <1>2, <1>3, <1>4, <1>5, <1>6, <1>7 DEF Next

LEMMA Invariance == Spec => []IInv
  BY InvInit, InvNext, PTL DEF Spec

----------------------------------------------------------------------------
(* The theorems.                                                           *)

\* Type correctness of pools, requests and jobs.
THEOREM ScheduleTypeCorrect == Spec => []TypeOK
<1>1. IInv => TypeOK
  BY DEF IInv, Shape
<1> QED BY <1>1, Invariance, PTL

\* Whatever the commits and syncs that raced, and however often the process has
\* restarted, the end of a stored pool that is still to come has its job, armed
\* or about to be, unless a restart lost it: a sync that arms none as it finds
\* its end unchanged writes an end that some other request has armed.
THEOREM EveryEndIsArmed == Spec => []EndIsArmed
<1>1. IInv => EndIsArmed
  BY DEF IInv, PoolsArmed, Armed, EndIsArmed, Pools
<1> QED BY <1>1, Invariance, PTL
=============================================================================
