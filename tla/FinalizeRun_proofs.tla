------------------------ MODULE FinalizeRun_proofs ------------------------
(***************************************************************************)
(* Proofs about FinalizeRun, for every set of users, histories and jobs.   *)
(***************************************************************************)
EXTENDS FinalizeRun, TLAPS

LEMMA WorkerParts ==
  \A w \in Workers : /\ JobOf(w) \in Jobs
                     /\ HistoryOf(w) \in Histories
                     /\ UserOf(w) \in Users
  BY HistoryUserAssumption DEF Workers, JobOf, HistoryOf, UserOf

----------------------------------------------------------------------------
(* Type correctness.                                                       *)

LEMMA TypeInit == Init => TypeOK
  BY DEF Init, TypeOK, NoCopy, NoRow, Row, Status

\* A step of a worker keeps the types: the rows it writes are built from sets
\* of workers and a version it has read.
LEMMA TypeWorkerStep ==
  ASSUME TypeOK, NEW w \in Workers, WorkerStep(w)
  PROVE  TypeOK'
<1> USE WorkerParts
<1>1. CASE CheckAccount(w)
  BY <1>1 DEF TypeOK, CheckAccount, Transition
<1>2. CASE SaveFailed(w)
  BY <1>2 DEF TypeOK, SaveFailed, SaveStatus, Transition, Status
<1>3. CASE SaveSucceeded(w)
  BY <1>3 DEF TypeOK, SaveSucceeded, SaveStatus, Transition, Status
<1>4. CASE FindParticipant(w)
  <2>1. CASE UNCHANGED copy
    BY <1>4, <2>1 DEF TypeOK, FindParticipant, Transition
  <2>2. ASSUME NEW d \in Workers,
               Transition(w, "find", "update"),
               copy' = [copy EXCEPT ![w] = [row |-> d, read |-> participants[d]]]
        PROVE  TypeOK'
    BY <1>4, <2>2 DEF TypeOK, FindParticipant, Transition
  <2> QED BY <1>4, <2>1, <2>2 DEF FindParticipant, RowsOf
<1>5. CASE CreateParticipant(w)
  BY <1>5 DEF TypeOK, CreateParticipant, Transition, Row
<1>6. CASE UpdateParticipant(w)
  <2> DEFINE d == copy[w].row
             new == [amount |-> copy[w].read.amount \cup {w},
                     ids |-> copy[w].read.ids \cup {w}, v |-> copy[w].read.v + 1]
  <2>1. d \in Workers /\ new \in Row
    BY DEF TypeOK, Row
  <2>2. participants' = [participants EXCEPT ![d] = new]
    BY <1>6 DEF UpdateParticipant, SaveRow
  <2>3. participants' \in [Workers -> Row]
    BY <2>1, <2>2 DEF TypeOK
  <2>4. NoCopy(w) \in [row : Workers, read : Row]
    BY DEF NoCopy, NoRow, Row
  <2> QED BY <1>6, <2>3, <2>4 DEF TypeOK, UpdateParticipant, SaveRow, Transition
<1>7. CASE UpdateRejected(w)
  BY <1>7 DEF TypeOK, UpdateRejected, Exit
<1> QED BY <1>1, <1>2, <1>3, <1>4, <1>5, <1>6, <1>7 DEF WorkerStep

LEMMA TypeStep == TypeOK /\ [Next]_vars => TypeOK'
<1> SUFFICES ASSUME TypeOK, [Next]_vars PROVE TypeOK'
  OBVIOUS
<1> USE WorkerParts
<1>1. ASSUME NEW h \in Histories, userJoinPool(h) PROVE TypeOK'
  BY <1>1 DEF TypeOK, userJoinPool, Status
<1>2. ASSUME NEW h \in Histories, NEW s \in Status, updateJoinPoolHistory(h, s)
      PROVE  TypeOK'
  BY <1>2 DEF TypeOK, updateJoinPoolHistory, OverwriteStatus, Status
<1>3. ASSUME NEW u \in Users, AccountCreated(u) PROVE TypeOK'
  BY <1>3 DEF TypeOK, AccountCreated
<1>4. ASSUME NEW j \in Jobs, addJobFinalizePool(j) PROVE TypeOK'
  BY <1>4 DEF TypeOK, addJobFinalizePool
<1>5. ASSUME NEW j \in Jobs, JobStep(j) PROVE TypeOK'
  <2>1. CASE JobFires(j)
    BY <2>1 DEF TypeOK, JobFires
  <2>2. CASE SaveCronRunning(j)
    BY <2>2 DEF TypeOK, SaveCronRunning
  <2>3. CASE FindPending(j)
    BY <2>3 DEF TypeOK, FindPending, StartWorkers
  <2> QED BY <1>5, <2>1, <2>2, <2>3 DEF JobStep
<1>6. ASSUME NEW w \in Workers, WorkerStep(w) PROVE TypeOK'
  BY <1>6, TypeWorkerStep
<1>7. CASE Exit
  BY <1>7 DEF TypeOK, Exit
<1>8. CASE UNCHANGED vars
  BY <1>8 DEF TypeOK, vars
<1> QED BY <1>1, <1>2, <1>3, <1>4, <1>5, <1>6, <1>7, <1>8 DEF Next

\* Every variable of the finalize run keeps its type, for all constants.
THEOREM TypeCorrect == Spec => []TypeOK
  BY TypeInit, TypeStep, PTL DEF Spec

----------------------------------------------------------------------------
(* Workers start once, and only for recorded histories.                    *)

\* A worker that has started belongs to a job whose callback has read the
\* pending histories, and to a history that was recorded.
Started ==
  \A w \in Workers : pc[w] # "idle" =>
    /\ job[JobOf(w)] \in {"running", "lost"}
    /\ history[HistoryOf(w)].status # "absent"

LEMMA StartedInit == Init => Started
  BY DEF Init, Started

LEMMA StartedStep == TypeOK /\ Started /\ [Next]_vars => Started'
<1> SUFFICES ASSUME TypeOK, Started, [Next]_vars PROVE Started'
  OBVIOUS
<1> USE WorkerParts
<1>1. ASSUME NEW h \in Histories, userJoinPool(h) PROVE Started'
  BY <1>1 DEF TypeOK, Started, userJoinPool
<1>2. ASSUME NEW h \in Histories, NEW s \in Status, updateJoinPoolHistory(h, s)
      PROVE  Started'
  BY <1>2 DEF TypeOK, Started, updateJoinPoolHistory, OverwriteStatus, Status
<1>3. ASSUME NEW u \in Users, AccountCreated(u) PROVE Started'
  BY <1>3 DEF Started, AccountCreated
<1>4. ASSUME NEW j \in Jobs, addJobFinalizePool(j) PROVE Started'
  BY <1>4 DEF TypeOK, Started, addJobFinalizePool
<1>5. ASSUME NEW j \in Jobs, JobStep(j) PROVE Started'
  <2>1. CASE JobFires(j)
    BY <2>1 DEF TypeOK, Started, JobFires
  <2>2. CASE SaveCronRunning(j)
    BY <2>2 DEF TypeOK, Started, SaveCronRunning
  <2>3. CASE FindPending(j)
    BY <2>3 DEF TypeOK, Started, FindPending, StartWorkers
  <2> QED BY <1>5, <2>1, <2>2, <2>3 DEF JobStep
<1>6. ASSUME NEW w \in Workers, WorkerStep(w) PROVE Started'
  <2>1. CASE SaveFailed(w) \/ SaveSucceeded(w)
    BY <2>1 DEF TypeOK, Started, SaveFailed, SaveSucceeded, SaveStatus, Transition,
                Live
  <2>2. CASE UpdateRejected(w)
    BY <2>2 DEF TypeOK, Started, UpdateRejected, Exit
  <2>3. CASE CheckAccount(w) \/ FindParticipant(w) \/ CreateParticipant(w)
               \/ UpdateParticipant(w)
    <3>1. UNCHANGED <<history, job>> /\ pc[w] # "idle"
          /\ \A x \in Workers : x # w => pc'[x] = pc[x]
      BY <2>3 DEF TypeOK, CheckAccount, FindParticipant, CreateParticipant,
                  UpdateParticipant, SaveRow, Transition
    <3> QED BY <3>1 DEF Started
  <2> QED BY <1>6, <2>1, <2>2, <2>3 DEF WorkerStep
<1>7. CASE Exit
  BY <1>7 DEF TypeOK, Started, Exit
<1>8. CASE UNCHANGED vars
  BY <1>8 DEF Started, vars
<1> QED BY <1>1, <1>2, <1>3, <1>4, <1>5, <1>6, <1>7, <1>8 DEF Next

----------------------------------------------------------------------------
(* The ledger.  The inductive invariant says of each row what it contains, *)
(* of each finished credit that some row contains it, and of each worker   *)
(* about to save that it holds an older version of the row, or the row.    *)

\* A row is absent, or contains its creator and, as ids, all the others.
RowsWellFormed ==
  \A d \in Workers :
    /\ Exists(d) => /\ d \in participants[d].amount
                    /\ participants[d].ids = participants[d].amount \ {d}
    /\ \A w \in participants[d].amount : UserOf(w) = UserOf(d)

\* The finished credits are what the rows contain, each in one row.
RowsAreCredits ==
  /\ \A w \in Workers :
       pc[w] = "credited" <=> \E d \in Workers : w \in participants[d].amount
  /\ \A d, e, w \in Workers :
       w \in participants[d].amount /\ w \in participants[e].amount => d = e

\* The version lock: a copy with the version of the row is the row.
CopyVersioned(w) ==
  LET d == copy[w].row
      read == copy[w].read
  IN  /\ Exists(d)
      /\ UserOf(d) = UserOf(w)
      /\ read.v <= participants[d].v
      /\ read.v = participants[d].v => read = participants[d]

CopiesVersioned == \A w \in Workers : pc[w] = "update" => CopyVersioned(w)

LedgerInv == RowsWellFormed /\ RowsAreCredits /\ CopiesVersioned

LEMMA LedgerInit == Init => LedgerInv
  BY DEF Init, LedgerInv, RowsWellFormed, RowsAreCredits, CopiesVersioned, Exists, NoRow

\* A step that writes no row and moves no worker into or out of "update" and
\* "credited" keeps the ledger.
LEMMA LedgerUntouched ==
  ASSUME LedgerInv, UNCHANGED <<participants, copy>>,
         \A w \in Workers : \/ pc'[w] = pc[w]
                            \/ /\ pc[w] \notin {"update", "credited"}
                               /\ pc'[w] \notin {"update", "credited"}
  PROVE  LedgerInv'
<1>1. RowsWellFormed'
  BY DEF LedgerInv, RowsWellFormed, Exists
<1>2. RowsAreCredits'
  BY DEF LedgerInv, RowsAreCredits
<1>3. CopiesVersioned'
  BY DEF LedgerInv, CopiesVersioned, CopyVersioned, Exists
<1> QED BY <1>1, <1>2, <1>3 DEF LedgerInv

\* findOne: the copy is the row at this moment.
LEMMA LedgerFind ==
  ASSUME TypeOK, LedgerInv, NEW w \in Workers, FindParticipant(w)
  PROVE  LedgerInv'
<1> USE WorkerParts
<1>1. CASE RowsOf(UserOf(w)) = {} /\ Transition(w, "find", "create") /\ UNCHANGED copy
  BY <1>1, LedgerUntouched DEF TypeOK, FindParticipant, Transition
<1>2. ASSUME NEW d \in RowsOf(UserOf(w)),
             Transition(w, "find", "update"),
             copy' = [copy EXCEPT ![w] = [row |-> d, read |-> participants[d]]]
      PROVE  LedgerInv'
  <2>1. d \in Workers /\ Exists(d) /\ UserOf(d) = UserOf(w)
    BY DEF RowsOf
  <2>2. UNCHANGED participants
    BY DEF FindParticipant
  <2>3. RowsWellFormed'
    BY <2>2 DEF LedgerInv, RowsWellFormed, Exists
  <2>4. RowsAreCredits'
    BY <1>2, <2>2 DEF TypeOK, LedgerInv, RowsAreCredits, Transition
  <2>5. CopiesVersioned'
    <3> SUFFICES ASSUME NEW x \in Workers, pc'[x] = "update"
                 PROVE  CopyVersioned(x)'
      BY DEF CopiesVersioned
    <3>1. CASE x = w
      BY <1>2, <2>1, <2>2, <3>1 DEF TypeOK, CopyVersioned, Exists, Row
    <3>2. CASE x # w
      BY <1>2, <2>2, <3>2 DEF TypeOK, LedgerInv, CopiesVersioned, CopyVersioned, Exists, Transition
    <3> QED BY <3>1, <3>2
  <2> QED BY <2>3, <2>4, <2>5 DEF LedgerInv
<1> QED BY <1>1, <1>2 DEF FindParticipant

\* create: the worker had no row, and no worker holds a copy of it.
LEMMA LedgerCreate ==
  ASSUME TypeOK, LedgerInv, NEW w \in Workers, CreateParticipant(w)
  PROVE  LedgerInv'
<1> DEFINE new == [amount |-> {w}, ids |-> {}, v |-> 0]
<1>1. /\ participants' = [participants EXCEPT ![w] = new]
      /\ pc[w] = "create" /\ pc' = [pc EXCEPT ![w] = "credited"]
      /\ UNCHANGED copy
  BY DEF CreateParticipant, Transition
<1>2. ~Exists(w) /\ \A d \in Workers : w \notin participants[d].amount
  BY <1>1 DEF LedgerInv, RowsAreCredits, RowsWellFormed
<1>3. /\ participants'[w] = new
      /\ \A d \in Workers : d # w => participants'[d] = participants[d]
  BY <1>1 DEF TypeOK
<1>4. RowsWellFormed'
  BY <1>2, <1>3 DEF LedgerInv, RowsWellFormed, Exists
<1>5. RowsAreCredits'
  BY <1>1, <1>2, <1>3 DEF TypeOK, LedgerInv, RowsAreCredits, Exists
<1>6. CopiesVersioned'
  BY <1>1, <1>2, <1>3 DEF TypeOK, LedgerInv, CopiesVersioned, CopyVersioned, Exists
<1> QED BY <1>4, <1>5, <1>6 DEF LedgerInv

\* save: the version matches, so the copy is the row and nothing is overwritten.
LEMMA LedgerUpdate ==
  ASSUME TypeOK, LedgerInv, NEW w \in Workers, UpdateParticipant(w)
  PROVE  LedgerInv'
<1> DEFINE d == copy[w].row
           row == participants[d]
           new == [amount |-> row.amount \cup {w}, ids |-> row.ids \cup {w},
                   v |-> row.v + 1]
<1>1. d \in Workers /\ row \in Row
  BY DEF TypeOK
<1>2. pc[w] = "update" /\ pc' = [pc EXCEPT ![w] = "credited"]
  BY DEF UpdateParticipant, SaveRow, Transition
<1>3. copy[w].read = row /\ Exists(d) /\ UserOf(d) = UserOf(w)
  BY <1>2 DEF UpdateParticipant, SameVersion, LedgerInv,
       CopiesVersioned, CopyVersioned
<1>4. participants' = [participants EXCEPT ![d] = new]
  BY <1>3 DEF UpdateParticipant, SaveRow
<1>5. /\ participants'[d] = new
      /\ \A e \in Workers : e # d => participants'[e] = participants[e]
  BY <1>1, <1>4 DEF TypeOK
<1>6. \A e \in Workers : w \notin participants[e].amount
  BY <1>2 DEF LedgerInv, RowsAreCredits
<1>7. d # w
  BY <1>1, <1>3, <1>6 DEF LedgerInv, RowsWellFormed
<1>8. RowsWellFormed'
  BY <1>1, <1>3, <1>5, <1>6, <1>7 DEF LedgerInv, RowsWellFormed, Exists
<1>9. RowsAreCredits'
  <2>1. \A x, e \in Workers :
          x \in participants'[e].amount <=>
            x \in participants[e].amount \/ (x = w /\ e = d)
    BY <1>1, <1>5 DEF Row
  <2>2. \A x \in Workers : pc'[x] = "credited" <=> pc[x] = "credited" \/ x = w
    BY <1>2 DEF TypeOK
  <2> HIDE DEF d, row, new
  <2> QED BY <1>1, <1>6, <2>1, <2>2 DEF LedgerInv, RowsAreCredits
<1>10. CopiesVersioned'
  <2> SUFFICES ASSUME NEW x \in Workers, pc'[x] = "update"
               PROVE  CopyVersioned(x)'
    BY DEF CopiesVersioned
  <2>1. x # w /\ pc[x] = "update" /\ copy'[x] = copy[x]
    BY <1>2 DEF TypeOK, UpdateParticipant, SaveRow
  <2>2. /\ copy[x].row \in Workers /\ copy[x].read.v \in Nat /\ row.v \in Nat
        /\ copy[x].read.v <= participants[copy[x].row].v
        /\ Exists(copy[x].row) /\ UserOf(copy[x].row) = UserOf(x)
    BY <2>1, <1>1 DEF TypeOK, Row, LedgerInv, CopiesVersioned, CopyVersioned
  <2>3. CASE copy[x].row = d
    BY <2>1, <2>2, <2>3, <1>5 DEF Exists, CopyVersioned
  <2>4. CASE copy[x].row # d
    BY <2>1, <2>2, <2>4, <1>5 DEF Exists, LedgerInv, CopiesVersioned, CopyVersioned
  <2> QED BY <2>3, <2>4
<1> QED BY <1>8, <1>9, <1>10 DEF LedgerInv

LEMMA LedgerStep == TypeOK /\ Started /\ LedgerInv /\ [Next]_vars => LedgerInv'
<1> SUFFICES ASSUME TypeOK, Started, LedgerInv, [Next]_vars PROVE LedgerInv'
  OBVIOUS
<1> USE WorkerParts
<1>1. ASSUME NEW h \in Histories, userJoinPool(h) PROVE LedgerInv'
  BY <1>1, LedgerUntouched DEF userJoinPool
<1>2. ASSUME NEW h \in Histories, NEW s \in Status, updateJoinPoolHistory(h, s)
      PROVE  LedgerInv'
  BY <1>2, LedgerUntouched DEF updateJoinPoolHistory, OverwriteStatus
<1>3. ASSUME NEW u \in Users, AccountCreated(u) PROVE LedgerInv'
  BY <1>3, LedgerUntouched DEF AccountCreated
<1>4. ASSUME NEW j \in Jobs, addJobFinalizePool(j) PROVE LedgerInv'
  BY <1>4, LedgerUntouched DEF addJobFinalizePool
<1>5. ASSUME NEW j \in Jobs, JobStep(j) PROVE LedgerInv'
  <2>1. CASE JobFires(j) \/ SaveCronRunning(j)
    BY <2>1, LedgerUntouched DEF JobFires, SaveCronRunning
  <2>2. CASE FindPending(j)
    \* The workers of a job that is still reading are idle: none is disturbed.
    <3>1. \A w \in Workers : JobOf(w) = j => pc[w] = "idle"
      BY <2>2 DEF Started, FindPending, StartWorkers
    <3> QED BY <2>2, <3>1, LedgerUntouched DEF FindPending, StartWorkers
  <2> QED BY <1>5, <2>1, <2>2 DEF JobStep
<1>6. ASSUME NEW w \in Workers, WorkerStep(w) PROVE LedgerInv'
  <2>1. CASE CheckAccount(w)
    BY <2>1, LedgerUntouched DEF TypeOK, CheckAccount, Transition
  <2>2. CASE SaveFailed(w) \/ SaveSucceeded(w)
    BY <2>2, LedgerUntouched
    DEF TypeOK, SaveFailed, SaveSucceeded, SaveStatus, Transition
  <2>3. CASE FindParticipant(w)
    BY <2>3, LedgerFind
  <2>4. CASE CreateParticipant(w)
    BY <2>4, LedgerCreate
  <2>5. CASE UpdateParticipant(w)
    BY <2>5, LedgerUpdate
  <2>6. CASE UpdateRejected(w)
    BY <2>6, LedgerUntouched DEF UpdateRejected, Exit
  <2> QED BY <1>6, <2>1, <2>2, <2>3, <2>4, <2>5, <2>6 DEF WorkerStep
<1>7. CASE Exit
  BY <1>7, LedgerUntouched DEF Exit
<1>8. CASE UNCHANGED vars
  BY <1>8, LedgerUntouched DEF vars
<1> QED BY <1>1, <1>2, <1>3, <1>4, <1>5, <1>6, <1>7, <1>8 DEF Next

LEMMA LedgerInvariant == Spec => [](TypeOK /\ Started /\ LedgerInv)
  BY TypeInit, TypeStep, StartedInit, StartedStep, LedgerInit, LedgerStep, PTL DEF Spec

\* No credit is lost or counted twice, however the workers interleave and
\* wherever the process dies.
THEOREM NoCreditIsLost == Spec => []NoCreditLost
<1>1. TypeOK /\ LedgerInv => NoCreditLost
  <2> SUFFICES ASSUME TypeOK, LedgerInv PROVE NoCreditLost
    OBVIOUS
  <2>1. ASSUME NEW w \in Workers
        PROVE  pc[w] = "credited" <=> w \in exportParticipants(UserOf(w))
    BY DEF LedgerInv, RowsAreCredits, RowsWellFormed, exportParticipants, RowsOf, Exists
  <2> QED BY <2>1 DEF NoCreditLost, LedgerInv, RowsAreCredits, RowsWellFormed
<1> QED BY <1>1, LedgerInvariant, PTL

\* The ids of a row are the histories of its amount, but for its first one.
THEOREM IdsMatch == Spec => []IdsMatchAmount
<1>1. LedgerInv => IdsMatchAmount
  BY DEF LedgerInv, RowsWellFormed, IdsMatchAmount
<1> QED BY <1>1, LedgerInvariant, PTL

----------------------------------------------------------------------------
(* One credit per history.  The inductive invariant follows the workers    *)
(* that may still credit, or have credited: an uncontended history has one *)
(* at most, and is not open to the find of another job.                    *)

Active(w) == Undecided(w) \/ Crediting(w)

OneActive ==
  \A w1, w2 \in Workers :
    /\ HistoryOf(w1) = HistoryOf(w2) /\ HistoryOf(w1) \notin contended
    /\ Active(w1) /\ Active(w2)
    => w1 = w2

\* The status a worker saved stands until a client writes it, and the client
\* does not reopen the history.
StatusStands ==
  \A w \in Workers : Crediting(w) /\ HistoryOf(w) \notin contended =>
    /\ history[HistoryOf(w)].status # "pending"
    /\ history[HistoryOf(w)].by = "cron" => history[HistoryOf(w)].status = "succeeded"

CreditInv == OneActive /\ StatusStands

LEMMA CreditInit == Init => CreditInv
  BY DEF Init, CreditInv, OneActive, StatusStands, Active, Undecided, Crediting, Live

\* A step after which no more workers are active, or crediting, and which writes
\* no history keeps the invariant.
LEMMA CreditUntouched ==
  ASSUME CreditInv, UNCHANGED history, contended \subseteq contended',
         \A w \in Workers : (Active(w)' => Active(w)) /\ (Crediting(w)' => Crediting(w))
  PROVE  CreditInv'
  BY DEF CreditInv, OneActive, StatusStands

\* The end of the process, with or without the rejected save.
LEMMA CreditExit ==
  ASSUME CreditInv, Exit, TypeOK
  PROVE  CreditInv'
<1>1. UNCHANGED <<history, pc, contended>>
      /\ \A w \in Workers : Live(w)' => Live(w)
  BY WorkerParts DEF Exit, Live, TypeOK
<1> QED BY <1>1, CreditUntouched DEF Active, Undecided, Crediting

\* A client writes a history: if it reopens a credited one, it contends it.
LEMMA CreditClient ==
  ASSUME TypeOK, CreditInv, NEW h \in Histories, NEW s \in Status,
         updateJoinPoolHistory(h, s)
  PROVE  CreditInv'
<1>1. UNCHANGED <<job, pc>> /\ contended \subseteq contended'
  BY DEF updateJoinPoolHistory, OverwriteStatus
<1>2. \A w \in Workers : (Active(w)' <=> Active(w)) /\ (Crediting(w)' <=> Crediting(w))
  BY <1>1 DEF Active, Undecided, Crediting, Live
<1>3. OneActive'
  BY <1>1, <1>2 DEF CreditInv, OneActive
<1>4. history' = [history EXCEPT ![h] = [status |-> s, by |-> "client"]]
      /\ (s = "pending" /\ (\E w \in WorkersOf(h) : Crediting(w)) => h \in contended')
  BY DEF updateJoinPoolHistory, OverwriteStatus
<1>5. StatusStands'
  <2> SUFFICES ASSUME NEW w \in Workers, Crediting(w), HistoryOf(w) \notin contended'
               PROVE  /\ history'[HistoryOf(w)].status # "pending"
                      /\ history'[HistoryOf(w)].by = "cron" =>
                           history'[HistoryOf(w)].status = "succeeded"
    BY <1>2 DEF StatusStands
  <2>1. CASE HistoryOf(w) = h
    <3>1. s # "pending"
      BY <1>4, <2>1 DEF WorkersOf
    <3> QED BY <1>4, <2>1, <3>1 DEF TypeOK
  <2>2. CASE HistoryOf(w) # h
    BY <1>1, <1>4, <2>2, WorkerParts DEF TypeOK, CreditInv, StatusStands
  <2> QED BY <2>1, <2>2
<1> QED BY <1>3, <1>5 DEF CreditInv

\* The find of a job: its workers were idle; a history that has an active worker
\* of another job is not pending, or becomes contended.
LEMMA CreditFind ==
  ASSUME TypeOK, Started, CreditInv, NEW j \in Jobs, FindPending(j)
  PROVE  CreditInv'
<1> DEFINE found == {h \in Histories : history[h].status \in {"pending"}}
<1>1. /\ job[j] = "finding" /\ job' = [job EXCEPT ![j] = "running"]
      /\ pc' = [w \in Workers |-> IF JobOf(w) = j /\ HistoryOf(w) \in found
                                  THEN "account" ELSE pc[w]]
      /\ contended' = contended \cup {h \in found : \E w \in WorkersOf(h) : Undecided(w)}
      /\ UNCHANGED history
  BY DEF FindPending, StartWorkers
<1>2. \A w \in Workers : JobOf(w) = j => pc[w] = "idle"
  BY <1>1 DEF Started
<1>3. \A w \in Workers : JobOf(w) # j =>
        (Active(w)' <=> Active(w)) /\ (Crediting(w)' <=> Crediting(w))
  BY <1>1, WorkerParts DEF TypeOK, Active, Undecided, Crediting, Live
<1>4. \A w \in Workers : JobOf(w) = j =>
        ~Crediting(w)' /\ (Active(w)' => HistoryOf(w) \in found)
  BY <1>1, <1>2 DEF Active, Undecided, Crediting
<1>5. \A w \in Workers : HistoryOf(w) \in found /\ HistoryOf(w) \notin contended' =>
        ~Active(w)
  BY <1>1, WorkerParts DEF CreditInv, StatusStands, Active, WorkersOf
<1>6. OneActive'
  <2> SUFFICES ASSUME NEW w1 \in Workers, NEW w2 \in Workers,
                      HistoryOf(w1) = HistoryOf(w2), HistoryOf(w1) \notin contended',
                      Active(w1)', Active(w2)'
               PROVE  w1 = w2
    BY DEF OneActive, HistoryOf
  <2>1. CASE JobOf(w1) = j /\ JobOf(w2) = j
    BY <2>1 DEF Workers, JobOf, HistoryOf
  <2>2. CASE JobOf(w1) # j /\ JobOf(w2) # j
    BY <1>1, <1>3, <2>2 DEF CreditInv, OneActive
  <2>3. CASE (JobOf(w1) = j) # (JobOf(w2) = j)
    BY <1>3, <1>4, <1>5, <2>3
  <2> QED BY <2>1, <2>2, <2>3
<1>7. StatusStands'
  BY <1>1, <1>3, <1>4 DEF CreditInv, StatusStands, HistoryOf
<1> QED BY <1>6, <1>7 DEF CreditInv

\* A worker saves the status: it is the only active one, if uncontended.
LEMMA CreditSave ==
  ASSUME TypeOK, CreditInv, NEW w \in Workers, SaveFailed(w) \/ SaveSucceeded(w)
  PROVE  CreditInv'
<1>1. /\ Live(w) /\ UNCHANGED <<job, contended>>
      /\ pc[w] \in {"fail", "succeed"}
      /\ \/ /\ pc' = [pc EXCEPT ![w] = "failed"]
            /\ history' = [history EXCEPT ![HistoryOf(w)] =
                                            [status |-> "failed", by |-> "cron"]]
         \/ /\ pc' = [pc EXCEPT ![w] = "find"]
            /\ history' = [history EXCEPT ![HistoryOf(w)] =
                                            [status |-> "succeeded", by |-> "cron"]]
  BY DEF SaveFailed, SaveSucceeded, SaveStatus, Transition
<1>2. Active(w) /\ ~Crediting(w)
  BY <1>1 DEF Active, Undecided, Crediting
<1>3. \A x \in Workers : x # w =>
        (Active(x)' <=> Active(x)) /\ (Crediting(x)' <=> Crediting(x))
  BY <1>1 DEF TypeOK, Active, Undecided, Crediting, Live
<1>4. OneActive'
  BY <1>1, <1>2, <1>3 DEF CreditInv, OneActive, HistoryOf
<1>5. \A x \in Workers : x # w /\ Crediting(x) /\ HistoryOf(x) \notin contended =>
        HistoryOf(x) # HistoryOf(w)
  BY <1>2 DEF CreditInv, OneActive, Active
<1>6. Crediting(w)' => history'[HistoryOf(w)].status = "succeeded"
  BY <1>1, WorkerParts DEF TypeOK, Crediting, Live
<1>7. StatusStands'
  <2> SUFFICES ASSUME NEW x \in Workers, Crediting(x)', HistoryOf(x) \notin contended
               PROVE  /\ history'[HistoryOf(x)].status # "pending"
                      /\ history'[HistoryOf(x)].by = "cron" =>
                           history'[HistoryOf(x)].status = "succeeded"
    BY <1>1 DEF StatusStands
  <2>1. CASE x = w
    BY <1>6, <2>1
  <2>2. CASE x # w
    BY <1>1, <1>3, <1>5, <2>2, WorkerParts DEF TypeOK, CreditInv, StatusStands
  <2> QED BY <2>1, <2>2
<1> QED BY <1>4, <1>7 DEF CreditInv

LEMMA CreditStep == TypeOK /\ Started /\ CreditInv /\ [Next]_vars => CreditInv'
<1> SUFFICES ASSUME TypeOK, Started, CreditInv, [Next]_vars PROVE CreditInv'
  OBVIOUS
<1> USE WorkerParts
<1>1. ASSUME NEW h \in Histories, userJoinPool(h) PROVE CreditInv'
  \* The history was absent: no worker has it.
  <2>1. UNCHANGED <<job, pc, contended>>
        /\ history' = [history EXCEPT ![h] = [status |-> "pending", by |-> "join"]]
        /\ \A w \in Workers : HistoryOf(w) = h => pc[w] = "idle"
    BY <1>1 DEF userJoinPool, Started
  <2> QED BY <2>1 DEF TypeOK, CreditInv, OneActive, StatusStands, Active, Undecided,
                      Crediting, Live
<1>2. ASSUME NEW h \in Histories, NEW s \in Status, updateJoinPoolHistory(h, s)
      PROVE  CreditInv'
  BY <1>2, CreditClient
<1>3. ASSUME NEW u \in Users, AccountCreated(u) PROVE CreditInv'
  BY <1>3, CreditUntouched DEF AccountCreated, Active, Undecided, Crediting, Live
<1>4. ASSUME NEW j \in Jobs, addJobFinalizePool(j) PROVE CreditInv'
  BY <1>4, CreditUntouched
  DEF TypeOK, addJobFinalizePool, Active, Undecided, Crediting, Live
<1>5. ASSUME NEW j \in Jobs, JobStep(j) PROVE CreditInv'
  <2>1. CASE JobFires(j) \/ SaveCronRunning(j)
    BY <2>1, CreditUntouched
    DEF TypeOK, JobFires, SaveCronRunning, Active, Undecided, Crediting, Live
  <2>2. CASE FindPending(j)
    BY <2>2, CreditFind
  <2> QED BY <1>5, <2>1, <2>2 DEF JobStep
<1>6. ASSUME NEW w \in Workers, WorkerStep(w) PROVE CreditInv'
  <2>1. CASE SaveFailed(w) \/ SaveSucceeded(w)
    BY <2>1, CreditSave
  <2>2. CASE UpdateRejected(w)
    BY <2>2, CreditExit DEF UpdateRejected
  <2>3. CASE CheckAccount(w) \/ FindParticipant(w) \/ CreateParticipant(w)
               \/ UpdateParticipant(w)
    <3>1. /\ UNCHANGED <<history, job, contended>> /\ Live(w)
          /\ \A x \in Workers : x # w => pc'[x] = pc[x]
          /\ \/ pc[w] = "account" /\ pc'[w] \in {"fail", "succeed"}
             \/ /\ pc[w] \in {"find", "create", "update"}
                /\ pc'[w] \in {"create", "update", "credited"}
      BY <2>3 DEF TypeOK, CheckAccount, FindParticipant, CreateParticipant,
                  UpdateParticipant, SaveRow, Transition
    <3>2. \A x \in Workers : (Active(x)' => Active(x)) /\ (Crediting(x)' => Crediting(x))
      BY <3>1 DEF Active, Undecided, Crediting, Live
    <3> QED BY <3>1, <3>2, CreditUntouched
  <2> QED BY <1>6, <2>1, <2>2, <2>3 DEF WorkerStep
<1>7. CASE Exit
  BY <1>7, CreditExit
<1>8. CASE UNCHANGED vars
  BY <1>8, CreditUntouched DEF vars, Active, Undecided, Crediting, Live
<1> QED BY <1>1, <1>2, <1>3, <1>4, <1>5, <1>6, <1>7, <1>8 DEF Next

LEMMA CreditInvariant == Spec => []CreditInv
  BY TypeInit, TypeStep, StartedInit, StartedStep, CreditInit, CreditStep, PTL DEF Spec

\* An uncontended history is credited at most once, whatever jobs are armed.
THEOREM CreditAtMostOnce == Spec => []CreditedAtMostOnce
<1>1. CreditInv => CreditedAtMostOnce
  BY DEF CreditInv, OneActive, CreditedAtMostOnce, WorkersOf, Active, Crediting
<1> QED BY <1>1, CreditInvariant, PTL

\* The status of an uncontended, credited history stays as the cron saved it.
THEOREM CreditKeepsStatus == Spec => []CreditedIsSucceeded
<1>1. CreditInv => CreditedIsSucceeded
  BY DEF CreditInv, StatusStands, CreditedIsSucceeded, Crediting
<1> QED BY <1>1, CreditInvariant, PTL

----------------------------------------------------------------------------
(* What is succeeded is accounted for: a worker that has saved a status    *)
(* succeeded never leaves the places that follow, whether it lives or not. *)

Accounting(w) == pc[w] \in {"find", "create", "update", "credited"}

Accounted ==
  \A h \in Histories :
    history[h].status = "succeeded" /\ history[h].by = "cron" =>
      \E w \in WorkersOf(h) : Accounting(w)

\* A step that loses no accounting worker, and makes no other history succeeded
\* by the cron.
LEMMA AccountedKept ==
  ASSUME Accounted,
         \A w \in Workers : Accounting(w) => Accounting(w)',
         \A h \in Histories :
           history'[h].status = "succeeded" /\ history'[h].by = "cron" => history'[h] = history[h]
  PROVE  Accounted'
  BY DEF Accounted, WorkersOf, HistoryOf, Workers

LEMMA AccountedSave ==
  ASSUME TypeOK, Accounted, NEW w \in Workers, SaveSucceeded(w)
  PROVE  Accounted'
<1>1. /\ pc[w] = "succeed" /\ pc' = [pc EXCEPT ![w] = "find"]
      /\ history' = [history EXCEPT ![HistoryOf(w)] = [status |-> "succeeded", by |-> "cron"]]
  BY DEF SaveSucceeded, SaveStatus, Transition
<1>2. ASSUME NEW v \in Workers, Accounting(v) \/ v = w PROVE Accounting(v)'
  BY <1>1, <1>2 DEF Accounting, TypeOK
<1>3. ASSUME NEW h \in Histories, history'[h].status = "succeeded", history'[h].by = "cron"
      PROVE  \E v \in Workers : HistoryOf(v) = h /\ Accounting(v)'
  <2>1. CASE h = HistoryOf(w)
    BY <1>2, <2>1
  <2>2. CASE h # HistoryOf(w)
    BY <1>1, <1>2, <1>3, <2>2 DEF Accounted, WorkersOf, TypeOK
  <2> QED BY <2>1, <2>2
<1> QED BY <1>3 DEF Accounted, WorkersOf, HistoryOf, Workers

LEMMA AccountedStep == TypeOK /\ Started /\ Accounted /\ [Next]_vars => Accounted'
<1> SUFFICES ASSUME TypeOK, Started, Accounted, [Next]_vars PROVE Accounted'
  OBVIOUS
<1> USE WorkerParts
<1>1. ASSUME NEW h \in Histories, userJoinPool(h) PROVE Accounted'
  BY <1>1, AccountedKept DEF userJoinPool, Accounting, TypeOK
<1>2. ASSUME NEW h \in Histories, NEW s \in Status, updateJoinPoolHistory(h, s)
      PROVE  Accounted'
  BY <1>2, AccountedKept DEF updateJoinPoolHistory, OverwriteStatus, Accounting, TypeOK
<1>3. CASE (\E u \in Users : AccountCreated(u)) \/ (\E j \in Jobs : addJobFinalizePool(j))
           \/ Exit \/ UNCHANGED vars
  BY <1>3, AccountedKept DEF AccountCreated, addJobFinalizePool, Exit, vars, Accounting
<1>4. ASSUME NEW j \in Jobs, JobStep(j) PROVE Accounted'
  <2>1. CASE JobFires(j) \/ SaveCronRunning(j)
    BY <2>1, AccountedKept DEF JobFires, SaveCronRunning, Accounting
  <2>2. CASE FindPending(j)
    \* Its workers were idle.
    BY <2>2, AccountedKept DEF FindPending, StartWorkers, Started, Accounting
  <2> QED BY <1>4, <2>1, <2>2 DEF JobStep
<1>5. ASSUME NEW w \in Workers, WorkerStep(w) PROVE Accounted'
  <2>1. CASE SaveSucceeded(w)
    BY <2>1, AccountedSave
  <2>2. CASE SaveFailed(w)
    BY <2>2, AccountedKept DEF SaveFailed, SaveStatus, Transition, Accounting, TypeOK
  <2>3. CASE CheckAccount(w) \/ FindParticipant(w) \/ CreateParticipant(w)
               \/ UpdateParticipant(w)
    BY <2>3, AccountedKept
    DEF CheckAccount, FindParticipant, CreateParticipant, UpdateParticipant, SaveRow,
        Transition, Accounting, TypeOK
  <2>4. CASE UpdateRejected(w)
    BY <2>4, AccountedKept DEF UpdateRejected, Exit, Accounting
  <2> QED BY <1>5, <2>1, <2>2, <2>3, <2>4 DEF WorkerStep
<1> QED BY <1>1, <1>2, <1>3, <1>4, <1>5 DEF Next

\* A history the cron has saved as succeeded has a worker that credited it, or
\* is about to, or was when the process died.
THEOREM SucceededHasWorker == Spec => []SucceededIsAccounted
<1>1. Init => Accounted
  BY DEF Init, Accounted
<1>2. TypeOK /\ Accounted => SucceededIsAccounted
  BY DEF Accounted, Accounting, SucceededIsAccounted, Crediting
<1> QED BY <1>1, <1>2, TypeInit, TypeStep, StartedInit, StartedStep, AccountedStep, PTL DEF Spec

----------------------------------------------------------------------------
(* FinalizeRun implements ParticipantLedger: its initial states are        *)
(* ledgers to begin with, and each of its steps is a step of the ledger or *)
(* leaves it alone.  It rests on the invariants above: the export of a     *)
(* user is what the workers of the user have credited, whatever rows hold  *)
(* it (LedgerInv), and an uncontended join has one worker that may credit  *)
(* it, and is decided (CreditInv).                                         *)

CreditedOf(u) == {w \in Workers : pc[w] = "credited" /\ UserOf(w) = u}

\* Rows, duplicates and versions drop out of the export.
ExportsAreCredits == \A u \in Users : exportParticipants(u) = CreditedOf(u)

LEMMA ExportIsCredited == TypeOK /\ LedgerInv => ExportsAreCredits
<1> SUFFICES ASSUME TypeOK, LedgerInv, NEW u \in Users
             PROVE  exportParticipants(u) = CreditedOf(u)
  BY DEF ExportsAreCredits
<1>1. ASSUME NEW w \in CreditedOf(u) PROVE w \in exportParticipants(u)
  <2>1. PICK d \in Workers : w \in participants[d].amount
    BY DEF CreditedOf, LedgerInv, RowsAreCredits
  <2>2. d \in RowsOf(u)
    BY <2>1 DEF RowsOf, Exists, LedgerInv, RowsWellFormed, CreditedOf
  <2> QED BY <2>1, <2>2 DEF exportParticipants
<1>2. ASSUME NEW w \in exportParticipants(u) PROVE w \in CreditedOf(u)
  <2>1. PICK d \in RowsOf(u) : w \in participants[d].amount
    BY DEF exportParticipants
  <2>2. d \in Workers /\ UserOf(d) = u /\ w \in Workers
    BY <2>1 DEF RowsOf, TypeOK, Row
  <2> QED BY <2>1, <2>2 DEF CreditedOf, LedgerInv, RowsAreCredits, RowsWellFormed
<1> QED BY <1>1, <1>2

TotalOf == [u \in Users |-> exportParticipants(u)]
StatusOf == [h \in Histories |-> history[h].status]

LEMMA ExportIsCreditedNext == TypeOK' /\ LedgerInv' => ExportsAreCredits'
  BY ExportIsCredited, PTL

\* A step that credits nobody leaves the totals alone.
LEMMA TotalKept ==
  ASSUME ExportsAreCredits, ExportsAreCredits',
         \A w \in Workers : pc'[w] = "credited" <=> pc[w] = "credited"
  PROVE  TotalOf' = TotalOf
  BY DEF TotalOf, ExportsAreCredits, CreditedOf

\* The credits of a join in the ledger are its workers that have credited it.
LEMMA CreditsAreWorkers ==
  ASSUME ExportsAreCredits, NEW h \in Histories
  PROVE  Ledger!CreditsOf(h) = {w \in Workers : pc[w] = "credited" /\ HistoryOf(w) = h}
<1>1. Ledger!CreditsOf(h) = {w \in UNION {CreditedOf(u) : u \in Users} : w[2] = h}
  BY DEF Ledger!CreditsOf, ExportsAreCredits
<1> QED BY <1>1, WorkerParts DEF CreditedOf, HistoryOf

\* A worker that has come to its credit takes the step of the ledger.
LEMMA CreditSteps ==
  ASSUME TypeOK, Started, CreditInv, ExportsAreCredits, ExportsAreCredits',
         NEW w \in Workers, Live(w), pc[w] \in {"create", "update"},
         pc' = [pc EXCEPT ![w] = "credited"], UNCHANGED <<history, contended>>
  PROVE  Ledger!Credit(JobOf(w), HistoryOf(w))
<1> DEFINE h == HistoryOf(w)
           u == HistoryUser[h]
<1>1. h \in Histories /\ u \in Users /\ u = UserOf(w) /\ w = <<JobOf(w), h>>
  BY WorkerParts DEF UserOf, Workers, JobOf, HistoryOf
<1>2. Crediting(w) /\ pc[w] # "idle"
  BY DEF Crediting
<1>3. StatusOf[h] # "absent" /\ StatusOf[h] \in Status \cup {"absent"}
  BY <1>1, <1>2 DEF Started, StatusOf, TypeOK
<1>4. h \notin contended => StatusOf[h] \in {"succeeded", "failed"} /\ Ledger!CreditsOf(h) = {}
  <2> SUFFICES ASSUME h \notin contended
               PROVE  StatusOf[h] \in {"succeeded", "failed"} /\ Ledger!CreditsOf(h) = {}
    OBVIOUS
  <2>1. StatusOf[h] # "pending"
    BY <1>1, <1>2 DEF CreditInv, StatusStands, StatusOf
  <2>2. \A v \in Workers : pc[v] = "credited" => HistoryOf(v) # h
    BY <1>2 DEF CreditInv, OneActive, Active, Crediting
  <2> QED BY <1>1, <1>3, <2>1, <2>2, CreditsAreWorkers DEF Status
<1>5. w \notin TotalOf[u]
  BY <1>1 DEF TotalOf, ExportsAreCredits, CreditedOf
<1>6. TotalOf' = [TotalOf EXCEPT ![u] = @ \cup {w}]
  <2>1. ASSUME NEW v \in Users
        PROVE  CreditedOf(v)' = IF v = u THEN CreditedOf(v) \cup {w} ELSE CreditedOf(v)
    BY <1>1 DEF CreditedOf, TypeOK
  <2>2. TotalOf' = [v \in Users |-> CreditedOf(v)'] /\ TotalOf = [v \in Users |-> CreditedOf(v)]
    BY DEF TotalOf, ExportsAreCredits
  <2> QED BY <1>1, <2>1, <2>2
<1> QED BY <1>1, <1>3, <1>4, <1>5, <1>6 DEF Ledger!Credit, Ledger!Decided, TotalOf, StatusOf

(* Every step.                                                             *)

NobodyCredited == \A w \in Workers : pc'[w] = "credited" <=> pc[w] = "credited"

\* A step that writes no status and credits nobody.
LEMMA LedgerStutter ==
  ASSUME ExportsAreCredits, ExportsAreCredits', NobodyCredited, UNCHANGED <<history, contended>>
  PROVE  UNCHANGED Ledger!ledgerVars
<1>1. TotalOf' = TotalOf
  BY TotalKept DEF NobodyCredited
<1> QED BY <1>1 DEF Ledger!ledgerVars, TotalOf

\* A step that writes one status and credits nobody.
LEMMA StatusSets ==
  ASSUME TypeOK, ExportsAreCredits, ExportsAreCredits', NobodyCredited,
         NEW h \in Histories, NEW s \in Status, NEW by,
         history[h].status # "absent",
         history' = [history EXCEPT ![h] = [status |-> s, by |-> by]],
         contended' \in {contended, contended \cup {h}},
         s = "pending" /\ (\E w \in WorkersOf(h) : pc[w] = "credited") => h \in contended'
  PROVE  Ledger!Set(h, s)
<1>1. TotalOf' = TotalOf
  BY TotalKept DEF NobodyCredited
<1>2. StatusOf' = [StatusOf EXCEPT ![h] = s] /\ StatusOf[h] # "absent"
  BY DEF StatusOf, TypeOK
<1>3. s = "pending" /\ Ledger!CreditsOf(h) # {} => h \in contended'
  BY CreditsAreWorkers DEF WorkersOf
<1> QED BY <1>1, <1>2, <1>3 DEF Ledger!Set, TotalOf, StatusOf

LEMMA WorkerSteps ==
  ASSUME TypeOK, Started, LedgerInv, CreditInv, ExportsAreCredits, ExportsAreCredits',
         NEW w \in Workers, WorkerStep(w)
  PROVE  Ledger!LedgerNext \/ UNCHANGED Ledger!ledgerVars
<1> USE WorkerParts
<1>1. CASE CheckAccount(w) \/ FindParticipant(w)
  <2>1. UNCHANGED <<history, contended>> /\ NobodyCredited
    BY <1>1 DEF CheckAccount, FindParticipant, Transition, NobodyCredited, TypeOK
  <2> QED BY <2>1, LedgerStutter
<1>2. CASE SaveFailed(w) \/ SaveSucceeded(w)
  <2>1. PICK s \in {"failed", "succeeded"} :
          history' = [history EXCEPT ![HistoryOf(w)] = [status |-> s, by |-> "cron"]]
    BY <1>2 DEF SaveFailed, SaveSucceeded, SaveStatus
  <2>2. NobodyCredited /\ contended' = contended /\ pc[w] # "idle"
    BY <1>2 DEF SaveFailed, SaveSucceeded, SaveStatus, Transition, NobodyCredited, TypeOK
  <2>3. history[HistoryOf(w)].status # "absent"
    BY <2>2 DEF Started
  <2>4. Ledger!Set(HistoryOf(w), s)
    BY <2>1, <2>2, <2>3, StatusSets DEF Status
  <2> QED BY <2>4 DEF Ledger!LedgerNext, Ledger!Decided
<1>3. CASE CreateParticipant(w) \/ UpdateParticipant(w)
  <2>1. /\ Live(w) /\ pc[w] \in {"create", "update"}
        /\ pc' = [pc EXCEPT ![w] = "credited"] /\ UNCHANGED <<history, contended>>
    BY <1>3 DEF CreateParticipant, UpdateParticipant, SaveRow, Transition
  <2>2. Ledger!Credit(JobOf(w), HistoryOf(w))
    BY <2>1, CreditSteps
  <2> QED BY <2>2 DEF Ledger!LedgerNext
<1>4. CASE UpdateRejected(w)
  BY <1>4, LedgerStutter DEF UpdateRejected, Exit, NobodyCredited
<1> QED BY <1>1, <1>2, <1>3, <1>4 DEF WorkerStep

LEMMA LedgerSteps ==
  ASSUME TypeOK, Started, LedgerInv, CreditInv, ExportsAreCredits, ExportsAreCredits',
         [Next]_vars
  PROVE  Ledger!LedgerNext \/ UNCHANGED Ledger!ledgerVars
<1>1. ASSUME NEW h \in Histories, userJoinPool(h) PROVE Ledger!Record(h)
  <2>1. TotalOf' = TotalOf
    BY <1>1, TotalKept DEF userJoinPool
  <2>2. StatusOf[h] = "absent" /\ StatusOf' = [StatusOf EXCEPT ![h] = "pending"]
    BY <1>1 DEF userJoinPool, StatusOf, TypeOK
  <2> QED BY <1>1, <2>1, <2>2 DEF userJoinPool, Ledger!Record, TotalOf, StatusOf
<1>2. ASSUME NEW h \in Histories, NEW s \in Status, updateJoinPoolHistory(h, s)
      PROVE  Ledger!Set(h, s)
  BY <1>2, StatusSets
  DEF updateJoinPoolHistory, OverwriteStatus, NobodyCredited, Crediting
<1>3. CASE (\E u \in Users : AccountCreated(u)) \/ (\E j \in Jobs : addJobFinalizePool(j))
           \/ Exit \/ UNCHANGED vars
  BY <1>3, LedgerStutter DEF AccountCreated, addJobFinalizePool, Exit, vars, NobodyCredited
<1>4. ASSUME NEW j \in Jobs, JobStep(j)
      PROVE  Ledger!LedgerNext \/ UNCHANGED Ledger!ledgerVars
  <2>1. CASE JobFires(j) \/ SaveCronRunning(j)
    BY <2>1, LedgerStutter DEF JobFires, SaveCronRunning, NobodyCredited
  <2>2. CASE FindPending(j)
    \* Its workers were idle.
    <3>1. NobodyCredited
      BY <2>2 DEF FindPending, StartWorkers, Started, NobodyCredited
    <3>2. TotalOf' = TotalOf
      BY <3>1, TotalKept DEF NobodyCredited
    <3>3. Ledger!Dispute
      BY <2>2, <3>2 DEF FindPending, StartWorkers, Ledger!Dispute, TotalOf
    <3> QED BY <3>3 DEF Ledger!LedgerNext
  <2> QED BY <1>4, <2>1, <2>2 DEF JobStep
<1>5. ASSUME NEW w \in Workers, WorkerStep(w)
      PROVE  Ledger!LedgerNext \/ UNCHANGED Ledger!ledgerVars
  BY <1>5, WorkerSteps
<1> QED BY <1>1, <1>2, <1>3, <1>4, <1>5 DEF Next, Ledger!LedgerNext, Ledger!Decided, Status

\* Whatever the workers, jobs, clients and crashes, what an export adds up for a
\* user grows by one credit at a time, of a join that is decided and, unless it
\* was contended, not credited before.
THEOREM RunImplementsLedger == Spec => ImplementsLedger
<1>1. Init => Ledger!LedgerInit
  BY DEF Init, Ledger!LedgerInit, exportParticipants, RowsOf, Exists, NoRow
<1>2. /\ TypeOK /\ Started /\ LedgerInv /\ CreditInv /\ [Next]_vars
      /\ TypeOK' /\ LedgerInv'
      => [Ledger!LedgerNext]_(Ledger!ledgerVars)
  BY ExportIsCredited, ExportIsCreditedNext, LedgerSteps
<1> QED BY <1>1, <1>2, LedgerInvariant, CreditInvariant, PTL
        DEF Spec, ImplementsLedger, Ledger!LedgerSpec
=============================================================================
