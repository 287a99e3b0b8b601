------------------------- MODULE ParticipantLedger --------------------------
(***************************************************************************)
(* What the participants of a pool promise to the reader of their export   *)
(* (PoolParticipantsService.exportParticipants): a total for each user, to *)
(* which the credits of the user's joins are added one by one and from     *)
(* which nothing is ever taken.  There are no rows here, no versions, no   *)
(* awaits and no processes that end: FinalizeRun implements this.          *)
(***************************************************************************)
CONSTANTS Users, Histories, HistoryUser, Jobs

VARIABLES
  status,    \* the status of each join
  total,     \* the credits in the export of each user
  disputed   \* joins for which no more than this is promised

ledgerVars == <<status, total, disputed>>

Decided == {"succeeded", "failed"}

\* The credits of a join, each by the job that decided it.
CreditsOf(h) == {w \in UNION {total[u] : u \in Users} : w[2] = h}

LedgerInit ==
  /\ status = [h \in Histories |-> "absent"]
  /\ total = [u \in Users |-> {}]
  /\ disputed = {}

Record(h) ==
  /\ status[h] = "absent"
  /\ status' = [status EXCEPT ![h] = "pending"]
  /\ UNCHANGED <<total, disputed>>

\* By a job, or by a client, who may also reopen a join: one that has a credit
\* is disputed from then on.
Set(h, s) ==
  /\ status[h] # "absent"
  /\ status' = [status EXCEPT ![h] = s]
  /\ disputed' \in {disputed, disputed \cup {h}}
  /\ s = "pending" /\ CreditsOf(h) # {} => h \in disputed'
  /\ UNCHANGED total

Dispute ==
  /\ disputed \subseteq disputed'
  /\ UNCHANGED <<status, total>>

\* A join is credited to its user, when it is decided, and once.
Credit(j, h) ==
  /\ status[h] # "absent"
  /\ h \notin disputed => status[h] \in Decided /\ CreditsOf(h) = {}
  /\ <<j, h>> \notin total[HistoryUser[h]]
  /\ total' = [total EXCEPT ![HistoryUser[h]] = @ \cup {<<j, h>>}]
  /\ UNCHANGED <<status, disputed>>

LedgerNext ==
  \/ \E h \in Histories : Record(h)
  \/ \E h \in Histories, s \in Decided \cup {"pending"} : Set(h, s)
  \/ Dispute
  \/ \E j \in Jobs, h \in Histories : Credit(j, h)

LedgerSpec == LedgerInit /\ [][LedgerNext]_ledgerVars
=============================================================================
