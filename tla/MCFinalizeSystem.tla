------------------------- MODULE MCFinalizeSystem -------------------------
(***************************************************************************)
(* An instance of FinalizeSystem: one pool and the joins of one user.  A   *)
(* behaviour has either a moving end or several joins: both at once are    *)
(* out of TLC's reach.                                                     *)
(***************************************************************************)
EXTENDS FinalizeSystem

CONSTANTS u1, h1

OneUser == [h \in Histories |-> u1]
DistinctKeys == [q \in Commits |-> q]

VARIABLE part

parts == {"moving end", "several joins"}

\* One join while a sync moves the end; or all the joins, whose workers may
\* conflict, with a client that writes one of them, an end no later than 1, and
\* no sync.
Within ==
  \/ part = "moving end" /\ \A h \in Histories \ {h1} : history[h].status = "absent"
  \/ /\ part = "several joins" /\ now <= 1 /\ chainEnd <= 1
     /\ \A q \in Syncs : req[q].pc = "idle"
     /\ \A h \in Histories \ {h1} : history[h].by # "client"

partVars == <<vars, part>>
Inside(A) == A /\ UNCHANGED part /\ Within'

PartInit == Init /\ part \in parts /\ Within

PartSpec ==
  /\ PartInit
  /\ [][Inside(Next)]_partVars
  /\ WF_partVars(Inside(Schedule!Tick /\ UNCHANGED runVars))
  /\ \A q \in Schedule!Requests : WF_partVars(Inside(JobStep(q)))
  /\ \A w \in Run!Workers : WF_partVars(Inside(WorkerStep(w) \/ UpdateRejected(w)))
=============================================================================
