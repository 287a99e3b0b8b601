--------------------------- MODULE MCFinalizeRun ---------------------------
(* Instances of FinalizeRun: all joins are of one user.                    *)
EXTENDS FinalizeRun

CONSTANT u1

SameUser == [h \in Histories |-> u1]
=============================================================================
