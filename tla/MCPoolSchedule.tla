-------------------------- MODULE MCPoolSchedule --------------------------
(* Instances of PoolSchedule: all commits name the same pool.              *)
EXTENDS PoolSchedule

OneName == [q \in Commits |-> "name"]
=============================================================================
