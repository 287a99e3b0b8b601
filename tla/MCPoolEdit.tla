----------------------------- MODULE MCPoolEdit -----------------------------
(***************************************************************************)
(* Small instances of PoolEdit.                                            *)
(***************************************************************************)
EXTENDS PoolEdit

MCSettings == [default |-> "carol", own |-> "dave"]
MCAddresses == {"alice", "bob", "carol", "dave"}

Body(start, name, slug, liquidity, token) ==
  [pool_start |-> start, name |-> name, slug |-> slug,
   liquidity_percentage |-> liquidity, token |-> token]

MCBodies ==
  {Body(1, "n1", Missing, "5", TRUE), Body(2, "n2", "n1", Missing, TRUE),
   Body(NoDate, Missing, Empty, Missing, TRUE), Body(NoDate, "n2", Missing, "7", FALSE)}
=============================================================================
