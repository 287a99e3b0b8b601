---------------------------- MODULE MCWhitelist ----------------------------
(* Instances of Whitelist: the lists that requests carry.                  *)
EXTENDS Whitelist

CONSTANTS w1, w2

Of(n1, n2) == [w \in Wallets |-> IF w = w1 THEN n1 ELSE n2]

\* None, one wallet, both, one of them twice, and a list too long.
SmallLists == {Of(0, 0), Of(1, 0), Of(1, 1), Of(2, 0), Of(2, 1)}
=============================================================================
