----------------------------- MODULE StakeLedger ----------------------------
(***************************************************************************)
(* The stake histories: a wallet stakes and unstakes on chain, and its     *)
(* client then reports what it did with POST user/stake/history            *)
(* (StakeService.createJoinPoolHistory), from which the admin exports a    *)
(* table (exportJoinPoolHistory).                                          *)
(*                                                                         *)
(* Nothing checks a report against the chain.  A report may be lost with   *)
(* the client or the service, and a client that gets no answer may repeat  *)
(* one that was stored.                                                    *)
(***************************************************************************)
EXTENDS Integers, FiniteSetsExt

CONSTANTS
  Users,     \* wallets
  Accounts,  \* stake accounts, one for each deployment
  Amounts,   \* amounts of an operation, positive
  Operations \* names of the operations on chain

VARIABLES
  current,  \* CURRENT_STAKE_ACCOUNT of the deployed service
  staked,   \* on chain: the stake of a user in an account
  done,     \* the operations done on chain
  input,    \* the report of an operation
  posts,    \* the reports of an operation on their way
  rows,     \* the documents
  lost,     \* history variable: operations whose report will never come
  repeated  \* history variable: operations that are reported again

vars == <<current, staked, done, input, posts, rows, lost, repeated>>

Actions == {"stake", "unstake"}
CreateUserStakeHistory ==
  [user_address : Users, stake_account : Accounts, action_type : Actions, amount : Amounts]

\* A document is named by the report it comes from, and by which copy of it.
Row == [of : Operations, copy : 0..1, user_address : Users, stake_account : Accounts,
        amount : Int]

\* What an operation adds to the stake.
Moves(i) == IF i.action_type = "stake" THEN i.amount ELSE -i.amount

SumOf(f, S) == FoldFunctionOnSet(+, 0, f, S)

\* The rows of a user in the export.
Exported(u) == {r \in rows : r.stake_account = current /\ r.user_address = u}
Total(u) == SumOf([r \in rows |-> r.amount], Exported(u))

Done(u, a) ==
  {o \in done : input[o].user_address = u /\ input[o].stake_account = a}

----------------------------------------------------------------------------
Init ==
  /\ current \in Accounts
  /\ staked = [u \in Users |-> [a \in Accounts |-> 0]]
  /\ done = {}
  /\ input \in [Operations -> CreateUserStakeHistory]
  /\ posts = [o \in Operations |-> 0]
  /\ rows = {}
  /\ lost = {} /\ repeated = {}

\* On chain, with the SDK of the day: a member unstakes no more than it has.
ChainMoves(o) ==
  LET i == input[o] IN
  /\ o \notin done /\ i.stake_account = current
  /\ staked[i.user_address][current] + Moves(i) >= 0
  /\ staked' = [staked EXCEPT ![i.user_address][current] = @ + Moves(i)]
  /\ done' = done \cup {o}
  /\ posts' = [posts EXCEPT ![o] = 1]
  /\ UNCHANGED <<current, input, rows, lost, repeated>>

Copies(o) == {r \in rows : r.of = o}

Recorded(o, amount) ==
  [of |-> o, copy |-> Cardinality(Copies(o)), user_address |-> input[o].user_address,
   stake_account |-> input[o].stake_account, amount |-> amount]

\* Mutant: the amount of the report is stored as it comes.
createUnsigned(o) ==
  /\ posts[o] > 0
  /\ rows' = rows \cup {Recorded(o, input[o].amount)}
  /\ posts' = [posts EXCEPT ![o] = @ - 1]
  /\ UNCHANGED <<current, staked, done, input, lost, repeated>>

\* An unstake is stored negated.
createJoinPoolHistory(o) ==
  /\ posts[o] > 0
  /\ rows' = rows \cup {Recorded(o, Moves(input[o]))}
  /\ posts' = [posts EXCEPT ![o] = @ - 1]
  /\ UNCHANGED <<current, staked, done, input, lost, repeated>>

\* The client sends its report again, as the answer to the first did not come.
Repeat(o) ==
  /\ o \in done /\ o \notin lost \cup repeated
  /\ posts' = [posts EXCEPT ![o] = @ + 1]
  /\ repeated' = repeated \cup {o}
  /\ UNCHANGED <<current, staked, done, input, rows, lost>>

\* The last report on its way is lost.
Lose(o) ==
  /\ posts[o] = 1 /\ Copies(o) = {}
  /\ posts' = [posts EXCEPT ![o] = 0]
  /\ lost' = lost \cup {o}
  /\ UNCHANGED <<current, staked, done, input, rows, repeated>>

\* The service is deployed with another SDK.
Deploy(a) ==
  /\ a # current /\ current' = a
  /\ UNCHANGED <<staked, done, input, posts, rows, lost, repeated>>

Next ==
  \/ \E o \in Operations :
       ChainMoves(o) \/ createJoinPoolHistory(o) \/ Repeat(o) \/ Lose(o)
  \/ \E a \in Accounts : Deploy(a)

Spec == Init /\ [][Next]_vars

----------------------------------------------------------------------------
(* Properties.                                                             *)

TypeOK ==
  /\ current \in Accounts /\ done \subseteq Operations
  /\ staked \in [Users -> [Accounts -> Nat]]
  /\ input \in [Operations -> CreateUserStakeHistory]
  /\ posts \in [Operations -> 0..2]
  /\ rows \subseteq Row
  /\ lost \subseteq done /\ repeated \subseteq done

\* The export adds up, for every user, to the stake the chain holds but what is
\* still on its way, in whatever order the reports arrive and whichever account
\* was current when they did; a lost or a repeated report is never put right.
ExportAddsUp ==
  \A u \in Users :
    Done(u, current) \cap (lost \cup repeated) = {} =>
      Total(u) + SumOf([o \in done |-> posts[o] * Moves(input[o])], Done(u, current))
        = staked[u][current]
=============================================================================
