---------------------------- MODULE MCPoolUpdate ----------------------------
(***************************************************************************)
(* Requests for PoolUpdate over small dates, a second of 2 units, durations *)
(* of less than a second included, and rates in half cents: 9 is not in    *)
(* whole cents, 82 is beyond the digits kept, and one account has a rate,  *)
(* 300 / 100, that is not a rate in cents.                                 *)
(***************************************************************************)
EXTENDS PoolUpdate

Account(early, active) ==
  [rateNumerator |-> IF early /\ ~active THEN 300 ELSE 250, rateDenominator |-> 100,
   max_allocation_all_phases |-> 6,
   claim_at |-> 6, earlyJoinIsActive |-> early,
   earlyJoinMaxTotalAlloc |-> IF early THEN 2 ELSE 0,
   earlyJoinStart |-> IF early THEN 1 ELSE 0, earlyJoinEnd |-> IF early THEN 2 ELSE 0,
   publicIsActive |-> TRUE, publicIndividualAlloc |-> 2, publicStart |-> 2, publicEnd |-> 4,
   isActive |-> active, admin |-> "alice"]

MCAccounts == {Account(early, active) : early, active \in BOOLEAN}

In(start, end, claim, early, duration, all, total, individual, ratio) ==
  [join_pool_start |-> start, join_pool_end |-> end, claim_at |-> claim, early |-> early,
   early_join_duration |-> duration, max_allocation_all_phases |-> all,
   early_total |-> total, public_individual |-> individual, token_ratio |-> ratio]

\* All the combinations of dates.
Dates == {NaN, 4, 5, 7, 8}
DateInputs ==
  {In(s, e, c, early, d, 0, 1, 1, 8) :
     s, e \in Dates, c \in {NaN, 7, 8, 9}, early \in BOOLEAN, d \in {-2, -1, 0, 1, 2, 3}}

\* Everything else.
RaceInputs ==
  {In(4, 8, c, early, 2, all, 4, 2, r) :
     c \in {NaN, 10}, early \in BOOLEAN, all \in {0, 4}, r \in {0, 8, 56}}
  \cup {In(4, 8, NaN, TRUE, 2, 4, 4, 2, 9), In(4, 8, 10, FALSE, 0, 0, 0, 1, 82),
        In(4, 8, 10, FALSE, 0, 0, 0, Missing, 8), In(4, 8, 10, FALSE, 0, 0, 0, 1, 6000),
        In(4, 8, 12, TRUE, 1, 18000, 0, 1, 8)}
=============================================================================
