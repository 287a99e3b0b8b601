----------------------------- MODULE PoolUpdate -----------------------------
(***************************************************************************)
(* The transactions that change a pool account: updateOnchainPool,         *)
(* activatePool and changePoolAdmin of PoolsService.  Each reads the       *)
(* account, checks the request against it and returns an unsigned          *)
(* transaction; the administrator it names as fee payer may sign and send  *)
(* it later, or never, in any order with others.                           *)
(*                                                                         *)
(* The account is a record with the fields of PoolLayout that these        *)
(* requests read or write.  Dates on chain are in seconds.                 *)
(* The handlers read the account once: each is one step.                   *)
(***************************************************************************)
EXTENDS Instructions

CONSTANTS
  Updates, Activations, AdminChanges,   \* requests
  Inputs,      \* bodies of update requests
  Admins,      \* administrators
  Accounts,    \* the pool accounts to start from
  Second,      \* the units of time of a second
  Unit,        \* 10 ^ tokenDecimals
  Precision,   \* 10 ^ 12: the digits kept of a contract rate
  Scale,       \* 10 ^ tokenToDecimals / 10 ^ tokenDecimals, for a rate in cents
  Fine         \* the parts of a cent that a rate is given in, of a token that an amount is

(* A duration is any number of minutes, a ratio or an amount any number    *)
(* that is not negative: durations are counted in units as fine as they    *)
(* need, in which dates are whole too, ratios and amounts in parts.        *)
(*                                                                         *)
(* Dates are of 1970 or later, so that NaN is none of them, the end of an  *)
(* early phase of negative length included.  An amount, a duration or a    *)
(* ratio that is missing is as good as 0, but for the amount of the public *)
(* phase.                                                                  *)
Date == Nat \cup {NaN}

UpdateInput ==
  [join_pool_start : Date, join_pool_end : Date, claim_at : Date,
   early : BOOLEAN, early_join_duration : Int,
   max_allocation_all_phases : Nat, early_total : Nat, public_individual : Nat \cup {NaN},
   token_ratio : Nat]

EarlyEndsAfter1970(in) ==
  in.join_pool_start # NaN => in.join_pool_start + in.early_join_duration >= 0

\* A rate is a fraction of Precision, not reduced.
PoolAccount ==
  [rateNumerator : 1..MaxU64, rateDenominator : {Precision},
   max_allocation_all_phases : 0..MaxU64, claim_at : 0..MaxU64,
   earlyJoinIsActive : BOOLEAN, earlyJoinMaxTotalAlloc : 0..MaxU64,
   earlyJoinStart : 0..MaxU64, earlyJoinEnd : 0..MaxU64,
   publicIsActive : BOOLEAN, publicIndividualAlloc : 0..MaxU64,
   publicStart : 0..MaxU64, publicEnd : 0..MaxU64,
   isActive : BOOLEAN, admin : Admins]

ASSUME RequestsAssumption ==
  /\ Updates \cap Activations = {} /\ Updates \cap AdminChanges = {}
  /\ Activations \cap AdminChanges = {}
ASSUME UnitsAssumption ==
  /\ Second \in Nat \ {0} /\ Fine \in Nat \ {0}
  /\ Unit \in Nat \ {0} /\ Scale \in Nat \ {0} /\ Precision \in 1..MaxU64
ASSUME InputsAssumption == \A in \in Inputs : in \in UpdateInput /\ EarlyEndsAfter1970(in)
ASSUME AccountsAssumption == Accounts \subseteq PoolAccount /\ "none" \notin Admins

VARIABLES
  chain,   \* the pool account
  req      \* the requests: what they were given, read, and returned

vars == <<chain, req>>

Requests == Updates \cup Activations \cup AdminChanges
Missing == NaN

None == <<>>
Nothing == [result |-> "none"]
Failed == [result |-> "refused"]    \* an exception
NoChange == [result |-> "null"]     \* rawTransaction: null
Tx(payer, ops) == [result |-> "tx", payer |-> payer, ops |-> ops]

\* A request: its input, the account it read, what it returned.
Idle == [input |-> None, read |-> None, out |-> Nothing]

----------------------------------------------------------------------------
(* Rates.                                                                  *)

Round(a, b) == (2 * a + b) \div (2 * b)    \* a / b, halves up

\* Mutant: the contract rate is cut instead of rounded.
convertRateCut(ratio) ==
  [numerator |-> (Precision * Scale * Fine) \div ratio, denominator |-> Precision]

\* 1 / rate, with Precision digits (the fraction is not reduced here).
convertRateToDataContract(ratio) ==
  [numerator |-> Round(Precision * Scale * Fine, ratio), denominator |-> Precision]

\* Rounded to whole cents.
convertToUserRate(rate) == Fine * Round(rate.denominator * Scale, rate.numerator)

convertToContractAmount(n) == Round(n * Unit, Fine)

----------------------------------------------------------------------------
(* What is read, and the checks.                                           *)

extractRawPoolData(acc) ==
  [rate |-> convertToUserRate([numerator |-> acc.rateNumerator,
                               denominator |-> acc.rateDenominator]),
   campaign |->
     [max_allocation_all_phases |-> acc.max_allocation_all_phases,
      claim_at |-> acc.claim_at,
      early_join_phase |->
        [is_active |-> acc.earlyJoinIsActive, max_total_alloc |-> acc.earlyJoinMaxTotalAlloc,
         start_at |-> acc.earlyJoinStart, end_at |-> acc.earlyJoinEnd],
      public_phase |->
        [is_active |-> acc.publicIsActive, max_individual_alloc |-> acc.publicIndividualAlloc,
         start_at |-> acc.publicStart, end_at |-> acc.publicEnd]],
   is_active |-> acc.isActive,
   root_admin |-> acc.admin]

\* A comparison in JavaScript: false when a side is NaN.
Compare(a, b, cmp) == a # NaN /\ b # NaN /\ cmp

\* Mutant: the early phase may outlast the pool.
PhasesRefusedAnyLength(in) ==
  LET end == in.join_pool_end
  IN \/ Compare(in.claim_at, end, in.claim_at <= end)
     \/ IF in.early THEN in.early_join_duration = 0
        ELSE Compare(in.join_pool_start, end, in.join_pool_start >= end)

PhasesRefused(in) ==
  LET end == in.join_pool_end
      duration == in.early_join_duration
  IN \/ Compare(in.claim_at, end, in.claim_at <= end)
     \/ IF in.early
        THEN \/ in.early_join_duration = 0
             \/ Compare(in.join_pool_start, end, in.join_pool_start + duration > end)
        ELSE Compare(in.join_pool_start, end, in.join_pool_start >= end)

validateAndGetPhasesTime(in) ==
  LET start == in.join_pool_start
      earlyEnd == IF start = NaN THEN NaN ELSE start + in.early_join_duration
  IN [earlyStart  |-> IF in.early THEN start ELSE 0,
      earlyEnd    |-> IF in.early THEN earlyEnd ELSE 0,
      publicStart |-> IF in.early THEN earlyEnd ELSE start,
      publicEnd   |-> in.join_pool_end,
      claimAt     |-> in.claim_at]

InitPoolParamsRefused(rate, campaign) ==
  \/ rate.denominator = 0 \/ rate.numerator = 0
  \/ /\ campaign.early_join_phase.is_active
     /\ campaign.early_join_phase.max_total_alloc > campaign.max_allocation_all_phases

----------------------------------------------------------------------------
(* createUpdatePoolTx                                                      *)

\* Mutant: only what the request names is sent.
NewCampaignNamedOnly(old, in) ==
  LET time == validateAndGetPhasesTime(in)
  IN [max_allocation_all_phases |-> convertToContractAmount(in.max_allocation_all_phases),
      claim_at |-> Seconds(time.claimAt, Second),
      early_join_phase |->
        [is_active |-> in.early, max_total_alloc |-> convertToContractAmount(in.early_total),
         start_at |-> Seconds(time.earlyStart, Second),
         end_at |-> Seconds(time.earlyEnd, Second)],
      public_phase |->
        [is_active |-> TRUE,
         max_individual_alloc |-> convertToContractAmount(in.public_individual),
         start_at |-> Seconds(time.publicStart, Second),
         end_at |-> Seconds(time.publicEnd, Second)]]

\* The campaign to send: 0 stands for an allocation that is 0 or missing.
NewCampaign(old, in) ==
  LET time == validateAndGetPhasesTime(in)
  IN [max_allocation_all_phases |->
        IF in.max_allocation_all_phases # 0
        THEN convertToContractAmount(in.max_allocation_all_phases)
        ELSE old.max_allocation_all_phases,
      claim_at |-> IF in.claim_at # Missing THEN Seconds(time.claimAt, Second) ELSE old.claim_at,
      early_join_phase |->
        [is_active |-> in.early, max_total_alloc |-> convertToContractAmount(in.early_total),
         start_at |-> Seconds(time.earlyStart, Second),
         end_at |-> Seconds(time.earlyEnd, Second)],
      public_phase |->
        [is_active |-> TRUE,
         max_individual_alloc |-> convertToContractAmount(in.public_individual),
         start_at |-> Seconds(time.publicStart, Second),
         end_at |-> Seconds(time.publicEnd, Second)]]

isChangedCampaign(old, new) == old # new

UsedRate(poolData, in) == IF in.token_ratio # 0 THEN in.token_ratio ELSE poolData.rate

\* A reached test of isChangedCampaign holds whatever it returns: it is a promise.
UpdateOps(poolData, in) ==
  <<[op |-> "setCampaign",
     data |-> Data(setCampaignInstruction, CampaignSource(NewCampaign(poolData.campaign, in)))]>>
  \o IF poolData.rate # in.token_ratio
     THEN <<[op |-> "setRate",
             data |-> Data(setRateInstruction,
                           RateSource(convertRateToDataContract(UsedRate(poolData, in))))]>>
     ELSE <<>>

\* 1 / 0 is no fraction.
createUpdatePoolTx(poolData, in) ==
  LET campaign == NewCampaign(poolData.campaign, in)
      used == UsedRate(poolData, in)
      rate == convertRateToDataContract(used)
  IN IF used = 0 \/ in.public_individual = Missing THEN Failed
     ELSE IF InitPoolParamsRefused(rate, campaign) THEN Failed
     ELSE IF /\ ~isChangedCampaign(poolData.campaign, campaign)
             /\ poolData.rate = in.token_ratio
     THEN NoChange
     ELSE IF \/ poolData.is_active
             \/ ~Encodable(SetCampaignLayout, CampaignSource(campaign))
             \/ /\ poolData.rate # in.token_ratio
                /\ ~Encodable(setRateInstruction.layout, RateSource(rate))
     THEN Failed
     ELSE Tx(poolData.root_admin, UpdateOps(poolData, in))

Update(acc, in) ==
  IF PhasesRefused(in) THEN Failed ELSE createUpdatePoolTx(extractRawPoolData(acc), in)

----------------------------------------------------------------------------
Init ==
  /\ chain \in Accounts
  /\ req = [q \in Requests |-> Idle]

Respond(q, input, out) ==
  /\ req[q].out = Nothing
  /\ req' = [req EXCEPT ![q] = [input |-> input, read |-> chain, out |-> out]]
  /\ UNCHANGED chain

updateOnchainPool(q) ==
  \E in \in Inputs : Respond(q, in, Update(chain, in))

activatePool(q) ==
  Respond(q, None,
          IF chain.isActive THEN Failed
          ELSE Tx(chain.admin, <<[op |-> "setActive",
                                  data |-> Data(setPoolActiveInstruction, [is_active |-> 1])]>>))

\* A body without an administrator is refused.
changePoolAdminTx(q) ==
  \E new \in Admins \cup {"none"} :
    Respond(q, [admin |-> new],
            IF new \in {"none", chain.admin} THEN Failed
            ELSE Tx(chain.admin, <<[op |-> "setAdmin", admin |-> new]>>))

\* The program: it reads its own layout from the data and writes these fields.
Execute(acc, instruction) ==
  LET Read(layout) == Decode(layout, instruction.data)
      Write(layout) ==
        [f \in DOMAIN acc |-> IF f \in Names(layout) \ {"instruction"} THEN Read(layout)[f]
                             ELSE acc[f]]
  IN CASE instruction.op = "setCampaign" -> Write(ProgramSetCampaign)
       [] instruction.op = "setRate"     -> Write(ProgramSetRate)
       [] instruction.op = "setActive"   -> [acc EXCEPT !.isActive =
                                               Read(ProgramSetActive).is_active = 1]
       [] instruction.op = "setAdmin"    -> [acc EXCEPT !.admin = instruction.admin]

\* The fee payer signs and sends a transaction, once, while it is the administrator.
Land(q) ==
  /\ req[q].out.result = "tx"
  /\ req[q].out.payer = chain.admin
  /\ chain' = FoldLeft(Execute, chain, req[q].out.ops)
  /\ req' = [req EXCEPT ![q] = [Idle EXCEPT !.out = [result |-> "landed"]]]

Next ==
  \/ \E q \in Updates : updateOnchainPool(q)
  \/ \E q \in Activations : activatePool(q)
  \/ \E q \in AdminChanges : changePoolAdminTx(q)
  \/ \E q \in Requests : Land(q)

Spec == Init /\ [][Next]_vars

----------------------------------------------------------------------------
(* Properties.                                                             *)

\* The account always holds numbers of its width, a rate and an administrator.
TypeOK ==
  /\ chain \in PoolAccount
  /\ \A q \in Requests : req[q].out.result \in {"none", "refused", "null", "tx", "landed"}

\* A campaign sent with all its dates and a duration that is not negative has
\* phases that meet, as the program reads them: the early one, if there is one,
\* starts before the public one, unless it is shorter than a second and the
\* dates lose it, and ends where the public one starts, which does not end
\* before it starts; the claim is not before the end.
PhasesMeet ==
  \A q \in Updates :
    LET in == req[q].input IN
    /\ req[q].out.result = "tx"
    /\ Missing \notin {in.join_pool_start, in.join_pool_end, in.claim_at}
    /\ in.early => in.early_join_duration > 0
    => LET c == Decode(ProgramSetCampaign, req[q].out.ops[1].data)
       IN /\ c.earlyJoinIsActive =>
               /\ c.earlyJoinStart <= c.earlyJoinEnd /\ c.earlyJoinEnd = c.publicStart
               /\ in.early_join_duration >= Second => c.earlyJoinStart < c.earlyJoinEnd
          /\ ~c.earlyJoinIsActive => c.earlyJoinStart = 0 /\ c.earlyJoinEnd = 0
          /\ c.publicStart <= c.publicEnd /\ c.publicEnd <= c.claim_at

UserRate(acc) ==
  convertToUserRate([numerator |-> acc.rateNumerator, denominator |-> acc.rateDenominator])

\* A landed update that read the account it changes leaves alone what its
\* request does not name: the campaign instruction is part of every
\* transaction (isChangedCampaign is not awaited) and writes all the fields,
\* but with the values read.  A rate is sent again, from the cents it is read
\* as, when the request names none: it moves unless it was a rate in cents.
UnnamedFieldsKept ==
  [][\A q \in Updates :
       Land(q) /\ chain = req[q].read =>
         /\ req[q].input.max_allocation_all_phases = 0 =>
              chain'.max_allocation_all_phases = chain.max_allocation_all_phases
         /\ req[q].input.claim_at = Missing => chain'.claim_at = chain.claim_at
         /\ \/ req[q].input.token_ratio = UserRate(chain)
            \/ /\ req[q].input.token_ratio = 0
               /\ convertRateToDataContract(UserRate(chain)).numerator = chain.rateNumerator
            => chain'.rateNumerator = chain.rateNumerator
         /\ chain'.isActive = chain.isActive /\ chain'.admin = chain.admin
    ]_vars

\* A rate in whole cents that the digits of a contract rate bring back.
ComesBack(ratio) ==
  \E cents \in 1..ratio : ratio = Fine * cents /\ cents * cents < Precision * Scale

\* An update that names its dates and a rate has its effect once: asked for
\* again when it has landed, whatever happened to the campaign since it was
\* built, it finds nothing to change.  A rate that is not in whole cents or too
\* large to come back is compared with what it was rounded to: such an update
\* is sent again each time it is asked for, or refused on an active pool, but
\* changes nothing.  (A date that is missing is written as 0, and a rate equal
\* to the one read is not sent: it is lost when the rate moved since.)
UpdateConverges ==
  [][\A q \in Updates :
       LET in == req[q].input
           again == Update(chain', in)
       IN
       /\ Land(q)
       /\ chain.rateNumerator = req[q].read.rateNumerator
       /\ Missing \notin {in.join_pool_start, in.join_pool_end}
       /\ in.token_ratio # 0
       => \/ again = NoChange
          \/ /\ ~ComesBack(in.token_ratio)
             /\ IF chain'.isActive THEN again = Failed
                ELSE again.result = "tx" /\ FoldLeft(Execute, chain', again.ops) = chain'
    ]_vars

\* What the message of pools.service.ts:968 promises: "claim_at cannot less
\* than or equal join_pool_end".
ClaimAfterEnd ==
  \A q \in Updates :
    req[q].out.result = "tx" =>
      LET c == Decode(ProgramSetCampaign, req[q].out.ops[1].data) IN c.claim_at > c.publicEnd
=============================================================================
