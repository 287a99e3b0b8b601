---------------------------- MODULE Instructions ----------------------------
(***************************************************************************)
(* The instructions for the pool program: utils/instructions.ts, which     *)
(* PoolsService sends, and helpers/instructions.ts, for older programs.    *)
(* A builder gives the operation code, the layout of the data and the      *)
(* accounts <<account, is signer, is writable>> in their order.            *)
(***************************************************************************)
EXTENDS TLC, ContractLayout

ReadOnly(names) == [i \in 1..Len(names) |-> <<names[i], FALSE, FALSE>>]
Writable(names) == [i \in 1..Len(names) |-> <<names[i], FALSE, TRUE>>]

Op(code, fields, keys) ==
  [code |-> code, layout |-> <<<<"instruction", "u8">>>> \o fields, keys |-> keys]

----------------------------------------------------------------------------
(* utils/instructions.ts                                                   *)

createInitInstruction ==
  [code |-> 0, layout |-> InitPoolLayout,
   keys |-> Writable(<<"pool">>)
            \o ReadOnly(<<"authority", "tokenX", "tokenY", "rootAdmin">>)
            \o Writable(<<"platform">>) \o ReadOnly(<<"clock">>)]

setCampaignInstruction ==
  [code |-> 103, layout |-> SetCampaignLayout,
   keys |-> Writable(<<"pool">>) \o ReadOnly(<<"rootAdmin", "clock">>)]

setRateInstruction ==
  Op(102, Numbers(<<"rateNumerator", "rateDenominator">>),
     Writable(<<"pool">>) \o ReadOnly(<<"rootAdmin", "clock">>))

setUserWhitelistInstruction ==
  Op(101, <<<<"is_whitelisted", "u8">>>>,
     Writable(<<"pool">>) \o ReadOnly(<<"user">>)
     \o Writable(<<"poolMember">>) \o ReadOnly(<<"rootAdmin">>))

setPoolPublicAccessTimeInstruction ==
  Op(102, <<<<"poolPublicAccessTime", "int64">>>>, Writable(<<"pool">>))

setPoolActiveInstruction ==
  Op(104, <<<<"is_active", "u8">>>>,
     Writable(<<"pool">>)
     \o ReadOnly(<<"authority", "tokenX", "tokenY", "rootAdmin", "platform", "clock">>))

changePoolAdmin == Op(100, <<>>, Writable(<<"pool", "newRootAdmin">>))

Operations ==
  {createInitInstruction, setCampaignInstruction, setRateInstruction,
   setUserWhitelistInstruction, setPoolPublicAccessTimeInstruction,
   setPoolActiveInstruction, changePoolAdmin}

----------------------------------------------------------------------------
(* helpers/instructions.ts                                                 *)

OldInit ==
  Op(0, <<<<"nonce", "u8">>>> \o Numbers(<<"rateNumerator", "rateDenominator">>),
     Writable(<<"pool">>) \o ReadOnly(<<"authority", "tokenX", "tokenY", "whitelist">>))

OldAddUserWhitelist ==
  Op(101, <<>>,
     ReadOnly(<<"pool", "authority", "user">>) \o Writable(<<"whitelist">>)
     \o ReadOnly(<<"admin", "adminList">>))

OldSetPoolPublicAccessTime ==
  Op(102, <<<<"poolPublicAccessTime", "int64">>>>, Writable(<<"pool">>))

OldSwap ==
  Op(1, <<<<"incoming_amount", "uint64">>, <<"min_outgoing_amount", "uint64">>>>,
     ReadOnly(<<"pool", "userAuthority">>) \o Writable(<<"userSource", "poolSource">>)
     \o ReadOnly(<<"sourceProgram">>) \o Writable(<<"userDestination", "poolDestination">>)
     \o ReadOnly(<<"destinationProgram">>))

OldJoin ==
  Op(2, <<<<"incoming_amount", "uint64">>>>,
     ReadOnly(<<"pool", "userAuthority">>) \o <<<<"user", TRUE, TRUE>>>>
     \o Writable(<<"userJoin", "userSource", "poolSource">>)
     \o ReadOnly(<<"tokenProgram", "clock">>))

OldClaim ==
  Op(3, <<>>,
     ReadOnly(<<"pool", "userAuthority", "user">>)
     \o Writable(<<"joinedUsers", "userDestination", "poolDestination">>)
     \o ReadOnly(<<"tokenProgram">>))

OldOperations ==
  {OldInit, OldAddUserWhitelist, OldSetPoolPublicAccessTime, OldSwap, OldJoin, OldClaim}

----------------------------------------------------------------------------
(* The order in which the pool program, which is not part of the           *)
(* repository, takes the fields of the instructions the service sends.     *)

ProgramCampaign ==
  <<<<"max_allocation_all_phases", "nu64">>,
    <<"earlyJoinIsActive", "bool">>, <<"earlyJoinMaxTotalAlloc", "nu64">>,
    <<"earlyJoinStart", "nu64">>, <<"earlyJoinEnd", "nu64">>,
    <<"publicIsActive", "bool">>, <<"publicIndividualAlloc", "nu64">>,
    <<"publicStart", "nu64">>, <<"publicEnd", "nu64">>, <<"claim_at", "nu64">>>>

ProgramInit ==
  <<<<"instruction", "u8">>, <<"nonce", "u8">>,
    <<"rateNumerator", "nu64">>, <<"rateDenominator", "nu64">>,
    <<"feesNumerator", "nu64">>, <<"feesDenominator", "nu64">>>>
  \o ProgramCampaign

ProgramSetCampaign == <<<<"instruction", "u8">>>> \o ProgramCampaign

ProgramSetRate ==
  <<<<"instruction", "u8">>, <<"rateNumerator", "nu64">>, <<"rateDenominator", "nu64">>>>

ProgramSetActive == <<<<"instruction", "u8">>, <<"is_active", "u8">>>>

----------------------------------------------------------------------------
(* What the builders write into the data.                                  *)

Data(op, src) ==
  Encode(op.layout, [name \in {"instruction"} \cup DOMAIN src |->
                       IF name = "instruction" THEN op.code ELSE src[name]])

\* ms as seconds; the floor of NaN is NaN.
Seconds(ms, second) == IF ms = NaN THEN NaN ELSE ms \div second

\* The campaign of setCampaignInstruction, with times in seconds.
CampaignSource(c) ==
  [max_allocation_all_phases |-> c.max_allocation_all_phases,
   earlyJoinIsActive      |-> c.early_join_phase.is_active,
   earlyJoinMaxTotalAlloc |-> c.early_join_phase.max_total_alloc,
   earlyJoinStart         |-> c.early_join_phase.start_at,
   earlyJoinEnd           |-> c.early_join_phase.end_at,
   publicIsActive         |-> c.public_phase.is_active,
   publicIndividualAlloc  |-> c.public_phase.max_individual_alloc,
   publicStart            |-> c.public_phase.start_at,
   publicEnd              |-> c.public_phase.end_at,
   claim_at               |-> c.claim_at]

RateSource(rate) == [rateNumerator |-> rate.numerator, rateDenominator |-> rate.denominator]

\* A campaign with times in ms, with times in seconds.
InSeconds(c, second) ==
  LET Phase(p) == [f \in DOMAIN p |-> IF f \in {"start_at", "end_at"} THEN Seconds(p[f], second)
                                      ELSE p[f]]
  IN [c EXCEPT !.claim_at = Seconds(@, second),
               !.early_join_phase = Phase(@), !.public_phase = Phase(@)]

\* The data of createInitInstruction, with times in ms.
InitSource(in, second) ==
  LET campaign == CampaignSource(InSeconds(in.campaign, second))
      others == [nonce |-> in.nonce,
                 rateNumerator |-> in.rate.numerator, rateDenominator |-> in.rate.denominator,
                 feesNumerator |-> in.fees.numerator, feesDenominator |-> in.fees.denominator]
  IN [name \in DOMAIN others \cup DOMAIN campaign |->
        IF name \in DOMAIN others THEN others[name] ELSE campaign[name]]
=============================================================================
