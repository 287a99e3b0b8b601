------------------------------ MODULE MCOnChain ------------------------------
(***************************************************************************)
(* What the service sends to the chain, checked in three parts that share  *)
(* no state, the others parked: the bytes of the instructions, over small  *)
(* values; one update, over all the combinations of dates; updates, an     *)
(* activation and a change of administrator that race.                     *)
(***************************************************************************)
EXTENDS MCPoolUpdate

CONSTANTS
  Values,   \* the values of a field: one field apart from the others
  Numerals  \* the bn.js numbers

MCValues == {NaN, 7, 90}

\* 0, both sides of each digit, the largest number of Width digits, too large
\* ones, negative ones.
MCNumerals == {-10000, -9999, -10, -1, 0, 1, 9, 10, 11, 99, 100, 999, 1000, 9999, 10000, 10001}

ASSUME GivenAssumption == Values \subseteq Nat \cup {NaN} /\ Numerals \subseteq Int

VARIABLES
  part,                              \* which one is checked
  given, early, number, op,          \* what the builders are given
  wire, campaignWire                 \* what they write

byteVars == <<given, early, number, op, wire, campaignWire>>
onChainVars == <<part, vars, byteVars>>

GivenFields == {"nonce", "rn", "rd", "fn", "fd", "all", "earlyAlloc", "earlyStart", "earlyEnd",
                "publicAlloc", "publicStart", "publicEnd", "claim"}

Given == UNION {{[f \in GivenFields |-> IF f = apart THEN x ELSE y] : x, y \in Values} :
                apart \in GivenFields}

GivenCampaign(g, isActive, time(_)) ==
  [max_allocation_all_phases |-> g["all"], claim_at |-> time(g["claim"]),
   early_join_phase |-> [is_active |-> isActive, max_total_alloc |-> g["earlyAlloc"],
                         start_at |-> time(g["earlyStart"]), end_at |-> time(g["earlyEnd"])],
   public_phase |-> [is_active |-> TRUE, max_individual_alloc |-> g["publicAlloc"],
                     start_at |-> time(g["publicStart"]), end_at |-> time(g["publicEnd"])]]

InitInput(g, isActive) ==
  [nonce |-> g["nonce"], rate |-> [numerator |-> g["rn"], denominator |-> g["rd"]],
   fees |-> [numerator |-> g["fn"], denominator |-> g["fd"]],
   campaign |-> GivenCampaign(g, isActive, LAMBDA t : t)]

NotBuilt == <<>>

ParkedBytes ==
  /\ given = CHOOSE g \in Given : TRUE
  /\ early = FALSE /\ number = 0 /\ op = changePoolAdmin

OnChainInit ==
  /\ part \in {"bytes", "dates", "requests"}
  /\ IF part = "bytes" THEN chain = CHOOSE acc \in Accounts : TRUE ELSE ParkedBytes
  /\ given \in Given /\ early \in BOOLEAN /\ number \in Numerals
  /\ op \in Operations \cup OldOperations
  /\ wire = NotBuilt /\ campaignWire = NotBuilt
  /\ Init

Build ==
  /\ part = "bytes" /\ wire = NotBuilt
  /\ Encodable(InitPoolLayout, InitSource(InitInput(given, early), Second))
  /\ wire' = Data(createInitInstruction, InitSource(InitInput(given, early), Second))
  /\ campaignWire' = Data(setCampaignInstruction,
                     CampaignSource(GivenCampaign(given, early, LAMBDA t : Seconds(t, Second))))
  /\ UNCHANGED <<part, given, early, number, op, vars>>

AskDates ==
  /\ part = "dates"
  /\ \E q \in Updates, in \in DateInputs :
       (\A r \in Requests : req[r] = Idle) /\ Respond(q, in, Update(chain, in))
  /\ UNCHANGED <<part, byteVars>>

Race == part = "requests" /\ Next /\ UNCHANGED <<part, byteVars>>

OnChainSpec == OnChainInit /\ [][Build \/ AskDates \/ Race]_onChainVars
----------------------------------------------------------------------------
(* Properties: those of PoolUpdate, and                                    *)

\* A program can tell two operations apart by their code and the length of
\* their data: in utils/instructions.ts, setRate and setPoolPublicAccessTime share the code 102.
ToldApart ==
  \A class \in {Operations, OldOperations} :
    op \in class =>
      \A other \in class :
        other.code = op.code /\ Span(other.layout) = Span(op.layout) => other = op

\* What the program reads, with its own layout, is what the pool was created
\* with: every number at its place in the bytes, and every date to the second,
\* a missing one as 0.
FieldsInPlace ==
  wire # NotBuilt =>
    LET read == Decode(ProgramInit, wire)
        Same(f, name) == read[name] = IF given[f] = NaN THEN 0 ELSE given[f]
        SameTime(f, name) ==
          IF given[f] = NaN THEN read[name] = 0
          ELSE read[name] * Second <= given[f] /\ given[f] < (read[name] + 1) * Second
    IN /\ Fits(ProgramInit, wire)
       /\ read.instruction = 0 /\ read.earlyJoinIsActive = early
       /\ Same("nonce", "nonce")
       /\ Same("rn", "rateNumerator") /\ Same("rd", "rateDenominator")
       /\ Same("fn", "feesNumerator") /\ Same("fd", "feesDenominator")
       /\ Same("all", "max_allocation_all_phases")
       /\ Same("earlyAlloc", "earlyJoinMaxTotalAlloc")
       /\ Same("publicAlloc", "publicIndividualAlloc")
       /\ SameTime("earlyStart", "earlyJoinStart") /\ SameTime("earlyEnd", "earlyJoinEnd")
       /\ SameTime("publicStart", "publicStart") /\ SameTime("publicEnd", "publicEnd")
       /\ SameTime("claim", "claim_at")

\* A pool initialised with a campaign and a pool whose campaign is set to it
\* afterwards are sent the same bytes for it, after those that only the
\* initialisation has, where the program reads a campaign: createInitInstruction
\* divides ms by 1000 and setCampaignInstruction is given seconds.
InitAgreesWithSetCampaign ==
  wire # NotBuilt =>
    LET before == Len(ProgramInit) - Len(ProgramSetCampaign)
    IN /\ Fits(ProgramSetCampaign, campaignWire)
       /\ \A i \in 2..Len(campaignWire) : wire[before + i] = campaignWire[i]

\* A program that knows an operation by its code and the length of its data
\* reads from an instruction what the builder was given, and from the two that
\* carry a campaign the same campaign.
ProgramReadsWhatWasGiven == ToldApart /\ FieldsInPlace /\ InitAgreesWithSetCampaign

\* Numberu64: a number that fits has Width bytes and is read back, whatever its
\* digits; one that does not is refused; the sign of a negative one is lost.
NumberSurvives ==
  LET buffer == toBuffer(number)
  IN IF Magnitude(number) > MaxU64 THEN buffer = Refused
     ELSE /\ Len(buffer) = Width
          /\ fromBuffer(buffer) = Magnitude(number)

\* Numbers keep their width: the account never holds one that does not fit, and
\* one that fits is not changed by being written and read.
NumbersKeepTheirWidth == TypeOK /\ NumberSurvives
=============================================================================
