----------------------------- MODULE MCServices -----------------------------
(***************************************************************************)
(* The services beside the pools: platform accounts, sign in, listings and *)
(* stake histories.  They share no state, so what one does is independent  *)
(* of what the others do, and a behaviour of one is checked with the       *)
(* others parked in an initial state.                                      *)
(***************************************************************************)
EXTENDS Naturals, Platform, UserLogin

CONSTANTS
  MaxDocs, Instant, Moving, Limit,            \* of Paging
  Stakers, StakeAccounts, Amounts, Operations \* of StakeLedger

ASSUME AmountsAssumption == Amounts \subseteq Nat
\* A limit of 0 is replaced by the default.
ASSUME PagingAssumption ==
  /\ MaxDocs \in Nat /\ Instant \in [1..MaxDocs -> Nat] /\ Moving \subseteq 1..MaxDocs
  /\ Limit \in Nat \ {0}

VARIABLES
  service,   \* which one is checked
  listing, listed, gone, ask, walking, found, total, seen, twice, shown, steady, moved,
  currentStake, staked, done, input, posts, rows, lostReports, repeated

\* Two of the documents tie.
Instants == <<1, 2, 2, 3, 4>>

Pages == INSTANCE Paging
Stakes == INSTANCE StakeLedger
            WITH Users <- Stakers, Accounts <- StakeAccounts,
                 current <- currentStake, lost <- lostReports

pageVars == <<listing, listed, gone, ask, walking, found, total,
              seen, twice, shown, steady, moved>>
stakeVars == <<currentStake, staked, done, input, posts, rows, lostReports, repeated>>
servicesVars == <<service, vars, userVars, pageVars, stakeVars>>

----------------------------------------------------------------------------
(* One initial state of each service.                                      *)

Parked(s) ==
  CASE s = "platform" ->
         /\ current = CHOOSE p \in Programs : TRUE
         /\ owner = [a \in Accounts |-> IF a \in OldAccounts THEN current ELSE NoProgram]
         /\ stored = {}
    [] s = "paging" -> listing = "users" /\ listed = {}
    [] s = "stake" ->
         /\ currentStake = CHOOSE a \in StakeAccounts : TRUE
         /\ input = [o \in Operations |-> CHOOSE i \in Stakes!CreateUserStakeHistory : TRUE]

Services == {"platform", "login", "paging", "stake"}

ServicesInit ==
  /\ service \in Services
  /\ \A s \in {"platform", "paging", "stake"} : s # service => Parked(s)
  /\ Init /\ LoginInit /\ Pages!Init /\ Stakes!Init

PlatformStep ==
  /\ service = "platform" /\ Next
  /\ UNCHANGED <<service, userVars, pageVars, stakeVars>>

LoginStep ==
  /\ service = "login" /\ LoginNext
  /\ UNCHANGED <<service, vars, pageVars, stakeVars>>

PagingStep ==
  /\ service = "paging" /\ Pages!Next
  /\ UNCHANGED <<service, vars, userVars, stakeVars>>

StakeStep ==
  /\ service = "stake" /\ Stakes!Next
  /\ UNCHANGED <<service, vars, userVars, pageVars>>

ServicesNext == PlatformStep \/ LoginStep \/ PagingStep \/ StakeStep

\* A handler of the listings whose query is answered goes on.
ServicesSpec ==
  ServicesInit /\ [][ServicesNext]_servicesVars
  /\ WF_servicesVars(service = "paging" /\ Pages!Serve
                     /\ UNCHANGED <<service, vars, userVars, stakeVars>>)
----------------------------------------------------------------------------
(* Properties: those of Platform and UserLogin, and                        *)

\* All variables keep their types and bounds.
ServicesTypeOK == TypeOK /\ LoginTypeOK /\ Pages!TypeOK /\ Stakes!TypeOK

\* A walk shows every untied document that stays, unless another one is removed.
WalkSeesAll == Pages!WalkSeesAll

\* A walk shows no untied document twice, unless others are inserted before it.
NothingTwice == Pages!NothingTwice

\* A walk ends.
WalkEnds == service = "paging" => Pages!WalkEnds

\* The export adds up to the stake on chain and what is on its way.
ExportAddsUp == Stakes!ExportAddsUp
=============================================================================
