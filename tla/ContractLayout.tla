--------------------------- MODULE ContractLayout ---------------------------
(***************************************************************************)
(* The byte layouts of instruction data and of the accounts of a pool      *)
(* program: utils/layout.ts (and its two copies), utils/contract-layout.ts *)
(* and Numberu64.  A layout is a sequence of <<field, kind>>.              *)
(***************************************************************************)
EXTENDS Integers, Sequences, SequencesExt

CONSTANTS
  Base,   \* the values of a byte: 256 in the code
  Width   \* the bytes of a 64-bit number: 8 in the code

ASSUME BytesAssumption == Base \in Nat \ {0, 1} /\ Width \in Nat \ {0}

NaN == -1             \* what a missing number and an invalid date become

\* Base ^ n
Power[n \in Nat] == IF n = 0 THEN 1 ELSE Base * Power[n - 1]

MaxU64 == Power[Width] - 1

KindSpan == [u8 |-> 1, bool |-> 1, nu64 |-> 8, int64 |-> 8, uint64 |-> 8,
             id |-> 18, publicKey |-> 32]

Names(layout) == {layout[i][1] : i \in 1..Len(layout)}

PlaceOf(layout, name) == CHOOSE i \in 1..Len(layout) : layout[i][1] = name

KindOf(layout, name) == layout[PlaceOf(layout, name)][2]

Span(layout) == FoldLeft(LAMBDA n, field : n + KindSpan[field[2]], 0, layout)

Numbers(names) == [i \in 1..Len(names) |-> <<names[i], "nu64">>]

\* Mutant: the early phase ends before it starts, in the bytes.
InitPoolLayoutSwapped ==
  <<<<"instruction", "u8">>, <<"nonce", "u8">>>>
  \o Numbers(<<"rateNumerator", "rateDenominator", "feesNumerator", "feesDenominator",
               "max_allocation_all_phases">>)
  \o <<<<"earlyJoinIsActive", "bool">>>>
  \o Numbers(<<"earlyJoinMaxTotalAlloc", "earlyJoinEnd", "earlyJoinStart">>)
  \o <<<<"publicIsActive", "bool">>>>
  \o Numbers(<<"publicIndividualAlloc", "publicStart", "publicEnd", "claim_at">>)

InitPoolLayout ==
  <<<<"instruction", "u8">>, <<"nonce", "u8">>>>
  \o Numbers(<<"rateNumerator", "rateDenominator", "feesNumerator", "feesDenominator",
               "max_allocation_all_phases">>)
  \o <<<<"earlyJoinIsActive", "bool">>>>
  \o Numbers(<<"earlyJoinMaxTotalAlloc", "earlyJoinStart", "earlyJoinEnd">>)
  \o <<<<"publicIsActive", "bool">>>>
  \o Numbers(<<"publicIndividualAlloc", "publicStart", "publicEnd", "claim_at">>)

SetCampaignLayout ==
  <<<<"instruction", "u8">>, <<"max_allocation_all_phases", "nu64">>,
    <<"earlyJoinIsActive", "bool">>>>
  \o Numbers(<<"earlyJoinMaxTotalAlloc", "earlyJoinStart", "earlyJoinEnd">>)
  \o <<<<"publicIsActive", "bool">>>>
  \o Numbers(<<"publicIndividualAlloc", "publicStart", "publicEnd", "claim_at">>)

PlatformLayout == <<<<"plat_admin", "publicKey">>, <<"pool_id", "id">>>>

\* The account of a pool, decoded by readPoolData.
PoolLayout ==
  <<<<"isInitialized", "u8">>, <<"nonce", "u8">>, <<"pool_id", "id">>,
    <<"tokenAccountX", "publicKey">>, <<"tokenAccountY", "publicKey">>>>
  \o Numbers(<<"rateNumerator", "rateDenominator", "feeNumerator", "feeDenominator",
               "max_allocation_all_phases", "number_whitelisted_user", "claim_at",
               "claimed_allocation">>)
  \o <<<<"earlyJoinIsActive", "bool">>>>
  \o Numbers(<<"earlyJoinMaxTotalAlloc", "earlyJoinIndividualAlloc",
               "earlyJoinSoldAllocation", "earlyJoinNumberJoined",
               "earlyJoinStart", "earlyJoinEnd">>)
  \o <<<<"publicIsActive", "bool">>>>
  \o Numbers(<<"publicMaxTotalAlloc", "publicIndividualAlloc", "publicSoldAllocation",
               "publicNumberJoined", "publicStart", "publicEnd">>)
  \o <<<<"isActive", "bool">>, <<"platform", "publicKey">>, <<"admin", "publicKey">>>>

----------------------------------------------------------------------------
(* Data is a sequence of cells, one after the other without their names:   *)
(* the bytes a field takes and the number in them.  A writer and a reader  *)
(* with different layouts find different things in them.                   *)
(*                                                                         *)
(* The buffer is zeroed, a field without a value is skipped, a bool is a   *)
(* byte, NaN is written as zero.                                           *)

Byte(b) == IF b THEN 1 ELSE 0

Written(kind, value) ==
  IF kind = "bool" THEN Byte(value) ELSE IF value = NaN THEN 0 ELSE value

Encode(layout, src) ==
  [i \in 1..Len(layout) |->
     LET name == layout[i][1]
         kind == layout[i][2]
     IN [span |-> KindSpan[kind],
         value |-> IF name \in DOMAIN src THEN Written(kind, src[name]) ELSE 0]]

\* The numbers a layout can write: any other is refused.
Encodable(layout, src) ==
  \A name \in Names(layout) \cap DOMAIN src :
    KindOf(layout, name) = "nu64" => src[name] \in NaN..MaxU64

\* The fields of a layout take the bytes that the cells take.
Fits(layout, wire) ==
  /\ Len(wire) = Len(layout)
  /\ \A i \in 1..Len(layout) : wire[i].span = KindSpan[layout[i][2]]

\* What a reader with a layout finds: each field at its place, whatever was written there.
Decode(layout, wire) ==
  [name \in Names(layout) |->
     LET value == wire[PlaceOf(layout, name)].value
     IN IF KindOf(layout, name) = "bool" THEN value # 0 ELSE value]

----------------------------------------------------------------------------
(* Numberu64: a bn.js number as Width bytes, little-endian.                *)

Magnitude(n) == IF n < 0 THEN -n ELSE n

\* BN.toArray(): the digits of the magnitude, the most significant first; 0 is <<0>>.
toArray(n) ==
  LET size == CHOOSE k \in 1..(Magnitude(n) + 1) :
                /\ Magnitude(n) < Power[k]
                /\ k = 1 \/ Magnitude(n) >= Power[k - 1]
  IN [i \in 1..size |-> (Magnitude(n) \div Power[size - i]) % Base]

Refused == <<>>     \* the assertion fails

toBuffer(n) ==
  LET b == Reverse(toArray(n))
  IN IF Len(b) > Width THEN Refused
     ELSE [i \in 1..Width |-> IF i <= Len(b) THEN b[i] ELSE 0]

\* Mutant: the digits of a byte are not padded: a small byte takes fewer places.
fromBufferUnpadded(buffer) ==
  FoldLeft(LAMBDA n, byte : n * (IF byte = 0 THEN 1 ELSE Base) + byte, 0, Reverse(buffer))

\* Two hexadecimal digits for each byte, the most significant first.
fromBuffer(buffer) == FoldLeft(LAMBDA n, byte : n * Base + byte, 0, Reverse(buffer))
=============================================================================
