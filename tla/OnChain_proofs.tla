--------------------------- MODULE OnChain_proofs ---------------------------
(***************************************************************************)
(* Proofs about what the service sends to the chain, for any base and      *)
(* width of a number, any units, inputs, accounts and values: that every   *)
(* number survives its bytes, that the account keeps its type and changes  *)
(* where an update names it only, and that an update has its effect once.  *)
(***************************************************************************)
EXTENDS MCOnChain, FiniteSetTheorems, TLAPS

----------------------------------------------------------------------------
(* Induction over finite sets and numbers, as set membership; the powers   *)
(* of Base.                                                                *)

LEMMA FiniteSetInduction ==
  ASSUME NEW S, IsFiniteSet(S), NEW Good, {} \in Good,
         \A T \in SUBSET S : \A x \in S \ T : T \in Good => T \cup {x} \in Good
  PROVE  S \in Good
<1> SUFFICES ASSUME S \notin Good PROVE FALSE
  OBVIOUS
<1> DEFINE Bad == {T \in SUBSET S : T \notin Good}
           R == StrictSubsetOrdering(S)
<1>1. IsWellFoundedOn(R, SUBSET S)
  BY FS_StrictSubsetOrderingWellFounded, FS_FiniteSubsetsOfFinite
<1>2. Bad \subseteq SUBSET S /\ Bad # {}
  OBVIOUS
<1>3. \E T \in Bad : \A U \in Bad : ~ (<<U, T>> \in R)
  <2> HIDE DEF Bad, R
  <2> QED BY <1>1, <1>2, WFMin
<1>4. PICK T \in Bad : \A U \in Bad : ~ (<<U, T>> \in R)
  BY <1>3
<1>5. PICK x \in T : TRUE
  OBVIOUS
<1>6. T \ {x} \in Bad
  <2>1. T = (T \ {x}) \cup {x} /\ T \ {x} \in SUBSET S /\ x \in S \ (T \ {x})
    OBVIOUS
  <2> QED BY <2>1
<1>7. <<T \ {x}, T>> \in R
  BY <1>5 DEF StrictSubsetOrdering
<1> QED BY <1>4, <1>6, <1>7

LEMMA NatInd ==
  ASSUME NEW Good, 0 \in Good, \A n \in Nat : n \in Good => n + 1 \in Good, NEW n \in Nat
  PROVE  n \in Good
<1> DEFINE G == {T \in SUBSET (1..n) : Cardinality(T) \in Good}
<1>1. IsFiniteSet(1..n) /\ Cardinality(1..n) = n
  BY FS_Interval
<1>2. {} \in G
  BY FS_EmptySet
<1>3. \A T \in SUBSET (1..n) : \A x \in (1..n) \ T : T \in G => T \cup {x} \in G
  <2> SUFFICES ASSUME NEW T \in SUBSET (1..n), NEW x \in (1..n) \ T, T \in G
               PROVE  T \cup {x} \in G
    OBVIOUS
  <2>1. IsFiniteSet(T) /\ Cardinality(T) \in Nat
    BY <1>1, FS_Subset, FS_CardinalityType
  <2>2. Cardinality(T \cup {x}) = Cardinality(T) + 1
    BY <2>1, FS_AddElement
  <2> QED BY <2>1, <2>2
<1>4. 1..n \in G
  <2> HIDE DEF G
  <2> QED BY <1>1, <1>2, <1>3, FiniteSetInduction
<1> QED BY <1>1, <1>4

\* Powers of Base.
IsPowerTo(f, n) == f \in [0..n -> Nat \ {0}] /\ f[0] = 1 /\ \A k \in 1..n : f[k] = Base * f[k - 1]

LEMMA NatProduct == \A a, b \in Nat \ {0} : a * b \in Nat \ {0}
  OBVIOUS

LEMMA PowersExist == \A n \in Nat : \E f : IsPowerTo(f, n)
<1> DEFINE Good == {n \in Nat : \E f : IsPowerTo(f, n)}
<1>1. 0 \in Good
  <2>1. IsPowerTo([k \in 0..0 |-> 1], 0)
    BY DEF IsPowerTo
  <2> QED BY <2>1
<1>2. ASSUME NEW n \in Nat, n \in Good PROVE n + 1 \in Good
  <2>1. PICK f : IsPowerTo(f, n)
    BY <1>2
  <2> DEFINE g == [k \in 0..(n + 1) |-> IF k = n + 1 THEN Base * f[n] ELSE f[k]]
  <2>2. Base * f[n] \in Nat \ {0}
    BY <2>1, NatProduct, BytesAssumption DEF IsPowerTo
  <2>3. g \in [0..(n + 1) -> Nat \ {0}]
    BY <2>1, <2>2 DEF IsPowerTo
  <2>4. \A k \in 1..(n + 1) : g[k] = Base * g[k - 1]
    BY <2>1 DEF IsPowerTo
  <2>5. g[0] = 1
    BY <2>1 DEF IsPowerTo
  <2> HIDE DEF g
  <2> QED BY <2>3, <2>4, <2>5 DEF IsPowerTo
<1> HIDE DEF Good
<1>3. \A n \in Nat : n \in Good
  BY <1>1, <1>2, NatInd
<1> QED BY <1>3 DEF Good

LEMMA PowersAgree ==
  ASSUME NEW n \in Nat, NEW f, IsPowerTo(f, n), NEW m \in Nat, NEW g, IsPowerTo(g, m)
  PROVE  \A k \in Nat : k <= n /\ k <= m => f[k] = g[k]
<1> DEFINE Good == {k \in Nat : k <= n /\ k <= m => f[k] = g[k]}
<1>1. 0 \in Good
  BY DEF IsPowerTo
<1>2. ASSUME NEW k \in Nat, k \in Good PROVE k + 1 \in Good
  <2> SUFFICES ASSUME k + 1 <= n, k + 1 <= m PROVE f[k + 1] = g[k + 1]
    OBVIOUS
  <2>1. f[k] = g[k]
    BY <1>2
  <2>2. f[k + 1] = Base * f[k + 1 - 1] /\ g[k + 1] = Base * g[k + 1 - 1]
    BY DEF IsPowerTo
  <2>3. k + 1 - 1 = k
    OBVIOUS
  <2> QED BY <2>1, <2>2, <2>3
<1> HIDE DEF Good
<1>3. \A k \in Nat : k \in Good
  BY <1>1, <1>2, NatInd
<1> QED BY <1>3 DEF Good

LEMMA PowerDef == Power = [n \in Nat |-> IF n = 0 THEN 1 ELSE Base * Power[n - 1]]
<1> DEFINE p(n) == CHOOSE f : IsPowerTo(f, n)
           h == [n \in Nat |-> p(n)[n]]
<1>1. \A n \in Nat : IsPowerTo(p(n), n)
  BY PowersExist
<1>2. \A n \in Nat : h[n] = IF n = 0 THEN 1 ELSE Base * h[n - 1]
  <2>5. \A n \in Nat : h[n] = p(n)[n]
    OBVIOUS
  <2>6. h[0] = 1
    BY <1>1, <2>5 DEF IsPowerTo
  <2> HIDE DEF h
  <2> SUFFICES ASSUME NEW n \in Nat, n # 0 PROVE h[n] = Base * h[n - 1]
    BY <2>6
  <2>1. n - 1 \in Nat /\ n \in 1..n /\ n - 1 <= n /\ n - 1 <= n - 1
    OBVIOUS
  <2>2. p(n)[n] = Base * p(n)[n - 1]
    BY <1>1, <2>1 DEF IsPowerTo
  <2>3. IsPowerTo(p(n), n) /\ IsPowerTo(p(n - 1), n - 1)
    BY <1>1, <2>1
  <2> HIDE DEF p
  <2>4. p(n)[n - 1] = p(n - 1)[n - 1]
    BY <2>1, <2>3, PowersAgree
  <2> QED BY <2>1, <2>2, <2>4, <2>5
<1>3. h = [n \in Nat |-> h[n]]
  OBVIOUS
<1> HIDE DEF h
<1>4. h = [n \in Nat |-> IF n = 0 THEN 1 ELSE Base * h[n - 1]]
  BY <1>2, <1>3
<1> QED BY <1>4 DEF Power

LEMMA Powers ==
  /\ Power[0] = 1
  /\ \A n \in Nat : Power[n] \in Nat \ {0} /\ Power[n + 1] = Base * Power[n]
<1> DEFINE Good == {n \in Nat : Power[n] \in Nat \ {0}}
<1>1. Power[0] = 1
  BY PowerDef
<1>2. \A n \in Nat : Power[n + 1] = Base * Power[n]
  <2> SUFFICES ASSUME NEW n \in Nat PROVE Power[n + 1] = Base * Power[n]
    OBVIOUS
  <2>1. n + 1 \in Nat /\ n + 1 # 0 /\ n + 1 - 1 = n
    OBVIOUS
  <2> QED BY <2>1, PowerDef
<1>3. 0 \in Good
  BY <1>1
<1>4. ASSUME NEW n \in Nat, n \in Good PROVE n + 1 \in Good
  BY <1>2, <1>4, NatProduct, BytesAssumption
<1> HIDE DEF Good
<1>5. \A n \in Nat : n \in Good
  BY <1>3, <1>4, NatInd
<1> QED BY <1>1, <1>2, <1>5 DEF Good

LEMMA PowersGrow ==
  /\ \A n \in Nat : Power[n] > n
  /\ \A n, m \in Nat : n <= m => Power[n] <= Power[m]
<1> DEFINE Good == {n \in Nat : Power[n] > n}
<1>1. \A n \in Nat : Power[n + 1] >= Power[n] + 1 /\ Power[n] \in Nat
  <2> SUFFICES ASSUME NEW n \in Nat PROVE Power[n + 1] >= Power[n] + 1
    BY Powers
  <2>1. \A b \in Nat, x \in Nat \ {0} : b >= 2 => b * x >= x + 1
    OBVIOUS
  <2>2. Base \in Nat /\ Base >= 2
    BY BytesAssumption
  <2> QED BY <2>1, <2>2, Powers
<1>2. \A n \in Nat : n \in Good
  <2>1. 0 \in Good
    BY Powers
  <2>2. ASSUME NEW n \in Nat, n \in Good PROVE n + 1 \in Good
    BY <1>1, <2>2
  <2> HIDE DEF Good
  <2> QED BY <2>1, <2>2, NatInd
<1>3. ASSUME NEW n \in Nat, NEW m \in Nat, n <= m PROVE Power[n] <= Power[m]
  <2> DEFINE More == {k \in Nat : Power[n] <= Power[n + k]}
  <2>1. 0 \in More
    BY <1>1
  <2>2. ASSUME NEW k \in Nat, k \in More PROVE k + 1 \in More
    <3>1. Power[n + k + 1] >= Power[n + k] + 1 /\ n + (k + 1) = n + k + 1
      BY <1>1
    <3>2. Power[n + k] \in Nat /\ Power[n + k + 1] \in Nat /\ Power[n] \in Nat
      BY <1>1
    <3> QED BY <2>2, <3>1, <3>2
  <2> HIDE DEF More
  <2>3. m - n \in More
    BY <1>3, <2>1, <2>2, NatInd
  <2>4. n + (m - n) = m
    OBVIOUS
  <2> QED BY <2>3, <2>4 DEF More
<1> QED BY <1>2, <1>3

LEMMA WidthFacts ==
  Base \in Nat /\ Base >= 2 /\ Width \in Nat /\ Width >= 1 /\ MaxU64 \in Nat /\ MaxU64 >= 1
                    /\ MaxU64 + 1 = Power[Width]
<1>1. Power[Width] >= 2 /\ Power[Width] \in Nat
  <2>1. Power[Width] > Width /\ Power[Width] \in Nat /\ Width \in Nat /\ Width >= 1
    BY Powers, PowersGrow, BytesAssumption
  <2> QED BY <2>1
<1> QED BY <1>1, BytesAssumption DEF MaxU64

----------------------------------------------------------------------------
(* A fold over the bytes of a number: it is a sum, byte by byte, since the *)
(* result of a fold is the choice of the one function that satisfies its   *)
(* equations.                                                              *)

\* The greatest of finitely many numbers.
LEMMA MaxOfSome ==
  ASSUME NEW n \in Nat
  PROVE  \A t \in SUBSET (1..n) : t # {} => Max(t) \in t /\ \A y \in t : Max(t) >= y
<1> DEFINE Good == {t \in SUBSET (1..n) : t # {} => \E x \in t : \A y \in t : x >= y}
<1>1. {} \in Good
  OBVIOUS
<1>2. \A t \in SUBSET (1..n) : \A z \in (1..n) \ t : t \in Good => t \cup {z} \in Good
  <2> SUFFICES ASSUME NEW t \in SUBSET (1..n), NEW z \in (1..n) \ t, t \in Good
               PROVE  \E x \in t \cup {z} : \A y \in t \cup {z} : x >= y
    OBVIOUS
  <2>1. CASE t = {}
    BY <2>1
  <2>2. CASE t # {}
    <3>1. PICK x \in t : \A y \in t : x >= y
      BY <2>2
    <3>2. CASE z >= x
      BY <3>1, <3>2
    <3>3. CASE ~(z >= x)
      BY <3>1, <3>3
    <3> QED BY <3>2, <3>3
  <2> QED BY <2>1, <2>2
<1>3. ASSUME NEW t \in SUBSET (1..n) PROVE t \in Good
  <2>1. IsFiniteSet(t)
    <3> DEFINE S == 1..n
    <3>1. IsFiniteSet(S)
      BY FS_Interval
    <3> HIDE DEF S
    <3>2. t \in SUBSET S
      BY DEF S
    <3> QED BY <3>1, <3>2, FS_Subset
  <2>2. {} \in Good /\ \A u \in SUBSET t : \A z \in t \ u : u \in Good => u \cup {z} \in Good
    BY <1>1, <1>2
  <2> HIDE DEF Good
  <2> QED BY <2>1, <2>2, FiniteSetInduction
<1>4. \A t \in SUBSET (1..n) : t # {} => \E x \in t : \A y \in t : x >= y
  BY <1>3
<1> QED BY <1>4 DEF Max

(* The number that the bytes of s make, byte by byte.                      *)
Reads(g, s, D) == g = [t \in D |-> IF t = {} THEN 0 ELSE g[t \ {Max(t)}] * Base + s[Max(t)]]
OfSize(n, k) == {t \in SUBSET (1..n) : Cardinality(t) <= k}

LEMMA SubsetSizes ==
  ASSUME NEW n \in Nat
  PROVE  /\ \A t \in SUBSET (1..n) : Cardinality(t) \in 0..n /\ (Cardinality(t) = 0 <=> t = {})
         /\ \A t \in SUBSET (1..n), x \in 1..n : x \in t => Cardinality(t \ {x}) = Cardinality(t) - 1
         /\ OfSize(n, n) = SUBSET (1..n)
<1> DEFINE S == 1..n
<1>1. IsFiniteSet(S) /\ Cardinality(S) = n
  BY FS_Interval
<1> HIDE DEF S
<1>2. \A t \in SUBSET S : IsFiniteSet(t) /\ Cardinality(t) \in 0..n
  BY <1>1, FS_Subset, FS_CardinalityType
<1>3. \A t \in SUBSET S : Cardinality(t) = 0 <=> t = {}
  BY <1>2, FS_EmptySet
<1>4. \A t \in SUBSET S, x \in S : x \in t => Cardinality(t \ {x}) = Cardinality(t) - 1
  BY <1>2, FS_RemoveElement
<1>5. OfSize(n, n) = SUBSET S
  BY <1>2 DEF OfSize, S
<1> QED BY <1>2, <1>3, <1>4, <1>5 DEF S

LEMMA ReadsExist ==
  ASSUME NEW n \in Nat, NEW s
  PROVE  \E g : Reads(g, s, SUBSET (1..n))
<1> DEFINE Good == {k \in Nat : \E g : Reads(g, s, OfSize(n, k))}
<1>1. 0 \in Good
  <2> DEFINE g == [t \in OfSize(n, 0) |-> 0]
  <2>1. \A t \in OfSize(n, 0) : t = {}
    <3>1. \A t \in SUBSET (1..n) : Cardinality(t) \in 0..n /\ (Cardinality(t) = 0 <=> t = {})
      BY SubsetSizes
    <3> QED BY <3>1 DEF OfSize
  <2>2. Reads(g, s, OfSize(n, 0))
    BY <2>1 DEF Reads
  <2> QED BY <2>2
<1>2. ASSUME NEW k \in Nat, k \in Good PROVE k + 1 \in Good
  <2>1. PICK g : Reads(g, s, OfSize(n, k))
    BY <1>2
  <2> DEFINE h == [t \in OfSize(n, k + 1) |->
                     IF t = {} THEN 0 ELSE g[t \ {Max(t)}] * Base + s[Max(t)]]
  <2>2. \A t \in OfSize(n, k + 1) : t # {} => t \ {Max(t)} \in OfSize(n, k)
    <3>1. \A t \in SUBSET (1..n) : t # {} => Max(t) \in t
      BY MaxOfSome
    <3> SUFFICES ASSUME NEW t \in OfSize(n, k + 1), t # {} PROVE t \ {Max(t)} \in OfSize(n, k)
      OBVIOUS
    <3> DEFINE x == Max(t)
    <3>2. t \in SUBSET (1..n) /\ x \in t /\ x \in 1..n
      BY <3>1 DEF OfSize
    <3> HIDE DEF x
    <3>3. Cardinality(t) \in 0..n /\ Cardinality(t \ {x}) = Cardinality(t) - 1
      BY <3>2, SubsetSizes
    <3>4. Cardinality(t) <= k + 1
      BY DEF OfSize
    <3>5. Cardinality(t \ {x}) <= k
      BY <3>3, <3>4
    <3>6. t \ {x} \in SUBSET (1..n)
      BY <3>2
    <3> QED BY <3>5, <3>6 DEF OfSize, x
  <2>3. OfSize(n, k) \subseteq OfSize(n, k + 1)
    BY SubsetSizes DEF OfSize
  <2>4. \A t \in OfSize(n, k) : g[t] = IF t = {} THEN 0 ELSE g[t \ {Max(t)}] * Base + s[Max(t)]
    BY <2>1 DEF Reads
  <2>5. \A t \in OfSize(n, k) : h[t] = g[t]
    BY <2>3, <2>4
  <2>6. \A t \in OfSize(n, k + 1) : h[t] = IF t = {} THEN 0 ELSE h[t \ {Max(t)}] * Base + s[Max(t)]
    BY <2>2, <2>5
  <2>7. h = [t \in OfSize(n, k + 1) |-> h[t]]
    OBVIOUS
  <2>8. Reads(h, s, OfSize(n, k + 1))
    <3> HIDE DEF h
    <3> QED BY <2>6, <2>7 DEF Reads
  <2> QED BY <2>8
<1> HIDE DEF Good
<1>3. n \in Good
  BY <1>1, <1>2, NatInd
<1> QED BY <1>3, SubsetSizes DEF Good

LEMMA FoldDigits ==
  ASSUME NEW n \in Nat, NEW s, DOMAIN s = 1..n, NEW v,
         v[0] = 0, \A j \in 1..n : v[j] = v[j - 1] * Base + s[j]
  PROVE  FoldLeft(LAMBDA m, byte : m * Base + byte, 0, s) = v[n]
<1> DEFINE g == CHOOSE f : Reads(f, s, SUBSET (1..n))
<1>1. FoldLeft(LAMBDA m, byte : m * Base + byte, 0, s) = g[1..n]
  BY DEF FoldLeft, MapThenFoldSet, Reads
<1>2. Reads(g, s, SUBSET (1..n))
  BY ReadsExist
<1> HIDE DEF g
<1>3. /\ g[{}] = 0
      /\ \A t \in SUBSET (1..n) : t # {} => g[t] = g[t \ {Max(t)}] * Base + s[Max(t)]
  <2>1. \A t \in SUBSET (1..n) : g[t] = IF t = {} THEN 0 ELSE g[t \ {Max(t)}] * Base + s[Max(t)]
    BY <1>2 DEF Reads
  <2> QED BY <2>1
<1> DEFINE Good == {j \in Nat : j <= n => g[1..j] = v[j]}
<1>4. 0 \in Good
  <2>1. 1..0 = {}
    OBVIOUS
  <2> QED BY <1>3, <2>1
<1>5. ASSUME NEW j \in Nat, j \in Good PROVE j + 1 \in Good
  <2> SUFFICES ASSUME j + 1 <= n PROVE g[1..(j + 1)] = v[j + 1]
    OBVIOUS
  <2> DEFINE t == 1..(j + 1)
  <2>1. t \in SUBSET (1..n) /\ t # {} /\ j + 1 \in t
    <3>1. j + 1 \in 1..(j + 1)
      OBVIOUS
    <3>2. \A x \in 1..(j + 1) : x \in 1..n
      OBVIOUS
    <3> QED BY <3>1, <3>2
  <2>2. Max(t) = j + 1
    <3>1. Max(t) \in t /\ Max(t) >= j + 1
      BY <2>1, MaxOfSome
    <3> QED BY <3>1
  <2>3. t \ {j + 1} = 1..j
    OBVIOUS
  <2>4. g[1..j] = v[j] /\ j + 1 \in 1..n /\ (j + 1) - 1 = j
    BY <1>5
  <2> HIDE DEF t
  <2>5. g[t] = g[1..j] * Base + s[j + 1]
    BY <1>3, <2>1, <2>2, <2>3
  <2>6. v[j + 1] = v[j] * Base + s[j + 1]
    BY <2>4
  <2> QED BY <2>4, <2>5, <2>6 DEF t
<1> HIDE DEF Good
<1>6. n \in Good
  BY <1>4, <1>5, NatInd
<1>7. g[1..n] = v[n]
  BY <1>6 DEF Good
<1> QED BY <1>1, <1>7

\* Dividing by a power and by the base once more.
LEMMA DivAgain ==
  ASSUME NEW a \in Nat, NEW p \in Nat \ {0}, NEW b \in Nat \ {0}
  PROVE  a \div (b * p) = (a \div p) \div b
<1>1. PICK q \in Nat, r \in Nat : a = p * q + r /\ r < p /\ a \div p = q
  <2>1. a \div p \in Nat /\ a = p * (a \div p) + (a % p) /\ a % p \in 0..(p - 1)
    OBVIOUS
  <2> QED BY <2>1
<1>2. PICK m \in Nat, t \in Nat : q = b * m + t /\ t < b /\ q \div b = m
  <2>1. q \div b \in Nat /\ q = b * (q \div b) + (q % b) /\ q % b \in 0..(b - 1)
    OBVIOUS
  <2> QED BY <2>1
<1> DEFINE bp == b * p
           low == p * t + r
<1>3. bp \in Nat \ {0} /\ low \in Nat
  BY NatProduct
<1>4. a = bp * m + low
  <2>1. p * (b * m + t) = (b * p) * m + p * t
    OBVIOUS
  <2> QED BY <1>1, <1>2, <2>1
<1>5. low < bp
  <2>1. p * t <= p * (b - 1) /\ p * (b - 1) = b * p - p /\ p * t \in Nat
    BY <1>2
  <2> QED BY <1>1, <2>1
<1> HIDE DEF bp, low
<1>6. \A c \in Nat \ {0}, l \in Nat, k \in Nat : l < c => (c * k + l) \div c = k
  OBVIOUS
<1>7. a \div bp = m
  BY <1>3, <1>4, <1>5, <1>6
<1> QED BY <1>1, <1>2, <1>7 DEF bp

----------------------------------------------------------------------------
(* Numberu64: the digits of a number, and the number of the digits.        *)

\* A natural number's bytes, and how many there are.
LEMMA ArraySize ==
  ASSUME NEW a \in Nat
  PROVE  \E k \in 1..(a + 1) : a < Power[k] /\ (k = 1 \/ a >= Power[k - 1])
<1> DEFINE Good == {k \in Nat : k >= 1 /\ a < Power[k] =>
                       \E l \in 1..k : a < Power[l] /\ (l = 1 \/ a >= Power[l - 1])}
<1>1. 0 \in Good
  OBVIOUS
<1>2. ASSUME NEW k \in Nat, k \in Good PROVE k + 1 \in Good
  <2> SUFFICES ASSUME a < Power[k + 1]
               PROVE  \E l \in 1..(k + 1) : a < Power[l] /\ (l = 1 \/ a >= Power[l - 1])
    OBVIOUS
  <2>1. k + 1 \in 1..(k + 1) /\ (k + 1) - 1 = k /\ (k >= 1 \/ k + 1 = 1) /\ Power[k] \in Nat
    BY Powers
  <2>2. CASE k >= 1 /\ a < Power[k]
    BY <1>2, <2>2
  <2>3. CASE ~(k >= 1 /\ a < Power[k])
    BY <2>1, <2>3
  <2> QED BY <2>2, <2>3
<1> HIDE DEF Good
<1>3. a + 1 \in Good
  BY <1>1, <1>2, NatInd
<1>4. a < Power[a + 1] /\ a + 1 >= 1
  <2>1. Power[a + 1] > a + 1 /\ Power[a + 1] \in Nat
    BY Powers, PowersGrow
  <2> QED BY <2>1
<1> QED BY <1>3, <1>4 DEF Good

Digit(a, k) == (a \div Power[k]) % Base

LEMMA ArrayIs ==
  ASSUME NEW n \in Int
  PROVE  \E size \in Nat \ {0} :
           /\ Magnitude(n) \in Nat
           /\ Magnitude(n) < Power[size] /\ (size = 1 \/ Magnitude(n) >= Power[size - 1])
           /\ toArray(n) = [i \in 1..size |-> Digit(Magnitude(n), size - i)]
<1> DEFINE a == Magnitude(n)
           Holds(k) == a < Power[k] /\ (k = 1 \/ a >= Power[k - 1])
           size == CHOOSE k \in 1..(a + 1) : Holds(k)
<1>1. a \in Nat
  BY DEF Magnitude
<1>2. \E k \in 1..(a + 1) : Holds(k)
  <2> HIDE DEF a
  <2> QED BY <1>1, ArraySize
<1>3. size \in 1..(a + 1) /\ Holds(size)
  <2> HIDE DEF Holds
  <2> QED BY <1>2
<1>4. toArray(n) = [i \in 1..size |-> Digit(a, size - i)]
  BY DEF toArray, Digit
<1> HIDE DEF size
<1> HIDE DEF a
<1>5. size \in Nat \ {0}
  BY <1>1, <1>3
<1> QED BY <1>1, <1>3, <1>4, <1>5 DEF a

LEMMA ModFacts ==
  ASSUME NEW x \in Nat, NEW b \in Nat \ {0}
  PROVE  /\ x \div b \in Nat /\ x % b \in 0..(b - 1)
         /\ x = (x \div b) * b + (x % b)
<1>1. x \div b \in Nat /\ x = b * (x \div b) + (x % b) /\ x % b \in 0..(b - 1)
  OBVIOUS
<1>2. \A y, z \in Int : y * z = z * y
  OBVIOUS
<1>3. b * (x \div b) = (x \div b) * b
  BY <1>1, <1>2
<1>4. x = (x \div b) * b + (x % b)
  BY <1>1, <1>3, Zenon
<1> QED BY <1>1, <1>4, Zenon

LEMMA DigitFacts ==
  ASSUME NEW a \in Nat, NEW k \in Nat
  PROVE  /\ Digit(a, k) \in 0..(Base - 1)
         /\ a \div Power[k] \in Nat
         /\ a \div Power[k] = (a \div Power[k + 1]) * Base + Digit(a, k)
         /\ a < Power[k] => a \div Power[k] = 0 /\ Digit(a, k) = 0
<1> DEFINE p == Power[k]
           q == a \div p
<1>1. p \in Nat \ {0} /\ Power[k + 1] = Base * p /\ Base \in Nat \ {0}
  BY Powers, WidthFacts
<1> HIDE DEF p
<1>2. q \in Nat
  BY <1>1
<1>3. a \div (Base * p) = q \div Base
  BY <1>1, DivAgain
<1>4. a < p => q = 0
  BY <1>1
<1> HIDE DEF q
<1>6. q % Base \in 0..(Base - 1) /\ q = (q \div Base) * Base + (q % Base)
  BY <1>1, <1>2, ModFacts
<1>7. \A b \in Nat \ {0} : 0 % b = 0
  OBVIOUS
<1>8. Digit(a, k) = q % Base
  BY DEF Digit, p, q
<1>9. a \div Power[k] = q
  BY DEF p, q
<1>10. a < Power[k] => q = 0 /\ q % Base = 0
  BY <1>1, <1>4, <1>7 DEF p
<1>11. a \div Power[k + 1] = q \div Base
  BY <1>1, <1>3
<1>12. Digit(a, k) \in 0..(Base - 1) /\ a \div Power[k] \in Nat
  BY <1>2, <1>6, <1>8, <1>9
<1>13. a \div Power[k] = (a \div Power[k + 1]) * Base + Digit(a, k)
  <2>1. (a \div Power[k + 1]) * Base + Digit(a, k) = (q \div Base) * Base + (q % Base)
    BY <1>8, <1>11, Zenon
  <2> QED BY <1>6, <1>9, <2>1, Zenon
<1>14. a < Power[k] => a \div Power[k] = 0 /\ Digit(a, k) = 0
  BY <1>8, <1>9, <1>10, Zenon
<1> QED BY <1>12, <1>13, <1>14

LEMMA NumbersSurvive ==
  ASSUME number \in Int PROVE NumberSurvives
<1> DEFINE a == Magnitude(number)
           buffer == toBuffer(number)
<1>1. PICK size \in Nat \ {0} :
        /\ a \in Nat
        /\ a < Power[size] /\ (size = 1 \/ a >= Power[size - 1])
        /\ toArray(number) = [i \in 1..size |-> Digit(a, size - i)]
  BY ArrayIs
<1> DEFINE b == Reverse(toArray(number))
<1> HIDE DEF a
<1>2. Len(b) = size /\ b = [i \in 1..size |-> Digit(a, i - 1)]
  <2>1. Len(toArray(number)) = size
    BY <1>1
  <2>2. b = [i \in 1..size |-> toArray(number)[(size - i) + 1]]
    BY <2>1 DEF Reverse
  <2>3. \A i \in 1..size : (size - i) + 1 \in 1..size /\ size - ((size - i) + 1) = i - 1
    OBVIOUS
  <2>4. \A i \in 1..size : toArray(number)[(size - i) + 1] = Digit(a, i - 1)
    BY <1>1, <2>3
  <2> HIDE DEF b
  <2> QED BY <2>2, <2>4
<1>3. buffer = IF Len(b) > Width THEN Refused
               ELSE [i \in 1..Width |-> IF i <= Len(b) THEN b[i] ELSE 0]
  BY DEF toBuffer
<1> HIDE DEF b, buffer
<1>4. a > MaxU64 <=> Len(b) > Width
  <2>1. Power[size] \in Nat /\ Power[size - 1] \in Nat /\ Power[Width] \in Nat
    BY Powers, WidthFacts
  <2>2. CASE size > Width
    <3>1. Power[Width] <= Power[size - 1] /\ size # 1
      BY <2>2, PowersGrow, WidthFacts
    <3> QED BY <1>1, <1>2, <2>1, <2>2, <3>1, WidthFacts
  <2>3. CASE ~(size > Width)
    <3>1. Power[size] <= Power[Width]
      BY <2>3, PowersGrow, WidthFacts
    <3> QED BY <1>1, <1>2, <2>1, <2>3, <3>1, WidthFacts
  <2> QED BY <2>2, <2>3
<1>5. ASSUME ~(a > MaxU64) PROVE Len(buffer) = Width /\ fromBuffer(buffer) = a
  <2>1. buffer = [i \in 1..Width |-> Digit(a, i - 1)]
    <3>1. \A i \in 1..Width : i > size => Digit(a, i - 1) = 0
      <4> SUFFICES ASSUME NEW i \in 1..Width, i > size PROVE Digit(a, i - 1) = 0
        OBVIOUS
      <4>1. size <= i - 1 /\ i - 1 \in Nat
        BY WidthFacts
      <4>2. Power[size] <= Power[i - 1] /\ Power[size] \in Nat /\ Power[i - 1] \in Nat
        BY <4>1, Powers, PowersGrow
      <4>3. a < Power[i - 1]
        BY <1>1, <4>2
      <4> QED BY <1>1, <4>1, <4>3, DigitFacts
    <3>2. buffer = [i \in 1..Width |-> IF i <= Len(b) THEN b[i] ELSE 0]
      BY <1>3, <1>4, <1>5
    <3>3. \A i \in 1..Width : (IF i <= Len(b) THEN b[i] ELSE 0) = Digit(a, i - 1)
      BY <1>2, <3>1, WidthFacts
    <3> QED BY <3>2, <3>3
  <2>2. Len(buffer) = Width
    BY <2>1, WidthFacts
  <2> DEFINE s == Reverse(buffer)
             v == [j \in 0..Width |-> a \div Power[Width - j]]
  <2>3. s = [j \in 1..Width |-> Digit(a, Width - j)]
    <3>1. s = [j \in 1..Width |-> buffer[(Width - j) + 1]]
      BY <2>2 DEF Reverse
    <3>2. \A j \in 1..Width : (Width - j) + 1 \in 1..Width /\ ((Width - j) + 1) - 1 = Width - j
      BY WidthFacts
    <3>3. \A j \in 1..Width : buffer[(Width - j) + 1] = Digit(a, Width - j)
      BY <2>1, <3>2
    <3> HIDE DEF s
    <3> QED BY <3>1, <3>3
  <2>4. fromBuffer(buffer) = FoldLeft(LAMBDA m, byte : m * Base + byte, 0, s)
    BY DEF fromBuffer
  <2> HIDE DEF s
  <2>5. v[0] = 0
    <3>1. v[0] = a \div Power[Width]
      BY WidthFacts
    <3>2. a < Power[Width]
      BY <1>1, <1>5, WidthFacts
    <3> QED BY <1>1, <3>1, <3>2, DigitFacts, WidthFacts
  <2>6. \A j \in 1..Width : v[j] = v[j - 1] * Base + s[j]
    <3> SUFFICES ASSUME NEW j \in 1..Width PROVE v[j] = v[j - 1] * Base + s[j]
      OBVIOUS
    <3>1. /\ j \in 0..Width /\ j - 1 \in 0..Width /\ Width - j \in Nat
          /\ Width - (j - 1) = (Width - j) + 1
      BY WidthFacts
    <3>2. v[j] = a \div Power[Width - j] /\ v[j - 1] = a \div Power[(Width - j) + 1]
      BY <3>1
    <3> HIDE DEF v
    <3>3. s[j] = Digit(a, Width - j)
      BY <2>3
    <3> QED BY <1>1, <3>1, <3>2, <3>3, DigitFacts
  <2>7. v[Width] = a
    <3>1. v[Width] = a \div Power[0]
      BY WidthFacts
    <3>2. a \div 1 = a
      BY <1>1
    <3> HIDE DEF v
    <3> QED BY <3>1, <3>2, Powers
  <2>8. DOMAIN s = 1..Width
    BY <2>3
  <2> HIDE DEF v
  <2>9. FoldLeft(LAMBDA m, byte : m * Base + byte, 0, s) = v[Width]
    BY <2>5, <2>6, <2>8, FoldDigits, WidthFacts
  <2>10. fromBuffer(buffer) = v[Width]
    BY <2>4, <2>9
  <2> QED BY <2>2, <2>7, <2>10
<1> QED BY <1>3, <1>4, <1>5 DEF NumberSurvives, a, buffer

----------------------------------------------------------------------------
(* Layouts: the names of the fields, in their order, and their kinds.      *)

\* Names are the names of the fields, and the kind of a field is its own.
LEMMA KindIs ==
  ASSUME NEW L, \A i, j \in 1..Len(L) : L[i][1] = L[j][1] => i = j, NEW k \in 1..Len(L)
  PROVE  L[k][1] \in Names(L) /\ KindOf(L, L[k][1]) = L[k][2]
<1>1. PlaceOf(L, L[k][1]) = k
  BY DEF PlaceOf
<1>2. L[k][1] \in Names(L)
  BY DEF Names
<1> QED BY <1>1, <1>2 DEF KindOf

CampaignNumbers ==
  {"max_allocation_all_phases", "earlyJoinMaxTotalAlloc", "earlyJoinStart", "earlyJoinEnd",
   "publicIndividualAlloc", "publicStart", "publicEnd", "claim_at"}

Switches == {"earlyJoinIsActive", "publicIsActive"}

LEMMA Joined ==
  ASSUME NEW F, NEW s \in Seq(F), NEW t \in Seq(F)
  PROVE  /\ s \o t \in Seq(F) /\ Len(s \o t) = Len(s) + Len(t)
         /\ \A i \in 1..Len(s) : (s \o t)[i] = s[i]
         /\ \A i \in 1..Len(t) : (s \o t)[Len(s) + i] = t[i]
  OBVIOUS

(* The fields of the layouts of a campaign and of a rate.                  *)
LEMMA SetCampaignIs ==
  LET L == SetCampaignLayout IN
  /\ Len(L) = 11 /\ L = [i \in 1..11 |-> L[i]]
  /\ L[1] = <<"instruction", "u8">> /\ L[2] = <<"max_allocation_all_phases", "nu64">>
  /\ L[3] = <<"earlyJoinIsActive", "bool">> /\ L[4] = <<"earlyJoinMaxTotalAlloc", "nu64">>
  /\ L[5] = <<"earlyJoinStart", "nu64">> /\ L[6] = <<"earlyJoinEnd", "nu64">>
  /\ L[7] = <<"publicIsActive", "bool">> /\ L[8] = <<"publicIndividualAlloc", "nu64">>
  /\ L[9] = <<"publicStart", "nu64">> /\ L[10] = <<"publicEnd", "nu64">>
  /\ L[11] = <<"claim_at", "nu64">>
<1> DEFINE F == ({"instruction", "earlyJoinIsActive", "publicIsActive"} \cup CampaignNumbers)
                  \X {"u8", "bool", "nu64"}
           early3 == Numbers(<<"earlyJoinMaxTotalAlloc", "earlyJoinStart", "earlyJoinEnd">>)
           public4 == Numbers(<<"publicIndividualAlloc", "publicStart", "publicEnd", "claim_at">>)
           first3 == <<<<"instruction", "u8">>, <<"max_allocation_all_phases", "nu64">>,
                       <<"earlyJoinIsActive", "bool">>>>
           active == <<<<"publicIsActive", "bool">>>>
           six == first3 \o early3
           seven == six \o active
           all == seven \o public4
<1>1. /\ early3 \in Seq(F) /\ Len(early3) = 3
      /\ early3[1] = <<"earlyJoinMaxTotalAlloc", "nu64">>
      /\ early3[2] = <<"earlyJoinStart", "nu64">> /\ early3[3] = <<"earlyJoinEnd", "nu64">>
  BY DEF Numbers, CampaignNumbers
<1>2. /\ public4 \in Seq(F) /\ Len(public4) = 4
      /\ public4[1] = <<"publicIndividualAlloc", "nu64">> /\ public4[2] = <<"publicStart", "nu64">>
      /\ public4[3] = <<"publicEnd", "nu64">> /\ public4[4] = <<"claim_at", "nu64">>
  BY DEF Numbers, CampaignNumbers
<1>3. /\ first3 \in Seq(F) /\ Len(first3) = 3 /\ first3[1] = <<"instruction", "u8">>
      /\ first3[2] = <<"max_allocation_all_phases", "nu64">>
      /\ first3[3] = <<"earlyJoinIsActive", "bool">>
      /\ active \in Seq(F) /\ Len(active) = 1 /\ active[1] = <<"publicIsActive", "bool">>
  BY DEF CampaignNumbers
<1>4. SetCampaignLayout = all
  BY DEF SetCampaignLayout
<1> HIDE DEF F, early3, public4, first3, active
<1>5. /\ six \in Seq(F) /\ Len(six) = 6 /\ \A i \in 1..3 : six[i] = first3[i] /\ six[3 + i] = early3[i]
  BY <1>1, <1>3, Joined
<1> HIDE DEF six
<1>6. /\ seven \in Seq(F) /\ Len(seven) = 7 /\ \A i \in 1..6 : seven[i] = six[i]
      /\ \A i \in 1..1 : seven[6 + i] = active[i]
  <2>1. /\ seven \in Seq(F) /\ Len(seven) = Len(six) + Len(active)
        /\ \A i \in 1..Len(six) : seven[i] = six[i]
        /\ \A i \in 1..Len(active) : seven[Len(six) + i] = active[i]
    <3>1. six \in Seq(F) /\ active \in Seq(F)
      BY <1>3, <1>5
    <3> QED BY <3>1, Joined
  <2> HIDE DEF seven
  <2> QED BY <1>3, <1>5, <2>1
<1> HIDE DEF seven
<1>7. /\ all \in Seq(F) /\ Len(all) = 11 /\ \A i \in 1..7 : all[i] = seven[i]
      /\ \A i \in 1..4 : all[7 + i] = public4[i]
  <2>1. /\ all \in Seq(F) /\ Len(all) = Len(seven) + Len(public4)
        /\ \A i \in 1..Len(seven) : all[i] = seven[i]
        /\ \A i \in 1..Len(public4) : all[Len(seven) + i] = public4[i]
    <3>1. seven \in Seq(F) /\ public4 \in Seq(F)
      BY <1>2, <1>6
    <3> QED BY <3>1, Joined
  <2> HIDE DEF all
  <2> QED BY <1>2, <1>6, <2>1
<1> HIDE DEF all
<1>8. /\ all[1] = first3[1] /\ all[2] = first3[2] /\ all[3] = first3[3]
      /\ all[4] = early3[1] /\ all[5] = early3[2] /\ all[6] = early3[3]
      /\ all[7] = active[1] /\ all[8] = public4[1] /\ all[9] = public4[2]
      /\ all[10] = public4[3] /\ all[11] = public4[4]
  BY <1>5, <1>6, <1>7
<1>9. all = [i \in 1..11 |-> all[i]]
  BY <1>7
<1> QED BY <1>1, <1>2, <1>3, <1>4, <1>7, <1>8, <1>9

LEMMA SetRateIs ==
  LET L == setRateInstruction.layout IN
  /\ Len(L) = 3 /\ L = [i \in 1..3 |-> L[i]] /\ L[1] = <<"instruction", "u8">>
  /\ L[2] = <<"rateNumerator", "nu64">> /\ L[3] = <<"rateDenominator", "nu64">>
<1> DEFINE F == {"instruction", "rateNumerator", "rateDenominator"} \X {"u8", "nu64"}
           first == <<<<"instruction", "u8">>>>
           rate == Numbers(<<"rateNumerator", "rateDenominator">>)
           all == first \o rate
<1>1. /\ rate \in Seq(F) /\ Len(rate) = 2
      /\ rate[1] = <<"rateNumerator", "nu64">> /\ rate[2] = <<"rateDenominator", "nu64">>
  BY DEF Numbers, CampaignNumbers
<1>2. first \in Seq(F) /\ Len(first) = 1 /\ first[1] = <<"instruction", "u8">>
  OBVIOUS
<1>3. setRateInstruction.layout = all
  BY DEF setRateInstruction, Op
<1> HIDE DEF F, first, rate
<1>4. /\ all \in Seq(F) /\ Len(all) = 3 /\ \A i \in 1..1 : all[i] = first[i]
      /\ \A i \in 1..2 : all[1 + i] = rate[i]
  <2>1. /\ all \in Seq(F) /\ Len(all) = Len(first) + Len(rate)
        /\ \A i \in 1..Len(first) : all[i] = first[i]
        /\ \A i \in 1..Len(rate) : all[Len(first) + i] = rate[i]
    <3>1. first \in Seq(F) /\ rate \in Seq(F)
      BY <1>1, <1>2
    <3> QED BY <3>1, Joined
  <2> HIDE DEF all
  <2> QED BY <1>1, <1>2, <2>1
<1> HIDE DEF all
<1>5. all[1] = first[1] /\ all[2] = rate[1] /\ all[3] = rate[2]
  BY <1>4
<1>6. all = [i \in 1..3 |-> all[i]]
  BY <1>4
<1> QED BY <1>1, <1>2, <1>3, <1>4, <1>5, <1>6

\* The order in which the program reads a campaign and a rate.
LEMMA SameLayout ==
  ASSUME NEW n, NEW s, NEW t, s = [i \in 1..n |-> s[i]], t = [i \in 1..n |-> t[i]],
         \A i \in 1..n : s[i] = t[i]
  PROVE  s = t
<1>1. [i \in 1..n |-> s[i]] = [i \in 1..n |-> t[i]]
  OBVIOUS
<1> QED BY <1>1, Zenon

LEMMA ProgramCampaignIs ==
  LET L == ProgramCampaign IN
  /\ Len(L) = 10
  /\ L \in Seq((Switches \cup CampaignNumbers) \X {"bool", "nu64"})
  /\ L[1] = <<"max_allocation_all_phases", "nu64">>
  /\ L[2] = <<"earlyJoinIsActive", "bool">> /\ L[3] = <<"earlyJoinMaxTotalAlloc", "nu64">>
  /\ L[4] = <<"earlyJoinStart", "nu64">> /\ L[5] = <<"earlyJoinEnd", "nu64">>
  /\ L[6] = <<"publicIsActive", "bool">> /\ L[7] = <<"publicIndividualAlloc", "nu64">>
  /\ L[8] = <<"publicStart", "nu64">> /\ L[9] = <<"publicEnd", "nu64">>
  /\ L[10] = <<"claim_at", "nu64">>
  BY DEF ProgramCampaign, Switches, CampaignNumbers

LEMMA CampaignIsRead == ProgramSetCampaign = SetCampaignLayout
<1> DEFINE F == ({"instruction"} \cup Switches \cup CampaignNumbers) \X {"u8", "bool", "nu64"}
           first == <<<<"instruction", "u8">>>>
           rest == ProgramCampaign
           all == first \o rest
           L == SetCampaignLayout
<1>1. /\ Len(rest) = 10
      /\ rest[1] = <<"max_allocation_all_phases", "nu64">>
      /\ rest[2] = <<"earlyJoinIsActive", "bool">> /\ rest[3] = <<"earlyJoinMaxTotalAlloc", "nu64">>
      /\ rest[4] = <<"earlyJoinStart", "nu64">> /\ rest[5] = <<"earlyJoinEnd", "nu64">>
      /\ rest[6] = <<"publicIsActive", "bool">> /\ rest[7] = <<"publicIndividualAlloc", "nu64">>
      /\ rest[8] = <<"publicStart", "nu64">> /\ rest[9] = <<"publicEnd", "nu64">>
      /\ rest[10] = <<"claim_at", "nu64">>
  BY ProgramCampaignIs
<1>2. rest \in Seq(F)
  <2> DEFINE G == (Switches \cup CampaignNumbers) \X {"bool", "nu64"}
  <2>1. rest \in Seq(G)
    BY ProgramCampaignIs
  <2>2. G \subseteq F
    OBVIOUS
  <2> HIDE DEF rest, F, G
  <2> QED BY <2>1, <2>2
<1>3. first \in Seq(F) /\ Len(first) = 1 /\ first[1] = <<"instruction", "u8">>
  OBVIOUS
<1>4. ProgramSetCampaign = all
  BY DEF ProgramSetCampaign
<1>5. /\ Len(L) = 11 /\ L = [i \in 1..11 |-> L[i]]
      /\ L[1] = <<"instruction", "u8">> /\ L[2] = <<"max_allocation_all_phases", "nu64">>
      /\ L[3] = <<"earlyJoinIsActive", "bool">> /\ L[4] = <<"earlyJoinMaxTotalAlloc", "nu64">>
      /\ L[5] = <<"earlyJoinStart", "nu64">> /\ L[6] = <<"earlyJoinEnd", "nu64">>
      /\ L[7] = <<"publicIsActive", "bool">> /\ L[8] = <<"publicIndividualAlloc", "nu64">>
      /\ L[9] = <<"publicStart", "nu64">> /\ L[10] = <<"publicEnd", "nu64">>
      /\ L[11] = <<"claim_at", "nu64">>
  BY SetCampaignIs
<1> HIDE DEF F, first, rest, L
<1>6. /\ all \in Seq(F) /\ Len(all) = 11 /\ all[1] = first[1]
      /\ \A i \in 1..10 : all[1 + i] = rest[i]
  <2>1. /\ all \in Seq(F) /\ Len(all) = Len(first) + Len(rest)
        /\ \A i \in 1..Len(first) : all[i] = first[i]
        /\ \A i \in 1..Len(rest) : all[Len(first) + i] = rest[i]
    BY <1>2, <1>3, Joined
  <2> HIDE DEF all
  <2> QED BY <1>1, <1>3, <2>1
<1> HIDE DEF all
<1>7. all = [i \in 1..11 |-> all[i]]
  BY <1>6
<1>8. /\ all[2] = rest[1] /\ all[3] = rest[2] /\ all[4] = rest[3] /\ all[5] = rest[4]
      /\ all[6] = rest[5] /\ all[7] = rest[6] /\ all[8] = rest[7] /\ all[9] = rest[8]
      /\ all[10] = rest[9] /\ all[11] = rest[10]
  BY <1>6
<1>9. \A i \in 1..11 : i \in {1, 2, 3, 4, 5, 6, 7, 8, 9, 10, 11}
  OBVIOUS
<1>10. \A i \in 1..11 : all[i] = L[i]
  <2>1. /\ all[1] = L[1] /\ all[2] = L[2] /\ all[3] = L[3] /\ all[4] = L[4] /\ all[5] = L[5]
        /\ all[6] = L[6] /\ all[7] = L[7] /\ all[8] = L[8] /\ all[9] = L[9]
        /\ all[10] = L[10] /\ all[11] = L[11]
    BY <1>1, <1>3, <1>5, <1>6, <1>8
  <2> QED BY <1>9, <2>1
<1>11. all = L
  BY <1>5, <1>7, <1>10, SameLayout
<1> QED BY <1>4, <1>11 DEF L

LEMMA RateIsRead == ProgramSetRate = setRateInstruction.layout
<1> DEFINE P == ProgramSetRate
           L == setRateInstruction.layout
<1>1. /\ P = [i \in 1..3 |-> P[i]] /\ P[1] = <<"instruction", "u8">>
      /\ P[2] = <<"rateNumerator", "nu64">> /\ P[3] = <<"rateDenominator", "nu64">>
  BY DEF ProgramSetRate
<1>2. /\ L = [i \in 1..3 |-> L[i]] /\ L[1] = <<"instruction", "u8">>
      /\ L[2] = <<"rateNumerator", "nu64">> /\ L[3] = <<"rateDenominator", "nu64">>
  BY SetRateIs
<1> HIDE DEF P, L
<1>3. \A i \in 1..3 : i \in {1, 2, 3}
  OBVIOUS
<1>4. \A i \in 1..3 : P[i] = L[i]
  BY <1>1, <1>2, <1>3
<1>5. P = L
  BY <1>1, <1>2, <1>4, SameLayout
<1> QED BY <1>5 DEF P, L

LEMMA CampaignFields ==
  /\ Names(SetCampaignLayout) =
       {"instruction", "earlyJoinIsActive", "publicIsActive"} \cup CampaignNumbers
  /\ KindOf(SetCampaignLayout, "earlyJoinIsActive") = "bool"
  /\ KindOf(SetCampaignLayout, "publicIsActive") = "bool"
  /\ \A name \in CampaignNumbers : KindOf(SetCampaignLayout, name) = "nu64"
<1> DEFINE L == SetCampaignLayout
<1>1. /\ Len(L) = 11
      /\ L[1] = <<"instruction", "u8">> /\ L[2] = <<"max_allocation_all_phases", "nu64">>
      /\ L[3] = <<"earlyJoinIsActive", "bool">> /\ L[4] = <<"earlyJoinMaxTotalAlloc", "nu64">>
      /\ L[5] = <<"earlyJoinStart", "nu64">> /\ L[6] = <<"earlyJoinEnd", "nu64">>
      /\ L[7] = <<"publicIsActive", "bool">> /\ L[8] = <<"publicIndividualAlloc", "nu64">>
      /\ L[9] = <<"publicStart", "nu64">> /\ L[10] = <<"publicEnd", "nu64">>
      /\ L[11] = <<"claim_at", "nu64">>
  BY SetCampaignIs
<1> HIDE DEF L
<1>2. \A i \in 1..11 : i \in {1, 2, 3, 4, 5, 6, 7, 8, 9, 10, 11}
  OBVIOUS
<1>3. \A i, j \in 1..Len(L) : L[i][1] = L[j][1] => i = j
  BY <1>1, <1>2
<1>4. \A k \in 1..Len(L) : KindOf(L, L[k][1]) = L[k][2]
  BY <1>3, KindIs
<1>5. /\ KindOf(L, L[2][1]) = L[2][2] /\ KindOf(L, L[3][1]) = L[3][2]
      /\ KindOf(L, L[4][1]) = L[4][2] /\ KindOf(L, L[5][1]) = L[5][2]
      /\ KindOf(L, L[6][1]) = L[6][2] /\ KindOf(L, L[7][1]) = L[7][2]
      /\ KindOf(L, L[8][1]) = L[8][2] /\ KindOf(L, L[9][1]) = L[9][2]
      /\ KindOf(L, L[10][1]) = L[10][2] /\ KindOf(L, L[11][1]) = L[11][2]
  BY <1>1, <1>4
<1>6. Names(L) = {L[1][1], L[2][1], L[3][1], L[4][1], L[5][1], L[6][1], L[7][1], L[8][1],
                  L[9][1], L[10][1], L[11][1]}
  BY <1>1, <1>2 DEF Names
<1>7. Names(L) = {"instruction", "earlyJoinIsActive", "publicIsActive"} \cup CampaignNumbers
  BY <1>1, <1>6 DEF CampaignNumbers
<1> QED BY <1>1, <1>5, <1>7 DEF CampaignNumbers, L

LEMMA RateFields ==
  /\ Names(setRateInstruction.layout) = {"instruction", "rateNumerator", "rateDenominator"}
  /\ KindOf(setRateInstruction.layout, "rateNumerator") = "nu64"
  /\ KindOf(setRateInstruction.layout, "rateDenominator") = "nu64"
<1> DEFINE L == setRateInstruction.layout
<1>1. /\ Len(L) = 3
      /\ L[1] = <<"instruction", "u8">> /\ L[2] = <<"rateNumerator", "nu64">>
      /\ L[3] = <<"rateDenominator", "nu64">>
  BY SetRateIs
<1> HIDE DEF L
<1>2. \A i \in 1..3 : i \in {1, 2, 3}
  OBVIOUS
<1>3. \A i, j \in 1..Len(L) : L[i][1] = L[j][1] => i = j
  BY <1>1, <1>2
<1>4. \A k \in 1..Len(L) : KindOf(L, L[k][1]) = L[k][2]
  BY <1>3, KindIs
<1>5. Names(L) = {L[1][1], L[2][1], L[3][1]}
  BY <1>1, <1>2 DEF Names
<1> QED BY <1>1, <1>4, <1>5 DEF L

----------------------------------------------------------------------------
(* The data of an instruction, and what the program makes of it.           *)

(* What the program reads of a number that was written.                    *)
AsWritten(n) == IF n = NaN THEN 0 ELSE n

(* The number at the place of a field.                                     *)
At(layout, cells, name) == cells[PlaceOf(layout, name)].value

\* At the place of a field is what was written for it, and it is read from there.
LEMMA Found ==
  ASSUME NEW L, NEW src, NEW name \in Names(L)
  PROVE  LET w == Encode(L, src) IN
         /\ name \in DOMAIN src => At(L, w, name) = Written(KindOf(L, name), src[name])
         /\ Decode(L, w)[name] = IF KindOf(L, name) = "bool" THEN At(L, w, name) # 0
                                 ELSE At(L, w, name)
<1> DEFINE k == PlaceOf(L, name)
           w == Encode(L, src)
<1>1. k \in 1..Len(L) /\ L[k][1] = name /\ KindOf(L, name) = L[k][2]
  BY DEF Names, PlaceOf, KindOf
<1>2. w[k] = [span |-> KindSpan[L[k][2]],
              value |-> IF L[k][1] \in DOMAIN src THEN Written(L[k][2], src[L[k][1]]) ELSE 0]
  BY <1>1 DEF Encode
<1>3. w[k].value = IF name \in DOMAIN src THEN Written(KindOf(L, name), src[name]) ELSE 0
  <2> HIDE DEF k, w
  <2> QED BY <1>1, <1>2
<1>4. Decode(L, w)[name] = IF KindOf(L, name) = "bool" THEN w[k].value # 0 ELSE w[k].value
  BY DEF Decode
<1> QED BY <1>3, <1>4 DEF At

\* The cells of the data, one for each field, in the order of the fields.
LEMMA Cells ==
  ASSUME NEW L, Len(L) \in Nat, NEW src
  PROVE  /\ Fits(L, Encode(L, src))
         /\ \A i \in 1..Len(L) :
              L[i][1] \in DOMAIN src =>
                Encode(L, src)[i] = [span |-> KindSpan[L[i][2]],
                                     value |-> Written(L[i][2], src[L[i][1]])]
<1> DEFINE w == Encode(L, src)
           cell(i) == [span |-> KindSpan[L[i][2]],
                       value |-> IF L[i][1] \in DOMAIN src THEN Written(L[i][2], src[L[i][1]])
                                 ELSE 0]
<1>1. w = [i \in 1..Len(L) |-> cell(i)]
  BY DEF Encode
<1>2. \A i \in 1..Len(L) : cell(i).span = KindSpan[L[i][2]]
  OBVIOUS
<1> HIDE DEF w
<1>3. \A i \in 1..Len(L) :
        L[i][1] \in DOMAIN src =>
          w[i] = [span |-> KindSpan[L[i][2]], value |-> Written(L[i][2], src[L[i][1]])]
  BY <1>1
<1> HIDE DEF cell
<1>4. Len(w) = Len(L) /\ \A i \in 1..Len(L) : w[i].span = KindSpan[L[i][2]]
  BY <1>1, <1>2
<1> QED BY <1>3, <1>4 DEF Fits, w

CampaignRecord ==
  [max_allocation_all_phases : Int, claim_at : Int,
   early_join_phase : [is_active : BOOLEAN, max_total_alloc : Int, start_at : Int, end_at : Int],
   public_phase : [is_active : BOOLEAN, max_individual_alloc : Int, start_at : Int, end_at : Int]]

LEMMA CampaignSources ==
  ASSUME NEW c
  PROVE  LET src == CampaignSource(c) IN
         /\ DOMAIN src = {"earlyJoinIsActive", "publicIsActive"} \cup CampaignNumbers
         /\ src["earlyJoinIsActive"] = c.early_join_phase.is_active
         /\ src["publicIsActive"] = c.public_phase.is_active
         /\ src["max_allocation_all_phases"] = c.max_allocation_all_phases
         /\ src["earlyJoinMaxTotalAlloc"] = c.early_join_phase.max_total_alloc
         /\ src["earlyJoinStart"] = c.early_join_phase.start_at
         /\ src["earlyJoinEnd"] = c.early_join_phase.end_at
         /\ src["publicIndividualAlloc"] = c.public_phase.max_individual_alloc
         /\ src["publicStart"] = c.public_phase.start_at
         /\ src["publicEnd"] = c.public_phase.end_at
         /\ src["claim_at"] = c.claim_at
  BY DEF CampaignSource, CampaignNumbers

\* The wire of a campaign, and what the program reads from it.
LEMMA CampaignData ==
  ASSUME NEW c
  PROVE  LET src == CampaignSource(c)
             wire0 == Data(setCampaignInstruction, src)
             read == Decode(SetCampaignLayout, wire0)
         IN /\ \A name \in CampaignNumbers : read[name] = AsWritten(src[name])
            /\ src["earlyJoinIsActive"] \in BOOLEAN =>
                 read["earlyJoinIsActive"] = src["earlyJoinIsActive"]
            /\ src["publicIsActive"] \in BOOLEAN => read["publicIsActive"] = src["publicIsActive"]
            /\ Fits(SetCampaignLayout, wire0)
            /\ \A i \in 2..11 :
                 wire0[i] = [span |-> KindSpan[SetCampaignLayout[i][2]],
                             value |-> Written(SetCampaignLayout[i][2],
                                               src[SetCampaignLayout[i][1]])]
<1> DEFINE src == CampaignSource(c)
           sent == [name \in {"instruction"} \cup DOMAIN src |->
                      IF name = "instruction" THEN setCampaignInstruction.code ELSE src[name]]
           w == Data(setCampaignInstruction, src)
           read == Decode(SetCampaignLayout, w)
           cell(name) == At(SetCampaignLayout, w, name)
<1>1. DOMAIN src = {"earlyJoinIsActive", "publicIsActive"} \cup CampaignNumbers
  BY CampaignSources
<1>2. w = Encode(SetCampaignLayout, sent)
  BY DEF Data, setCampaignInstruction
<1> HIDE DEF src
<1>3. /\ \A name \in DOMAIN src : name # "instruction"
      /\ "earlyJoinIsActive" \notin CampaignNumbers /\ "publicIsActive" \notin CampaignNumbers
  BY <1>1 DEF CampaignNumbers
<1>4. \A name \in DOMAIN src : name \in DOMAIN sent /\ sent[name] = src[name]
  BY <1>3
<1> HIDE DEF sent
<1>5. \A name \in DOMAIN src :
        /\ name \in Names(SetCampaignLayout)
        /\ cell(name) = Written(KindOf(SetCampaignLayout, name), src[name])
  <2> SUFFICES ASSUME NEW name \in DOMAIN src
               PROVE  /\ name \in Names(SetCampaignLayout)
                      /\ cell(name) = Written(KindOf(SetCampaignLayout, name), src[name])
    OBVIOUS
  <2>1. name \in Names(SetCampaignLayout)
    BY <1>1, CampaignFields
  <2> QED BY <1>2, <1>4, <2>1, Found
<1>6. \A name \in Names(SetCampaignLayout) :
        read[name] = IF KindOf(SetCampaignLayout, name) = "bool" THEN cell(name) # 0 ELSE cell(name)
  BY <1>2, Found
<1>10. /\ Fits(SetCampaignLayout, w)
       /\ \A i \in 2..11 :
            w[i] = [span |-> KindSpan[SetCampaignLayout[i][2]],
                    value |-> Written(SetCampaignLayout[i][2], src[SetCampaignLayout[i][1]])]
  <2> DEFINE L == SetCampaignLayout
  <2>1. Len(L) = 11 /\ \A i \in 2..11 : L[i][1] \in DOMAIN src
    <3>1. /\ L[2][1] \in DOMAIN src /\ L[3][1] \in DOMAIN src /\ L[4][1] \in DOMAIN src
          /\ L[5][1] \in DOMAIN src /\ L[6][1] \in DOMAIN src /\ L[7][1] \in DOMAIN src
          /\ L[8][1] \in DOMAIN src /\ L[9][1] \in DOMAIN src /\ L[10][1] \in DOMAIN src
          /\ L[11][1] \in DOMAIN src
      BY <1>1, SetCampaignIs DEF CampaignNumbers
    <3>2. \A i \in 2..11 : i \in {2, 3, 4, 5, 6, 7, 8, 9, 10, 11}
      OBVIOUS
    <3>3. Len(L) = 11
      BY SetCampaignIs
    <3> HIDE DEF L
    <3> QED BY <3>1, <3>2, <3>3
  <2> HIDE DEF L
  <2>2. \A i \in 2..11 : i \in 1..Len(L) /\ L[i][1] \in DOMAIN sent /\ sent[L[i][1]] = src[L[i][1]]
    BY <1>4, <2>1
  <2>3. /\ Fits(L, Encode(L, sent))
        /\ \A i \in 1..Len(L) :
             L[i][1] \in DOMAIN sent =>
               Encode(L, sent)[i] = [span |-> KindSpan[L[i][2]],
                                     value |-> Written(L[i][2], sent[L[i][1]])]
    <3>1. Len(L) \in Nat
      BY <2>1
    <3> HIDE DEF sent
    <3> QED BY <3>1, Cells
  <2>4. \A i \in 2..11 : Encode(L, sent)[i] = [span |-> KindSpan[L[i][2]],
                                              value |-> Written(L[i][2], src[L[i][1]])]
    BY <2>2, <2>3
  <2> QED BY <1>2, <2>3, <2>4 DEF L
<1> HIDE DEF w, read, cell
<1>7. ASSUME NEW name \in CampaignNumbers PROVE read[name] = AsWritten(src[name])
  BY <1>1, <1>5, <1>6, CampaignFields DEF Written, AsWritten
<1>8. cell("earlyJoinIsActive") = Byte(src["earlyJoinIsActive"])
      /\ cell("publicIsActive") = Byte(src["publicIsActive"])
  BY <1>1, <1>5, CampaignFields DEF Written
<1>9. ASSUME NEW name \in {"earlyJoinIsActive", "publicIsActive"}, src[name] \in BOOLEAN
      PROVE  read[name] = src[name]
  <2>1. read[name] = (cell(name) # 0)
    BY <1>6, CampaignFields
  <2>2. cell(name) = Byte(src[name])
    BY <1>8
  <2>3. CASE src[name] = TRUE
    <3>1. cell(name) # 0
      BY <2>2, <2>3 DEF Byte
    <3>2. (cell(name) # 0) = TRUE
      BY <3>1
    <3> QED BY <2>1, <2>3, <3>2, Zenon
  <2>4. CASE src[name] = FALSE
    <3>1. cell(name) = 0
      BY <2>2, <2>4 DEF Byte
    <3>2. (cell(name) # 0) = FALSE
      BY <3>1
    <3> QED BY <2>1, <2>4, <3>2, Zenon
  <2> QED BY <1>9, <2>3, <2>4
<1> QED BY <1>7, <1>9, <1>10 DEF src, w, read

LEMMA Encoded ==
  ASSUME NEW c \in CampaignRecord
  PROVE  Encodable(SetCampaignLayout, CampaignSource(c))
           <=> \A name \in CampaignNumbers : CampaignSource(c)[name] \in NaN..MaxU64
<1> DEFINE src == CampaignSource(c)
<1>1. DOMAIN src = {"earlyJoinIsActive", "publicIsActive"} \cup CampaignNumbers
  BY CampaignSources
<1> HIDE DEF src
<1>2. Names(SetCampaignLayout) \cap DOMAIN src = {"earlyJoinIsActive", "publicIsActive"} \cup CampaignNumbers
  BY <1>1, CampaignFields
<1>3. Encodable(SetCampaignLayout, src)
           <=> \A name \in CampaignNumbers : src[name] \in NaN..MaxU64
  BY <1>2, CampaignFields DEF Encodable
<1> QED BY <1>3 DEF src

Keeps(new, old, names) == \A f \in names : new[f] = old[f]

LEMMA ExecCampaign ==
  ASSUME NEW acc \in PoolAccount, NEW c \in CampaignRecord,
         Encodable(SetCampaignLayout, CampaignSource(c))
  PROVE  LET new == Execute(acc, [op |-> "setCampaign",
                                  data |-> Data(setCampaignInstruction, CampaignSource(c))])
         IN /\ new \in PoolAccount
            /\ \A name \in CampaignNumbers : new[name] = AsWritten(CampaignSource(c)[name])
            /\ new.earlyJoinIsActive = c.early_join_phase.is_active
            /\ new.publicIsActive = c.public_phase.is_active
            /\ Keeps(new, acc, {"rateNumerator", "rateDenominator", "isActive", "admin"})
<1> DEFINE src == CampaignSource(c)
           read == Decode(SetCampaignLayout, Data(setCampaignInstruction, src))
           Changed == {"earlyJoinIsActive", "publicIsActive"} \cup CampaignNumbers
           new == Execute(acc, [op |-> "setCampaign", data |-> Data(setCampaignInstruction, src)])
           numbers == CampaignNumbers \cup {"rateNumerator", "rateDenominator"}
<1>1. Names(SetCampaignLayout) \ {"instruction"} = Changed
  BY CampaignFields DEF CampaignNumbers
<1>2. new = [f \in DOMAIN acc |-> IF f \in Changed THEN read[f] ELSE acc[f]]
  BY <1>1, CampaignIsRead DEF Execute
<1>3. /\ src["earlyJoinIsActive"] = c.early_join_phase.is_active
      /\ src["publicIsActive"] = c.public_phase.is_active
      /\ c.early_join_phase.is_active \in BOOLEAN /\ c.public_phase.is_active \in BOOLEAN
  BY CampaignSources DEF CampaignRecord
<1>4. /\ \A name \in CampaignNumbers : read[name] = AsWritten(src[name])
      /\ read["earlyJoinIsActive"] = src["earlyJoinIsActive"]
      /\ read["publicIsActive"] = src["publicIsActive"]
  BY <1>3, CampaignData
<1>5. \A name \in CampaignNumbers : src[name] \in NaN..MaxU64
  BY Encoded
<1> HIDE DEF read, src, new
<1>6. \A name \in CampaignNumbers : read[name] \in 0..MaxU64
  BY <1>4, <1>5, WidthFacts DEF AsWritten, NaN
<1>7. /\ DOMAIN acc = Changed \cup {"rateNumerator", "rateDenominator", "isActive", "admin"}
      /\ acc.rateNumerator \in 1..MaxU64 /\ acc.rateDenominator \in {Precision}
      /\ acc.isActive \in BOOLEAN /\ acc.admin \in Admins
  BY DEF PoolAccount, CampaignNumbers
<1>8. /\ DOMAIN new = Changed \cup {"rateNumerator", "rateDenominator", "isActive", "admin"}
      /\ \A name \in Changed : new[name] = read[name]
      /\ Keeps(new, acc, {"rateNumerator", "rateDenominator", "isActive", "admin"})
      /\ new = [f \in DOMAIN new |-> new[f]]
  BY <1>2, <1>7 DEF Keeps, CampaignNumbers
<1>9. new \in PoolAccount
  <2>1. /\ new["rateNumerator"] \in 1..MaxU64 /\ new["rateDenominator"] \in {Precision}
        /\ new["isActive"] \in BOOLEAN /\ new["admin"] \in Admins
    BY <1>7, <1>8 DEF Keeps
  <2>2. \A name \in CampaignNumbers : new[name] \in 0..MaxU64
    BY <1>6, <1>8
  <2>3. new["earlyJoinIsActive"] \in BOOLEAN /\ new["publicIsActive"] \in BOOLEAN
    BY <1>3, <1>4, <1>8
  <2> QED BY <1>8, <2>1, <2>2, <2>3 DEF PoolAccount, CampaignNumbers
<1> QED BY <1>3, <1>4, <1>8, <1>9 DEF new, src

----------------------------------------------------------------------------
(* Rates, and the execution of a transaction.                              *)

(* Rates.                                                                  *)
LEMMA Divided ==
  ASSUME NEW x \in Nat, NEW d \in Nat \ {0}
  PROVE  x \div d \in Nat /\ d * (x \div d) <= x /\ x < d * (x \div d) + d
<1>1. x \div d \in Nat /\ x = d * (x \div d) + (x % d) /\ x % d \in 0..(d - 1)
  OBVIOUS
<1> QED BY <1>1

LEMMA RoundIs ==
  ASSUME NEW a \in Nat, NEW b \in Nat \ {0}
  PROVE  /\ Round(a, b) \in Nat
         /\ 2 * (b * Round(a, b)) <= 2 * a + b
         /\ 2 * a + b < 2 * (b * Round(a, b)) + 2 * b
<1> DEFINE x == 2 * a + b
           d == 2 * b
           q == x \div d
<1>1. x \in Nat /\ d \in Nat \ {0} /\ Round(a, b) = q
  BY DEF Round
<1> HIDE DEF x, d
<1>2. q \in Nat /\ d * q <= x /\ x < d * q + d
  BY <1>1, Divided
<1> HIDE DEF q
<1>3. d * q = 2 * (b * q)
  BY <1>2 DEF d
<1> QED BY <1>1, <1>2, <1>3 DEF x, d

\* A rate in cents whose square is less than n comes back from a contract rate.
LEMMA RoundedBack ==
  ASSUME NEW n \in Nat, NEW c \in Nat \ {0}, c * c < n
  PROVE  Round(n, c) \in Nat \ {0} /\ Round(n, Round(n, c)) = c
<1> DEFINE m == Round(n, c)
           e == Round(n, m)
<1>1. /\ m \in Nat /\ 2 * (c * m) <= 2 * n + c /\ 2 * n + c < 2 * (c * m) + 2 * c
  BY RoundIs
<1> HIDE DEF m
<1>2. m >= c
  <2> SUFFICES ASSUME ~(m >= c) PROVE FALSE
    OBVIOUS
  <2>1. c * m <= c * (c - 1) /\ c * (c - 1) = c * c - c /\ c * m \in Nat /\ c * c \in Nat
    BY <1>1
  <2> QED BY <1>1, <2>1
<1>3. m \in Nat \ {0}
  BY <1>1, <1>2
<1>4. e \in Nat /\ 2 * (m * e) <= 2 * n + m /\ 2 * n + m < 2 * (m * e) + 2 * m
  BY <1>3, RoundIs
<1> HIDE DEF e
<1>5. c * m = m * c /\ m * c \in Nat /\ m * e \in Nat
  BY <1>1, <1>4
<1>6. m * e < m * c + m
  BY <1>1, <1>2, <1>4, <1>5
<1>7. m * c < m * e + m
  BY <1>1, <1>2, <1>4, <1>5
<1>8. \A x, y \in Nat : m * x < m * y + m => x <= y
  <2> SUFFICES ASSUME NEW x \in Nat, NEW y \in Nat, x >= y + 1 PROVE m * x >= m * y + m
    BY <1>3
  <2>1. m * x >= m * (y + 1) /\ m * (y + 1) = m * y + m
    BY <1>3
  <2> QED BY <1>3, <2>1
<1>9. e = c
  BY <1>4, <1>6, <1>7, <1>8
<1> QED BY <1>3, <1>9 DEF m, e

\* A fraction may be reduced before it is rounded.
LEMMA RoundReduced ==
  ASSUME NEW f \in Nat \ {0}, NEW n \in Nat, NEW c \in Nat \ {0}
  PROVE  Round(n * f, f * c) = Round(n, c)
<1> DEFINE x == Round(n * f, f * c)
           y == Round(n, c)
<1>1. n * f \in Nat /\ f * c \in Nat \ {0}
  BY NatProduct
<1>2. /\ x \in Nat /\ 2 * ((f * c) * x) <= 2 * (n * f) + f * c
      /\ 2 * (n * f) + f * c < 2 * ((f * c) * x) + 2 * (f * c)
  BY <1>1, RoundIs
<1>3. y \in Nat /\ 2 * (c * y) <= 2 * n + c /\ 2 * n + c < 2 * (c * y) + 2 * c
  BY RoundIs
<1> HIDE DEF x, y
<1> DEFINE cx == c * x
           cy == c * y
<1>4. cx \in Nat /\ cy \in Nat
  BY <1>2, <1>3
<1>5. /\ 2 * ((f * c) * x) = f * (2 * cx)
      /\ 2 * (n * f) + f * c = f * (2 * n + c)
      /\ 2 * ((f * c) * x) + 2 * (f * c) = f * (2 * cx + 2 * c)
  BY <1>2
<1>6. \A a, b \in Nat : (f * a <= f * b => a <= b) /\ (f * a < f * b => a < b)
  <2> SUFFICES ASSUME NEW a \in Nat, NEW b \in Nat
               PROVE  (a > b => f * a > f * b) /\ (a >= b => f * a >= f * b)
    OBVIOUS
  <2>1. a >= b => f * a >= f * b
    OBVIOUS
  <2>2. a > b => f * a > f * b
    <3> SUFFICES ASSUME a >= b + 1 PROVE f * a > f * b
      OBVIOUS
    <3>1. f * a >= f * (b + 1) /\ f * (b + 1) = f * b + f
      OBVIOUS
    <3> QED BY <3>1
  <2> QED BY <2>1, <2>2
<1>7. 2 * cx <= 2 * n + c /\ 2 * n + c < 2 * cx + 2 * c
  <2> DEFINE u == 2 * cx
             v == 2 * n + c
             w == 2 * cx + 2 * c
  <2>1. u \in Nat /\ v \in Nat /\ w \in Nat
    BY <1>4
  <2>2. f * u <= f * v /\ f * v < f * w
    BY <1>2, <1>5
  <2> HIDE DEF u, v, w
  <2>3. u <= v /\ v < w
    BY <1>6, <2>1, <2>2
  <2> QED BY <2>3 DEF u, v, w
<1>8. cx < cy + c /\ cy < cx + c
  BY <1>3, <1>4, <1>7
<1>9. \A a, b \in Nat : c * a < c * b + c => a <= b
  <2> SUFFICES ASSUME NEW a \in Nat, NEW b \in Nat, a >= b + 1 PROVE c * a >= c * b + c
    OBVIOUS
  <2>1. c * a >= c * (b + 1) /\ c * (b + 1) = c * b + c
    OBVIOUS
  <2> QED BY <2>1
<1>10. x = y
  BY <1>2, <1>3, <1>8, <1>9
<1> QED BY <1>10 DEF x, y

LEMMA AmountsAre ==
  /\ \A n \in Nat : convertToContractAmount(n) \in Nat
  /\ \A n \in Int : convertToContractAmount(n) \in Int
<1>1. Unit \in Nat /\ Fine \in Nat \ {0}
  BY UnitsAssumption
<1>2. ASSUME NEW n \in Nat PROVE convertToContractAmount(n) \in Nat
  <2>1. n * Unit \in Nat
    BY <1>1
  <2> QED BY <1>1, <2>1, RoundIs DEF convertToContractAmount
<1>3. ASSUME NEW n \in Int PROVE convertToContractAmount(n) \in Int
  <2>1. n * Unit \in Int
    BY <1>1
  <2>2. \A a \in Int : \A b \in Nat \ {0} : (2 * a + b) \div (2 * b) \in Int
    OBVIOUS
  <2> QED BY <1>1, <2>1, <2>2 DEF convertToContractAmount, Round
<1> QED BY <1>2, <1>3

(* The numerator of a contract rate.                                       *)
Contract(ratio) == Round(Precision * Scale * Fine, ratio)

LEMMA RateParts ==
  /\ \A r : /\ convertRateToDataContract(r).numerator = Contract(r)
            /\ convertRateToDataContract(r).denominator = Precision
  /\ \A r : RateSource(r) = [rateNumerator |-> r.numerator, rateDenominator |-> r.denominator]
  /\ \A acc \in PoolAccount : UserRate(acc) = Fine * Round(Precision * Scale, acc.rateNumerator)
  /\ Precision * Scale \in Nat /\ Precision * Scale * Fine \in Nat /\ Fine \in Nat \ {0}
  /\ Precision \in 1..MaxU64
<1>1. \A acc \in PoolAccount : UserRate(acc) = Fine * Round(Precision * Scale, acc.rateNumerator)
  BY DEF UserRate, convertToUserRate, PoolAccount
<1>2. /\ Precision \in Nat /\ Scale \in Nat /\ Precision \in 1..MaxU64
      /\ Fine \in Nat \ {0}
  BY UnitsAssumption, WidthFacts
<1>3. Precision * Scale \in Nat
  BY <1>2
<1>4. Precision * Scale * Fine \in Nat
  BY <1>2, <1>3
<1> QED BY <1>1, <1>2, <1>3, <1>4 DEF convertRateToDataContract, RateSource, Contract

LEMMA ContractIs == \A ratio \in Nat \ {0} : Contract(ratio) \in Nat
  BY RateParts, RoundIs DEF Contract

LEMMA UserRateIs == \A acc \in PoolAccount : UserRate(acc) \in Nat
<1> SUFFICES ASSUME NEW acc \in PoolAccount PROVE UserRate(acc) \in Nat
  OBVIOUS
<1>1. acc.rateNumerator \in Nat \ {0}
  BY WidthFacts DEF PoolAccount
<1>2. Round(Precision * Scale, acc.rateNumerator) \in Nat
  BY <1>1, RateParts, RoundIs
<1> QED BY <1>2, RateParts

\* A rate that comes back is read from the contract rate it was sent as.
LEMMA RateComesBack ==
  ASSUME NEW acc \in PoolAccount, NEW ratio \in Nat \ {0}, ComesBack(ratio),
         acc.rateNumerator = Contract(ratio)
  PROVE  UserRate(acc) = ratio
<1>1. PICK c \in 1..ratio : ratio = Fine * c /\ c * c < Precision * Scale
  BY DEF ComesBack
<1> DEFINE n == Precision * Scale
<1>2. n \in Nat /\ Fine \in Nat \ {0} /\ c \in Nat \ {0}
  BY RateParts
<1>3. /\ UserRate(acc) = Fine * Round(n, acc.rateNumerator)
      /\ Contract(ratio) = Round(n * Fine, Fine * c)
  BY <1>1, RateParts DEF Contract
<1>4. c * c < n
  BY <1>1
<1> HIDE DEF n
<1>5. Round(n * Fine, Fine * c) = Round(n, c)
  BY <1>2, RoundReduced
<1>6. Round(n, Round(n, c)) = c
  BY <1>2, <1>4, RoundedBack
<1> QED BY <1>1, <1>3, <1>5, <1>6

LEMMA ExecRate ==
  ASSUME NEW acc \in PoolAccount, NEW r, r.numerator \in Nat \ {0}, r.denominator = Precision,
         Encodable(setRateInstruction.layout, RateSource(r))
  PROVE  LET new == Execute(acc, [op |-> "setRate",
                                  data |-> Data(setRateInstruction, RateSource(r))])
         IN /\ new \in PoolAccount
            /\ new.rateNumerator = r.numerator
            /\ Keeps(new, acc, {"rateDenominator", "earlyJoinIsActive", "publicIsActive",
                                "isActive", "admin"} \cup CampaignNumbers)
<1> DEFINE src == RateSource(r)
           L == setRateInstruction.layout
           w == Data(setRateInstruction, src)
           read == Decode(L, w)
           cell(name) == At(L, w, name)
           new == Execute(acc, [op |-> "setRate", data |-> w])
           sent == [name \in {"instruction"} \cup DOMAIN src |->
                      IF name = "instruction" THEN setRateInstruction.code ELSE src[name]]
           Changed == {"rateNumerator", "rateDenominator"}
           Others == {"earlyJoinIsActive", "publicIsActive", "isActive", "admin"} \cup CampaignNumbers
<1>1. /\ DOMAIN src = Changed
      /\ src["rateNumerator"] = r.numerator /\ src["rateDenominator"] = Precision
  BY DEF RateSource
<1>2. w = Encode(L, sent)
  BY DEF Data
<1>3. new = [f \in DOMAIN acc |-> IF f \in Names(L) \ {"instruction"} THEN read[f] ELSE acc[f]]
  BY RateIsRead DEF Execute
<1>4. Encodable(L, src)
  OBVIOUS
<1> HIDE DEF src
<1>5. \A name \in Changed : name \in DOMAIN sent /\ sent[name] = src[name]
  BY <1>1
<1> HIDE DEF sent
<1>6. Names(L) = {"instruction"} \cup Changed /\ \A name \in Changed : KindOf(L, name) = "nu64"
  BY RateFields
<1> HIDE DEF L
<1>7. \A name \in Changed : cell(name) = Written("nu64", src[name])
  <2> SUFFICES ASSUME NEW name \in Changed PROVE cell(name) = Written("nu64", src[name])
    OBVIOUS
  <2>1. name \in Names(L) /\ KindOf(L, name) = "nu64" /\ name \in DOMAIN sent /\ sent[name] = src[name]
    BY <1>5, <1>6
  <2> QED BY <1>2, <2>1, Found
<1>8. \A name \in Changed : read[name] = cell(name)
  <2> SUFFICES ASSUME NEW name \in Changed PROVE read[name] = cell(name)
    OBVIOUS
  <2>1. name \in Names(L) /\ KindOf(L, name) = "nu64"
    BY <1>6
  <2> QED BY <1>2, <2>1, Found
<1> HIDE DEF w, read, cell
<1>9. src["rateNumerator"] \in 1..MaxU64 /\ src["rateDenominator"] \in 1..MaxU64
  <2>1. src["rateNumerator"] \in NaN..MaxU64
    BY <1>1, <1>4, <1>6 DEF Encodable
  <2> QED BY <1>1, <2>1, RateParts, WidthFacts DEF NaN
<1>10. read["rateNumerator"] = r.numerator /\ read["rateDenominator"] = Precision
  BY <1>1, <1>7, <1>8, <1>9, WidthFacts DEF Written, NaN
<1>11. /\ DOMAIN acc = Changed \cup Others /\ acc.rateDenominator = Precision
       /\ Changed \cap Others = {}
  BY DEF PoolAccount, CampaignNumbers
<1> HIDE DEF new
<1>12. /\ DOMAIN new = Changed \cup Others
       /\ \A name \in Changed : new[name] = read[name]
       /\ \A name \in Others : new[name] = acc[name]
       /\ new = [f \in DOMAIN new |-> new[f]]
  BY <1>3, <1>6, <1>11
<1>13. /\ new["rateNumerator"] \in 1..MaxU64 /\ new["rateDenominator"] \in {Precision}
       /\ \A name \in CampaignNumbers : new[name] \in 0..MaxU64
       /\ new["earlyJoinIsActive"] \in BOOLEAN /\ new["publicIsActive"] \in BOOLEAN
       /\ new["isActive"] \in BOOLEAN /\ new["admin"] \in Admins
  <2>1. /\ \A name \in CampaignNumbers : acc[name] \in 0..MaxU64
        /\ acc["earlyJoinIsActive"] \in BOOLEAN /\ acc["publicIsActive"] \in BOOLEAN
        /\ acc["isActive"] \in BOOLEAN /\ acc["admin"] \in Admins
    BY DEF PoolAccount, CampaignNumbers
  <2> QED BY <1>1, <1>9, <1>10, <1>12, <2>1
<1>14. new \in PoolAccount
  BY <1>12, <1>13 DEF PoolAccount, CampaignNumbers
<1>15. Keeps(new, acc, {"rateDenominator", "earlyJoinIsActive", "publicIsActive",
                        "isActive", "admin"} \cup CampaignNumbers)
  BY <1>10, <1>11, <1>12 DEF Keeps
<1>16. new.rateNumerator = r.numerator
  BY <1>10, <1>12
<1> QED BY <1>14, <1>15, <1>16 DEF new, w, src

(* The instructions of a transaction are executed one after the other.     *)
LEMMA MaxOfTwo ==
  /\ Max({1}) = 1 /\ Max({2}) = 2 /\ Max({1, 2}) = 2
<1>1. \A x : x \in {1} /\ (\A y \in {1} : x >= y) <=> x = 1
  OBVIOUS
<1>2. \A x : x \in {2} /\ (\A y \in {2} : x >= y) <=> x = 2
  OBVIOUS
<1>3. \A x : x \in {1, 2} /\ (\A y \in {1, 2} : x >= y) <=> x = 2
  OBVIOUS
<1> QED BY <1>1, <1>2, <1>3 DEF Max

LEMMA ExecuteOne ==
  ASSUME NEW acc, NEW seq, DOMAIN seq = {1}
  PROVE  FoldLeft(Execute, acc, seq) = Execute(acc, seq[1])
<1> DEFINE Runs(g) == g = [t \in SUBSET {1} |->
                             IF t = {} THEN acc ELSE Execute(g[t \ {Max(t)}], seq[Max(t)])]
           g0 == CHOOSE g : Runs(g)
           h == [t \in SUBSET {1} |-> IF t = {} THEN acc ELSE Execute(acc, seq[1])]
<1>1. FoldLeft(Execute, acc, seq) = g0[{1}]
  BY DEF FoldLeft, MapThenFoldSet
<1>2. \A t \in SUBSET {1} : t = {} \/ t = {1}
  OBVIOUS
<1>3. h[{}] = acc /\ h[{1}] = Execute(acc, seq[1]) /\ {1} \ {1} = {} /\ {1} # {}
  OBVIOUS
<1>4. \A t \in SUBSET {1} :
        h[t] = IF t = {} THEN acc ELSE Execute(h[t \ {Max(t)}], seq[Max(t)])
  <2> HIDE DEF h
  <2> SUFFICES ASSUME NEW t \in SUBSET {1}
               PROVE  h[t] = IF t = {} THEN acc ELSE Execute(h[t \ {Max(t)}], seq[Max(t)])
    OBVIOUS
  <2>1. CASE t = {}
    BY <1>3, <2>1
  <2>2. CASE t = {1}
    <3>1. Max(t) = 1 /\ h[t \ {Max(t)}] = acc
      BY <1>3, <2>2, MaxOfTwo
    <3>2. h[t] = Execute(acc, seq[1]) /\ t # {}
      BY <1>3, <2>2
    <3> QED BY <3>1, <3>2
  <2> QED BY <1>2, <2>1, <2>2
<1>5. h = [t \in SUBSET {1} |-> h[t]]
  OBVIOUS
<1>6. Runs(h)
  <2> HIDE DEF h
  <2> QED BY <1>4, <1>5
<1>7. Runs(g0)
  <2> HIDE DEF Runs
  <2> QED BY <1>6
<1> HIDE DEF g0
<1>8. \A t \in SUBSET {1} :
        g0[t] = IF t = {} THEN acc ELSE Execute(g0[t \ {Max(t)}], seq[Max(t)])
  BY <1>7
<1>9. g0[{}] = acc
  BY <1>8
<1>10. g0[{1}] = Execute(g0[{1} \ {1}], seq[1])
  BY <1>8, MaxOfTwo
<1> QED BY <1>1, <1>3, <1>9, <1>10

LEMMA ExecuteTwo ==
  ASSUME NEW acc, NEW seq, DOMAIN seq = {1, 2}
  PROVE  FoldLeft(Execute, acc, seq) = Execute(Execute(acc, seq[1]), seq[2])
<1> DEFINE Runs(g) == g = [t \in SUBSET {1, 2} |->
                             IF t = {} THEN acc ELSE Execute(g[t \ {Max(t)}], seq[Max(t)])]
           g0 == CHOOSE g : Runs(g)
           h == [t \in SUBSET {1, 2} |->
                   IF t = {} THEN acc
                   ELSE IF t = {1} THEN Execute(acc, seq[1])
                   ELSE IF t = {2} THEN Execute(acc, seq[2])
                   ELSE Execute(Execute(acc, seq[1]), seq[2])]
<1>1. FoldLeft(Execute, acc, seq) = g0[{1, 2}]
  BY DEF FoldLeft, MapThenFoldSet
<1>2. \A t \in SUBSET {1, 2} : t = {} \/ t = {1} \/ t = {2} \/ t = {1, 2}
  OBVIOUS
<1>3. /\ h[{}] = acc /\ h[{1}] = Execute(acc, seq[1]) /\ h[{2}] = Execute(acc, seq[2])
      /\ h[{1, 2}] = Execute(Execute(acc, seq[1]), seq[2])
  OBVIOUS
<1>4. /\ {1} \ {1} = {} /\ {2} \ {2} = {} /\ {1, 2} \ {2} = {1}
      /\ {1} # {} /\ {2} # {} /\ {1, 2} # {}
  OBVIOUS
<1>5. \A t \in SUBSET {1, 2} :
        h[t] = IF t = {} THEN acc ELSE Execute(h[t \ {Max(t)}], seq[Max(t)])
  <2> HIDE DEF h
  <2> SUFFICES ASSUME NEW t \in SUBSET {1, 2}
               PROVE  h[t] = IF t = {} THEN acc ELSE Execute(h[t \ {Max(t)}], seq[Max(t)])
    OBVIOUS
  <2>1. CASE t = {}
    BY <1>3, <2>1
  <2>2. CASE t = {1} \/ t = {2}
    <3>1. t \ {Max(t)} = {}
      BY <1>4, <2>2, MaxOfTwo
    <3>2. h[t \ {Max(t)}] = acc /\ h[t] = Execute(acc, seq[Max(t)]) /\ t # {}
      BY <1>3, <1>4, <2>2, <3>1, MaxOfTwo
    <3> QED BY <3>2
  <2>3. CASE t = {1, 2}
    <3>1. t \ {Max(t)} = {1} /\ Max(t) = 2
      BY <1>4, <2>3, MaxOfTwo
    <3>2. h[t \ {Max(t)}] = Execute(acc, seq[1]) /\ t # {}
      BY <1>3, <1>4, <2>3, <3>1
    <3>3. h[t] = Execute(Execute(acc, seq[1]), seq[2])
      BY <1>3, <2>3
    <3> QED BY <3>1, <3>2, <3>3
  <2> QED BY <1>2, <2>1, <2>2, <2>3
<1>6. h = [t \in SUBSET {1, 2} |-> h[t]]
  OBVIOUS
<1>7. Runs(h)
  <2> HIDE DEF h
  <2> QED BY <1>5, <1>6
<1>8. Runs(g0)
  <2> HIDE DEF Runs
  <2> QED BY <1>7
<1> HIDE DEF g0
<1>9. \A t \in SUBSET {1, 2} :
        g0[t] = IF t = {} THEN acc ELSE Execute(g0[t \ {Max(t)}], seq[Max(t)])
  BY <1>8
<1>10. g0[{}] = acc
  BY <1>9
<1>11. g0[{1}] = Execute(g0[{1} \ {1}], seq[1])
  BY <1>9, MaxOfTwo
<1>12. g0[{1, 2}] = Execute(g0[{1, 2} \ {2}], seq[2])
  BY <1>9, MaxOfTwo
<1> QED BY <1>1, <1>4, <1>10, <1>11, <1>12

----------------------------------------------------------------------------
(* One update: what is sent, and what it asks for.                         *)

(* One update: acc is the account it read.                                 *)
Sent(acc, in) == NewCampaign(extractRawPoolData(acc).campaign, in)
Used(acc, in) == IF in.token_ratio # 0 THEN in.token_ratio ELSE UserRate(acc)
SentRate(acc, in) == convertRateToDataContract(Used(acc, in))

LEMMA Extracted ==
  ASSUME NEW acc \in PoolAccount
  PROVE  LET data == extractRawPoolData(acc) IN
         /\ data.rate = UserRate(acc) /\ data.is_active = acc.isActive
         /\ data.root_admin = acc.admin
         /\ data.campaign \in CampaignRecord
         /\ data.campaign.max_allocation_all_phases = acc.max_allocation_all_phases
         /\ data.campaign.claim_at = acc.claim_at
         /\ data.campaign.early_join_phase =
              [is_active |-> acc.earlyJoinIsActive, max_total_alloc |-> acc.earlyJoinMaxTotalAlloc,
               start_at |-> acc.earlyJoinStart, end_at |-> acc.earlyJoinEnd]
         /\ data.campaign.public_phase =
              [is_active |-> acc.publicIsActive,
               max_individual_alloc |-> acc.publicIndividualAlloc,
               start_at |-> acc.publicStart, end_at |-> acc.publicEnd]
<1>1. extractRawPoolData(acc).campaign \in CampaignRecord
  BY WidthFacts DEF extractRawPoolData, CampaignRecord, PoolAccount
<1> QED BY <1>1 DEF extractRawPoolData, UserRate

LEMMA UpdateOpsAre ==
  ASSUME NEW acc \in PoolAccount, NEW in
  PROVE  LET ops == UpdateOps(extractRawPoolData(acc), in)
             first == [op |-> "setCampaign",
                       data |-> Data(setCampaignInstruction, CampaignSource(Sent(acc, in)))]
             second == [op |-> "setRate",
                        data |-> Data(setRateInstruction, RateSource(SentRate(acc, in)))]
         IN /\ UserRate(acc) # in.token_ratio =>
                 DOMAIN ops = {1, 2} /\ ops[1] = first /\ ops[2] = second
            /\ UserRate(acc) = in.token_ratio => DOMAIN ops = {1} /\ ops[1] = first
<1> DEFINE data == extractRawPoolData(acc)
           first == [op |-> "setCampaign",
                     data |-> Data(setCampaignInstruction, CampaignSource(Sent(acc, in)))]
           second == [op |-> "setRate",
                      data |-> Data(setRateInstruction, RateSource(SentRate(acc, in)))]
<1>1. data.rate = UserRate(acc)
  BY Extracted
<1>2. UsedRate(data, in) = Used(acc, in)
  BY <1>1 DEF UsedRate, Used
<1>3. UpdateOps(data, in) = <<first>> \o (IF data.rate # in.token_ratio THEN <<second>> ELSE <<>>)
  BY <1>2 DEF UpdateOps, Sent, SentRate
<1> HIDE DEF first, second, data
<1>4. CASE UserRate(acc) # in.token_ratio
  <2>1. UpdateOps(data, in) = <<first>> \o <<second>>
    BY <1>1, <1>3, <1>4
  <2> QED BY <1>4, <2>1 DEF first, second, data
<1>5. CASE UserRate(acc) = in.token_ratio
  <2>1. UpdateOps(data, in) = <<first>> \o <<>>
    BY <1>1, <1>3, <1>5
  <2> QED BY <1>5, <2>1 DEF first, second, data
<1> QED BY <1>4, <1>5

\* What holds of an update that is answered with a transaction.
LEMMA UpdateAnswers ==
  ASSUME NEW acc \in PoolAccount, NEW in, Update(acc, in).result = "tx"
  PROVE  /\ ~PhasesRefused(in) /\ Used(acc, in) # 0 /\ in.public_individual # Missing
         /\ ~InitPoolParamsRefused(SentRate(acc, in), Sent(acc, in))
         /\ ~acc.isActive
         /\ Encodable(SetCampaignLayout, CampaignSource(Sent(acc, in)))
         /\ UserRate(acc) # in.token_ratio =>
              Encodable(setRateInstruction.layout, RateSource(SentRate(acc, in)))
         /\ Update(acc, in) = Tx(acc.admin, UpdateOps(extractRawPoolData(acc), in))
<1> DEFINE data == extractRawPoolData(acc)
<1>1. data.rate = UserRate(acc) /\ data.is_active = acc.isActive /\ data.root_admin = acc.admin
  BY Extracted
<1>2. Failed.result # "tx" /\ NoChange.result # "tx"
  BY DEF Failed, NoChange
<1>3. ~PhasesRefused(in) /\ Update(acc, in) = createUpdatePoolTx(data, in)
  BY <1>2 DEF Update
<1>4. UsedRate(data, in) = Used(acc, in)
  BY <1>1 DEF UsedRate, Used
<1>5. createUpdatePoolTx(data, in) =
        IF Used(acc, in) = 0 \/ in.public_individual = Missing THEN Failed
        ELSE IF InitPoolParamsRefused(SentRate(acc, in), Sent(acc, in)) THEN Failed
        ELSE IF ~isChangedCampaign(data.campaign, Sent(acc, in)) /\ data.rate = in.token_ratio
        THEN NoChange
        ELSE IF \/ data.is_active
                \/ ~Encodable(SetCampaignLayout, CampaignSource(Sent(acc, in)))
                \/ /\ data.rate # in.token_ratio
                   /\ ~Encodable(setRateInstruction.layout, RateSource(SentRate(acc, in)))
        THEN Failed
        ELSE Tx(data.root_admin, UpdateOps(data, in))
  BY <1>4 DEF createUpdatePoolTx, Sent, SentRate
<1> HIDE DEF data
<1> QED BY <1>1, <1>2, <1>3, <1>5 DEF data

LEMMA SecondsAre ==
  ASSUME NEW t \in Date
  PROVE  /\ Seconds(t, Second) \in Date
         /\ t # NaN => Seconds(t, Second) \in Nat /\ Seconds(t, Second) = t \div Second
         /\ t = NaN => Seconds(t, Second) = NaN
<1>1. Second \in Nat \ {0}
  BY UnitsAssumption
<1>2. t # NaN => t \div Second \in Nat
  BY <1>1, Divided DEF Date
<1> QED BY <1>2 DEF Seconds, Date

LEMMA SecondsGrow ==
  ASSUME NEW t \in Nat, NEW u \in Nat
  PROVE  /\ t <= u => t \div Second <= u \div Second
         /\ t + Second <= u => t \div Second < u \div Second
<1> DEFINE x == t \div Second
           y == u \div Second
<1>1. Second \in Nat \ {0}
  BY UnitsAssumption
<1>2. /\ x \in Nat /\ Second * x <= t /\ t < Second * x + Second
      /\ y \in Nat /\ Second * y <= u /\ u < Second * y + Second
  BY <1>1, Divided
<1> HIDE DEF x, y
<1>3. \A a, b \in Nat : a >= b + 1 => Second * a >= Second * b + Second
  <2> SUFFICES ASSUME NEW a \in Nat, NEW b \in Nat, a >= b + 1
               PROVE  Second * a >= Second * b + Second
    OBVIOUS
  <2>1. Second * a >= Second * (b + 1) /\ Second * (b + 1) = Second * b + Second
    BY <1>1
  <2> QED BY <2>1
<1>4. t <= u => x <= y
  <2> SUFFICES ASSUME t <= u, x >= y + 1 PROVE FALSE
    BY <1>2
  <2>1. Second * x >= Second * y + Second
    BY <1>2, <1>3
  <2>2. Second * x \in Nat /\ Second * y \in Nat
    BY <1>1, <1>2
  <2> QED BY <1>1, <1>2, <2>1, <2>2
<1>5. t + Second <= u => x < y
  <2> SUFFICES ASSUME t + Second <= u, x >= y PROVE FALSE
    BY <1>2
  <2>1. Second * x >= Second * y
    <3>1. x = y \/ x >= y + 1
      BY <1>2
    <3>2. x >= y + 1 => Second * x >= Second * y + Second
      BY <1>2, <1>3
    <3>3. Second * x \in Nat /\ Second * y \in Nat
      BY <1>1, <1>2
    <3> QED BY <1>1, <3>1, <3>2, <3>3
  <2>2. Second * x \in Nat /\ Second * y \in Nat
    BY <1>1, <1>2
  <2> QED BY <1>1, <1>2, <2>1, <2>2
<1> QED BY <1>4, <1>5 DEF x, y

\* The campaign that is sent.
LEMMA SentIs ==
  ASSUME NEW acc \in PoolAccount, NEW in \in UpdateInput
  PROVE  LET c == Sent(acc, in)
             start == in.join_pool_start
             earlyEnd == IF start = NaN THEN NaN ELSE start + in.early_join_duration
             Sec(t) == Seconds(t, Second)
         IN /\ c \in [max_allocation_all_phases : Nat, claim_at : Nat,
                      early_join_phase : [is_active : BOOLEAN, max_total_alloc : Nat,
                                          start_at : Int, end_at : Int],
                      public_phase : [is_active : BOOLEAN, max_individual_alloc : Int,
                                      start_at : Int, end_at : Int]]
            /\ c.max_allocation_all_phases =
                 IF in.max_allocation_all_phases # 0
                 THEN convertToContractAmount(in.max_allocation_all_phases)
                 ELSE acc.max_allocation_all_phases
            /\ c.claim_at = IF in.claim_at # Missing THEN Sec(in.claim_at) ELSE acc.claim_at
            /\ c.early_join_phase =
                 [is_active |-> in.early, max_total_alloc |-> convertToContractAmount(in.early_total),
                  start_at |-> IF in.early THEN Sec(start) ELSE Sec(0),
                  end_at |-> IF in.early THEN Sec(earlyEnd) ELSE Sec(0)]
            /\ c.public_phase =
                 [is_active |-> TRUE,
                  max_individual_alloc |-> convertToContractAmount(in.public_individual),
                  start_at |-> IF in.early THEN Sec(earlyEnd) ELSE Sec(start),
                  end_at |-> Sec(in.join_pool_end)]
            /\ c.early_join_phase.is_active = in.early /\ c.public_phase.is_active = TRUE
<1> DEFINE c == Sent(acc, in)
           start == in.join_pool_start
           earlyEnd == IF start = NaN THEN NaN ELSE start + in.early_join_duration
           Sec(t) == Seconds(t, Second)
<1>1. /\ in.join_pool_start \in Date /\ in.join_pool_end \in Date /\ in.claim_at \in Date
      /\ in.early \in BOOLEAN /\ in.early_join_duration \in Int
      /\ in.max_allocation_all_phases \in Nat /\ in.early_total \in Nat
      /\ in.public_individual \in Nat \cup {NaN}
      /\ Unit \in Nat /\ Fine \in Nat \ {0} /\ Second \in Nat \ {0}
  BY UnitsAssumption DEF UpdateInput
<1>2. \A n \in Nat : convertToContractAmount(n) \in Nat
  BY AmountsAre
<1>3. convertToContractAmount(in.public_individual) \in Int
  <2>1. in.public_individual \in Int
    BY <1>1 DEF NaN
  <2> QED BY <2>1, AmountsAre
<1>4. \A t \in Int : Sec(t) \in Int
  BY <1>1 DEF Seconds, NaN
<1>5. /\ c = [max_allocation_all_phases |->
                IF in.max_allocation_all_phases # 0
                THEN convertToContractAmount(in.max_allocation_all_phases)
                ELSE acc.max_allocation_all_phases,
              claim_at |-> IF in.claim_at # Missing THEN Sec(in.claim_at) ELSE acc.claim_at,
              early_join_phase |->
                 [is_active |-> in.early, max_total_alloc |-> convertToContractAmount(in.early_total),
                  start_at |-> IF in.early THEN Sec(start) ELSE Sec(0),
                  end_at |-> IF in.early THEN Sec(earlyEnd) ELSE Sec(0)],
              public_phase |->
                 [is_active |-> TRUE,
                  max_individual_alloc |-> convertToContractAmount(in.public_individual),
                  start_at |-> IF in.early THEN Sec(earlyEnd) ELSE Sec(start),
                  end_at |-> Sec(in.join_pool_end)]]
  BY DEF Sent, NewCampaign, extractRawPoolData, validateAndGetPhasesTime
<1>6. /\ start \in Int /\ in.join_pool_end \in Int /\ earlyEnd \in Int
      /\ acc.max_allocation_all_phases \in Nat /\ acc.claim_at \in Nat
  BY <1>1, WidthFacts DEF Date, NaN, PoolAccount
<1>7. in.claim_at # Missing => Sec(in.claim_at) \in Nat
  BY <1>1, SecondsAre DEF Missing
<1> HIDE DEF Sec, earlyEnd, start, c
<1>8. /\ (IF in.early THEN Sec(start) ELSE Sec(0)) \in Int
      /\ (IF in.early THEN Sec(earlyEnd) ELSE Sec(0)) \in Int
      /\ (IF in.early THEN Sec(earlyEnd) ELSE Sec(start)) \in Int
      /\ Sec(in.join_pool_end) \in Int
      /\ (IF in.claim_at # Missing THEN Sec(in.claim_at) ELSE acc.claim_at) \in Nat
      /\ (IF in.max_allocation_all_phases # 0
          THEN convertToContractAmount(in.max_allocation_all_phases)
          ELSE acc.max_allocation_all_phases) \in Nat
  BY <1>1, <1>2, <1>4, <1>6, <1>7
<1>9. c \in [max_allocation_all_phases : Nat, claim_at : Nat,
             early_join_phase : [is_active : BOOLEAN, max_total_alloc : Nat,
                                 start_at : Int, end_at : Int],
             public_phase : [is_active : BOOLEAN, max_individual_alloc : Int,
                             start_at : Int, end_at : Int]]
  BY <1>1, <1>2, <1>3, <1>5, <1>8
<1>10. c.early_join_phase.is_active = in.early /\ c.public_phase.is_active = TRUE
  BY <1>5
<1> QED BY <1>5, <1>9, <1>10 DEF Sec, earlyEnd, start, c

LEMMA SentRecord ==
  ASSUME NEW acc \in PoolAccount, NEW in \in UpdateInput
  PROVE  Sent(acc, in) \in CampaignRecord
<1> DEFINE Phases ==
      [max_allocation_all_phases : Nat, claim_at : Nat,
       early_join_phase : [is_active : BOOLEAN, max_total_alloc : Nat,
                           start_at : Int, end_at : Int],
       public_phase : [is_active : BOOLEAN, max_individual_alloc : Int,
                       start_at : Int, end_at : Int]]
<1>1. Sent(acc, in) \in Phases
  BY SentIs
<1>2. Phases \subseteq CampaignRecord
  <2> SUFFICES ASSUME NEW c \in Phases PROVE c \in CampaignRecord
    OBVIOUS
  <2>1. c.early_join_phase \in [is_active : BOOLEAN, max_total_alloc : Int,
                                start_at : Int, end_at : Int]
    OBVIOUS
  <2>2. c.public_phase \in [is_active : BOOLEAN, max_individual_alloc : Int,
                            start_at : Int, end_at : Int]
    OBVIOUS
  <2>3. c.max_allocation_all_phases \in Int /\ c.claim_at \in Int
    OBVIOUS
  <2>4. c = [max_allocation_all_phases |-> c.max_allocation_all_phases, claim_at |-> c.claim_at,
             early_join_phase |-> c.early_join_phase, public_phase |-> c.public_phase]
    OBVIOUS
  <2> QED BY <2>1, <2>2, <2>3, <2>4 DEF CampaignRecord
<1> QED BY <1>1, <1>2

\* What a campaign that is sent reads as.
LEMMA SentData ==
  ASSUME NEW acc \in PoolAccount, NEW in \in UpdateInput
  PROVE  LET src == CampaignSource(Sent(acc, in))
             c == Decode(ProgramSetCampaign, Data(setCampaignInstruction, src))
             start == in.join_pool_start
             earlyEnd == IF start = NaN THEN NaN ELSE start + in.early_join_duration
             Sec(t) == Seconds(t, Second)
         IN /\ c.earlyJoinIsActive = in.early
            /\ c.earlyJoinStart = AsWritten(IF in.early THEN Sec(start) ELSE Sec(0))
            /\ c.earlyJoinEnd = AsWritten(IF in.early THEN Sec(earlyEnd) ELSE Sec(0))
            /\ c.publicStart = AsWritten(IF in.early THEN Sec(earlyEnd) ELSE Sec(start))
            /\ c.publicEnd = AsWritten(Sec(in.join_pool_end))
            /\ c.claim_at = AsWritten(IF in.claim_at # Missing THEN Sec(in.claim_at)
                                      ELSE acc.claim_at)
<1> DEFINE c == Sent(acc, in)
           src == CampaignSource(c)
           w == Decode(ProgramSetCampaign, Data(setCampaignInstruction, src))
           start == in.join_pool_start
           earlyEnd == IF start = NaN THEN NaN ELSE start + in.early_join_duration
           Sec(t) == Seconds(t, Second)
<1>1. /\ c.claim_at = IF in.claim_at # Missing THEN Sec(in.claim_at) ELSE acc.claim_at
      /\ c.early_join_phase =
           [is_active |-> in.early, max_total_alloc |-> convertToContractAmount(in.early_total),
            start_at |-> IF in.early THEN Sec(start) ELSE Sec(0),
            end_at |-> IF in.early THEN Sec(earlyEnd) ELSE Sec(0)]
      /\ c.public_phase =
           [is_active |-> TRUE,
            max_individual_alloc |-> convertToContractAmount(in.public_individual),
            start_at |-> IF in.early THEN Sec(earlyEnd) ELSE Sec(start),
            end_at |-> Sec(in.join_pool_end)]
  BY SentIs
<1> HIDE DEF c, Sec, start, earlyEnd
<1>2. /\ src["earlyJoinIsActive"] = c.early_join_phase.is_active
      /\ src["earlyJoinStart"] = c.early_join_phase.start_at
      /\ src["earlyJoinEnd"] = c.early_join_phase.end_at
      /\ src["publicStart"] = c.public_phase.start_at
      /\ src["publicEnd"] = c.public_phase.end_at
      /\ src["claim_at"] = c.claim_at
  BY CampaignSources
<1>3. /\ src["earlyJoinIsActive"] \in BOOLEAN => w["earlyJoinIsActive"] = src["earlyJoinIsActive"]
      /\ \A name \in CampaignNumbers : w[name] = AsWritten(src[name])
  BY CampaignData, CampaignIsRead
<1> HIDE DEF src
<1>4. /\ w["earlyJoinStart"] = AsWritten(src["earlyJoinStart"])
      /\ w["earlyJoinEnd"] = AsWritten(src["earlyJoinEnd"])
      /\ w["publicStart"] = AsWritten(src["publicStart"])
      /\ w["publicEnd"] = AsWritten(src["publicEnd"])
      /\ w["claim_at"] = AsWritten(src["claim_at"])
  BY <1>3 DEF CampaignNumbers
<1> HIDE DEF w
<1>5. w["earlyJoinIsActive"] = in.early
  <2>1. c.early_join_phase.is_active = in.early /\ in.early \in BOOLEAN
    BY <1>1 DEF UpdateInput
  <2> QED BY <1>2, <1>3, <2>1
<1> QED BY <1>1, <1>2, <1>4, <1>5 DEF w, src, c, Sec, start, earlyEnd

\* The phases that an update sends meet.
LEMMA SentPhasesMeet ==
  ASSUME NEW acc \in PoolAccount, NEW in \in UpdateInput, ~PhasesRefused(in),
         in.join_pool_start # NaN, in.join_pool_end # NaN, in.claim_at # NaN,
         in.early => in.early_join_duration > 0
  PROVE  LET data == Data(setCampaignInstruction, CampaignSource(Sent(acc, in)))
             c == Decode(ProgramSetCampaign, data)
         IN /\ c.earlyJoinIsActive =>
                 /\ c.earlyJoinStart <= c.earlyJoinEnd /\ c.earlyJoinEnd = c.publicStart
                 /\ in.early_join_duration >= Second => c.earlyJoinStart < c.earlyJoinEnd
            /\ ~c.earlyJoinIsActive => c.earlyJoinStart = 0 /\ c.earlyJoinEnd = 0
            /\ c.publicStart <= c.publicEnd /\ c.publicEnd <= c.claim_at
<1> DEFINE w == Decode(ProgramSetCampaign,
                       Data(setCampaignInstruction, CampaignSource(Sent(acc, in))))
           start == in.join_pool_start
           end == in.join_pool_end
           claim == in.claim_at
           duration == in.early_join_duration
           earlyEnd == start + duration
           Sec(t) == t \div Second
<1>1. /\ start \in Nat /\ end \in Nat /\ claim \in Nat /\ in.early \in BOOLEAN
      /\ duration \in Int /\ Second \in Nat \ {0}
  BY UnitsAssumption DEF UpdateInput, Date
<1>2. /\ ~(claim <= end)
      /\ in.early => ~(start + duration > end)
      /\ ~in.early => ~(start >= end)
  BY <1>1 DEF PhasesRefused, Compare, NaN
<1>3. in.early => duration > 0
  OBVIOUS
<1>4. /\ w.earlyJoinIsActive = in.early
      /\ w.earlyJoinStart = AsWritten(IF in.early THEN Seconds(start, Second) ELSE Seconds(0, Second))
      /\ w.earlyJoinEnd = AsWritten(IF in.early THEN Seconds(earlyEnd, Second) ELSE Seconds(0, Second))
      /\ w.publicStart = AsWritten(IF in.early THEN Seconds(earlyEnd, Second) ELSE Seconds(start, Second))
      /\ w.publicEnd = AsWritten(Seconds(end, Second))
      /\ w.claim_at = AsWritten(Seconds(claim, Second))
  BY SentData DEF Missing
<1> HIDE DEF w, start, end, claim, duration
<1>5. \A t \in Nat : Sec(t) \in Nat /\ AsWritten(Seconds(t, Second)) = Sec(t)
  BY <1>1, SecondsAre DEF Date, AsWritten, NaN
<1>6. \A t, u \in Nat : /\ t <= u => Sec(t) <= Sec(u)
                        /\ t + Second <= u => Sec(t) < Sec(u)
  BY SecondsGrow
<1>7. Sec(0) = 0
  BY <1>1
<1> HIDE DEF Sec
<1>8. Sec(end) <= Sec(claim)
  BY <1>1, <1>2, <1>6
<1>9. CASE in.early
  <2>1. /\ earlyEnd \in Nat /\ start <= earlyEnd /\ earlyEnd <= end
        /\ duration >= Second => start + Second <= earlyEnd
    BY <1>1, <1>2, <1>3, <1>9
  <2> HIDE DEF earlyEnd
  <2>2. /\ Sec(start) <= Sec(earlyEnd) /\ Sec(earlyEnd) <= Sec(end)
        /\ duration >= Second => Sec(start) < Sec(earlyEnd)
    BY <1>1, <1>6, <2>1
  <2>3. /\ w.earlyJoinIsActive /\ w.earlyJoinStart = Sec(start)
        /\ w.earlyJoinEnd = Sec(earlyEnd) /\ w.publicStart = Sec(earlyEnd)
        /\ w.publicEnd = Sec(end) /\ w.claim_at = Sec(claim)
    BY <1>1, <1>4, <1>5, <1>9, <2>1
  <2> QED BY <1>8, <2>2, <2>3 DEF w, duration
<1>10. CASE ~in.early
  <2>1. Sec(start) <= Sec(end)
    BY <1>1, <1>2, <1>6, <1>10
  <2>2. /\ ~w.earlyJoinIsActive /\ w.earlyJoinStart = 0 /\ w.earlyJoinEnd = 0
        /\ w.publicStart = Sec(start) /\ w.publicEnd = Sec(end) /\ w.claim_at = Sec(claim)
    BY <1>1, <1>4, <1>5, <1>7, <1>10
  <2> QED BY <1>8, <2>1, <2>2 DEF w
<1> QED BY <1>9, <1>10

\* What an update changes when it lands on the account acc, having read old.
LEMMA UpdateLands ==
  ASSUME NEW acc \in PoolAccount, NEW old \in PoolAccount, NEW in \in UpdateInput,
         Update(old, in).result = "tx"
  PROVE  LET new == FoldLeft(Execute, acc, Update(old, in).ops) IN
         /\ new \in PoolAccount
         /\ \A name \in CampaignNumbers :
              new[name] = AsWritten(CampaignSource(Sent(old, in))[name])
         /\ new.earlyJoinIsActive = in.early /\ new.publicIsActive = TRUE
         /\ new.isActive = acc.isActive /\ new.admin = acc.admin
         /\ new.rateNumerator = IF UserRate(old) = in.token_ratio THEN acc.rateNumerator
                                ELSE Contract(Used(old, in))
<1> DEFINE c == Sent(old, in)
           ops == UpdateOps(extractRawPoolData(old), in)
           first == [op |-> "setCampaign",
                     data |-> Data(setCampaignInstruction, CampaignSource(c))]
           r == SentRate(old, in)
           second == [op |-> "setRate", data |-> Data(setRateInstruction, RateSource(r))]
           mid == Execute(acc, first)
           last == Execute(mid, second)
<1>1. /\ Update(old, in).ops = ops /\ Used(old, in) # 0
      /\ ~InitPoolParamsRefused(r, c)
      /\ Encodable(SetCampaignLayout, CampaignSource(c))
      /\ UserRate(old) # in.token_ratio => Encodable(setRateInstruction.layout, RateSource(r))
  BY UpdateAnswers DEF Tx
<1>2. c \in CampaignRecord /\ c.early_join_phase.is_active = in.early /\ c.public_phase.is_active = TRUE
  <2>1. c \in CampaignRecord
    BY SentRecord
  <2>2. c.early_join_phase.is_active = in.early /\ c.public_phase.is_active = TRUE
    BY SentIs
  <2> QED BY <2>1, <2>2
<1>3. /\ UserRate(old) # in.token_ratio => DOMAIN ops = {1, 2} /\ ops[1] = first /\ ops[2] = second
      /\ UserRate(old) = in.token_ratio => DOMAIN ops = {1} /\ ops[1] = first
  BY UpdateOpsAre
<1>4. /\ r.numerator = Contract(Used(old, in)) /\ r.denominator = Precision
      /\ r.numerator # 0
  BY <1>1, RateParts DEF SentRate, InitPoolParamsRefused
<1>5. Used(old, in) \in Nat \ {0}
  <2>1. in.token_ratio \in Nat /\ UserRate(old) \in Nat
    BY UserRateIs DEF UpdateInput
  <2> QED BY <1>1, <2>1 DEF Used
<1>6. r.numerator \in Nat \ {0}
  BY <1>4, <1>5, ContractIs
<1> HIDE DEF c
<1>7. /\ mid \in PoolAccount
      /\ \A name \in CampaignNumbers : mid[name] = AsWritten(CampaignSource(c)[name])
      /\ mid.earlyJoinIsActive = in.early /\ mid.publicIsActive = TRUE
      /\ mid.isActive = acc.isActive /\ mid.admin = acc.admin
      /\ mid.rateNumerator = acc.rateNumerator
  <2>1. /\ mid \in PoolAccount
        /\ \A name \in CampaignNumbers : mid[name] = AsWritten(CampaignSource(c)[name])
        /\ mid.earlyJoinIsActive = c.early_join_phase.is_active
        /\ mid.publicIsActive = c.public_phase.is_active
        /\ Keeps(mid, acc, {"rateNumerator", "rateDenominator", "isActive", "admin"})
    BY <1>1, <1>2, ExecCampaign
  <2> HIDE DEF mid
  <2> QED BY <1>2, <2>1 DEF Keeps
<1> HIDE DEF ops, first, mid, r
<1>8. CASE UserRate(old) = in.token_ratio
  <2>1. FoldLeft(Execute, acc, ops) = mid
    BY <1>3, <1>8, ExecuteOne DEF mid
  <2> QED BY <1>1, <1>7, <1>8, <2>1 DEF c
<1>9. CASE UserRate(old) # in.token_ratio
  <2>1. FoldLeft(Execute, acc, ops) = last
    BY <1>3, <1>9, ExecuteTwo DEF mid
  <2>2. /\ last \in PoolAccount /\ last.rateNumerator = r.numerator
        /\ Keeps(last, mid, {"rateDenominator", "earlyJoinIsActive", "publicIsActive",
                             "isActive", "admin"} \cup CampaignNumbers)
    BY <1>1, <1>4, <1>6, <1>7, <1>9, ExecRate
  <2> HIDE DEF last
  <2>3. /\ \A name \in CampaignNumbers : last[name] = mid[name]
        /\ last.earlyJoinIsActive = mid.earlyJoinIsActive
        /\ last.publicIsActive = mid.publicIsActive
        /\ last.isActive = mid.isActive /\ last.admin = mid.admin
    BY <2>2 DEF Keeps
  <2>4. \A name \in CampaignNumbers : last[name] = AsWritten(CampaignSource(c)[name])
    BY <1>7, <2>3
  <2> QED BY <1>1, <1>4, <1>7, <1>9, <2>1, <2>2, <2>3, <2>4 DEF c
<1> QED BY <1>8, <1>9

----------------------------------------------------------------------------
(* An update that has landed.                                              *)

\* The numbers of a campaign that is sent.
LEMMA SentNumbers ==
  ASSUME NEW acc \in PoolAccount, NEW in \in UpdateInput, EarlyEndsAfter1970(in),
         in.join_pool_start # NaN, in.join_pool_end # NaN, in.public_individual # NaN
  PROVE  LET c == Sent(acc, in) IN
         \A name \in CampaignNumbers :
           /\ CampaignSource(c)[name] \in Nat
           /\ AsWritten(CampaignSource(c)[name]) = CampaignSource(c)[name]
<1> DEFINE c == Sent(acc, in)
           src == CampaignSource(c)
           start == in.join_pool_start
           earlyEnd == IF start = NaN THEN NaN ELSE start + in.early_join_duration
           Sec(t) == Seconds(t, Second)
<1>1. /\ start \in Nat /\ in.join_pool_end \in Nat /\ in.public_individual \in Nat
      /\ in.claim_at \in Date /\ in.early \in BOOLEAN /\ in.early_total \in Nat
      /\ in.max_allocation_all_phases \in Nat /\ in.early_join_duration \in Int
      /\ Unit \in Nat /\ Fine \in Nat \ {0}
      /\ acc.max_allocation_all_phases \in Nat /\ acc.claim_at \in Nat
  BY UnitsAssumption, WidthFacts DEF UpdateInput, Date, PoolAccount
<1>2. earlyEnd \in Nat
  BY <1>1 DEF EarlyEndsAfter1970
<1>3. /\ c.max_allocation_all_phases =
           IF in.max_allocation_all_phases # 0
           THEN convertToContractAmount(in.max_allocation_all_phases)
           ELSE acc.max_allocation_all_phases
      /\ c.claim_at = IF in.claim_at # Missing THEN Sec(in.claim_at) ELSE acc.claim_at
      /\ c.early_join_phase =
           [is_active |-> in.early, max_total_alloc |-> convertToContractAmount(in.early_total),
            start_at |-> IF in.early THEN Sec(start) ELSE Sec(0),
            end_at |-> IF in.early THEN Sec(earlyEnd) ELSE Sec(0)]
      /\ c.public_phase =
           [is_active |-> TRUE,
            max_individual_alloc |-> convertToContractAmount(in.public_individual),
            start_at |-> IF in.early THEN Sec(earlyEnd) ELSE Sec(start),
            end_at |-> Sec(in.join_pool_end)]
  BY SentIs
<1>4. /\ src["max_allocation_all_phases"] = c.max_allocation_all_phases
      /\ src["earlyJoinMaxTotalAlloc"] = c.early_join_phase.max_total_alloc
      /\ src["earlyJoinStart"] = c.early_join_phase.start_at
      /\ src["earlyJoinEnd"] = c.early_join_phase.end_at
      /\ src["publicIndividualAlloc"] = c.public_phase.max_individual_alloc
      /\ src["publicStart"] = c.public_phase.start_at
      /\ src["publicEnd"] = c.public_phase.end_at
      /\ src["claim_at"] = c.claim_at
  BY CampaignSources
<1>5. \A t \in Date : t # NaN => Sec(t) \in Nat
  BY SecondsAre
<1>6. \A n \in Nat : n \in Date /\ n # NaN
  BY DEF Date, NaN
<1>7. \A n \in Nat : convertToContractAmount(n) \in Nat
  BY AmountsAre
<1> HIDE DEF c, src, start, earlyEnd, Sec
<1>8. /\ c.max_allocation_all_phases \in Nat /\ c.claim_at \in Nat
      /\ c.early_join_phase.max_total_alloc \in Nat
      /\ c.early_join_phase.start_at \in Nat /\ c.early_join_phase.end_at \in Nat
      /\ c.public_phase.max_individual_alloc \in Nat
      /\ c.public_phase.start_at \in Nat /\ c.public_phase.end_at \in Nat
  BY <1>1, <1>2, <1>3, <1>5, <1>6, <1>7 DEF Missing
<1>9. \A name \in CampaignNumbers : src[name] \in Nat
  BY <1>4, <1>8 DEF CampaignNumbers
<1>10. \A n \in Nat : AsWritten(n) = n
  BY DEF AsWritten, NaN
<1> QED BY <1>9, <1>10 DEF src, c

\* Accounts with the same fields are the same.
LEMMA AccountsEqual ==
  ASSUME NEW a \in PoolAccount, NEW b \in PoolAccount,
         \A name \in CampaignNumbers : a[name] = b[name],
         a.earlyJoinIsActive = b.earlyJoinIsActive, a.publicIsActive = b.publicIsActive,
         a.isActive = b.isActive, a.admin = b.admin, a.rateNumerator = b.rateNumerator
  PROVE  a = b
<1> DEFINE F == {"rateNumerator", "rateDenominator", "isActive", "admin"} \cup Switches
                  \cup CampaignNumbers
<1>1. /\ DOMAIN a = F /\ DOMAIN b = F /\ a = [f \in F |-> a[f]] /\ b = [f \in F |-> b[f]]
      /\ a.rateDenominator = b.rateDenominator
  BY DEF PoolAccount, CampaignNumbers, Switches
<1>2. \A f \in F : a[f] = b[f]
  BY <1>1 DEF Switches
<1> HIDE DEF F
<1>3. [f \in F |-> a[f]] = [f \in F |-> b[f]]
  BY <1>2
<1> QED BY <1>1, <1>3, Zenon

\* A request that has landed asks for the campaign it finds.
LEMMA SentAgain ==
  ASSUME NEW old \in PoolAccount, NEW new \in PoolAccount, NEW in \in UpdateInput,
         EarlyEndsAfter1970(in), in.join_pool_start # NaN, in.join_pool_end # NaN,
         in.public_individual # NaN,
         \A name \in CampaignNumbers : new[name] = AsWritten(CampaignSource(Sent(old, in))[name]),
         new.earlyJoinIsActive = in.early, new.publicIsActive = TRUE
  PROVE  /\ Sent(new, in) = extractRawPoolData(new).campaign
         /\ Sent(new, in).early_join_phase = Sent(old, in).early_join_phase
         /\ Sent(new, in).public_phase = Sent(old, in).public_phase
         /\ Sent(new, in).claim_at = Sent(old, in).claim_at
         /\ Sent(new, in).max_allocation_all_phases = Sent(old, in).max_allocation_all_phases
<1> DEFINE a == Sent(old, in)
           b == Sent(new, in)
           d == extractRawPoolData(new).campaign
           src == CampaignSource(a)
           start == in.join_pool_start
           earlyEnd == IF start = NaN THEN NaN ELSE start + in.early_join_duration
           Sec(t) == Seconds(t, Second)
           earlyPhase ==
             [is_active |-> in.early, max_total_alloc |-> convertToContractAmount(in.early_total),
              start_at |-> IF in.early THEN Sec(start) ELSE Sec(0),
              end_at |-> IF in.early THEN Sec(earlyEnd) ELSE Sec(0)]
           publicPhase ==
             [is_active |-> TRUE,
              max_individual_alloc |-> convertToContractAmount(in.public_individual),
              start_at |-> IF in.early THEN Sec(earlyEnd) ELSE Sec(start),
              end_at |-> Sec(in.join_pool_end)]
<1>1. \A name \in CampaignNumbers : new[name] = src[name]
  BY SentNumbers
<1>2. /\ a.early_join_phase = earlyPhase /\ a.public_phase = publicPhase
      /\ a.max_allocation_all_phases =
           IF in.max_allocation_all_phases # 0
           THEN convertToContractAmount(in.max_allocation_all_phases)
           ELSE old.max_allocation_all_phases
      /\ a.claim_at = IF in.claim_at # Missing THEN Sec(in.claim_at) ELSE old.claim_at
  BY SentIs
<1>3. /\ b.early_join_phase = earlyPhase /\ b.public_phase = publicPhase
      /\ b.max_allocation_all_phases =
           IF in.max_allocation_all_phases # 0
           THEN convertToContractAmount(in.max_allocation_all_phases)
           ELSE new.max_allocation_all_phases
      /\ b.claim_at = IF in.claim_at # Missing THEN Sec(in.claim_at) ELSE new.claim_at
  BY SentIs
<1>4. /\ src["max_allocation_all_phases"] = a.max_allocation_all_phases
      /\ src["earlyJoinMaxTotalAlloc"] = a.early_join_phase.max_total_alloc
      /\ src["earlyJoinStart"] = a.early_join_phase.start_at
      /\ src["earlyJoinEnd"] = a.early_join_phase.end_at
      /\ src["publicIndividualAlloc"] = a.public_phase.max_individual_alloc
      /\ src["publicStart"] = a.public_phase.start_at
      /\ src["publicEnd"] = a.public_phase.end_at
      /\ src["claim_at"] = a.claim_at
  BY CampaignSources
<1>5. d = [max_allocation_all_phases |-> new.max_allocation_all_phases, claim_at |-> new.claim_at,
           early_join_phase |->
             [is_active |-> new.earlyJoinIsActive, max_total_alloc |-> new.earlyJoinMaxTotalAlloc,
              start_at |-> new.earlyJoinStart, end_at |-> new.earlyJoinEnd],
           public_phase |->
             [is_active |-> new.publicIsActive, max_individual_alloc |-> new.publicIndividualAlloc,
              start_at |-> new.publicStart, end_at |-> new.publicEnd]]
  BY DEF extractRawPoolData
<1>6. b = [max_allocation_all_phases |-> b.max_allocation_all_phases, claim_at |-> b.claim_at,
           early_join_phase |-> b.early_join_phase, public_phase |-> b.public_phase]
  BY DEF Sent, NewCampaign
<1>7. earlyPhase.is_active = in.early /\ publicPhase.is_active = TRUE
  OBVIOUS
<1> HIDE DEF a, b, d, src, start, earlyEnd, Sec
<1>8. /\ new.max_allocation_all_phases = a.max_allocation_all_phases
      /\ new.earlyJoinMaxTotalAlloc = a.early_join_phase.max_total_alloc
      /\ new.earlyJoinStart = a.early_join_phase.start_at
      /\ new.earlyJoinEnd = a.early_join_phase.end_at
      /\ new.publicIndividualAlloc = a.public_phase.max_individual_alloc
      /\ new.publicStart = a.public_phase.start_at
      /\ new.publicEnd = a.public_phase.end_at
      /\ new.claim_at = a.claim_at
  BY <1>1, <1>4 DEF CampaignNumbers
<1>9. /\ b.max_allocation_all_phases = new.max_allocation_all_phases
      /\ b.claim_at = new.claim_at
  BY <1>2, <1>3, <1>8
<1>10. /\ earlyPhase = [is_active |-> new.earlyJoinIsActive, max_total_alloc |-> new.earlyJoinMaxTotalAlloc,
                  start_at |-> new.earlyJoinStart, end_at |-> new.earlyJoinEnd]
      /\ publicPhase = [is_active |-> new.publicIsActive,
                   max_individual_alloc |-> new.publicIndividualAlloc,
                   start_at |-> new.publicStart, end_at |-> new.publicEnd]
  <2>1. /\ earlyPhase.is_active = in.early /\ earlyPhase.max_total_alloc = new.earlyJoinMaxTotalAlloc
        /\ earlyPhase.start_at = new.earlyJoinStart /\ earlyPhase.end_at = new.earlyJoinEnd
    <3> HIDE DEF earlyPhase
    <3> QED BY <1>2, <1>8, <1>7
  <2>2. /\ publicPhase.is_active = TRUE /\ publicPhase.max_individual_alloc = new.publicIndividualAlloc
        /\ publicPhase.start_at = new.publicStart /\ publicPhase.end_at = new.publicEnd
    <3> HIDE DEF publicPhase
    <3> QED BY <1>2, <1>8, <1>7
  <2>3. /\ earlyPhase = [is_active |-> earlyPhase.is_active, max_total_alloc |-> earlyPhase.max_total_alloc,
                    start_at |-> earlyPhase.start_at, end_at |-> earlyPhase.end_at]
        /\ publicPhase = [is_active |-> publicPhase.is_active,
                     max_individual_alloc |-> publicPhase.max_individual_alloc,
                     start_at |-> publicPhase.start_at, end_at |-> publicPhase.end_at]
    OBVIOUS
  <2> HIDE DEF earlyPhase, publicPhase
  <2> QED BY <2>1, <2>2, <2>3
<1>11. b = d
  BY <1>3, <1>5, <1>6, <1>9, <1>10
<1> QED BY <1>2, <1>3, <1>8, <1>9, <1>11 DEF a, b, d

\* The same request finds nothing to change, or changes nothing.
LEMMA LandedOnce ==
  ASSUME NEW old \in PoolAccount, NEW new \in PoolAccount, NEW in \in UpdateInput,
         EarlyEndsAfter1970(in), in.join_pool_start # NaN, in.join_pool_end # NaN,
         Update(old, in).result = "tx",
         \A name \in CampaignNumbers : new[name] = AsWritten(CampaignSource(Sent(old, in))[name]),
         new.earlyJoinIsActive = in.early, new.publicIsActive = TRUE,
         new.rateNumerator = IF UserRate(old) = in.token_ratio THEN old.rateNumerator
                             ELSE Contract(in.token_ratio),
         in.token_ratio # 0
  PROVE  LET again == Update(new, in) IN
         \/ again = NoChange
         \/ /\ ~ComesBack(in.token_ratio)
            /\ IF new.isActive THEN again = Failed
               ELSE again.result = "tx" /\ FoldLeft(Execute, new, again.ops) = new
<1> DEFINE data == extractRawPoolData(new)
           ratio == in.token_ratio
           again == Update(new, in)
           ops == UpdateOps(data, in)
<1>1. /\ ~PhasesRefused(in) /\ in.public_individual # NaN
      /\ ~InitPoolParamsRefused(SentRate(old, in), Sent(old, in))
      /\ Encodable(SetCampaignLayout, CampaignSource(Sent(old, in)))
      /\ UserRate(old) # ratio => Encodable(setRateInstruction.layout, RateSource(SentRate(old, in)))
  BY UpdateAnswers DEF Missing
<1>2. /\ Sent(new, in) = data.campaign
      /\ Sent(new, in).early_join_phase = Sent(old, in).early_join_phase
      /\ Sent(new, in).max_allocation_all_phases = Sent(old, in).max_allocation_all_phases
  BY <1>1, SentAgain
<1>3. SentRate(new, in) = SentRate(old, in)
  BY DEF SentRate, Used
<1>4. ~InitPoolParamsRefused(SentRate(new, in), Sent(new, in))
  BY <1>1, <1>2, <1>3 DEF InitPoolParamsRefused
<1>5. /\ data.rate = UserRate(new) /\ data.is_active = new.isActive
      /\ data.campaign \in CampaignRecord
  BY Extracted
<1>6. ratio \in Nat \ {0}
  BY DEF UpdateInput
<1>7. UsedRate(data, in) = ratio
  BY DEF UsedRate
<1>8. Encodable(SetCampaignLayout, CampaignSource(Sent(new, in)))
  <2>1. \A name \in CampaignNumbers : CampaignSource(data.campaign)[name] = new[name]
    <3> DEFINE src == CampaignSource(data.campaign)
    <3>1. /\ src["max_allocation_all_phases"] = new.max_allocation_all_phases
          /\ src["earlyJoinMaxTotalAlloc"] = new.earlyJoinMaxTotalAlloc
          /\ src["earlyJoinStart"] = new.earlyJoinStart /\ src["earlyJoinEnd"] = new.earlyJoinEnd
          /\ src["publicIndividualAlloc"] = new.publicIndividualAlloc
          /\ src["publicStart"] = new.publicStart /\ src["publicEnd"] = new.publicEnd
          /\ src["claim_at"] = new.claim_at
      BY DEF CampaignSource, extractRawPoolData
    <3> HIDE DEF src
    <3> QED BY <3>1 DEF CampaignNumbers, src
  <2>2. \A name \in CampaignNumbers : new[name] \in 0..MaxU64
    BY DEF PoolAccount, CampaignNumbers
  <2>3. \A name \in CampaignNumbers : CampaignSource(data.campaign)[name] \in NaN..MaxU64
    BY <2>1, <2>2, WidthFacts DEF NaN
  <2> HIDE DEF data
  <2> QED BY <1>2, <1>5, <2>3, Encoded
<1>9. again = IF data.rate = ratio THEN NoChange
              ELSE IF new.isActive \/ ~Encodable(setRateInstruction.layout, RateSource(SentRate(new, in)))
              THEN Failed ELSE Tx(data.root_admin, ops)
  <2>1. NewCampaign(data.campaign, in) = Sent(new, in)
    BY DEF Sent
  <2>2. convertRateToDataContract(UsedRate(data, in)) = SentRate(new, in)
    BY <1>7 DEF SentRate, Used
  <2>3. ~isChangedCampaign(data.campaign, Sent(new, in))
    BY <1>2 DEF isChangedCampaign
  <2> HIDE DEF data, ops
  <2>4. createUpdatePoolTx(data, in) =
          IF data.rate = ratio THEN NoChange
          ELSE IF \/ data.is_active
                  \/ ~Encodable(setRateInstruction.layout, RateSource(SentRate(new, in)))
          THEN Failed ELSE Tx(data.root_admin, ops)
    BY <1>1, <1>4, <1>6, <1>7, <1>8, <2>1, <2>2, <2>3 DEF createUpdatePoolTx, Missing, ops
  <2>5. again = createUpdatePoolTx(data, in)
    BY <1>1 DEF Update, data
  <2>6. data.is_active = new.isActive
    BY <1>5
  <2> HIDE DEF again
  <2> QED BY <2>4, <2>5, <2>6
<1> HIDE DEF data, again, ops
<1>10. CASE UserRate(new) = ratio
  BY <1>5, <1>9, <1>10 DEF again
<1>11. CASE UserRate(new) # ratio
  <2>1. UserRate(old) # ratio
    <3> SUFFICES ASSUME UserRate(old) = ratio PROVE FALSE
      OBVIOUS
    <3>1. new.rateNumerator = old.rateNumerator
      OBVIOUS
    <3> QED BY <1>11, <3>1, RateParts
  <2>2. new.rateNumerator = Contract(ratio)
    BY <2>1
  <2>3. ~ComesBack(ratio)
    BY <1>6, <1>11, <2>2, RateComesBack
  <2>4. again = IF new.isActive THEN Failed ELSE Tx(data.root_admin, ops)
    BY <1>1, <1>3, <1>5, <1>9, <1>11, <2>1
  <2>5. ASSUME ~new.isActive
        PROVE  again.result = "tx" /\ FoldLeft(Execute, new, again.ops) = new
    <3>1. again.result = "tx" /\ again.ops = ops
      BY <2>4, <2>5 DEF Tx
    <3> DEFINE last == FoldLeft(Execute, new, again.ops)
    <3>2. /\ last \in PoolAccount
          /\ \A name \in CampaignNumbers :
               last[name] = AsWritten(CampaignSource(Sent(new, in))[name])
          /\ last.earlyJoinIsActive = in.early /\ last.publicIsActive = TRUE
          /\ last.isActive = new.isActive /\ last.admin = new.admin
          /\ last.rateNumerator = Contract(Used(new, in))
      BY <1>11, <3>1, UpdateLands DEF again
    <3>3. Used(new, in) = ratio
      BY DEF Used
    <3>4. \A name \in CampaignNumbers :
            CampaignSource(Sent(new, in))[name] = CampaignSource(Sent(old, in))[name]
      <4>1. /\ Sent(new, in).early_join_phase = Sent(old, in).early_join_phase
            /\ Sent(new, in).public_phase = Sent(old, in).public_phase
            /\ Sent(new, in).claim_at = Sent(old, in).claim_at
            /\ Sent(new, in).max_allocation_all_phases = Sent(old, in).max_allocation_all_phases
        BY <1>1, <1>2, SentAgain
      <4>2. \A a, b : /\ a.early_join_phase = b.early_join_phase /\ a.public_phase = b.public_phase
                      /\ a.claim_at = b.claim_at
                      /\ a.max_allocation_all_phases = b.max_allocation_all_phases
                      => CampaignSource(a) = CampaignSource(b)
        BY DEF CampaignSource
      <4>3. CampaignSource(Sent(new, in)) = CampaignSource(Sent(old, in))
        BY <4>1, <4>2
      <4> QED BY <4>3
    <3> HIDE DEF last
    <3>5. \A name \in CampaignNumbers : last[name] = new[name]
      BY <3>2, <3>4
    <3>6. /\ last.earlyJoinIsActive = new.earlyJoinIsActive
          /\ last.publicIsActive = new.publicIsActive
      BY <3>2
    <3>7. last.rateNumerator = new.rateNumerator
      BY <2>2, <3>2, <3>3
    <3>8. last.isActive = new.isActive /\ last.admin = new.admin /\ last \in PoolAccount
      BY <3>2
    <3>9. last = new
      BY <3>5, <3>6, <3>7, <3>8, AccountsEqual
    <3> QED BY <3>1, <3>9 DEF last
  <2>6. CASE new.isActive
    BY <2>3, <2>4, <2>6 DEF again
  <2>7. CASE ~new.isActive
    BY <2>3, <2>5, <2>7 DEF again
  <2> QED BY <2>6, <2>7
<1> QED BY <1>10, <1>11

----------------------------------------------------------------------------
(* The invariant of the requests.                                          *)

\* An answered update has read an account and is answered for it; an activation and
\* a change of administrator hold one instruction.
Results == {"none", "refused", "null", "tx", "landed"}

Answered(q, r) ==
  /\ r.out.result \in Results
  /\ r.out.result = "tx" =>
       /\ q \in Updates =>
            /\ r.read \in PoolAccount /\ r.input \in UpdateInput
            /\ part = "requests" => EarlyEndsAfter1970(r.input)
            /\ r.out = Update(r.read, r.input)
       /\ q \in Activations =>
            r.out.ops = <<[op |-> "setActive",
                           data |-> Data(setPoolActiveInstruction, [is_active |-> 1])]>>
       /\ q \in AdminChanges =>
            \E new \in Admins : r.out.ops = <<[op |-> "setAdmin", admin |-> new]>>

OnChainInv ==
  /\ chain \in PoolAccount /\ number \in Int
  /\ req = [q \in Requests |-> req[q]]
  /\ \A q \in Requests : Answered(q, req[q])

LEMMA OnChainInvInit == OnChainInit => OnChainInv
<1> SUFFICES ASSUME OnChainInit PROVE OnChainInv
  OBVIOUS
<1>1. chain \in PoolAccount /\ number \in Int
  BY AccountsAssumption, GivenAssumption DEF OnChainInit, Init
<1>2. req = [q \in Requests |-> Idle]
  BY DEF OnChainInit, Init
<1>3. Idle.out.result = "none"
  BY DEF Idle, Nothing
<1>4. \A q : Answered(q, Idle)
  BY <1>3 DEF Answered, Results
<1> HIDE DEF Idle
<1> QED BY <1>1, <1>2, <1>4 DEF OnChainInv

\* An answer to one request leaves the others alone.
LEMMA RespondStep ==
  ASSUME OnChainInv, NEW q \in Requests, NEW input, NEW out, Respond(q, input, out),
         part' = part, number' = number,
         Answered(q, [input |-> input, read |-> chain, out |-> out])
  PROVE  OnChainInv'
<1>1. /\ chain' = chain /\ chain \in PoolAccount /\ number \in Int
      /\ req' = [req EXCEPT ![q] = [input |-> input, read |-> chain, out |-> out]]
      /\ req = [r \in Requests |-> req[r]]
  BY DEF Respond, OnChainInv
<1>2. /\ req' = [r \in Requests |-> req'[r]]
      /\ \A r \in Requests :
           req'[r] = IF r = q THEN [input |-> input, read |-> chain, out |-> out] ELSE req[r]
  BY <1>1
<1>3. \A r \in Requests : Answered(r, req'[r])
  BY <1>2 DEF OnChainInv
<1>4. \A r \in Requests : Answered(r, req[r])'
  BY <1>3 DEF Answered
<1> QED BY <1>1, <1>2, <1>4 DEF OnChainInv

LEMMA UpdateResults ==
  ASSUME NEW acc, NEW in
  PROVE  Update(acc, in).result \in Results
<1>1. Failed.result = "refused" /\ NoChange.result = "null" /\ \A p, ops : Tx(p, ops).result = "tx"
  BY DEF Failed, NoChange, Tx
<1>2. \A data : createUpdatePoolTx(data, in).result \in Results
  BY <1>1 DEF createUpdatePoolTx, Results
<1> QED BY <1>1, <1>2 DEF Update, Results

LEMMA UpdateAnswered ==
  ASSUME OnChainInv, NEW q \in Updates, NEW in \in UpdateInput,
         part = "requests" => EarlyEndsAfter1970(in)
  PROVE  Answered(q, [input |-> in, read |-> chain, out |-> Update(chain, in)])
<1> DEFINE r == [input |-> in, read |-> chain, out |-> Update(chain, in)]
<1>1. r.input = in /\ r.read = chain /\ r.out = Update(chain, in)
  OBVIOUS
<1>2. q \notin Activations /\ q \notin AdminChanges
  BY RequestsAssumption
<1>3. r.out.result \in Results
  BY <1>1, UpdateResults
<1> HIDE DEF r
<1>4. Answered(q, r)
  BY <1>1, <1>2, <1>3 DEF Answered, OnChainInv
<1> QED BY <1>4 DEF r

LEMMA DatesAreInputs == DateInputs \subseteq UpdateInput
<1> SUFFICES ASSUME NEW in \in DateInputs PROVE in \in UpdateInput
  OBVIOUS
<1>1. PICK s \in Dates, e \in Dates, c \in {NaN, 7, 8, 9}, early0 \in BOOLEAN, d \in {-2, -1, 0, 1, 2, 3} :
        in = In(s, e, c, early0, d, 0, 1, 1, 8)
  BY DEF DateInputs
<1>2. s \in Date /\ e \in Date /\ c \in Date /\ d \in Int
  BY DEF Dates, Date
<1>3. in = [join_pool_start |-> s, join_pool_end |-> e, claim_at |-> c, early |-> early0,
            early_join_duration |-> d, max_allocation_all_phases |-> 0,
            early_total |-> 1, public_individual |-> 1, token_ratio |-> 8]
  BY <1>1 DEF In
<1> QED BY <1>2, <1>3 DEF UpdateInput

LEMMA UpdateStep ==
  ASSUME OnChainInv, NEW q \in Updates, updateOnchainPool(q), part' = part, number' = number
  PROVE  OnChainInv'
<1>1. PICK in \in Inputs : Respond(q, in, Update(chain, in))
  BY DEF updateOnchainPool
<1>2. in \in UpdateInput /\ EarlyEndsAfter1970(in) /\ q \in Requests
  BY InputsAssumption DEF Requests
<1>3. Answered(q, [input |-> in, read |-> chain, out |-> Update(chain, in)])
  BY <1>2, UpdateAnswered
<1> QED BY <1>1, <1>2, <1>3, RespondStep

LEMMA ActivateStep ==
  ASSUME OnChainInv, NEW q \in Activations, activatePool(q), part' = part, number' = number
  PROVE  OnChainInv'
<1> DEFINE out == IF chain.isActive THEN Failed
                  ELSE Tx(chain.admin, <<[op |-> "setActive",
                                          data |-> Data(setPoolActiveInstruction, [is_active |-> 1])]>>)
           r == [input |-> None, read |-> chain, out |-> out]
<1>1. Respond(q, None, out) /\ q \in Requests /\ q \notin Updates /\ q \notin AdminChanges
  BY RequestsAssumption DEF activatePool, Requests
<1>2. out.result \in Results
  BY DEF Failed, Tx, Results
<1>3. out.result = "tx" =>
        out.ops = <<[op |-> "setActive",
                     data |-> Data(setPoolActiveInstruction, [is_active |-> 1])]>>
  BY DEF Failed, Tx
<1>4. r.out = out
  OBVIOUS
<1> HIDE DEF out, r
<1>5. Answered(q, r)
  BY <1>1, <1>2, <1>3, <1>4 DEF Answered
<1> QED BY <1>1, <1>5, RespondStep DEF r

LEMMA ChangeAdminStep ==
  ASSUME OnChainInv, NEW q \in AdminChanges, changePoolAdminTx(q), part' = part, number' = number
  PROVE  OnChainInv'
<1> DEFINE out(new) == IF new \in {"none", chain.admin} THEN Failed
                       ELSE Tx(chain.admin, <<[op |-> "setAdmin", admin |-> new]>>)
<1>1. PICK new \in Admins \cup {"none"} : Respond(q, [admin |-> new], out(new))
  BY DEF changePoolAdminTx
<1> DEFINE r == [input |-> [admin |-> new], read |-> chain, out |-> out(new)]
<1>2. q \in Requests /\ q \notin Updates /\ q \notin Activations
  BY RequestsAssumption DEF Requests
<1>3. out(new).result \in Results
  BY DEF Failed, Tx, Results
<1>4. out(new).result = "tx" =>
        new \in Admins /\ out(new).ops = <<[op |-> "setAdmin", admin |-> new]>>
  BY DEF Failed, Tx
<1>5. r.out = out(new)
  OBVIOUS
<1> HIDE DEF out, r
<1>6. Answered(q, r)
  BY <1>2, <1>3, <1>4, <1>5 DEF Answered
<1> QED BY <1>1, <1>2, <1>6, RespondStep DEF r

\* What lands is an account again.
LEMMA LandsOnAccount ==
  ASSUME OnChainInv, NEW q \in Requests, Land(q)
  PROVE  chain' \in PoolAccount
<1> DEFINE ops == req[q].out.ops
<1>1. /\ req[q].out.result = "tx" /\ chain' = FoldLeft(Execute, chain, ops)
      /\ chain \in PoolAccount /\ Answered(q, req[q])
  BY DEF Land, OnChainInv
<1>2. CASE q \in Updates
  <2> DEFINE old == req[q].read
             in == req[q].input
  <2>1. old \in PoolAccount /\ in \in UpdateInput /\ req[q].out = Update(old, in)
    BY <1>1, <1>2 DEF Answered
  <2>2. Update(old, in).result = "tx"
    BY <1>1, <2>1
  <2>3. FoldLeft(Execute, chain, Update(old, in).ops) \in PoolAccount
    <3> HIDE DEF old, in
    <3> QED BY <1>1, <2>1, <2>2, UpdateLands
  <2> QED BY <1>1, <2>1, <2>3
<1>3. CASE q \in Activations
  <2> DEFINE first == [op |-> "setActive",
                       data |-> Data(setPoolActiveInstruction, [is_active |-> 1])]
  <2>1. ops = <<first>>
    BY <1>1, <1>3 DEF Answered
  <2> DEFINE set == Decode(ProgramSetActive, first.data).is_active = 1
  <2>2. Execute(chain, first) = [chain EXCEPT !.isActive = set]
    BY DEF Execute
  <2>3. set \in BOOLEAN
    OBVIOUS
  <2>4. [chain EXCEPT !.isActive = set] \in PoolAccount
    <3> HIDE DEF set
    <3> QED BY <1>1, <2>3 DEF PoolAccount
  <2>5. FoldLeft(Execute, chain, ops) = Execute(chain, ops[1])
    <3> HIDE DEF first, ops
    <3>1. DOMAIN ops = {1}
      BY <2>1
    <3> QED BY <3>1, ExecuteOne
  <2>6. ops[1] = first
    <3> HIDE DEF first, ops
    <3> QED BY <2>1
  <2> QED BY <1>1, <2>2, <2>4, <2>5, <2>6
<1>4. CASE q \in AdminChanges
  <2>1. PICK new \in Admins : ops = <<[op |-> "setAdmin", admin |-> new]>>
    BY <1>1, <1>4 DEF Answered
  <2> DEFINE first == [op |-> "setAdmin", admin |-> new]
  <2>2. Execute(chain, first) = [chain EXCEPT !.admin = new]
    BY DEF Execute
  <2>3. [chain EXCEPT !.admin = new] \in PoolAccount
    BY <1>1 DEF PoolAccount
  <2>4. FoldLeft(Execute, chain, ops) = Execute(chain, ops[1])
    <3> HIDE DEF ops
    <3>1. DOMAIN ops = {1}
      BY <2>1
    <3> QED BY <3>1, ExecuteOne
  <2>5. ops[1] = first
    <3> HIDE DEF ops
    <3> QED BY <2>1
  <2> QED BY <1>1, <2>2, <2>3, <2>4, <2>5
<1> QED BY <1>2, <1>3, <1>4 DEF Requests

LEMMA LandStep ==
  ASSUME OnChainInv, NEW q \in Requests, Land(q), part' = part, number' = number
  PROVE  OnChainInv'
<1> DEFINE r == [Idle EXCEPT !.out = [result |-> "landed"]]
<1>1. chain' \in PoolAccount
  BY LandsOnAccount
<1>2. /\ req' = [req EXCEPT ![q] = r] /\ req = [p \in Requests |-> req[p]]
      /\ number \in Int
  BY DEF Land, OnChainInv
<1>3. r.out.result = "landed"
  BY DEF Idle
<1> HIDE DEF r
<1>4. Answered(q, r)
  BY <1>3 DEF Answered, Results
<1>5. /\ req' = [p \in Requests |-> req'[p]]
      /\ \A p \in Requests : req'[p] = IF p = q THEN r ELSE req[p]
  BY <1>2
<1>6. \A p \in Requests : Answered(p, req'[p])
  BY <1>4, <1>5 DEF OnChainInv
<1>7. \A p \in Requests : Answered(p, req[p])'
  BY <1>6 DEF Answered
<1> QED BY <1>1, <1>2, <1>5, <1>7 DEF OnChainInv

\* Every step keeps the invariant.
LEMMA OnChainInvNext == OnChainInv /\ [Build \/ AskDates \/ Race]_onChainVars => OnChainInv'
<1> SUFFICES ASSUME OnChainInv, [Build \/ AskDates \/ Race]_onChainVars PROVE OnChainInv'
  OBVIOUS
<1>1. CASE UNCHANGED <<part, vars, number>>
  BY <1>1 DEF OnChainInv, Answered, vars
<1>2. CASE Build
  BY <1>1, <1>2 DEF Build
<1>3. CASE UNCHANGED onChainVars
  BY <1>1, <1>3 DEF onChainVars, byteVars
<1>4. CASE AskDates
  <2>1. PICK q \in Updates, in \in DateInputs : Respond(q, in, Update(chain, in))
    BY <1>4 DEF AskDates
  <2>2. q \in Requests /\ in \in UpdateInput /\ part # "requests"
    BY <1>4, DatesAreInputs DEF AskDates, Requests
  <2>3. part' = part /\ number' = number
    BY <1>4 DEF AskDates, byteVars
  <2>4. Answered(q, [input |-> in, read |-> chain, out |-> Update(chain, in)])
    BY <2>2, UpdateAnswered
  <2> QED BY <2>1, <2>2, <2>3, <2>4, RespondStep
<1>5. CASE Race
  <2>1. Next /\ part' = part /\ number' = number
    BY <1>5 DEF Race, byteVars
  <2> QED BY <2>1, UpdateStep, ActivateStep, ChangeAdminStep, LandStep DEF Next
<1> QED BY <1>2, <1>3, <1>4, <1>5

LEMMA OnChainInvariance == OnChainSpec => []OnChainInv
  BY OnChainInvInit, OnChainInvNext, PTL DEF OnChainSpec

\* Whatever is asked and lands, the account holds numbers of Width bytes, and a
\* number that fits is read back from the bytes it is written as.
THEOREM NumbersFit == OnChainSpec => []NumbersKeepTheirWidth
<1>1. OnChainInv => NumbersKeepTheirWidth
  <2> SUFFICES ASSUME OnChainInv PROVE NumbersKeepTheirWidth
    OBVIOUS
  <2>1. TypeOK
    BY DEF OnChainInv, Answered, Results, TypeOK
  <2>2. NumberSurvives
    BY NumbersSurvive DEF OnChainInv
  <2> QED BY <2>1, <2>2 DEF NumbersKeepTheirWidth
<1> QED BY <1>1, OnChainInvariance, PTL

\* The phases of a campaign that is sent with all its dates meet, whatever the
\* dates, the length of the early one, the units and the account that was read.
THEOREM PhasesAlwaysMeet == OnChainSpec => []PhasesMeet
<1> DEFINE Meet(q, in, data) ==
      /\ req[q].out.result = "tx"
      /\ Missing \notin {in.join_pool_start, in.join_pool_end, in.claim_at}
      /\ in.early => in.early_join_duration > 0
      => LET c == Decode(ProgramSetCampaign, data)
         IN /\ c.earlyJoinIsActive =>
                 /\ c.earlyJoinStart <= c.earlyJoinEnd /\ c.earlyJoinEnd = c.publicStart
                 /\ in.early_join_duration >= Second => c.earlyJoinStart < c.earlyJoinEnd
            /\ ~c.earlyJoinIsActive => c.earlyJoinStart = 0 /\ c.earlyJoinEnd = 0
            /\ c.publicStart <= c.publicEnd /\ c.publicEnd <= c.claim_at
<1>1. OnChainInv => PhasesMeet
  <2> SUFFICES ASSUME OnChainInv, NEW q \in Updates
               PROVE  Meet(q, req[q].input, req[q].out.ops[1].data)
    BY DEF PhasesMeet
  <2> SUFFICES ASSUME req[q].out.result = "tx",
                      Missing \notin {req[q].input.join_pool_start, req[q].input.join_pool_end,
                                      req[q].input.claim_at},
                      req[q].input.early => req[q].input.early_join_duration > 0
               PROVE  Meet(q, req[q].input, req[q].out.ops[1].data)
    OBVIOUS
  <2> DEFINE in == req[q].input
             old == req[q].read
             w == Data(setCampaignInstruction, CampaignSource(Sent(old, in)))
  <2>1. old \in PoolAccount /\ in \in UpdateInput /\ req[q].out = Update(old, in)
    BY DEF OnChainInv, Answered, Requests
  <2>2. /\ in.join_pool_start # NaN /\ in.join_pool_end # NaN /\ in.claim_at # NaN
        /\ in.early => in.early_join_duration > 0
    BY DEF Missing
  <2> HIDE DEF in, old
  <2>3. ~PhasesRefused(in) /\ req[q].out.ops = UpdateOps(extractRawPoolData(old), in)
    BY <2>1, UpdateAnswers DEF Tx, in
  <2>4. req[q].out.ops[1].data = w
    <3> DEFINE ops == UpdateOps(extractRawPoolData(old), in)
    <3> HIDE DEF w
    <3>1. ops[1] = [op |-> "setCampaign", data |-> w]
      BY <2>1, UpdateOpsAre DEF w
    <3> HIDE DEF ops
    <3>2. ops[1].data = w
      BY <3>1
    <3> QED BY <2>3, <3>2 DEF ops
  <2>5. Meet(q, in, w)
    BY <2>1, <2>2, <2>3, SentPhasesMeet
  <2> HIDE DEF w, Meet
  <2> QED BY <2>4, <2>5 DEF in
<1> QED BY <1>1, OnChainInvariance, PTL

----------------------------------------------------------------------------
(* The landing of an update.                                               *)

\* A landing is a step of the race, of an update that read an account.
LEMMA LandsInRace ==
  ASSUME OnChainInv, [Build \/ AskDates \/ Race]_onChainVars, NEW q \in Updates, Land(q)
  PROVE  /\ part = "requests"
         /\ chain \in PoolAccount /\ req[q].read \in PoolAccount /\ req[q].input \in UpdateInput
         /\ EarlyEndsAfter1970(req[q].input)
         /\ Update(req[q].read, req[q].input).result = "tx"
         /\ chain' = FoldLeft(Execute, chain, Update(req[q].read, req[q].input).ops)
<1>1. /\ q \in Requests /\ req[q].out.result = "tx"
      /\ req' = [req EXCEPT ![q] = [Idle EXCEPT !.out = [result |-> "landed"]]]
      /\ chain' = FoldLeft(Execute, chain, req[q].out.ops) /\ chain \in PoolAccount
      /\ req = [p \in Requests |-> req[p]] /\ Answered(q, req[q])
  BY DEF Land, OnChainInv, Requests
<1>2. req'[q].out.result = "landed"
  <2> DEFINE r == [Idle EXCEPT !.out = [result |-> "landed"]]
  <2>1. r.out.result = "landed"
    BY DEF Idle
  <2> HIDE DEF r
  <2>2. req' = [req EXCEPT ![q] = r] /\ q \in DOMAIN req
    BY <1>1 DEF r
  <2> QED BY <2>1, <2>2
<1>3. req' # req
  BY <1>1, <1>2
<1>4. ~UNCHANGED vars
  BY <1>3 DEF vars
<1>5. ~AskDates
  <2>1. Idle.out.result # "tx"
    BY DEF Idle, Nothing
  <2> QED BY <1>1, <2>1 DEF AskDates
<1>6. part = "requests"
  BY <1>4, <1>5 DEF Build, Race, onChainVars
<1> DEFINE old == req[q].read
           in == req[q].input
<1>7. /\ old \in PoolAccount /\ in \in UpdateInput /\ EarlyEndsAfter1970(in)
      /\ req[q].out = Update(old, in)
  BY <1>1, <1>6 DEF Answered
<1>8. /\ Update(old, in).result = "tx"
      /\ chain' = FoldLeft(Execute, chain, Update(old, in).ops)
  BY <1>1, <1>7
<1> QED BY <1>1, <1>6, <1>7, <1>8

\* What an update that reads the account it lands on leaves alone.
LEMMA Unnamed ==
  ASSUME NEW acc \in PoolAccount, NEW in \in UpdateInput, Update(acc, in).result = "tx"
  PROVE  LET new == FoldLeft(Execute, acc, Update(acc, in).ops) IN
         /\ in.max_allocation_all_phases = 0 =>
              new.max_allocation_all_phases = acc.max_allocation_all_phases
         /\ in.claim_at = Missing => new.claim_at = acc.claim_at
         /\ \/ in.token_ratio = UserRate(acc)
            \/ /\ in.token_ratio = 0
               /\ convertRateToDataContract(UserRate(acc)).numerator = acc.rateNumerator
            => new.rateNumerator = acc.rateNumerator
         /\ new.isActive = acc.isActive /\ new.admin = acc.admin
<1> DEFINE new == FoldLeft(Execute, acc, Update(acc, in).ops)
           c == Sent(acc, in)
           src == CampaignSource(c)
<1>1. /\ \A name \in CampaignNumbers : new[name] = AsWritten(src[name])
      /\ new.isActive = acc.isActive /\ new.admin = acc.admin
      /\ new.rateNumerator = IF UserRate(acc) = in.token_ratio THEN acc.rateNumerator
                             ELSE Contract(Used(acc, in))
  BY UpdateLands
<1>2. /\ src["max_allocation_all_phases"] = c.max_allocation_all_phases
      /\ src["claim_at"] = c.claim_at
  BY CampaignSources
<1>3. /\ in.max_allocation_all_phases = 0 =>
           c.max_allocation_all_phases = acc.max_allocation_all_phases
      /\ in.claim_at = Missing => c.claim_at = acc.claim_at
  BY SentIs
<1>4. /\ acc.max_allocation_all_phases \in Nat /\ acc.claim_at \in Nat
      /\ \A n \in Nat : AsWritten(n) = n
  BY WidthFacts DEF PoolAccount, AsWritten, NaN
<1>5. /\ in.token_ratio = 0 => Used(acc, in) = UserRate(acc)
      /\ convertRateToDataContract(UserRate(acc)).numerator = Contract(UserRate(acc))
  BY RateParts DEF Used
<1> HIDE DEF new, c, src
<1>6. /\ new.max_allocation_all_phases = AsWritten(src["max_allocation_all_phases"])
      /\ new.claim_at = AsWritten(src["claim_at"])
  BY <1>1 DEF CampaignNumbers
<1>7. /\ in.max_allocation_all_phases = 0 =>
           new.max_allocation_all_phases = acc.max_allocation_all_phases
      /\ in.claim_at = Missing => new.claim_at = acc.claim_at
  BY <1>2, <1>3, <1>4, <1>6
<1> QED BY <1>1, <1>5, <1>7 DEF new

\* An update that lands on the account it read changes what its request names only.
THEOREM OnlyNamedFieldsChange == OnChainSpec => UnnamedFieldsKept
<1> DEFINE Kept(q) ==
      Land(q) /\ chain = req[q].read =>
         /\ req[q].input.max_allocation_all_phases = 0 =>
              chain'.max_allocation_all_phases = chain.max_allocation_all_phases
         /\ req[q].input.claim_at = Missing => chain'.claim_at = chain.claim_at
         /\ \/ req[q].input.token_ratio = UserRate(chain)
            \/ /\ req[q].input.token_ratio = 0
               /\ convertRateToDataContract(UserRate(chain)).numerator = chain.rateNumerator
            => chain'.rateNumerator = chain.rateNumerator
         /\ chain'.isActive = chain.isActive /\ chain'.admin = chain.admin
<1>1. OnChainInv /\ [Build \/ AskDates \/ Race]_onChainVars => [\A q \in Updates : Kept(q)]_vars
  <2> SUFFICES ASSUME OnChainInv, [Build \/ AskDates \/ Race]_onChainVars, NEW q \in Updates,
                      Land(q), chain = req[q].read
               PROVE  Kept(q)
    BY Zenon
  <2> DEFINE in == req[q].input
             new == FoldLeft(Execute, chain, Update(chain, in).ops)
  <2>1. /\ chain \in PoolAccount /\ in \in UpdateInput /\ Update(chain, in).result = "tx"
        /\ chain' = new
    BY LandsInRace
  <2>2. /\ in.max_allocation_all_phases = 0 =>
             new.max_allocation_all_phases = chain.max_allocation_all_phases
        /\ in.claim_at = Missing => new.claim_at = chain.claim_at
        /\ \/ in.token_ratio = UserRate(chain)
           \/ /\ in.token_ratio = 0
              /\ convertRateToDataContract(UserRate(chain)).numerator = chain.rateNumerator
           => new.rateNumerator = chain.rateNumerator
        /\ new.isActive = chain.isActive /\ new.admin = chain.admin
    <3> HIDE DEF in
    <3> QED BY <2>1, Unnamed
  <2> HIDE DEF new
  <2> QED BY <2>1, <2>2
<1> QED BY <1>1, OnChainInvariance, PTL DEF OnChainSpec, UnnamedFieldsKept

\* A landed update asked for again finds nothing to change, or changes nothing if
\* its rate does not come back, whatever else landed since it was built, but for the rate.
THEOREM UpdatesHappenOnce == OnChainSpec => UpdateConverges
<1> DEFINE Settled(acc, in) ==
      LET again == Update(acc, in) IN
      \/ again = NoChange
      \/ /\ ~ComesBack(in.token_ratio)
         /\ IF acc.isActive THEN again = Failed
            ELSE again.result = "tx" /\ FoldLeft(Execute, acc, again.ops) = acc
    Once(q) ==
      /\ Land(q)
      /\ chain.rateNumerator = req[q].read.rateNumerator
      /\ Missing \notin {req[q].input.join_pool_start, req[q].input.join_pool_end}
      /\ req[q].input.token_ratio # 0
      => Settled(chain', req[q].input)
<1>1. OnChainInv /\ [Build \/ AskDates \/ Race]_onChainVars => [\A q \in Updates : Once(q)]_vars
  <2> HIDE DEF Settled
  <2> SUFFICES ASSUME OnChainInv, [Build \/ AskDates \/ Race]_onChainVars, NEW q \in Updates,
                      Land(q), chain.rateNumerator = req[q].read.rateNumerator,
                      Missing \notin {req[q].input.join_pool_start, req[q].input.join_pool_end},
                      req[q].input.token_ratio # 0
               PROVE  Settled(chain', req[q].input)
    BY Zenon
  <2> DEFINE in == req[q].input
             old == req[q].read
             new == FoldLeft(Execute, chain, Update(old, in).ops)
  <2>1. /\ chain \in PoolAccount /\ old \in PoolAccount /\ in \in UpdateInput
        /\ EarlyEndsAfter1970(in) /\ Update(old, in).result = "tx" /\ chain' = new
    BY LandsInRace
  <2>2. /\ in.join_pool_start # NaN /\ in.join_pool_end # NaN /\ in.token_ratio # 0
        /\ chain.rateNumerator = old.rateNumerator
    BY DEF Missing
  <2> HIDE DEF in, old
  <2>3. /\ new \in PoolAccount
        /\ \A name \in CampaignNumbers :
             new[name] = AsWritten(CampaignSource(Sent(old, in))[name])
        /\ new.earlyJoinIsActive = in.early /\ new.publicIsActive = TRUE
        /\ new.rateNumerator = IF UserRate(old) = in.token_ratio THEN chain.rateNumerator
                               ELSE Contract(Used(old, in))
    BY <2>1, UpdateLands
  <2>4. Used(old, in) = in.token_ratio
    BY <2>2 DEF Used
  <2> HIDE DEF new
  <2>5. Settled(new, in)
    BY <2>1, <2>2, <2>3, <2>4, LandedOnce DEF Settled
  <2> QED BY <2>1, <2>5 DEF in
<1>2. UpdateConverges <=> [][\A q \in Updates : Once(q)]_vars
  BY DEF UpdateConverges
<1> QED BY <1>1, <1>2, OnChainInvariance, PTL DEF OnChainSpec

----------------------------------------------------------------------------
(* The data of an initialisation.                                          *)

OtherNumbers == {"rateNumerator", "rateDenominator", "feesNumerator", "feesDenominator"}

LEMMA InitPoolIs ==
  LET L == InitPoolLayout IN
  /\ Len(L) = 16 /\ L = [i \in 1..16 |-> L[i]]
  /\ L[1] = <<"instruction", "u8">> /\ L[2] = <<"nonce", "u8">>
  /\ L[3] = <<"rateNumerator", "nu64">> /\ L[4] = <<"rateDenominator", "nu64">>
  /\ L[5] = <<"feesNumerator", "nu64">> /\ L[6] = <<"feesDenominator", "nu64">>
  /\ L[7] = <<"max_allocation_all_phases", "nu64">>
  /\ L[8] = <<"earlyJoinIsActive", "bool">> /\ L[9] = <<"earlyJoinMaxTotalAlloc", "nu64">>
  /\ L[10] = <<"earlyJoinStart", "nu64">> /\ L[11] = <<"earlyJoinEnd", "nu64">>
  /\ L[12] = <<"publicIsActive", "bool">> /\ L[13] = <<"publicIndividualAlloc", "nu64">>
  /\ L[14] = <<"publicStart", "nu64">> /\ L[15] = <<"publicEnd", "nu64">>
  /\ L[16] = <<"claim_at", "nu64">>
<1> DEFINE F == ({"instruction", "nonce"} \cup Switches \cup OtherNumbers \cup CampaignNumbers)
                  \X {"u8", "bool", "nu64"}
           first2 == <<<<"instruction", "u8">>, <<"nonce", "u8">>>>
           rates5 == Numbers(<<"rateNumerator", "rateDenominator", "feesNumerator",
                               "feesDenominator", "max_allocation_all_phases">>)
           early1 == <<<<"earlyJoinIsActive", "bool">>>>
           early3 == Numbers(<<"earlyJoinMaxTotalAlloc", "earlyJoinStart", "earlyJoinEnd">>)
           public1 == <<<<"publicIsActive", "bool">>>>
           public4 == Numbers(<<"publicIndividualAlloc", "publicStart", "publicEnd", "claim_at">>)
           seven == first2 \o rates5
           eight == seven \o early1
           eleven == eight \o early3
           twelve == eleven \o public1
           all == twelve \o public4
<1>1. /\ early3 \in Seq(F) /\ Len(early3) = 3
      /\ early3[1] = <<"earlyJoinMaxTotalAlloc", "nu64">>
      /\ early3[2] = <<"earlyJoinStart", "nu64">> /\ early3[3] = <<"earlyJoinEnd", "nu64">>
  BY DEF Numbers, CampaignNumbers
<1>2. /\ public4 \in Seq(F) /\ Len(public4) = 4
      /\ public4[1] = <<"publicIndividualAlloc", "nu64">> /\ public4[2] = <<"publicStart", "nu64">>
      /\ public4[3] = <<"publicEnd", "nu64">> /\ public4[4] = <<"claim_at", "nu64">>
  BY DEF Numbers, CampaignNumbers
<1>3. /\ rates5 \in Seq(F) /\ Len(rates5) = 5
      /\ rates5[1] = <<"rateNumerator", "nu64">> /\ rates5[2] = <<"rateDenominator", "nu64">>
      /\ rates5[3] = <<"feesNumerator", "nu64">> /\ rates5[4] = <<"feesDenominator", "nu64">>
      /\ rates5[5] = <<"max_allocation_all_phases", "nu64">>
  BY DEF Numbers, CampaignNumbers, OtherNumbers
<1>4. /\ first2 \in Seq(F) /\ Len(first2) = 2 /\ first2[1] = <<"instruction", "u8">>
      /\ first2[2] = <<"nonce", "u8">>
      /\ early1 \in Seq(F) /\ Len(early1) = 1 /\ early1[1] = <<"earlyJoinIsActive", "bool">>
      /\ public1 \in Seq(F) /\ Len(public1) = 1 /\ public1[1] = <<"publicIsActive", "bool">>
  BY DEF Switches
<1>5. InitPoolLayout = all
  BY DEF InitPoolLayout
<1> HIDE DEF F, first2, rates5, early1, early3, public1, public4
<1>6. /\ seven \in Seq(F) /\ Len(seven) = 7 /\ \A i \in 1..2 : seven[i] = first2[i]
      /\ \A i \in 1..5 : seven[2 + i] = rates5[i]
  <2>1. /\ seven \in Seq(F) /\ Len(seven) = Len(first2) + Len(rates5)
        /\ \A i \in 1..Len(first2) : seven[i] = first2[i]
        /\ \A i \in 1..Len(rates5) : seven[Len(first2) + i] = rates5[i]
    <3>1. first2 \in Seq(F) /\ rates5 \in Seq(F)
      BY <1>3, <1>4
    <3> QED BY <3>1, Joined
  <2> HIDE DEF seven
  <2> QED BY <1>3, <1>4, <2>1
<1> HIDE DEF seven
<1>7. /\ eight \in Seq(F) /\ Len(eight) = 8 /\ \A i \in 1..7 : eight[i] = seven[i]
      /\ \A i \in 1..1 : eight[7 + i] = early1[i]
  <2>1. /\ eight \in Seq(F) /\ Len(eight) = Len(seven) + Len(early1)
        /\ \A i \in 1..Len(seven) : eight[i] = seven[i]
        /\ \A i \in 1..Len(early1) : eight[Len(seven) + i] = early1[i]
    <3>1. seven \in Seq(F) /\ early1 \in Seq(F)
      BY <1>4, <1>6
    <3> QED BY <3>1, Joined
  <2> HIDE DEF eight
  <2> QED BY <1>4, <1>6, <2>1
<1> HIDE DEF eight
<1>8. /\ eleven \in Seq(F) /\ Len(eleven) = 11 /\ \A i \in 1..8 : eleven[i] = eight[i]
      /\ \A i \in 1..3 : eleven[8 + i] = early3[i]
  <2>1. /\ eleven \in Seq(F) /\ Len(eleven) = Len(eight) + Len(early3)
        /\ \A i \in 1..Len(eight) : eleven[i] = eight[i]
        /\ \A i \in 1..Len(early3) : eleven[Len(eight) + i] = early3[i]
    <3>1. eight \in Seq(F) /\ early3 \in Seq(F)
      BY <1>1, <1>7
    <3> QED BY <3>1, Joined
  <2> HIDE DEF eleven
  <2> QED BY <1>1, <1>7, <2>1
<1> HIDE DEF eleven
<1>9. /\ twelve \in Seq(F) /\ Len(twelve) = 12 /\ \A i \in 1..11 : twelve[i] = eleven[i]
      /\ \A i \in 1..1 : twelve[11 + i] = public1[i]
  <2>1. /\ twelve \in Seq(F) /\ Len(twelve) = Len(eleven) + Len(public1)
        /\ \A i \in 1..Len(eleven) : twelve[i] = eleven[i]
        /\ \A i \in 1..Len(public1) : twelve[Len(eleven) + i] = public1[i]
    <3>1. eleven \in Seq(F) /\ public1 \in Seq(F)
      BY <1>4, <1>8
    <3> QED BY <3>1, Joined
  <2> HIDE DEF twelve
  <2> QED BY <1>4, <1>8, <2>1
<1> HIDE DEF twelve
<1>10. /\ all \in Seq(F) /\ Len(all) = 16 /\ \A i \in 1..12 : all[i] = twelve[i]
       /\ \A i \in 1..4 : all[12 + i] = public4[i]
  <2>1. /\ all \in Seq(F) /\ Len(all) = Len(twelve) + Len(public4)
        /\ \A i \in 1..Len(twelve) : all[i] = twelve[i]
        /\ \A i \in 1..Len(public4) : all[Len(twelve) + i] = public4[i]
    <3>1. twelve \in Seq(F) /\ public4 \in Seq(F)
      BY <1>2, <1>9
    <3> QED BY <3>1, Joined
  <2> HIDE DEF all
  <2> QED BY <1>2, <1>9, <2>1
<1> HIDE DEF all
<1>11. /\ seven[1] = first2[1] /\ seven[2] = first2[2] /\ seven[3] = rates5[1]
       /\ seven[4] = rates5[2] /\ seven[5] = rates5[3] /\ seven[6] = rates5[4]
       /\ seven[7] = rates5[5]
  BY <1>6
<1>12. /\ \A i \in 1..7 : all[i] = seven[i]
       /\ all[8] = early1[1] /\ all[9] = early3[1] /\ all[10] = early3[2] /\ all[11] = early3[3]
       /\ all[12] = public1[1] /\ all[13] = public4[1] /\ all[14] = public4[2]
       /\ all[15] = public4[3] /\ all[16] = public4[4]
  BY <1>7, <1>8, <1>9, <1>10
<1>13. /\ all[1] = seven[1] /\ all[2] = seven[2] /\ all[3] = seven[3] /\ all[4] = seven[4]
       /\ all[5] = seven[5] /\ all[6] = seven[6] /\ all[7] = seven[7]
  BY <1>12
<1>14. all = [i \in 1..16 |-> all[i]]
  BY <1>10
<1> QED BY <1>1, <1>2, <1>3, <1>4, <1>5, <1>10, <1>11, <1>12, <1>13, <1>14

\* The order in which the program reads an initialisation.
LEMMA InitIsRead == ProgramInit = InitPoolLayout
<1> DEFINE F == ({"instruction", "nonce"} \cup Switches \cup OtherNumbers \cup CampaignNumbers)
                  \X {"u8", "bool", "nu64"}
           first == <<<<"instruction", "u8">>, <<"nonce", "u8">>,
                      <<"rateNumerator", "nu64">>, <<"rateDenominator", "nu64">>,
                      <<"feesNumerator", "nu64">>, <<"feesDenominator", "nu64">>>>
           rest == ProgramCampaign
           all == first \o rest
           L == InitPoolLayout
<1>1. /\ Len(rest) = 10
      /\ rest[1] = <<"max_allocation_all_phases", "nu64">>
      /\ rest[2] = <<"earlyJoinIsActive", "bool">> /\ rest[3] = <<"earlyJoinMaxTotalAlloc", "nu64">>
      /\ rest[4] = <<"earlyJoinStart", "nu64">> /\ rest[5] = <<"earlyJoinEnd", "nu64">>
      /\ rest[6] = <<"publicIsActive", "bool">> /\ rest[7] = <<"publicIndividualAlloc", "nu64">>
      /\ rest[8] = <<"publicStart", "nu64">> /\ rest[9] = <<"publicEnd", "nu64">>
      /\ rest[10] = <<"claim_at", "nu64">>
  BY ProgramCampaignIs
<1>2. rest \in Seq(F)
  <2> DEFINE G == (Switches \cup CampaignNumbers) \X {"bool", "nu64"}
  <2>1. rest \in Seq(G)
    BY ProgramCampaignIs
  <2>2. G \subseteq F
    OBVIOUS
  <2> HIDE DEF rest, F, G
  <2> QED BY <2>1, <2>2
<1>3. /\ first \in Seq(F) /\ Len(first) = 6
      /\ first[1] = <<"instruction", "u8">> /\ first[2] = <<"nonce", "u8">>
      /\ first[3] = <<"rateNumerator", "nu64">> /\ first[4] = <<"rateDenominator", "nu64">>
      /\ first[5] = <<"feesNumerator", "nu64">> /\ first[6] = <<"feesDenominator", "nu64">>
  BY DEF OtherNumbers
<1>4. ProgramInit = all
  BY DEF ProgramInit
<1>5. /\ Len(L) = 16 /\ L = [i \in 1..16 |-> L[i]]
      /\ L[1] = <<"instruction", "u8">> /\ L[2] = <<"nonce", "u8">>
      /\ L[3] = <<"rateNumerator", "nu64">> /\ L[4] = <<"rateDenominator", "nu64">>
      /\ L[5] = <<"feesNumerator", "nu64">> /\ L[6] = <<"feesDenominator", "nu64">>
      /\ L[7] = <<"max_allocation_all_phases", "nu64">>
      /\ L[8] = <<"earlyJoinIsActive", "bool">> /\ L[9] = <<"earlyJoinMaxTotalAlloc", "nu64">>
      /\ L[10] = <<"earlyJoinStart", "nu64">> /\ L[11] = <<"earlyJoinEnd", "nu64">>
      /\ L[12] = <<"publicIsActive", "bool">> /\ L[13] = <<"publicIndividualAlloc", "nu64">>
      /\ L[14] = <<"publicStart", "nu64">> /\ L[15] = <<"publicEnd", "nu64">>
      /\ L[16] = <<"claim_at", "nu64">>
  BY InitPoolIs
<1> HIDE DEF F, first, rest, L
<1>6. /\ all \in Seq(F) /\ Len(all) = 16 /\ \A i \in 1..6 : all[i] = first[i]
      /\ \A i \in 1..10 : all[6 + i] = rest[i]
  <2>1. /\ all \in Seq(F) /\ Len(all) = Len(first) + Len(rest)
        /\ \A i \in 1..Len(first) : all[i] = first[i]
        /\ \A i \in 1..Len(rest) : all[Len(first) + i] = rest[i]
    <3>1. first \in Seq(F) /\ rest \in Seq(F)
      BY <1>2, <1>3
    <3> QED BY <3>1, Joined
  <2> HIDE DEF all
  <2> QED BY <1>1, <1>3, <2>1
<1> HIDE DEF all
<1>7. all = [i \in 1..16 |-> all[i]]
  BY <1>6
<1>8. /\ all[1] = first[1] /\ all[2] = first[2] /\ all[3] = first[3] /\ all[4] = first[4]
      /\ all[5] = first[5] /\ all[6] = first[6]
      /\ all[7] = rest[1] /\ all[8] = rest[2] /\ all[9] = rest[3] /\ all[10] = rest[4]
      /\ all[11] = rest[5] /\ all[12] = rest[6] /\ all[13] = rest[7] /\ all[14] = rest[8]
      /\ all[15] = rest[9] /\ all[16] = rest[10]
  BY <1>6
<1>9. \A i \in 1..16 : i \in {1, 2, 3, 4, 5, 6, 7, 8, 9, 10, 11, 12, 13, 14, 15, 16}
  OBVIOUS
<1>10. \A i \in 1..16 : all[i] = L[i]
  <2>1. /\ all[1] = L[1] /\ all[2] = L[2] /\ all[3] = L[3] /\ all[4] = L[4] /\ all[5] = L[5]
        /\ all[6] = L[6] /\ all[7] = L[7] /\ all[8] = L[8] /\ all[9] = L[9]
        /\ all[10] = L[10] /\ all[11] = L[11] /\ all[12] = L[12] /\ all[13] = L[13]
        /\ all[14] = L[14] /\ all[15] = L[15] /\ all[16] = L[16]
    BY <1>1, <1>3, <1>5, <1>8
  <2> QED BY <1>9, <2>1
<1>11. all = L
  BY <1>5, <1>7, <1>10, SameLayout
<1> QED BY <1>4, <1>11 DEF L

LEMMA InitFields ==
  /\ Names(InitPoolLayout) =
       {"instruction", "nonce"} \cup Switches \cup OtherNumbers \cup CampaignNumbers
  /\ KindOf(InitPoolLayout, "instruction") = "u8" /\ KindOf(InitPoolLayout, "nonce") = "u8"
  /\ \A name \in Switches : KindOf(InitPoolLayout, name) = "bool"
  /\ \A name \in OtherNumbers \cup CampaignNumbers : KindOf(InitPoolLayout, name) = "nu64"
<1> DEFINE L == InitPoolLayout
<1>1. /\ Len(L) = 16
      /\ L[1] = <<"instruction", "u8">> /\ L[2] = <<"nonce", "u8">>
      /\ L[3] = <<"rateNumerator", "nu64">> /\ L[4] = <<"rateDenominator", "nu64">>
      /\ L[5] = <<"feesNumerator", "nu64">> /\ L[6] = <<"feesDenominator", "nu64">>
      /\ L[7] = <<"max_allocation_all_phases", "nu64">>
      /\ L[8] = <<"earlyJoinIsActive", "bool">> /\ L[9] = <<"earlyJoinMaxTotalAlloc", "nu64">>
      /\ L[10] = <<"earlyJoinStart", "nu64">> /\ L[11] = <<"earlyJoinEnd", "nu64">>
      /\ L[12] = <<"publicIsActive", "bool">> /\ L[13] = <<"publicIndividualAlloc", "nu64">>
      /\ L[14] = <<"publicStart", "nu64">> /\ L[15] = <<"publicEnd", "nu64">>
      /\ L[16] = <<"claim_at", "nu64">>
  BY InitPoolIs
<1> HIDE DEF L
<1>2. \A i \in 1..16 : i \in {1, 2, 3, 4, 5, 6, 7, 8, 9, 10, 11, 12, 13, 14, 15, 16}
  OBVIOUS
<1>3. \A i, j \in 1..Len(L) : L[i][1] = L[j][1] => i = j
  BY <1>1, <1>2
<1>4. \A k \in 1..Len(L) : KindOf(L, L[k][1]) = L[k][2]
  BY <1>3, KindIs
<1>5. /\ KindOf(L, L[1][1]) = L[1][2] /\ KindOf(L, L[2][1]) = L[2][2]
      /\ KindOf(L, L[3][1]) = L[3][2] /\ KindOf(L, L[4][1]) = L[4][2]
      /\ KindOf(L, L[5][1]) = L[5][2] /\ KindOf(L, L[6][1]) = L[6][2]
      /\ KindOf(L, L[7][1]) = L[7][2] /\ KindOf(L, L[8][1]) = L[8][2]
      /\ KindOf(L, L[9][1]) = L[9][2] /\ KindOf(L, L[10][1]) = L[10][2]
      /\ KindOf(L, L[11][1]) = L[11][2] /\ KindOf(L, L[12][1]) = L[12][2]
      /\ KindOf(L, L[13][1]) = L[13][2] /\ KindOf(L, L[14][1]) = L[14][2]
      /\ KindOf(L, L[15][1]) = L[15][2] /\ KindOf(L, L[16][1]) = L[16][2]
  BY <1>1, <1>4
<1>6. Names(L) = {L[1][1], L[2][1], L[3][1], L[4][1], L[5][1], L[6][1], L[7][1], L[8][1],
                  L[9][1], L[10][1], L[11][1], L[12][1], L[13][1], L[14][1], L[15][1], L[16][1]}
  BY <1>1, <1>2 DEF Names
<1>7. Names(L) = {"instruction", "nonce"} \cup Switches \cup OtherNumbers \cup CampaignNumbers
  BY <1>1, <1>6 DEF CampaignNumbers, OtherNumbers, Switches
<1>8. /\ KindOf(L, "instruction") = "u8" /\ KindOf(L, "nonce") = "u8"
      /\ \A name \in Switches : KindOf(L, name) = "bool"
      /\ \A name \in OtherNumbers : KindOf(L, name) = "nu64"
      /\ \A name \in CampaignNumbers : KindOf(L, name) = "nu64"
  BY <1>1, <1>5 DEF CampaignNumbers, OtherNumbers, Switches
<1> QED BY <1>7, <1>8 DEF L

(* Operations that share a code differ in the length of their data.        *)
LEMMA MaxOfThree ==
  \A t \in SUBSET {1, 2, 3} :
    t # {} => Max(t) = IF 3 \in t THEN 3 ELSE IF 2 \in t THEN 2 ELSE 1
<1> SUFFICES ASSUME NEW t \in SUBSET {1, 2, 3}, t # {}
             PROVE  Max(t) = IF 3 \in t THEN 3 ELSE IF 2 \in t THEN 2 ELSE 1
  OBVIOUS
<1> DEFINE m == IF 3 \in t THEN 3 ELSE IF 2 \in t THEN 2 ELSE 1
<1>1. m \in t /\ \A y \in t : m >= y /\ y \in {1, 2, 3}
  <2>1. \A y \in t : y \in {1, 2, 3}
    OBVIOUS
  <2>2. m \in t
    BY <2>1
  <2>3. \A y \in t : m >= y
    BY <2>1
  <2> QED BY <2>1, <2>2, <2>3
<1> HIDE DEF m
<1> DEFINE x == Max(t)
<1>2. x \in t /\ \A y \in t : x >= y
  BY <1>1 DEF Max
<1> HIDE DEF x
<1>3. x = m
  <2>1. m >= x /\ x >= m
    BY <1>1, <1>2
  <2>2. m \in {1, 2, 3} /\ x \in {1, 2, 3}
    BY <1>1, <1>2
  <2> QED BY <2>1, <2>2
<1> QED BY <1>3 DEF m, x

LEMMA SpanOf ==
  ASSUME NEW L, DOMAIN L \subseteq {1, 2, 3},
         \A i \in DOMAIN L : KindSpan[L[i][2]] \in Nat
  PROVE  LET Part(i) == IF i \in DOMAIN L THEN KindSpan[L[i][2]] ELSE 0 IN
         Span(L) = Part(1) + Part(2) + Part(3)
<1> DEFINE D == DOMAIN L
           size == [i \in D |-> KindSpan[L[i][2]]]
           Runs(g) == g = [t \in SUBSET D |->
                             IF t = {} THEN 0 ELSE g[t \ {Max(t)}] + KindSpan[L[Max(t)][2]]]
           g0 == CHOOSE g : Runs(g)
           Of(t, i) == IF i \in t THEN size[i] ELSE 0
           h == [t \in SUBSET D |-> Of(t, 1) + Of(t, 2) + Of(t, 3)]
<1>1. Span(L) = g0[D]
  BY DEF Span, FoldLeft, MapThenFoldSet
<1>2. /\ D \subseteq {1, 2, 3}
      /\ \A i \in D : size[i] = KindSpan[L[i][2]] /\ size[i] \in Nat
  OBVIOUS
<1> HIDE DEF size, D
<1>3. \A t \in SUBSET D : \A i \in {1, 2, 3} : Of(t, i) \in Nat
  BY <1>2
<1>4. \A t \in SUBSET D :
        h[t] = IF t = {} THEN 0 ELSE h[t \ {Max(t)}] + KindSpan[L[Max(t)][2]]
  <2> SUFFICES ASSUME NEW t \in SUBSET D, t # {}
               PROVE  h[t] = h[t \ {Max(t)}] + KindSpan[L[Max(t)][2]]
    <3>1. {} \in SUBSET D /\ h[{}] = Of({}, 1) + Of({}, 2) + Of({}, 3)
      OBVIOUS
    <3>2. h[{}] = 0
      BY <3>1
    <3> HIDE DEF h
    <3> QED BY <3>2
  <2> DEFINE m == Max(t)
             u == t \ {m}
  <2>1. m = IF 3 \in t THEN 3 ELSE IF 2 \in t THEN 2 ELSE 1
    BY <1>2, MaxOfThree
  <2>2. m \in t /\ m \in D /\ u \in SUBSET D
    BY <1>2, <2>1
  <2>3. h[t] = Of(t, 1) + Of(t, 2) + Of(t, 3) /\ h[u] = Of(u, 1) + Of(u, 2) + Of(u, 3)
    BY <2>2
  <2>4. size[m] = KindSpan[L[m][2]] /\ size[m] \in Nat
    BY <1>2, <2>2
  <2>5. \A i \in {1, 2, 3} : Of(t, i) = IF i = m THEN size[m] ELSE Of(u, i)
    BY <2>2
  <2>6. Of(u, m) = 0 /\ m \in {1, 2, 3}
    BY <1>2, <2>2
  <2>7. \A i \in {1, 2, 3} : Of(u, i) \in Nat
    BY <1>3, <2>2
  <2> HIDE DEF h, m, u, Of
  <2>8. h[t] = h[u] + size[m]
    BY <2>3, <2>4, <2>5, <2>6, <2>7
  <2> QED BY <2>4, <2>8 DEF m, u
<1>5. h = [t \in SUBSET D |-> h[t]]
  OBVIOUS
<1>6. h[D] = Of(D, 1) + Of(D, 2) + Of(D, 3)
  OBVIOUS
<1>7. Runs(h)
  <2> HIDE DEF h
  <2> QED BY <1>4, <1>5
<1>8. \A g : Runs(g) => g[D] = h[D]
  <2> SUFFICES ASSUME NEW g, Runs(g) PROVE g[D] = h[D]
    OBVIOUS
  <2>1. \A t \in SUBSET D :
          g[t] = IF t = {} THEN 0 ELSE g[t \ {Max(t)}] + KindSpan[L[Max(t)][2]]
    OBVIOUS
  <2> HIDE DEF Runs, h
  <2>2. \A t \in SUBSET D : t # {} => Max(t) \in t
    <3> SUFFICES ASSUME NEW t \in SUBSET D, t # {} PROVE Max(t) \in t
      OBVIOUS
    <3>1. t \in SUBSET {1, 2, 3} /\ Max(t) = IF 3 \in t THEN 3 ELSE IF 2 \in t THEN 2 ELSE 1
      BY <1>2, MaxOfThree
    <3> QED BY <3>1
  <2>3. g[{}] = h[{}]
    <3>1. {} \in SUBSET D
      OBVIOUS
    <3>2. g[{}] = 0
      BY <2>1, <3>1
    <3>3. h[{}] = 0
      BY <1>4, <3>1
    <3> QED BY <3>2, <3>3
  <2>4. \A t \in SUBSET D : t \subseteq {1} => g[t] = h[t]
    <3> SUFFICES ASSUME NEW t \in SUBSET D, t \subseteq {1}, t # {} PROVE g[t] = h[t]
      BY <2>3
    <3> DEFINE u == t \ {Max(t)}
    <3>1. u = {}
      BY <2>2
    <3>2. g[t] = g[u] + KindSpan[L[Max(t)][2]] /\ h[t] = h[u] + KindSpan[L[Max(t)][2]]
      BY <1>4, <2>1
    <3> HIDE DEF u
    <3> QED BY <2>3, <3>1, <3>2
  <2>5. \A t \in SUBSET D : t \subseteq {1, 2} => g[t] = h[t]
    <3> SUFFICES ASSUME NEW t \in SUBSET D, t \subseteq {1, 2}, t # {} PROVE g[t] = h[t]
      BY <2>3
    <3> DEFINE u == t \ {Max(t)}
    <3>1. t \in SUBSET {1, 2, 3} /\ Max(t) = IF 3 \in t THEN 3 ELSE IF 2 \in t THEN 2 ELSE 1
      BY <1>2, MaxOfThree
    <3>2. u \subseteq {1} /\ u \in SUBSET D
      BY <3>1
    <3>3. g[t] = g[u] + KindSpan[L[Max(t)][2]] /\ h[t] = h[u] + KindSpan[L[Max(t)][2]]
      BY <1>4, <2>1
    <3> HIDE DEF u
    <3> QED BY <2>4, <3>2, <3>3
  <2>6. \A t \in SUBSET D : g[t] = h[t]
    <3> SUFFICES ASSUME NEW t \in SUBSET D, t # {} PROVE g[t] = h[t]
      BY <2>3
    <3> DEFINE u == t \ {Max(t)}
    <3>1. t \in SUBSET {1, 2, 3} /\ Max(t) = IF 3 \in t THEN 3 ELSE IF 2 \in t THEN 2 ELSE 1
      BY <1>2, MaxOfThree
    <3>2. u \subseteq {1, 2} /\ u \in SUBSET D
      BY <3>1
    <3>3. g[t] = g[u] + KindSpan[L[Max(t)][2]] /\ h[t] = h[u] + KindSpan[L[Max(t)][2]]
      BY <1>4, <2>1
    <3> HIDE DEF u
    <3> QED BY <2>5, <3>2, <3>3
  <2> QED BY <2>6
<1>9. Runs(g0)
  <2> HIDE DEF Runs
  <2> QED BY <1>7
<1>10. g0[D] = h[D]
  <2> HIDE DEF Runs, g0, h
  <2> QED BY <1>8, <1>9
<1>11. \A i \in {1, 2, 3} : Of(D, i) = IF i \in D THEN KindSpan[L[i][2]] ELSE 0
  BY <1>2
<1> HIDE DEF g0, h, Of
<1> QED BY <1>1, <1>6, <1>10, <1>11 DEF D

LEMMA SpansOf102 ==
  Span(setRateInstruction.layout) = 17 /\ Span(setPoolPublicAccessTimeInstruction.layout) = 9
<1>1. KindSpan["u8"] = 1 /\ KindSpan["nu64"] = 8 /\ KindSpan["int64"] = 8
  BY DEF KindSpan
<1>2. Span(setRateInstruction.layout) = 17
  <2> DEFINE L == setRateInstruction.layout
  <2>1. /\ Len(L) = 3 /\ L[1] = <<"instruction", "u8">>
        /\ L[2] = <<"rateNumerator", "nu64">> /\ L[3] = <<"rateDenominator", "nu64">>
    BY SetRateIs
  <2>2. DOMAIN L = {1, 2, 3}
    <3>1. L \in Seq({"instruction", "rateNumerator", "rateDenominator"} \X {"u8", "nu64"})
      BY DEF setRateInstruction, Op, Numbers
    <3> HIDE DEF L
    <3> QED BY <2>1, <3>1
  <2> HIDE DEF L
  <2>3. KindSpan[L[1][2]] = 1 /\ KindSpan[L[2][2]] = 8 /\ KindSpan[L[3][2]] = 8
    BY <1>1, <2>1
  <2>4. \A i \in DOMAIN L : KindSpan[L[i][2]] \in Nat
    BY <2>2, <2>3
  <2>5. Span(L) = 1 + 8 + 8
    BY <2>2, <2>3, <2>4, SpanOf
  <2> QED BY <2>5 DEF L
<1>3. Span(setPoolPublicAccessTimeInstruction.layout) = 9
  <2> DEFINE first == <<<<"instruction", "u8">>>>
             second == <<<<"poolPublicAccessTime", "int64">>>>
             F == {"instruction", "poolPublicAccessTime"} \X {"u8", "int64"}
             L == first \o second
  <2>1. setPoolPublicAccessTimeInstruction.layout = L
    BY DEF setPoolPublicAccessTimeInstruction, Op
  <2>2. /\ first \in Seq(F) /\ Len(first) = 1 /\ first[1] = <<"instruction", "u8">>
        /\ second \in Seq(F) /\ Len(second) = 1 /\ second[1] = <<"poolPublicAccessTime", "int64">>
    OBVIOUS
  <2> HIDE DEF first, second, F
  <2>3. /\ L \in Seq(F) /\ Len(L) = Len(first) + Len(second)
        /\ \A i \in 1..Len(first) : L[i] = first[i]
        /\ \A i \in 1..Len(second) : L[Len(first) + i] = second[i]
    <3>1. first \in Seq(F) /\ second \in Seq(F)
      BY <2>2
    <3> QED BY <3>1, Joined
  <2> HIDE DEF L
  <2>8. Len(L) = 2 /\ L[1] = first[1] /\ L[2] = second[1]
    BY <2>2, <2>3
  <2>4. DOMAIN L = {1, 2}
    BY <2>3, <2>8
  <2>5. KindSpan[L[1][2]] = 1 /\ KindSpan[L[2][2]] = 8
    BY <1>1, <2>2, <2>8
  <2>6. \A i \in DOMAIN L : KindSpan[L[i][2]] \in Nat
    BY <2>4, <2>5
  <2>7. Span(L) = 1 + 8 + 0
    BY <2>4, <2>5, <2>6, SpanOf
  <2> QED BY <2>1, <2>7
<1> QED BY <1>2, <1>3

LEMMA OperationsToldApart == ToldApart
<1>1. /\ createInitInstruction.code = 0 /\ setCampaignInstruction.code = 103
      /\ setRateInstruction.code = 102 /\ setUserWhitelistInstruction.code = 101
      /\ setPoolPublicAccessTimeInstruction.code = 102 /\ setPoolActiveInstruction.code = 104
      /\ changePoolAdmin.code = 100
  BY DEF createInitInstruction, setCampaignInstruction, setRateInstruction,
         setUserWhitelistInstruction, setPoolPublicAccessTimeInstruction,
         setPoolActiveInstruction, changePoolAdmin, Op
<1>2. /\ OldInit.code = 0 /\ OldAddUserWhitelist.code = 101
      /\ OldSetPoolPublicAccessTime.code = 102 /\ OldSwap.code = 1 /\ OldJoin.code = 2
      /\ OldClaim.code = 3
  BY DEF OldInit, OldAddUserWhitelist, OldSetPoolPublicAccessTime, OldSwap, OldJoin, OldClaim, Op
<1>3. \A a, b \in Operations :
        a.code = b.code =>
          \/ a = b
          \/ /\ a \in {setRateInstruction, setPoolPublicAccessTimeInstruction}
             /\ b \in {setRateInstruction, setPoolPublicAccessTimeInstruction}
  BY <1>1 DEF Operations
<1>4. \A a, b \in OldOperations : a.code = b.code => a = b
  BY <1>2 DEF OldOperations
<1>5. \A a, b \in {setRateInstruction, setPoolPublicAccessTimeInstruction} :
        Span(a.layout) = Span(b.layout) => a = b
  BY SpansOf102
<1> QED BY <1>3, <1>4, <1>5 DEF ToldApart

----------------------------------------------------------------------------
(* The invariant of the bytes.                                             *)

GivenInSeconds(g, b) == GivenCampaign(g, b, LAMBDA t : Seconds(t, Second))

BytesInv ==
  /\ given \in [GivenFields -> Values] /\ early \in BOOLEAN
  /\ wire # NotBuilt =>
       /\ wire = Data(createInitInstruction, InitSource(InitInput(given, early), Second))
       /\ campaignWire = Data(setCampaignInstruction, CampaignSource(GivenInSeconds(given, early)))

LEMMA BytesInvInit == OnChainInit => BytesInv
<1> SUFFICES ASSUME OnChainInit PROVE BytesInv
  OBVIOUS
<1>1. given \in Given /\ early \in BOOLEAN /\ wire = NotBuilt
  BY DEF OnChainInit
<1>2. PICK apart \in GivenFields, x \in Values, y \in Values :
        given = [f \in GivenFields |-> IF f = apart THEN x ELSE y]
  BY <1>1 DEF Given
<1>3. given \in [GivenFields -> Values]
  BY <1>2
<1> QED BY <1>1, <1>3 DEF BytesInv

LEMMA BytesInvNext == BytesInv /\ [Build \/ AskDates \/ Race]_onChainVars => BytesInv'
<1> SUFFICES ASSUME BytesInv, [Build \/ AskDates \/ Race]_onChainVars PROVE BytesInv'
  OBVIOUS
<1>1. CASE UNCHANGED byteVars
  <2>1. given' = given /\ early' = early /\ wire' = wire /\ campaignWire' = campaignWire
    BY <1>1 DEF byteVars
  <2> QED BY <2>1 DEF BytesInv
<1>2. CASE Build
  <2>1. /\ given' = given /\ early' = early
        /\ wire' = Data(createInitInstruction, InitSource(InitInput(given, early), Second))
        /\ campaignWire' = Data(setCampaignInstruction, CampaignSource(GivenInSeconds(given, early)))
    BY <1>2 DEF Build, GivenInSeconds
  <2> QED BY <2>1 DEF BytesInv
<1>3. CASE AskDates \/ Race \/ UNCHANGED onChainVars
  BY <1>1, <1>3 DEF AskDates, Race, onChainVars
<1> QED BY <1>2, <1>3

\* The campaign that an initialisation is given, in seconds.
LEMMA InSecondsIs ==
  ASSUME NEW g, NEW b
  PROVE  InSeconds(InitInput(g, b).campaign, Second) = GivenInSeconds(g, b)
<1> DEFINE Sec(t) == Seconds(t, Second)
           Phase(p) == [f \in DOMAIN p |-> IF f \in {"start_at", "end_at"} THEN Sec(p[f]) ELSE p[f]]
           early0 == [is_active |-> b, max_total_alloc |-> g["earlyAlloc"],
                      start_at |-> g["earlyStart"], end_at |-> g["earlyEnd"]]
           public0 == [is_active |-> TRUE, max_individual_alloc |-> g["publicAlloc"],
                       start_at |-> g["publicStart"], end_at |-> g["publicEnd"]]
           in == [max_allocation_all_phases |-> g["all"], claim_at |-> g["claim"],
                  early_join_phase |-> early0, public_phase |-> public0]
<1>1. InitInput(g, b).campaign = in
  BY DEF InitInput, GivenCampaign
<1>2. /\ Phase(early0) = [is_active |-> b, max_total_alloc |-> g["earlyAlloc"],
                          start_at |-> Sec(g["earlyStart"]), end_at |-> Sec(g["earlyEnd"])]
      /\ Phase(public0) = [is_active |-> TRUE, max_individual_alloc |-> g["publicAlloc"],
                           start_at |-> Sec(g["publicStart"]), end_at |-> Sec(g["publicEnd"])]
  <2> HIDE DEF Sec
  <2> DEFINE e == Phase(early0)
             p == Phase(public0)
  <2>1. /\ DOMAIN early0 = {"is_active", "max_total_alloc", "start_at", "end_at"}
        /\ DOMAIN public0 = {"is_active", "max_individual_alloc", "start_at", "end_at"}
    OBVIOUS
  <2>2. /\ e = [is_active |-> e.is_active, max_total_alloc |-> e.max_total_alloc,
                start_at |-> e.start_at, end_at |-> e.end_at]
        /\ p = [is_active |-> p.is_active, max_individual_alloc |-> p.max_individual_alloc,
                start_at |-> p.start_at, end_at |-> p.end_at]
    <3> HIDE DEF early0, public0
    <3> QED BY <2>1
  <2>3. /\ e.is_active = b /\ e.max_total_alloc = g["earlyAlloc"]
        /\ e.start_at = Sec(g["earlyStart"]) /\ e.end_at = Sec(g["earlyEnd"])
        /\ p.is_active = TRUE /\ p.max_individual_alloc = g["publicAlloc"]
        /\ p.start_at = Sec(g["publicStart"]) /\ p.end_at = Sec(g["publicEnd"])
    OBVIOUS
  <2> HIDE DEF e, p
  <2> QED BY <2>2, <2>3 DEF e, p
<1>3. GivenInSeconds(g, b) = [max_allocation_all_phases |-> g["all"], claim_at |-> Sec(g["claim"]),
                              early_join_phase |-> Phase(early0), public_phase |-> Phase(public0)]
  <2> HIDE DEF Phase
  <2> QED BY <1>2 DEF GivenInSeconds, GivenCampaign
<1>4. InSeconds(in, Second) = [in EXCEPT !.claim_at = Sec(@), !.early_join_phase = Phase(@),
                                         !.public_phase = Phase(@)]
  BY DEF InSeconds
<1>5. InSeconds(in, Second) = [max_allocation_all_phases |-> g["all"], claim_at |-> Sec(g["claim"]),
                               early_join_phase |-> Phase(early0), public_phase |-> Phase(public0)]
  <2> HIDE DEF Phase, Sec, early0, public0
  <2> QED BY <1>4
<1> HIDE DEF Phase, in
<1> QED BY <1>1, <1>3, <1>5

\* What an initialisation writes and reads as.
LEMMA InitData ==
  ASSUME NEW g, NEW b \in BOOLEAN
  PROVE  LET c == GivenInSeconds(g, b)
             wire0 == Data(createInitInstruction, InitSource(InitInput(g, b), Second))
             read == Decode(InitPoolLayout, wire0)
         IN /\ read["instruction"] = 0 /\ read["nonce"] = AsWritten(g["nonce"])
            /\ read["rateNumerator"] = AsWritten(g["rn"])
            /\ read["rateDenominator"] = AsWritten(g["rd"])
            /\ read["feesNumerator"] = AsWritten(g["fn"])
            /\ read["feesDenominator"] = AsWritten(g["fd"])
            /\ \A name \in CampaignNumbers : read[name] = AsWritten(CampaignSource(c)[name])
            /\ \A name \in Switches : read[name] = CampaignSource(c)[name]
            /\ Fits(InitPoolLayout, wire0)
            /\ \A i \in 7..16 :
                 wire0[i] = [span |-> KindSpan[InitPoolLayout[i][2]],
                             value |-> Written(InitPoolLayout[i][2],
                                               CampaignSource(c)[InitPoolLayout[i][1]])]
<1> DEFINE c == GivenInSeconds(g, b)
           campaign == CampaignSource(c)
           in == InitInput(g, b)
           others == [nonce |-> in.nonce,
                      rateNumerator |-> in.rate.numerator, rateDenominator |-> in.rate.denominator,
                      feesNumerator |-> in.fees.numerator, feesDenominator |-> in.fees.denominator]
           src == InitSource(in, Second)
           sent == [name \in {"instruction"} \cup DOMAIN src |->
                      IF name = "instruction" THEN createInitInstruction.code ELSE src[name]]
           w == Data(createInitInstruction, src)
           read == Decode(InitPoolLayout, w)
           cell(name) == At(InitPoolLayout, w, name)
<1>1. /\ DOMAIN others = {"nonce"} \cup OtherNumbers
      /\ others["nonce"] = g["nonce"]
      /\ others["rateNumerator"] = g["rn"] /\ others["rateDenominator"] = g["rd"]
      /\ others["feesNumerator"] = g["fn"] /\ others["feesDenominator"] = g["fd"]
  <2>1. DOMAIN others = {"nonce"} \cup OtherNumbers
    BY DEF OtherNumbers
  <2>2. /\ in.nonce = g["nonce"] /\ in.rate.numerator = g["rn"] /\ in.rate.denominator = g["rd"]
        /\ in.fees.numerator = g["fn"] /\ in.fees.denominator = g["fd"]
    BY DEF InitInput
  <2> HIDE DEF in
  <2> QED BY <2>1, <2>2
<1>2. DOMAIN campaign = Switches \cup CampaignNumbers
  BY CampaignSources DEF Switches
<1>3. src = [name \in DOMAIN others \cup DOMAIN campaign |->
               IF name \in DOMAIN others THEN others[name] ELSE campaign[name]]
  BY InSecondsIs DEF InitSource
<1>4. campaign["earlyJoinIsActive"] \in BOOLEAN /\ campaign["publicIsActive"] \in BOOLEAN
  <2>1. c.early_join_phase.is_active = b /\ c.public_phase.is_active = TRUE
    BY DEF GivenInSeconds, GivenCampaign
  <2> HIDE DEF c
  <2>2. /\ campaign["earlyJoinIsActive"] = c.early_join_phase.is_active
        /\ campaign["publicIsActive"] = c.public_phase.is_active
    BY CampaignSources
  <2> HIDE DEF campaign
  <2> QED BY <2>1, <2>2
<1>5. w = Encode(InitPoolLayout, sent) /\ createInitInstruction.code = 0
  BY DEF Data, createInitInstruction
<1> HIDE DEF c, campaign, in, others, src
<1>6. /\ "instruction" \notin {"nonce"} \cup OtherNumbers \cup Switches \cup CampaignNumbers
      /\ ({"nonce"} \cup OtherNumbers) \cap (Switches \cup CampaignNumbers) = {}
  BY DEF OtherNumbers, Switches, CampaignNumbers
<1>7. /\ \A name \in {"nonce"} \cup OtherNumbers : name \in DOMAIN src /\ src[name] = others[name]
      /\ \A name \in Switches \cup CampaignNumbers : name \in DOMAIN src /\ src[name] = campaign[name]
  BY <1>1, <1>2, <1>3, <1>6
<1>8. /\ "instruction" \in DOMAIN sent /\ sent["instruction"] = 0
      /\ \A name \in DOMAIN src : name # "instruction" =>
           name \in DOMAIN sent /\ sent[name] = src[name]
  BY <1>5
<1> HIDE DEF sent
<1>9. \A name \in Names(InitPoolLayout) :
        name \in DOMAIN sent => cell(name) = Written(KindOf(InitPoolLayout, name), sent[name])
  BY <1>5, Found
<1>10. \A name \in Names(InitPoolLayout) :
         read[name] = IF KindOf(InitPoolLayout, name) = "bool" THEN cell(name) # 0 ELSE cell(name)
  BY <1>5, Found
<1>16. /\ Fits(InitPoolLayout, w)
       /\ \A i \in 7..16 :
            w[i] = [span |-> KindSpan[InitPoolLayout[i][2]],
                    value |-> Written(InitPoolLayout[i][2], campaign[InitPoolLayout[i][1]])]
  <2> DEFINE L == InitPoolLayout
             Own == Switches \cup CampaignNumbers
  <2>1. Len(L) = 16 /\ \A i \in 7..16 : L[i][1] \in Own
    <3>1. /\ L[7][1] \in Own /\ L[8][1] \in Own /\ L[9][1] \in Own /\ L[10][1] \in Own
          /\ L[11][1] \in Own /\ L[12][1] \in Own /\ L[13][1] \in Own /\ L[14][1] \in Own
          /\ L[15][1] \in Own /\ L[16][1] \in Own
      BY InitPoolIs DEF CampaignNumbers, Switches
    <3>2. \A i \in 7..16 : i \in {7, 8, 9, 10, 11, 12, 13, 14, 15, 16}
      OBVIOUS
    <3>3. Len(L) = 16
      BY InitPoolIs
    <3> HIDE DEF L, Own
    <3> QED BY <3>1, <3>2, <3>3
  <2>2. \A name \in Own : name \in DOMAIN sent /\ sent[name] = campaign[name]
    BY <1>6, <1>7, <1>8
  <2> HIDE DEF L, Own
  <2>3. /\ Fits(L, Encode(L, sent))
        /\ \A i \in 1..Len(L) :
             L[i][1] \in DOMAIN sent =>
               Encode(L, sent)[i] = [span |-> KindSpan[L[i][2]],
                                     value |-> Written(L[i][2], sent[L[i][1]])]
    <3>1. Len(L) \in Nat
      BY <2>1
    <3> HIDE DEF sent
    <3> QED BY <3>1, Cells
  <2>4. \A i \in 7..16 : Encode(L, sent)[i] = [span |-> KindSpan[L[i][2]],
                                              value |-> Written(L[i][2], campaign[L[i][1]])]
    BY <2>1, <2>2, <2>3
  <2> QED BY <1>5, <2>3, <2>4 DEF L
<1> HIDE DEF w, read, cell
<1>11. read["instruction"] = 0
  <2>1. /\ "instruction" \in Names(InitPoolLayout)
        /\ KindOf(InitPoolLayout, "instruction") = "u8"
    BY InitFields
  <2>2. cell("instruction") = Written("u8", 0)
    BY <1>8, <1>9, <2>1
  <2> QED BY <1>10, <2>1, <2>2 DEF Written
<1>12. \A name \in {"nonce"} \cup OtherNumbers \cup CampaignNumbers :
         read[name] = AsWritten(src[name])
  <2> SUFFICES ASSUME NEW name \in {"nonce"} \cup OtherNumbers \cup CampaignNumbers
               PROVE  read[name] = AsWritten(src[name])
    OBVIOUS
  <2>1. /\ name \in Names(InitPoolLayout) /\ KindOf(InitPoolLayout, name) # "bool"
    BY InitFields
  <2>2. name \in DOMAIN sent /\ sent[name] = src[name]
    BY <1>6, <1>7, <1>8
  <2> QED BY <1>9, <1>10, <2>1, <2>2 DEF Written, AsWritten
<1>13. \A name \in Switches : read[name] = src[name]
  <2> SUFFICES ASSUME NEW name \in Switches PROVE read[name] = src[name]
    OBVIOUS
  <2>1. name \in Names(InitPoolLayout) /\ KindOf(InitPoolLayout, name) = "bool"
    BY InitFields
  <2>2. name \in DOMAIN sent /\ sent[name] = src[name]
    BY <1>6, <1>7, <1>8
  <2>3. src[name] \in BOOLEAN
    BY <1>4, <1>7 DEF Switches
  <2>4. cell(name) = Byte(src[name]) /\ read[name] = (cell(name) # 0)
    BY <1>9, <1>10, <2>1, <2>2 DEF Written
  <2>5. CASE src[name] = TRUE
    <3>1. (cell(name) # 0) = TRUE
      BY <2>4, <2>5 DEF Byte
    <3> QED BY <2>4, <2>5, <3>1, Zenon
  <2>6. CASE src[name] = FALSE
    <3>1. (cell(name) # 0) = FALSE
      BY <2>4, <2>6 DEF Byte
    <3> QED BY <2>4, <2>6, <3>1, Zenon
  <2> QED BY <2>3, <2>5, <2>6
<1>14. /\ read["nonce"] = AsWritten(g["nonce"])
       /\ read["rateNumerator"] = AsWritten(g["rn"])
       /\ read["rateDenominator"] = AsWritten(g["rd"])
       /\ read["feesNumerator"] = AsWritten(g["fn"])
       /\ read["feesDenominator"] = AsWritten(g["fd"])
  BY <1>1, <1>7, <1>12 DEF OtherNumbers
<1>15. /\ \A name \in CampaignNumbers : read[name] = AsWritten(campaign[name])
       /\ \A name \in Switches : read[name] = campaign[name]
  BY <1>7, <1>12, <1>13
<1> QED BY <1>11, <1>14, <1>15, <1>16 DEF read, w, src, campaign, c, in

\* A time in seconds, as it is read.
LEMMA TimeRead ==
  ASSUME NEW t \in Nat \cup {NaN}
  PROVE  LET s == AsWritten(Seconds(t, Second))
         IN IF t = NaN THEN s = 0 ELSE s * Second <= t /\ t < (s + 1) * Second
<1>1. Second \in Nat \ {0}
  BY UnitsAssumption
<1>2. CASE t = NaN
  BY <1>2 DEF Seconds, AsWritten
<1>3. CASE t # NaN
  <2> DEFINE s == t \div Second
  <2>1. t \in Nat
    BY <1>3
  <2>2. s \in Nat /\ Second * s <= t /\ t < Second * s + Second
    BY <1>1, <2>1, Divided
  <2>3. Seconds(t, Second) = s
    BY <1>3 DEF Seconds
  <2> HIDE DEF s
  <2>4. AsWritten(s) = s
    BY <2>2 DEF AsWritten, NaN
  <2>5. s * Second = Second * s /\ (s + 1) * Second = Second * s + Second
    BY <1>1, <2>2
  <2> QED BY <1>3, <2>2, <2>3, <2>4, <2>5
<1> QED BY <1>2, <1>3

LEMMA ReadAsGiven == BytesInv => FieldsInPlace /\ InitAgreesWithSetCampaign
<1> SUFFICES ASSUME BytesInv, wire # NotBuilt PROVE FieldsInPlace /\ InitAgreesWithSetCampaign
  BY DEF FieldsInPlace, InitAgreesWithSetCampaign
<1> DEFINE c == GivenInSeconds(given, early)
           src == CampaignSource(c)
           read == Decode(InitPoolLayout, wire)
           Sec(t) == Seconds(t, Second)
<1>1. /\ early \in BOOLEAN
      /\ wire = Data(createInitInstruction, InitSource(InitInput(given, early), Second))
      /\ campaignWire = Data(setCampaignInstruction, src)
  BY DEF BytesInv
<1>2. \A f \in GivenFields : given[f] \in Nat \cup {NaN}
  BY GivenAssumption DEF BytesInv
<1>3. /\ c.max_allocation_all_phases = given["all"] /\ c.claim_at = Sec(given["claim"])
      /\ c.early_join_phase.is_active = early /\ c.public_phase.is_active = TRUE
      /\ c.early_join_phase.max_total_alloc = given["earlyAlloc"]
      /\ c.early_join_phase.start_at = Sec(given["earlyStart"])
      /\ c.early_join_phase.end_at = Sec(given["earlyEnd"])
      /\ c.public_phase.max_individual_alloc = given["publicAlloc"]
      /\ c.public_phase.start_at = Sec(given["publicStart"])
      /\ c.public_phase.end_at = Sec(given["publicEnd"])
  BY DEF GivenInSeconds, GivenCampaign
<1>4. /\ read["instruction"] = 0 /\ read["nonce"] = AsWritten(given["nonce"])
      /\ read["rateNumerator"] = AsWritten(given["rn"])
      /\ read["rateDenominator"] = AsWritten(given["rd"])
      /\ read["feesNumerator"] = AsWritten(given["fn"])
      /\ read["feesDenominator"] = AsWritten(given["fd"])
      /\ \A name \in CampaignNumbers : read[name] = AsWritten(src[name])
      /\ \A name \in Switches : read[name] = src[name]
      /\ Fits(InitPoolLayout, wire)
      /\ \A i \in 7..16 :
           wire[i] = [span |-> KindSpan[InitPoolLayout[i][2]],
                      value |-> Written(InitPoolLayout[i][2], src[InitPoolLayout[i][1]])]
  BY <1>1, InitData
<1> HIDE DEF c
<1>5. /\ src["earlyJoinIsActive"] = c.early_join_phase.is_active
      /\ src["publicIsActive"] = c.public_phase.is_active
      /\ src["max_allocation_all_phases"] = c.max_allocation_all_phases
      /\ src["earlyJoinMaxTotalAlloc"] = c.early_join_phase.max_total_alloc
      /\ src["earlyJoinStart"] = c.early_join_phase.start_at
      /\ src["earlyJoinEnd"] = c.early_join_phase.end_at
      /\ src["publicIndividualAlloc"] = c.public_phase.max_individual_alloc
      /\ src["publicStart"] = c.public_phase.start_at
      /\ src["publicEnd"] = c.public_phase.end_at
      /\ src["claim_at"] = c.claim_at
  BY CampaignSources
<1>6. /\ Fits(SetCampaignLayout, campaignWire)
      /\ \A i \in 2..11 :
           campaignWire[i] = [span |-> KindSpan[SetCampaignLayout[i][2]],
                              value |-> Written(SetCampaignLayout[i][2],
                                                src[SetCampaignLayout[i][1]])]
  BY <1>1, CampaignData
<1> HIDE DEF src, read
<1>7. Len(InitPoolLayout) = 16 /\ Len(SetCampaignLayout) = 11
  BY InitPoolIs, SetCampaignIs
<1>8. \A i \in 2..11 : InitPoolLayout[5 + i] = SetCampaignLayout[i]
  <2> DEFINE I == InitPoolLayout
             C == SetCampaignLayout
  <2>1. /\ I[7] = C[2] /\ I[8] = C[3] /\ I[9] = C[4] /\ I[10] = C[5]
        /\ I[11] = C[6] /\ I[12] = C[7] /\ I[13] = C[8] /\ I[14] = C[9]
        /\ I[15] = C[10] /\ I[16] = C[11]
    BY InitPoolIs, SetCampaignIs
  <2> HIDE DEF I, C
  <2>2. \A i \in 2..11 : I[5 + i] = C[i]
    BY <2>1
  <2> QED BY <2>2 DEF I, C
<1>9. \A i \in 2..11 : 5 + i \in 7..16 /\ wire[5 + i] = campaignWire[i]
  <2> SUFFICES ASSUME NEW i \in 2..11
               PROVE  5 + i \in 7..16 /\ wire[5 + i] = campaignWire[i]
    OBVIOUS
  <2>1. 5 + i \in 7..16
    OBVIOUS
  <2> QED BY <1>4, <1>6, <1>8, <2>1
<1>10. InitAgreesWithSetCampaign
  <2>1. Len(campaignWire) = 11
    BY <1>6, <1>7 DEF Fits
  <2>2. Len(InitPoolLayout) - Len(SetCampaignLayout) = 5
    BY <1>7
  <2> QED BY <1>6, <1>9, <2>1, <2>2, InitIsRead, CampaignIsRead DEF InitAgreesWithSetCampaign
<1>11. \A f \in GivenFields :
         /\ AsWritten(given[f]) = IF given[f] = NaN THEN 0 ELSE given[f]
         /\ LET s == AsWritten(Sec(given[f]))
            IN IF given[f] = NaN THEN s = 0
               ELSE s * Second <= given[f] /\ given[f] < (s + 1) * Second
  BY <1>2, TimeRead DEF AsWritten
<1>12. /\ read["instruction"] = 0 /\ read["earlyJoinIsActive"] = early
       /\ read["max_allocation_all_phases"] = AsWritten(given["all"])
       /\ read["earlyJoinMaxTotalAlloc"] = AsWritten(given["earlyAlloc"])
       /\ read["publicIndividualAlloc"] = AsWritten(given["publicAlloc"])
       /\ read["earlyJoinStart"] = AsWritten(Sec(given["earlyStart"]))
       /\ read["earlyJoinEnd"] = AsWritten(Sec(given["earlyEnd"]))
       /\ read["publicStart"] = AsWritten(Sec(given["publicStart"]))
       /\ read["publicEnd"] = AsWritten(Sec(given["publicEnd"]))
       /\ read["claim_at"] = AsWritten(Sec(given["claim"]))
  BY <1>3, <1>4, <1>5 DEF CampaignNumbers, Switches
<1>13. FieldsInPlace
  <2> DEFINE Same(f, name) == read[name] = IF given[f] = NaN THEN 0 ELSE given[f]
             SameTime(f, name) ==
               IF given[f] = NaN THEN read[name] = 0
               ELSE read[name] * Second <= given[f] /\ given[f] < (read[name] + 1) * Second
  <2>1. \A f \in GivenFields : \A name :
          /\ read[name] = AsWritten(given[f]) => Same(f, name)
          /\ read[name] = AsWritten(Sec(given[f])) => SameTime(f, name)
    BY <1>11
  <2> HIDE DEF Same, SameTime, Sec
  <2>2. /\ Same("nonce", "nonce")
        /\ Same("rn", "rateNumerator") /\ Same("rd", "rateDenominator")
        /\ Same("fn", "feesNumerator") /\ Same("fd", "feesDenominator")
        /\ Same("all", "max_allocation_all_phases")
        /\ Same("earlyAlloc", "earlyJoinMaxTotalAlloc")
        /\ Same("publicAlloc", "publicIndividualAlloc")
    BY <1>4, <1>12, <2>1 DEF GivenFields
  <2>3. /\ SameTime("earlyStart", "earlyJoinStart") /\ SameTime("earlyEnd", "earlyJoinEnd")
        /\ SameTime("publicStart", "publicStart") /\ SameTime("publicEnd", "publicEnd")
        /\ SameTime("claim", "claim_at")
    BY <1>12, <2>1 DEF GivenFields
  <2>4. read.instruction = 0 /\ read.earlyJoinIsActive = early
    BY <1>12
  <2> QED BY <1>4, <2>2, <2>3, <2>4, InitIsRead DEF FieldsInPlace, Same, SameTime, read
<1> QED BY <1>10, <1>13

\* The bytes that the builders write are those the program reads, each field at the
\* place of its own layout, and no two operations are confused.
THEOREM BytesSayWhatWasGiven == OnChainSpec => []ProgramReadsWhatWasGiven
<1>1. BytesInv => ProgramReadsWhatWasGiven
  BY OperationsToldApart, ReadAsGiven DEF ProgramReadsWhatWasGiven
<1>2. OnChainSpec => []BytesInv
  BY BytesInvInit, BytesInvNext, PTL DEF OnChainSpec
<1> QED BY <1>1, <1>2, PTL
=============================================================================
