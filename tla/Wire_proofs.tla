----------------------------- MODULE Wire_proofs -----------------------------
(***************************************************************************)
(* The codec, for every value of the constants: what a client lays out the *)
(* parsers of the broker find, no body makes a parser read beyond its end, *)
(* and a reader of whole packets keeps in step.                            *)
(*                                                                         *)
(* The digits of a length, the loop over the entries and the reader are    *)
(* recursive functions over 0..n.  What they compute is proved with the    *)
(* lemmas Recursion and Induction, which speak of functions and sets.      *)
(***************************************************************************)
EXTENDS Wire, FiniteSetTheorems, SequenceTheorems, WellFoundedInduction, TLAPS

-----------------------------------------------------------------------------
(***************************************************************************)
(* Induction and recursion, and the numerals of the remaining length.      *)
(***************************************************************************)
\* Any set of numbers that is not empty has a least member.
LEMMA Least ==
    ASSUME NEW T, T \subseteq Nat, T # {}
    PROVE  \E n \in T : \A m \in T : n <= m
<1>1. PICK k \in T : TRUE
  OBVIOUS
<1> DEFINE Init(n) == 1..n
           S == {Init(n) : n \in {m \in T : m <= k}}
<1>2. IsFiniteSet(1..k)
  BY <1>1, FS_Interval
<1>3. IsWellFoundedOn(StrictSubsetOrdering(1..k), FiniteSubsetsOf(1..k))
  BY FS_StrictSubsetOrderingWellFounded
<1>4. FiniteSubsetsOf(1..k) = SUBSET (1..k)
  BY <1>2, FS_FiniteSubsetsOfFinite
<1>5. S \subseteq SUBSET (1..k) /\ S # {}
  BY <1>1
<1>6. \E x \in S : \A y \in S : ~ (<<y, x>> \in StrictSubsetOrdering(1..k))
  <2> DEFINE R == StrictSubsetOrdering(1..k)
             F == FiniteSubsetsOf(1..k)
  <2>1. IsWellFoundedOn(R, F) /\ S \subseteq F /\ S # {}
    BY <1>3, <1>4, <1>5
  <2>2. \E x \in S : \A y \in S : ~ (<<y, x>> \in R)
    <3> HIDE DEF S, R, F
    <3> QED BY <2>1, WFMin
  <2> QED BY <2>2
<1>7. PICK n \in {m \in T : m <= k} : \A y \in S : ~ (<<y, Init(n)>> \in StrictSubsetOrdering(1..k))
  BY <1>6
<1>8. ASSUME NEW m \in T, m < n PROVE FALSE
  <2>1. Init(m) \in S
    BY <1>8, <1>7
  <2>2. Init(m) \subseteq Init(n) /\ Init(m) \subseteq 1..k /\ Init(n) \subseteq 1..k
    BY <1>8, <1>7
  <2>3. n \in Init(n) /\ n \notin Init(m)
    BY <1>8
  <2> QED BY <1>7, <2>1, <2>2, <2>3 DEF StrictSubsetOrdering
<1> QED BY <1>7, <1>8

\* Induction up to D, for a set instead of a formula: a set that has 0 and with every
\* number the next one has all of 0..D.
LEMMA Induction ==
    ASSUME NEW D \in Nat, NEW T, 0 \in T,
           \A n \in 1..D : n - 1 \in T => n \in T
    PROVE  \A n \in 0..D : n \in T
<1> DEFINE Left == {n \in 0..D : n \notin T}
<1> SUFFICES ASSUME Left # {} PROVE FALSE
  OBVIOUS
<1>1. PICK n \in Left : \A m \in Left : n <= m
  <2>1. Left \subseteq Nat
    OBVIOUS
  <2> HIDE DEF Left
  <2> QED BY <2>1, Least
<1>2. n \in 1..D /\ n - 1 \in 0..D /\ ~ (n <= n - 1)
  OBVIOUS
<1> QED BY <1>1, <1>2

\* A function over 0..D that is given by its first value and a step stays where its
\* first value is and the step leads.
LEMMA RecursionType ==
    ASSUME NEW D \in Nat, NEW V, NEW g, g[0] \in V,
           \A k \in 1..D : g[k-1] \in V => g[k] \in V
    PROVE  \A k \in 0..D : g[k] \in V
<1> DEFINE T == {k \in 0..D : g[k] \in V}
<1>1. 0 \in T
  OBVIOUS
<1>2. \A n \in 1..D : n - 1 \in T => n \in T
  OBVIOUS
<1>3. \A n \in 0..D : n \in T
  <2> HIDE DEF T
  <2> QED BY <1>1, <1>2, Induction
<1> QED BY <1>3

\* f begins with z and goes on by the function G.
Computes(f, D, V, z, G) ==
    f \in [0..D -> V] /\ f[0] = z /\ \A k \in 1..D : f[k] = G[k][f[k-1]]

\* There is such a function: what the recursive functions of the model rest on.
LEMMA Recursion ==
    ASSUME NEW D \in Nat, NEW V, NEW z \in V, NEW G \in [1..D -> [V -> V]]
    PROVE  \E f : Computes(f, D, V, z, G)
<1> DEFINE T == {n \in 0..D : \E f : Computes(f, n, V, z, G)}
<1>1. 0 \in T
  <2> DEFINE g == [k \in 0..0 |-> z]
  <2>1. Computes(g, 0, V, z, G)
    BY DEF Computes
  <2> HIDE DEF g
  <2> QED BY <2>1
<1>2. \A n \in 1..D : n - 1 \in T => n \in T
  <2> SUFFICES ASSUME NEW n \in 1..D, n - 1 \in T PROVE n \in T
    OBVIOUS
  <2>1. PICK f : Computes(f, n - 1, V, z, G)
    OBVIOUS
  <2> DEFINE g == [k \in 0..n |-> IF k < n THEN f[k] ELSE G[n][f[n-1]]]
  <2>2. f \in [0..n-1 -> V] /\ f[0] = z /\ \A k \in 1..n-1 : f[k] = G[k][f[k-1]]
    BY <2>1 DEF Computes
  <2>3. g \in [0..n -> V] /\ g[0] = z
    BY <2>2
  <2>4. ASSUME NEW k \in 1..n PROVE g[k] = G[k][g[k-1]]
    <3>1. k - 1 \in 0..n-1 /\ g[k-1] = f[k-1]
      OBVIOUS
    <3> QED BY <2>2, <3>1
  <2>5. Computes(g, n, V, z, G)
    BY <2>3, <2>4 DEF Computes
  <2> HIDE DEF g
  <2> QED BY <2>5
<1>3. \A n \in 0..D : n \in T
  <2> HIDE DEF T
  <2> QED BY <1>1, <1>2, Induction
<1> QED BY <1>3

\* Power is what its definition says, and positive.
LEMMA PowerRec ==
    /\ Power \in [0..Digits -> Nat]
    /\ Power[0] = 1
    /\ \A k \in 1..Digits : Power[k] = Base * Power[k-1]
<1> USE PacketsAssumption
<1> DEFINE V == Nat
           G == [k \in 1..Digits |-> [v \in V |-> Base * v]]
<1>1. \A k \in 1..Digits : \A v \in V : G[k][v] = Base * v
  OBVIOUS
<1>2. Digits \in Nat /\ 1 \in V /\ G \in [1..Digits -> [V -> V]]
  OBVIOUS
<1> HIDE DEF G
<1>3. PICK f : Computes(f, Digits, V, 1, G)
  <2> HIDE DEF V
  <2> QED BY <1>2, Recursion
<1>4. f = [k \in 0..Digits |-> IF k = 0 THEN 1 ELSE Base * f[k-1]]
  <2>1. \A k \in 1..Digits : k - 1 \in 0..Digits
    OBVIOUS
  <2>2. f \in [0..Digits -> Nat] /\ f[0] = 1 /\ \A k \in 1..Digits : f[k] = G[k][f[k-1]]
    BY <1>3 DEF Computes
  <2>3. \A k \in 1..Digits : f[k] = Base * f[k-1]
    BY <1>1, <2>1, <2>2
  <2> QED BY <2>2, <2>3
<1>5. Power = [k \in 0..Digits |-> IF k = 0 THEN 1 ELSE Base * Power[k-1]]
  BY <1>4 DEF Power
<1>6. Power[0] = 1 /\ \A k \in 1..Digits : Power[k] = Base * Power[k-1]
  BY <1>5
<1>7. \A k \in 0..Digits : Power[k] \in V
  <2>1. Power[0] \in V /\ \A k \in 1..Digits : Power[k-1] \in V => Power[k] \in V
    BY <1>6
  <2> HIDE DEF V
  <2> QED BY <1>2, <2>1, RecursionType
<1> QED BY <1>5, <1>6, <1>7

\* Division with a remainder.
LEMMA DivMod ==
    ASSUME NEW n \in Nat, NEW b \in Nat \ {0}
    PROVE  /\ n \div b \in Nat /\ (n % b) \in 0..b-1
           /\ n = b * (n \div b) + (n % b)
OBVIOUS

\* A quotient and a remainder are the only ones.
LEMMA DivModUnique ==
    ASSUME NEW b \in Nat \ {0}, NEW q \in Nat, NEW r \in 0..b-1
    PROVE  (b * q + r) \div b = q /\ (b * q + r) % b = r
OBVIOUS

\* A product of positive numbers is positive.
LEMMA TimesPositive == ASSUME NEW a \in Nat \ {0}, NEW b \in Nat \ {0}
    PROVE a * b \in Nat \ {0}
OBVIOUS

\* A number by its lowest digits and the rest.
LEMMA DigitSplit ==
    ASSUME NEW n \in Nat, NEW b \in Nat \ {0}, NEW P \in Nat \ {0}
    PROVE  /\ n \div (b * P) = (n \div P) \div b
           /\ n % (b * P) = (n % P) + ((n \div P) % b) * P
<1> DEFINE q == n \div P
           r == n % P
           h == q \div b
           e == q % b
<1>1. q \in Nat /\ r \in 0..P-1 /\ n = P * q + r
  BY DivMod
<1> HIDE DEF q, r
<1>2. h \in Nat /\ e \in 0..b-1 /\ q = b * h + e
  BY <1>1, DivMod
<1> HIDE DEF h, e
<1>3. P * q = (b * P) * h + e * P
  <2>1. P * q = P * (b * h) + P * e
    BY <1>1, <1>2
  <2>2. P * (b * h) = (b * P) * h
    BY <1>2
  <2>3. P * e = e * P
    BY <1>2
  <2>4. P * (b * h) \in Nat /\ P * e \in Nat
    BY <1>2
  <2> QED BY <2>1, <2>2, <2>3, <2>4
<1>4. e * P + r \in 0..(b * P) - 1
  <2>1. e * P \in Nat /\ e * P <= (b - 1) * P
    BY <1>2
  <2>2. (b - 1) * P = b * P - P /\ b * P \in Nat
    OBVIOUS
  <2> QED BY <1>1, <2>1, <2>2
<1>5. b * P \in Nat \ {0}
  BY TimesPositive
<1>6. n = (b * P) * h + (e * P + r)
  <2>1. (b * P) * h \in Nat /\ e * P \in Nat
    BY <1>2
  <2> QED BY <1>1, <1>3, <2>1
<1>7. n \div (b * P) = h /\ n % (b * P) = e * P + r
  <2> DEFINE B == b * P
             R == e * P + r
  <2>1. B \in Nat \ {0} /\ R \in 0..B-1 /\ n = B * h + R
    BY <1>4, <1>5, <1>6
  <2> HIDE DEF B, R
  <2>2. n \div B = h /\ n % B = R
    BY <2>1, <1>2, DivModUnique
  <2> QED BY <2>2 DEF B, R
<1>8. e * P + r = r + e * P
  BY <1>1, <1>2
<1> QED BY <1>7, <1>8 DEF q, r, h, e

\* The powers of Base, and Limit, as numbers.
LEMMA PowerFacts ==
    /\ \A k \in 0..Digits : Power[k] \in Nat \ {0}
    /\ \A k \in 1..Digits : k - 1 \in 0..Digits /\ Power[k] = Base * Power[k-1] /\ Power[k-1] <= Power[k]
    /\ Power[0] = 1 /\ Limit \in Nat /\ Digits \in 1..Digits
<1> DEFINE V == Nat \ {0}
<1>1. Digits \in Nat /\ Base \in V
  BY PacketsAssumption
<1>2. \A k \in 1..Digits : k - 1 \in 0..Digits
  BY <1>1
<1>3. \A k \in 1..Digits : Power[k-1] \in V => Power[k] \in V
  <2> SUFFICES ASSUME NEW k \in 1..Digits, Power[k-1] \in V PROVE Power[k] \in V
    OBVIOUS
  <2>1. Base * Power[k-1] \in V
    BY <1>1, TimesPositive
  <2> QED BY <2>1, PowerRec
<1>4. \A k \in 0..Digits : Power[k] \in V
  <2>1. Power[0] \in V
    BY PowerRec
  <2> HIDE DEF V
  <2> QED BY <1>1, <1>3, <2>1, RecursionType
<1>5. ASSUME NEW k \in 1..Digits PROVE Power[k] = Base * Power[k-1] /\ Power[k-1] <= Power[k]
  <2> DEFINE P == Power[k-1]
  <2>1. Power[k] = Base * P /\ P \in V
    BY <1>2, <1>4, PowerRec
  <2> HIDE DEF P
  <2>2. P <= Base * P
    BY <2>1, <1>1
  <2> QED BY <2>1, <2>2 DEF P
<1>6. Limit \in Nat /\ Digits \in 1..Digits
  BY <1>1, <1>4, PacketsAssumption DEF Limit
<1> QED BY <1>2, <1>4, <1>5, <1>6, PowerRec

\* Greater powers stay above what a power is above.
LEMMA PowerGrows ==
    ASSUME NEW k \in 0..Digits, NEW n \in Nat, n < Power[k]
    PROVE  \A j \in k..Digits : n < Power[j]
<1> DEFINE T == {j \in 0..Digits : j >= k => n < Power[j]}
<1>1. Digits \in Nat /\ 0 \in T
  BY PowerFacts, PacketsAssumption
<1>2. \A j \in 1..Digits : j - 1 \in T => j \in T
  <2> SUFFICES ASSUME NEW j \in 1..Digits, j - 1 \in T, j >= k PROVE n < Power[j]
    OBVIOUS
  <2>1. CASE j = k
    BY <2>1
  <2>2. CASE j # k
    BY <2>2, PowerFacts
  <2> QED BY <2>1, <2>2
<1>3. \A j \in 0..Digits : j \in T
  <2> HIDE DEF T
  <2> QED BY <1>1, <1>2, Induction
<1> QED BY <1>3

\* The smaller of two numbers.
LEMMA MinTwo ==
    ASSUME NEW a \in Nat, NEW b \in Nat
    PROVE  Min({a, b}) = IF a <= b THEN a ELSE b
<1> DEFINE m == IF a <= b THEN a ELSE b
<1>1. m \in {a, b} /\ \A y \in {a, b} : m <= y
  OBVIOUS
<1>2. ASSUME NEW x \in {a, b}, \A y \in {a, b} : x <= y PROVE x = m
  BY <1>2
<1> HIDE DEF m
<1>3. (CHOOSE x \in {a, b} : \A y \in {a, b} : x <= y) = m
  BY <1>1, <1>2
<1> QED BY <1>3 DEF Min, m

\* How many digits of s DecodeRemainingLength looks at.
Depth(s) == Min({Digits, Len(s)})

\* It is a number, and s has as many.
LEMMA DepthIs ==
    ASSUME NEW s \in Seq(Nat)
    PROVE  /\ Depth(s) \in Nat /\ Depth(s) \in 0..Digits /\ Depth(s) <= Len(s)
           /\ Depth(s) = IF Digits <= Len(s) THEN Digits ELSE Len(s)
<1>1. Digits \in Nat /\ Len(s) \in Nat
  BY PacketsAssumption
<1>2. Depth(s) = IF Digits <= Len(s) THEN Digits ELSE Len(s)
  BY <1>1, MinTwo DEF Depth
<1> QED BY <1>1, <1>2

\* Worth is what its definition says.
LEMMA WorthRec ==
    ASSUME NEW s \in Seq(Nat)
    PROVE  /\ Worth(s) \in [0..Depth(s) -> Nat]
           /\ Worth(s)[0] = 0
           /\ \A k \in 1..Depth(s) :
                 /\ k - 1 \in 0..Depth(s) /\ s[k] \in Nat
                 /\ Worth(s)[k] = Worth(s)[k-1] + (s[k] % Base) * Power[k-1]
<1> DEFINE V == Nat
           D == Depth(s)
           step == [k \in 1..D |-> (s[k] % Base) * Power[k-1]]
<1>1. D \in Nat /\ D \in 0..Digits /\ D <= Len(s)
  BY DepthIs
<1> HIDE DEF D
<1>2. \A k \in 1..D : k - 1 \in 0..D /\ s[k] \in Nat /\ (s[k] % Base) * Power[k-1] \in Nat
  <2> SUFFICES ASSUME NEW k \in 1..D
               PROVE  k - 1 \in 0..D /\ s[k] \in Nat /\ (s[k] % Base) * Power[k-1] \in Nat
    OBVIOUS
  <2>1. k - 1 \in 0..Digits /\ k \in 1..Len(s) /\ s[k] \in Nat
    BY <1>1, PacketsAssumption
  <2>2. (s[k] % Base) \in Nat /\ Power[k-1] \in Nat
    BY <2>1, PowerFacts, PacketsAssumption
  <2> QED BY <2>1, <2>2, <1>1
<1>3. step \in [1..D -> Nat]
  BY <1>2
<1>4. \A k \in 1..D : step[k] = (s[k] % Base) * Power[k-1]
  OBVIOUS
<1> HIDE DEF step
<1> DEFINE G == [k \in 1..D |-> [v \in V |-> v + step[k]]]
<1>5. \A k \in 1..D : \A v \in V : G[k][v] = v + step[k]
  OBVIOUS
<1>6. 0 \in V /\ G \in [1..D -> [V -> V]]
  BY <1>3
<1> HIDE DEF G
<1>7. PICK f : Computes(f, D, V, 0, G)
  <2> HIDE DEF V
  <2> QED BY <1>1, <1>6, Recursion
<1>8. f = [k \in 0..D |-> IF k = 0 THEN 0 ELSE f[k-1] + (s[k] % Base) * Power[k-1]]
  <2>1. f \in [0..D -> Nat] /\ f[0] = 0 /\ \A k \in 1..D : f[k] = G[k][f[k-1]]
    BY <1>7 DEF Computes
  <2>2. \A k \in 1..D : f[k] = f[k-1] + step[k]
    BY <1>2, <1>5, <2>1
  <2>3. \A k \in 1..D : f[k] = f[k-1] + (s[k] % Base) * Power[k-1]
    BY <2>2, <1>4
  <2>4. f = [k \in 0..D |-> f[k]]
    BY <2>1
  <2>5. \A k \in 0..D : f[k] = IF k = 0 THEN 0 ELSE f[k-1] + (s[k] % Base) * Power[k-1]
    BY <2>1, <2>3, <1>1
  <2> QED BY <2>4, <2>5, Zenon
<1>9. Worth(s) = [k \in 0..D |-> IF k = 0 THEN 0 ELSE Worth(s)[k-1] + (s[k] % Base) * Power[k-1]]
  BY <1>8 DEF Worth, D, Depth
<1>10. DOMAIN Worth(s) = 0..D /\ Worth(s)[0] = 0
       /\ \A k \in 1..D : Worth(s)[k] = Worth(s)[k-1] + (s[k] % Base) * Power[k-1]
  <2> DEFINE w == Worth(s)
             g == [k \in 0..D |-> IF k = 0 THEN 0 ELSE w[k-1] + (s[k] % Base) * Power[k-1]]
  <2>1. DOMAIN g = 0..D /\ g[0] = 0 /\ \A k \in 1..D : g[k] = w[k-1] + (s[k] % Base) * Power[k-1]
    BY <1>1
  <2>2. w = g
    BY <1>9
  <2> HIDE DEF w, g
  <2>3. DOMAIN w = 0..D /\ w[0] = 0 /\ \A k \in 1..D : w[k] = w[k-1] + (s[k] % Base) * Power[k-1]
    BY <2>1, <2>2, Zenon
  <2> QED BY <2>3 DEF w
<1>11. \A k \in 0..D : Worth(s)[k] \in V
  <2>1. Worth(s)[0] \in V /\ \A k \in 1..D : Worth(s)[k-1] \in V => Worth(s)[k] \in V
    BY <1>2, <1>10
  <2> HIDE DEF V
  <2> QED BY <1>1, <2>1, RecursionType
<1>12. Worth(s) = [k \in 0..D |-> Worth(s)[k]]
  BY <1>9, <1>10, Zenon
<1> QED BY <1>2, <1>10, <1>11, <1>12 DEF D

\* What a sequence is worth up to k depends on its first k elements.
LEMMA WorthSame ==
    ASSUME NEW s \in Seq(Nat), NEW t \in Seq(Nat), NEW k \in 0..Depth(s), k <= Depth(t),
           \A i \in 1..k : s[i] = t[i]
    PROVE  Worth(s)[k] = Worth(t)[k]
<1> DEFINE T == {i \in 0..k : Worth(s)[i] = Worth(t)[i]}
<1>1. Depth(s) \in Nat /\ Depth(t) \in Nat /\ k \in Nat
  BY DepthIs
<1>2. 0 \in T
  BY <1>1, WorthRec
<1>3. \A i \in 1..k : i - 1 \in T => i \in T
  <2> SUFFICES ASSUME NEW i \in 1..k, i - 1 \in T PROVE i \in T
    OBVIOUS
  <2>1. i \in 1..Depth(s) /\ i \in 1..Depth(t)
    BY <1>1
  <2>2. Worth(s)[i] = Worth(s)[i-1] + (s[i] % Base) * Power[i-1]
    BY <2>1, WorthRec
  <2>3. Worth(t)[i] = Worth(t)[i-1] + (t[i] % Base) * Power[i-1]
    BY <2>1, WorthRec
  <2>4. s[i] = t[i] /\ Worth(s)[i-1] = Worth(t)[i-1]
    OBVIOUS
  <2> QED BY <2>2, <2>3, <2>4
<1>4. \A i \in 0..k : i \in T
  <2> HIDE DEF T
  <2> QED BY <1>1, <1>2, <1>3, Induction
<1> QED BY <1>4, <1>1

\* What makes a numeral the shortest of its number.
Shortest(d) ==
    /\ \A i \in 1..Len(d) : d[i] >= Base <=> i < Len(d)
    /\ Len(d) > 1 => d[Len(d)] > 0

\* The sequences a numeral is chosen from.
Numerals == UNION {[1..k -> 0..Byte - 1] : k \in 1..Digits}

\* They are sequences of bytes.
LEMMA NumeralsAre ==
    ASSUME NEW d \in Numerals
    PROVE  d \in Seq(Nat) /\ Len(d) \in 1..Digits /\ \A i \in 1..Len(d) : d[i] \in 0..Byte - 1
<1>1. PICK k \in 1..Digits : d \in [1..k -> 0..Byte - 1]
  BY DEF Numerals
<1>2. d \in Seq(0..Byte - 1) /\ Len(d) = k
  BY <1>1, PacketsAssumption
<1>3. Byte - 1 \in Nat
  BY PacketsAssumption
<1> QED BY <1>1, <1>2, <1>3

\* Every length within the limit has a shortest numeral.
LEMMA NumeralExists ==
    ASSUME NEW n \in 0..Limit
    PROVE  \E d \in Numerals : Shortest(d) /\ Worth(d)[Len(d)] = n
<1>1. /\ Limit \in Nat /\ Digits \in Nat /\ Base \in Nat \ {0} /\ Base > 2 /\ Byte = 2 * Base
      /\ Digits \in 1..Digits /\ n \in Nat
  BY PowerFacts, PacketsAssumption
<1> DEFINE Enough == {k \in 1..Digits : n < Power[k]}
<1>2. PICK k \in Enough : \A j \in Enough : k <= j
  <2>1. Power[Digits] \in Nat
    BY <1>1, PowerFacts
  <2>2. n < Power[Digits]
    BY <1>1, <2>1 DEF Limit
  <2>3. Enough \subseteq Nat /\ Enough # {}
    BY <1>1, <2>2
  <2> HIDE DEF Enough
  <2> QED BY <2>3, Least
<1>3. k \in 1..Digits /\ n < Power[k] /\ (k > 1 => n >= Power[k-1])
  <2>1. CASE k > 1
    <3>1. k - 1 \in 1..Digits /\ k - 1 \notin Enough /\ Power[k-1] \in Nat
      BY <1>1, <1>2, <2>1, PowerFacts
    <3> QED BY <3>1, <1>1
  <2> QED BY <2>1
<1> HIDE DEF Enough
<1> DEFINE Low(i)   == (n \div Power[i-1]) % Base
           Digit(i) == Low(i) + (IF i < k THEN Base ELSE 0)
           d == [i \in 1..k |-> Digit(i)]
<1>4. ASSUME NEW i \in 1..k
      PROVE  /\ i - 1 \in 0..Digits /\ Power[i-1] \in Nat \ {0} /\ Power[i] = Base * Power[i-1]
             /\ n \div Power[i-1] \in Nat /\ Low(i) \in 0..Base-1
             /\ Digit(i) \in 0..Byte-1 /\ (Digit(i) >= Base <=> i < k) /\ Digit(i) % Base = Low(i)
  <2>1. i \in 1..Digits /\ i - 1 \in 0..Digits /\ Power[i-1] \in Nat \ {0} /\ Power[i] = Base * Power[i-1]
    BY <1>1, <1>3, PowerFacts
  <2>2. n \div Power[i-1] \in Nat
    BY <2>1, <1>1, DivMod
  <2>3. Low(i) \in 0..Base-1
    BY <2>2, <1>1
  <2> HIDE DEF Low
  <2>4. Digit(i) \in 0..Byte-1 /\ (Digit(i) >= Base <=> i < k)
    BY <2>3, <1>1
  <2>5. (Base * 1 + Low(i)) % Base = Low(i) /\ (Base * 0 + Low(i)) % Base = Low(i)
    <3> DEFINE r == Low(i)
    <3>1. r \in 0..Base-1
      BY <2>3
    <3> HIDE DEF r
    <3>2. (Base * 1 + r) % Base = r
      BY <3>1, <1>1, DivModUnique
    <3>3. (Base * 0 + r) % Base = r
      BY <3>1, <1>1, DivModUnique
    <3> QED BY <3>2, <3>3 DEF r
  <2>6. Digit(i) % Base = Low(i)
    BY <2>3, <2>5, <1>1
  <2> QED BY <2>1, <2>2, <2>3, <2>4, <2>6
<1>5. d \in Numerals /\ d \in Seq(Nat) /\ Len(d) = k
  <2> HIDE DEF Digit
  <2>1. d \in [1..k -> 0..Byte-1]
    BY <1>4
  <2> HIDE DEF d
  <2>2. d \in Numerals
    BY <2>1, <1>3 DEF Numerals
  <2>3. Len(d) = k
    BY <2>1, <1>3, <1>1
  <2> QED BY <2>2, <2>3, NumeralsAre
<1>6. \A i \in 1..k : d[i] = Digit(i) /\ d[i] % Base = Low(i)
  <2> HIDE DEF Digit, Low
  <2> QED BY <1>4
<1> HIDE DEF d
<1>7. Shortest(d)
  <2>1. \A i \in 1..Len(d) : d[i] >= Base <=> i < Len(d)
    BY <1>4, <1>5, <1>6
  <2>2. ASSUME k > 1 PROVE d[k] > 0
    <3> DEFINE P == Power[k-1]
    <3>1. P \in Nat \ {0} /\ n < Base * P /\ n >= P /\ d[k] = (n \div P) % Base
      BY <1>1, <1>3, <1>4, <1>6, <2>2
    <3> HIDE DEF P
    <3>2. n \div P \in 1..Base-1
      <4>1. n \div P \in Nat /\ (n % P) \in 0..P-1 /\ n = P * (n \div P) + (n % P)
        BY <3>1, <1>1, DivMod
      <4> DEFINE q == n \div P
      <4>2. q # 0
        BY <4>1, <3>1
      <4>3. ASSUME q >= Base PROVE FALSE
        <5>1. P * q >= P * Base
          BY <4>1, <4>3, <3>1, <1>1
        <5>2. P * Base = Base * P /\ P * q \in Nat /\ Base * P \in Nat
          BY <4>1, <3>1, <1>1
        <5> QED BY <5>1, <5>2, <4>1, <3>1, <1>1
      <4> QED BY <4>1, <4>2, <4>3, <1>1
    <3> QED BY <3>1, <3>2, <1>1
  <2> QED BY <2>1, <2>2, <1>5 DEF Shortest
<1>8. Depth(d) = k
  BY <1>5, <1>3, <1>1, DepthIs
<1>9. Worth(d)[k] = n
  <2> DEFINE T == {j \in 0..k : Worth(d)[j] = n % Power[j]}
  <2>1. 0 \in T /\ k \in Nat
    BY <1>1, <1>3, <1>5, WorthRec, PowerFacts
  <2>2. \A j \in 1..k : j - 1 \in T => j \in T
    <3> SUFFICES ASSUME NEW j \in 1..k, j - 1 \in T PROVE Worth(d)[j] = n % Power[j]
      OBVIOUS
    <3>1. Worth(d)[j] = Worth(d)[j-1] + (d[j] % Base) * Power[j-1]
      BY <1>5, <1>8, WorthRec
    <3>2. Worth(d)[j-1] = n % Power[j-1] /\ d[j] % Base = (n \div Power[j-1]) % Base
      BY <1>6
    <3>3. n % (Base * Power[j-1]) = (n % Power[j-1]) + ((n \div Power[j-1]) % Base) * Power[j-1]
      BY <1>4, <1>1, DigitSplit
    <3> QED BY <3>1, <3>2, <3>3, <1>4
  <2>3. \A j \in 0..k : j \in T
    <3> HIDE DEF T
    <3> QED BY <2>1, <2>2, Induction
  <2>4. Worth(d)[k] = n % Power[k]
    BY <2>1, <2>3
  <2>5. Power[k] \in Nat \ {0}
    BY <1>1, <1>3, PowerFacts
  <2> QED BY <2>4, <2>5, <1>1, <1>3
<1> QED BY <1>5, <1>7, <1>9

\* A number up to the limit has a numeral with these marks and this worth.
LEMMA NumeralIs ==
    ASSUME NEW n \in 0..Limit
    PROVE  /\ Numeral[n] \in Seq(Nat) /\ Len(Numeral[n]) \in 1..Digits
           /\ \A i \in 1..Len(Numeral[n]) : Numeral[n][i] \in 0..Byte-1
           /\ Shortest(Numeral[n])
           /\ Depth(Numeral[n]) = Len(Numeral[n])
           /\ Worth(Numeral[n])[Len(Numeral[n])] = n
<1> DEFINE d == Numeral[n]
<1>1. d = CHOOSE e \in Numerals : Shortest(e) /\ Worth(e)[Len(e)] = n
  BY DEF Numeral, Numerals, Shortest
<1>2. d \in Numerals /\ Shortest(d) /\ Worth(d)[Len(d)] = n
  <2> HIDE DEF d
  <2> QED BY <1>1, NumeralExists
<1> HIDE DEF d
<1>3. d \in Seq(Nat) /\ Len(d) \in 1..Digits /\ \A i \in 1..Len(d) : d[i] \in 0..Byte-1
  BY <1>2, NumeralsAre
<1>4. Depth(d) = Len(d)
  BY <1>3, DepthIs, PacketsAssumption
<1> QED BY <1>2, <1>3, <1>4 DEF d

\* The digits of a shortest numeral, by division.
LEMMA NumeralDigits ==
    ASSUME NEW n \in 1..Limit, NEW k, k = Len(Numeral[n])
    PROVE  \A i \in 1..k : /\ Numeral[n][i] % Base = (n \div Power[i-1]) % Base
                           /\ n \div Power[i-1] > 0
                           /\ n \div Power[i] > 0 <=> i < k
<1> DEFINE d == Numeral[n]
           w == Worth(d)
           e(i) == d[i] % Base
<1>1. /\ d \in Seq(Nat) /\ k \in 1..Digits /\ k = Len(d) /\ Shortest(d) /\ Depth(d) = k /\ w[k] = n
      /\ \A i \in 1..k : d[i] \in 0..Byte-1
  BY NumeralIs, PowerFacts
<1>2. /\ Digits \in Nat /\ Base \in Nat \ {0} /\ Base > 2 /\ Byte = 2 * Base /\ k \in Nat
      /\ n \in Nat /\ n > 0 /\ (k > 1 \/ k = 1)
  <2>1. Digits \in Nat /\ Limit \in Nat
    BY PacketsAssumption, PowerFacts
  <2>2. k \in Nat /\ (k > 1 \/ k = 1)
    <3>1. k \in 1..Digits
      BY <1>1
    <3>2. k \in Nat /\ k >= 1
      BY ONLY <2>1, <3>1
    <3> QED BY ONLY <3>2
  <2> QED BY <2>1, <2>2, PacketsAssumption
<1> HIDE DEF d
<1>3. w \in [0..k -> Nat] /\ w[0] = 0 /\ \A i \in 1..k : w[i] = w[i-1] + e(i) * Power[i-1]
  BY <1>1, WorthRec
<1> HIDE DEF w
<1>4. \A i \in 1..k : /\ i \in 1..Digits /\ i - 1 \in 0..k /\ e(i) \in 0..Base-1
                      /\ Power[i-1] \in Nat \ {0} /\ Power[i] = Base * Power[i-1]
  <2> SUFFICES ASSUME NEW i \in 1..k
               PROVE  /\ i \in 1..Digits /\ i - 1 \in 0..k /\ e(i) \in 0..Base-1
                      /\ Power[i-1] \in Nat \ {0} /\ Power[i] = Base * Power[i-1]
    OBVIOUS
  <2>1. i \in 1..Digits /\ i - 1 \in 0..k /\ d[i] \in Nat
    BY <1>1, <1>2
  <2>2. e(i) \in 0..Base-1
    BY <2>1, <1>2
  <2> QED BY <2>1, <2>2, PowerFacts
<1> HIDE DEF e
\* What the digits up to i are worth is below the weight of the next.
<1>5. \A i \in 0..k : w[i] < Power[i]
  <2> DEFINE T == {i \in 0..k : w[i] < Power[i]}
  <2>1. 0 \in T
    BY <1>3, <1>2, PowerFacts
  <2>2. \A i \in 1..k : i - 1 \in T => i \in T
    <3> SUFFICES ASSUME NEW i \in 1..k, w[i-1] < Power[i-1] PROVE w[i] < Power[i]
      OBVIOUS
    <3> DEFINE P == Power[i-1]
               a == w[i-1]
               x == e(i)
    <3>1. P \in Nat \ {0} /\ a \in Nat /\ x \in 0..Base-1 /\ a < P /\ w[i] = a + x * P /\ Power[i] = Base * P
      BY <1>3, <1>4
    <3> HIDE DEF P, a, x
    <3>2. x * P \in Nat /\ x * P <= (Base - 1) * P
      BY <3>1, <1>2
    <3>3. (Base - 1) * P = Base * P - P /\ Base * P \in Nat
      BY <3>1, <1>2
    <3> QED BY <3>1, <3>2, <3>3
  <2>3. \A i \in 0..k : i \in T
    <3> HIDE DEF T
    <3> QED BY <1>2, <2>1, <2>2, Induction
  <2> QED BY <2>3
\* The rest, in units of the next weight.
<1> DEFINE Split(j, h) == h \in Nat /\ n = w[j] + Power[j] * h /\ (h > 0 <=> j < k)
<1>6. \A j \in 0..k : \E h : Split(j, h)
  <2> DEFINE T == {m \in 0..k : \E h : Split(k - m, h)}
  <2>1. 0 \in T
    <3>1. Split(k, 0)
      <4>1. Power[k] \in Nat /\ w[k] = n /\ Power[k] * 0 = 0
        BY <1>1, PowerFacts
      <4> QED BY <4>1, <1>2
    <3>2. k - 0 = k /\ 0 \in 0..k
      BY <1>2
    <3> HIDE DEF Split
    <3> QED BY <3>1, <3>2
  <2>2. \A m \in 1..k : m - 1 \in T => m \in T
    <3> SUFFICES ASSUME NEW m \in 1..k, m - 1 \in T PROVE \E h : Split(k - m, h)
      OBVIOUS
    <3> DEFINE j == k - m
               P == Power[j]
               a == w[j]
               x == e(j + 1)
    <3>1. j \in 0..k-1 /\ j + 1 \in 1..k /\ (j + 1) - 1 = j /\ k - (m - 1) = j + 1
      BY <1>2
    <3>2. PICK h : Split(j + 1, h)
      BY <3>1
    <3>3. /\ P \in Nat \ {0} /\ a \in Nat /\ x \in 0..Base-1 /\ w[j+1] = a + x * P
          /\ Power[j+1] = Base * P
      BY <1>3, <1>4, <3>1
    <3>4. h \in Nat /\ n = (a + x * P) + (Base * P) * h /\ (h > 0 <=> j + 1 < k)
      BY <3>2, <3>3
    <3>5. x > 0 \/ h > 0
      <4>1. CASE j + 1 < k
        BY <3>4, <4>1
      <4>2. CASE j + 1 = k
        <5>1. CASE k > 1
          <6>1. d[k] > 0 /\ d[k] < Base
            BY <1>1, <1>2, <5>1 DEF Shortest
          <6>2. e(k) = d[k]
            <7>1. d[k] \in 0..Base-1 /\ 0 \in Nat
              BY <6>1, <1>1, <1>2
            <7>2. (Base * 0 + d[k]) % Base = d[k]
              BY <7>1, <1>2, DivModUnique
            <7> QED BY <7>1, <7>2, <1>2 DEF e
          <6> QED BY <6>1, <6>2, <4>2
        <5>2. CASE k = 1
          <6>1. j = 0 /\ a = 0 /\ h = 0 /\ P = 1
            BY <4>2, <5>2, <3>4, <1>2, <1>3, PowerFacts, <3>1
          <6>2. n = x
            <7> HIDE DEF x, a, P
            <7> QED BY <3>4, <6>1, <3>3, <1>2
          <6> QED BY <6>2, <1>2
        <5> QED BY <5>1, <5>2, <1>2, Zenon
      <4> QED BY <3>1, <4>1, <4>2, <1>2
    <3> HIDE DEF P, a, x
    <3>6. x * P + (Base * P) * h = P * (x + Base * h)
      <4>1. (Base * P) * h = P * (Base * h) /\ x * P = P * x /\ Base * h \in Nat
        BY <3>3, <3>4, <1>2
      <4>2. P * (x + Base * h) = P * x + P * (Base * h)
        BY <3>3, <4>1
      <4> QED BY <4>1, <4>2
    <3>7. x + Base * h \in Nat /\ x + Base * h > 0
      <4>1. Base * h \in Nat /\ (h > 0 => Base * h > 0)
        BY <3>4, <1>2
      <4> QED BY <4>1, <3>3, <3>5, <3>4
    <3>8. n = a + P * (x + Base * h)
      <4>1. x * P \in Nat /\ (Base * P) * h \in Nat
        BY <3>3, <3>4, <1>2
      <4> QED BY <3>3, <3>4, <3>6, <4>1
    <3>9. Split(j, x + Base * h)
      BY <3>1, <3>7, <3>8, <1>2 DEF P, a
    <3> HIDE DEF Split
    <3> QED BY <3>9
  <2>3. \A m \in 0..k : m \in T
    <3> HIDE DEF T
    <3> QED BY <1>2, <2>1, <2>2, Induction
  <2>4. ASSUME NEW j \in 0..k PROVE \E h : Split(j, h)
    <3>1. k - j \in 0..k /\ k - (k - j) = j
      BY <1>2
    <3>2. k - j \in T
      BY <2>3, <3>1
    <3> HIDE DEF Split
    <3> QED BY <3>1, <3>2
  <2> HIDE DEF Split
  <2> QED BY <2>4
<1>7. ASSUME NEW j \in 0..k, NEW h, Split(j, h) PROVE n \div Power[j] = h
  <2> DEFINE P == Power[j]
             a == w[j]
  <2>0. w[j] \in Nat /\ w[j] < Power[j]
    BY <1>3, <1>5
  <2>1. j \in 0..Digits
    BY <1>1, <1>2
  <2>2. P \in Nat \ {0} /\ a \in Nat /\ a \in 0..P-1 /\ h \in Nat /\ n = a + P * h
    BY <2>0, <2>1, <1>7, PowerFacts
  <2> HIDE DEF P, a
  <2>3. n = P * h + a
    <3>1. P * h \in Nat
      BY <2>2
    <3> QED BY <2>2, <3>1
  <2>4. n \div P = h
    BY <2>2, <2>3, DivModUnique
  <2> QED BY <2>4 DEF P
<1>8. \A j \in 0..k : n \div Power[j] \in Nat /\ (n \div Power[j] > 0 <=> j < k)
  BY <1>6, <1>7
<1>9. ASSUME NEW i \in 1..k PROVE e(i) = (n \div Power[i-1]) % Base
  <2> DEFINE P == Power[i-1]
             a == w[i-1]
             x == e(i)
  <2>1. PICK h : Split(i, h)
    BY <1>6, <1>2
  <2>2. /\ P \in Nat \ {0} /\ a \in Nat /\ x \in 0..Base-1 /\ w[i] = a + x * P
        /\ Power[i] = Base * P /\ a \in 0..P-1 /\ i - 1 \in 0..k
    <3>1. i - 1 \in 0..k /\ i \in 0..k
      BY <1>2
    <3>2. a \in Nat /\ P \in Nat \ {0} /\ a < P /\ w[i] = a + x * P
      BY <3>1, <1>3, <1>4, <1>5
    <3>3. x \in 0..Base-1 /\ Power[i] = Base * P
      BY <1>4
    <3> QED BY <3>1, <3>2, <3>3
  <2>3. h \in Nat /\ n = (a + x * P) + (Base * P) * h
    BY <2>1, <2>2
  <2> HIDE DEF P, a, x
  <2>4. n = P * (Base * h + x) + a
    <3>1. (Base * P) * h = P * (Base * h) /\ x * P = P * x /\ Base * h \in Nat
      BY <2>2, <2>3, <1>2
    <3>2. P * (Base * h + x) = P * (Base * h) + P * x
      BY <2>2, <3>1
    <3>3. P * (Base * h) \in Nat /\ P * x \in Nat
      BY <2>2, <3>1
    <3> QED BY <2>2, <2>3, <3>1, <3>2, <3>3
  <2>5. Base * h + x \in Nat
    BY <2>2, <2>3, <1>2
  <2>6. n \div P = Base * h + x
    BY <2>2, <2>4, <2>5, DivModUnique
  <2>7. (Base * h + x) % Base = x
    BY <2>2, <2>3, <1>2, DivModUnique
  <2> QED BY <2>6, <2>7 DEF P, x
<1>10. \A i \in 1..k : i - 1 \in 0..k /\ i - 1 < k /\ i \in 0..k
  BY <1>2
<1> HIDE DEF Split
<1> QED BY <1>8, <1>9, <1>10 DEF d, e

\* What the broker writes for a length is its numeral, except for 0.
LEMMA NumeralEncoded ==
    ASSUME NEW n \in 1..Limit
    PROVE  EncodeRemainingLength(n) = Numeral[n]
<1> DEFINE d == Numeral[n]
           k == Len(d)
           Held == {j \in 0..Digits - 1 : n \div Power[j] > 0}
<1>1. /\ n \in 0..Limit /\ n \in Nat /\ Digits \in Nat /\ Base \in Nat /\ Base > 2 /\ Byte = 2 * Base
  BY PowerFacts, PacketsAssumption
<1>2. /\ d \in Seq(Nat) /\ k \in 1..Digits /\ \A i \in 1..k : d[i] \in 0..Byte-1
      /\ \A i \in 1..k : d[i] >= Base <=> i < k
  BY <1>1, NumeralIs DEF Shortest
<1>3. \A i \in 1..k : /\ d[i] % Base = (n \div Power[i-1]) % Base
                      /\ n \div Power[i-1] > 0
                      /\ n \div Power[i] > 0 <=> i < k
  BY NumeralDigits
<1> HIDE DEF d, k
<1>4. k \in Nat /\ k >= 1 /\ k <= Digits /\ Len(d) = k
  BY <1>1, <1>2 DEF k
<1>5. Held = 0..k-1
  <2>1. ASSUME NEW j \in 0..k-1 PROVE j \in Held
    <3>1. j + 1 \in 1..k /\ (j + 1) - 1 = j /\ j \in 0..Digits-1
      BY <1>1, <1>4
    <3> QED BY <3>1, <1>3
  <2>2. ASSUME NEW j \in Held PROVE j \in 0..k-1
    <3> SUFFICES ASSUME j >= k PROVE FALSE
      BY <1>1, <1>4
    <3>1. ~ (n \div Power[k] > 0) /\ k \in 0..Digits
      BY <1>1, <1>3, <1>4
    <3>2. Power[k] \in Nat \ {0} /\ Power[j] \in Nat \ {0} /\ j \in k..Digits
      BY <3>1, <1>1, <1>4, PowerFacts
    <3>3. ASSUME NEW P \in Nat \ {0}
          PROVE  /\ n < P => ~ (n \div P > 0)
                 /\ ~ (n \div P > 0) => n < P
      <4>1. n \div P \in Nat /\ (n % P) \in 0..P-1 /\ n = P * (n \div P) + (n % P)
        BY <1>1, DivMod
      <4> DEFINE q == n \div P
      <4>2. q \in Nat /\ (q > 0 => P * q >= P) /\ (q = 0 => P * q = 0) /\ P * q \in Nat
        BY <4>1
      <4> QED BY <4>1, <4>2, <1>1
    <3>4. n < Power[k]
      BY <3>1, <3>2, <3>3
    <3>5. n < Power[j]
      BY <3>1, <3>2, <3>4, <1>1, PowerGrows
    <3> QED BY <3>2, <3>3, <3>5
  <2> HIDE DEF Held
  <2> QED BY <2>1, <2>2
<1>6. Cardinality(Held) = k
  <2>1. Cardinality(0..k-1) = k
    BY <1>4, FS_Interval
  <2> QED BY <1>5, <2>1
<1>7. EncodeRemainingLength(n) = [i \in 1..k |-> ((n \div Power[i-1]) % Base)
                                               + (IF n \div Power[i] > 0 THEN Base ELSE 0)]
  BY <1>6 DEF EncodeRemainingLength
<1>8. ASSUME NEW i \in 1..k
      PROVE  d[i] = ((n \div Power[i-1]) % Base) + (IF n \div Power[i] > 0 THEN Base ELSE 0)
  <2> DEFINE x == d[i]
             e == (n \div Power[i-1]) % Base
  <2>1. x \in 0..Byte-1 /\ (x >= Base <=> i < k) /\ e = x % Base /\ (n \div Power[i] > 0 <=> i < k)
    BY <1>2, <1>3
  <2> HIDE DEF x, e
  <2>2. CASE x >= Base
    <3>1. x - Base \in 0..Base-1 /\ x = Base * 1 + (x - Base) /\ Base \in Nat \ {0} /\ 1 \in Nat
      BY <2>1, <2>2, <1>1
    <3>2. (Base * 1 + (x - Base)) % Base = x - Base
      BY <3>1, DivModUnique
    <3>3. x = e + Base
      BY <3>1, <3>2, <2>1, <1>1
    <3> QED BY <2>1, <2>2, <3>3 DEF x, e
  <2>3. CASE ~ (x >= Base)
    <3>1. x \in 0..Base-1 /\ x = Base * 0 + x /\ Base \in Nat \ {0} /\ 0 \in Nat
      BY <2>1, <2>3, <1>1
    <3>2. (Base * 0 + x) % Base = x
      BY <3>1, DivModUnique
    <3>3. x = e + 0
      BY <3>1, <3>2, <2>1, <1>1
    <3> QED BY <2>1, <2>3, <3>3 DEF x, e
  <2> QED BY <2>2, <2>3
<1>9. d = [i \in 1..k |-> d[i]]
  BY <1>2, <1>4
<1>10. d = [i \in 1..k |-> ((n \div Power[i-1]) % Base) + (IF n \div Power[i] > 0 THEN Base ELSE 0)]
  BY <1>8, <1>9, Zenon
<1> QED BY <1>7, <1>10 DEF d

\* The mark of a byte is what DecodeRemainingLength tests.
LEMMA MoreIs ==
    ASSUME NEW b \in 0..Byte-1
    PROVE  More(b) <=> b >= Base
<1>1. Base \in Nat \ {0} /\ Byte = 2 * Base /\ b \in Nat
  BY PacketsAssumption
<1>2. 2^0 = 1
  OBVIOUS
<1>3. CASE b >= Base
  <2>1. b - Base \in 0..Base-1 /\ b = Base * 1 + (b - Base)
    BY <1>1, <1>3
  <2>2. (Base * 1 + (b - Base)) \div Base = 1
    BY <1>1, <2>1, DivModUnique
  <2>3. b \div Base = 1
    BY <2>1, <2>2
  <2> QED BY <2>3, <1>2, <1>3 DEF More, Bit
<1>4. CASE ~ (b >= Base)
  <2>1. b \in 0..Base-1 /\ b = Base * 0 + b
    BY <1>1, <1>4
  <2>2. (Base * 0 + b) \div Base = 0
    BY <1>1, <2>1, DivModUnique
  <2>3. b \div Base = 0
    BY <2>1, <2>2
  <2> QED BY <2>3, <1>2, <1>4 DEF More, Bit
<1> QED BY <1>3, <1>4

\* DecodeRemainingLength reads a numeral back, whatever follows it
\* (internal/mqtt/mqtt_utils.go).
THEOREM LengthRead ==
    ASSUME NEW t \in Seq(Nat), NEW n \in 0..Limit, NEW k, k = Len(Numeral[n]), k <= Len(t),
           \A i \in 1..k : t[i] = Numeral[n][i]
    PROVE  DecodeRemainingLength(t) = Got(n, k)
<1> DEFINE d == Numeral[n]
           last == {j \in 1..Min({Digits, Len(t)}) : ~More(t[j])}
<1>1. /\ d \in Seq(Nat) /\ k \in 1..Digits /\ \A i \in 1..k : d[i] \in 0..Byte-1
      /\ \A i \in 1..k : d[i] >= Base <=> i < k
      /\ Depth(d) = k /\ Worth(d)[k] = n
  BY NumeralIs DEF Shortest
<1>2. Digits \in Nat /\ k \in Nat /\ k >= 1 /\ k <= Digits
  <2>1. Digits \in Nat
    BY PacketsAssumption
  <2>2. k \in 1..Digits
    BY <1>1
  <2> QED BY ONLY <2>1, <2>2
<1> HIDE DEF d
<1>3. Depth(t) \in Nat /\ k <= Depth(t)
  BY <1>2, DepthIs
<1>4. \A i \in 1..k : ~More(t[i]) <=> i = k
  <2> SUFFICES ASSUME NEW i \in 1..k PROVE ~More(t[i]) <=> i = k
    OBVIOUS
  <2>1. t[i] = d[i] /\ d[i] \in 0..Byte-1 /\ (d[i] >= Base <=> i < k)
    BY <1>1 DEF d
  <2>2. More(d[i]) <=> d[i] >= Base
    BY <2>1, MoreIs
  <2> QED BY <2>1, <2>2, <1>2
<1>5. k \in last /\ \A j \in last : k <= j
  <2>1. last = {j \in 1..Depth(t) : ~More(t[j])}
    BY DEF Depth
  <2>2. k \in 1..Depth(t) /\ k \in 1..k
    BY <1>2, <1>3
  <2>3. ASSUME NEW j \in last PROVE k <= j
    <3>1. j \in 1..Depth(t) /\ ~More(t[j])
      BY <2>1
    <3>2. CASE j \in 1..k
      BY <3>1, <3>2, <1>4, <1>2
    <3>3. CASE j \notin 1..k
      BY <3>1, <3>3, <1>2, <1>3
    <3> QED BY <3>2, <3>3
  <2> QED BY <2>1, <2>2, <2>3, <1>4
<1>6. Min(last) = k
  <2>1. last \subseteq Nat
    <3>1. Min({Digits, Len(t)}) \in Nat
      BY <1>3 DEF Depth
    <3> QED BY <3>1
  <2> HIDE DEF last
  <2>2. \A x \in last : (\A y \in last : x <= y) => x = k
    BY <1>2, <1>5, <2>1
  <2>3. (CHOOSE x \in last : \A y \in last : x <= y) = k
    BY <1>5, <2>2
  <2> QED BY <2>3 DEF Min
<1>7. Worth(t)[k] = n
  <2>1. k \in 0..Depth(d)
    BY <1>1, <1>2
  <2>2. \A i \in 1..k : d[i] = t[i]
    BY DEF d
  <2>3. Worth(d)[k] = Worth(t)[k]
    BY <1>1, <1>3, <2>1, <2>2, WorthSame
  <2> QED BY <1>1, <2>3
<1>8. last # {}
  BY <1>5
<1>9. DecodeRemainingLength(t) = CASE last # {} -> Got(Worth(t)[Min(last)], Min(last))
          [] last = {} /\ Len(t) >= Digits -> Error
          [] last = {} /\ Len(t) < Digits -> Waiting
  BY DEF DecodeRemainingLength
<1> HIDE DEF last
<1>10. DecodeRemainingLength(t) = Got(Worth(t)[Min(last)], Min(last))
  BY <1>8, <1>9
<1> QED BY <1>6, <1>7, <1>10

-----------------------------------------------------------------------------
(***************************************************************************)
(* Sequences that lie within others, and packets in their frames.          *)
(***************************************************************************)
\* What SubSeq yields.
LEMMA Slices ==
    ASSUME NEW s \in Seq(Nat), NEW lo \in Nat, NEW hi \in Nat, lo <= hi, hi <= Len(s)
    PROVE  /\ SubSeq(s, lo + 1, hi) \in Seq(Nat) /\ Len(SubSeq(s, lo + 1, hi)) = hi - lo
           /\ \A i \in 1..hi - lo : SubSeq(s, lo + 1, hi)[i] = s[lo + i]
<1>1. lo + 1 \in 1..Len(s) + 1 /\ hi \in lo..Len(s)
  OBVIOUS
<1>2. \A i \in 1..hi - lo : (lo + 1) + i - 1 = lo + i
  OBVIOUS
<1>3. hi - (lo + 1) + 1 = hi - lo
  OBVIOUS
<1> QED BY <1>1, <1>2, <1>3

\* A slice of s is what s holds there.
LEMMA SliceHeld ==
    ASSUME NEW s \in Seq(Nat), NEW x \in Seq(Nat), NEW p \in Nat, Holds(s, p, x)
    PROVE  p + Len(x) <= Len(s) /\ SubSeq(s, p + 1, p + Len(x)) = x
<1> DEFINE hi == p + Len(x)
           z == SubSeq(s, p + 1, hi)
<1>1. hi \in Nat /\ p <= hi /\ hi <= Len(s) /\ hi - p = Len(x) /\ Len(x) \in Nat
  BY DEF Holds
<1>2. \A i \in 1..Len(x) : s[p+i] = x[i]
  BY DEF Holds
<1> HIDE DEF hi
<1>3. z \in Seq(Nat) /\ Len(z) = hi - p /\ \A i \in 1..hi - p : z[i] = s[p+i]
  BY <1>1, Slices
<1> HIDE DEF z
<1>4. Len(z) = Len(x) /\ \A i \in 1..Len(x) : z[i] = x[i]
  BY <1>1, <1>2, <1>3
<1>5. z = x
  <2>1. z \in Seq(Nat) /\ Len(z) = Len(x) /\ \A i \in 1..Len(z) : z[i] = x[i]
    BY <1>3, <1>4
  <2> QED BY <2>1, SeqEqual
<1> QED BY <1>1, <1>5 DEF z, hi

\* What a concatenation yields.
LEMMA Joined ==
    ASSUME NEW x \in Seq(Nat), NEW y \in Seq(Nat)
    PROVE  /\ x \o y \in Seq(Nat) /\ Len(x \o y) = Len(x) + Len(y)
           /\ Len(x) \in Nat /\ Len(y) \in Nat
           /\ \A i \in 1..Len(x) : (x \o y)[i] = x[i]
           /\ \A i \in 1..Len(y) : (x \o y)[Len(x) + i] = y[i]
OBVIOUS

\* Where the members of a concatenation come from.
LEMMA Joint ==
    ASSUME NEW x \in Seq(Nat), NEW y \in Seq(Nat)
    PROVE  x \o y \in Seq(Nat) /\ Len(x \o y) = Len(x) + Len(y) /\ Len(x) \in Nat /\ Len(y) \in Nat
OBVIOUS

\* A concatenation is held when its parts are, one after the other.
LEMMA HoldsConcat ==
    ASSUME NEW s \in Seq(Nat), NEW x \in Seq(Nat), NEW y \in Seq(Nat), NEW p \in Nat
    PROVE  Holds(s, p, x \o y) <=> Holds(s, p, x) /\ Holds(s, p + Len(x), y)
<1> DEFINE z == x \o y
<1>1. /\ z \in Seq(Nat) /\ Len(z) = Len(x) + Len(y)
      /\ \A i \in 1..Len(x) : z[i] = x[i]
      /\ \A i \in 1..Len(y) : z[Len(x) + i] = y[i]
  BY Joined
<1>2. Len(x) \in Nat /\ Len(y) \in Nat /\ Len(s) \in Nat
  OBVIOUS
<1> HIDE DEF z
<1>3. ASSUME Holds(s, p, z) PROVE Holds(s, p, x) /\ Holds(s, p + Len(x), y)
  <2>1. p + Len(z) <= Len(s) /\ \A i \in 1..Len(z) : s[p+i] = z[i]
    BY <1>3 DEF Holds
  <2>2. \A i \in 1..Len(x) : i \in 1..Len(z)
    BY <1>1, <1>2
  <2>3. \A i \in 1..Len(x) : s[p+i] = x[i]
    BY <1>1, <2>1, <2>2
  <2>4. \A i \in 1..Len(y) : s[p + Len(x) + i] = y[i]
    <3> SUFFICES ASSUME NEW i \in 1..Len(y) PROVE s[p + Len(x) + i] = y[i]
      OBVIOUS
    <3>1. Len(x) + i \in 1..Len(z) /\ p + (Len(x) + i) = p + Len(x) + i
      <4>1. PICK m \in Nat, n \in Nat, l \in Nat : m = Len(x) /\ n = Len(y) /\ l = Len(z)
        BY <1>1, <1>2
      <4>2. l = m + n /\ i \in 1..n
        BY <1>1, <1>2, <4>1
      <4>3. m + i \in 1..l /\ p + (m + i) = p + m + i
        BY <4>2
      <4> QED BY <4>1, <4>3
    <3> QED BY <1>1, <2>1, <3>1
  <2>5. p + Len(x) <= Len(s) /\ (p + Len(x)) + Len(y) <= Len(s)
    BY <1>1, <1>2, <2>1
  <2> QED BY <2>3, <2>4, <2>5 DEF Holds
<1>4. ASSUME Holds(s, p, x), Holds(s, p + Len(x), y) PROVE Holds(s, p, z)
  <2>1. /\ \A i \in 1..Len(x) : s[p+i] = x[i]
        /\ (p + Len(x)) + Len(y) <= Len(s)
        /\ \A i \in 1..Len(y) : s[p + Len(x) + i] = y[i]
    BY <1>4 DEF Holds
  <2>2. ASSUME NEW i \in 1..Len(z) PROVE s[p+i] = z[i]
    <3>1. CASE i \in 1..Len(x)
      BY <3>1, <1>1, <2>1
    <3>2. CASE i \notin 1..Len(x)
      <4>1. i \in Nat /\ i > Len(x) /\ i <= Len(x) + Len(y)
        BY <3>2, <1>1, <1>2
      <4>2. PICK j \in Nat : i = Len(x) + j
        <5>1. PICK l : l = Len(x)
          OBVIOUS
        <5>2. PICK j : j = i - l
          OBVIOUS
        <5>3. l \in Nat /\ i \in Nat /\ i > l
          BY <4>1, <1>2, <5>1
        <5>4. j \in Nat /\ i = l + j
          BY ONLY <5>2, <5>3
        <5> QED BY <5>1, <5>4
      <4>3. j \in 1..Len(y) /\ p + Len(x) + j = p + i
        BY <4>1, <4>2, <1>2
      <4> QED BY <4>2, <4>3, <1>1, <2>1
    <3> QED BY <3>1, <3>2
  <2>3. p + Len(z) <= Len(s)
    BY <1>1, <1>2, <2>1
  <2> QED BY <2>2, <2>3 DEF Holds
<1> QED BY <1>3, <1>4 DEF z

\* Every sequence holds itself.
LEMMA HoldsItself ==
    ASSUME NEW s \in Seq(Nat)
    PROVE  Holds(s, 0, s)
<1>1. \A i \in 1..Len(s) : 0 + i = i
  OBVIOUS
<1> QED BY <1>1 DEF Holds

\* A concatenation holds both its parts.
LEMMA HoldsTwo ==
    ASSUME NEW s \in Seq(Nat), NEW t \in Seq(Nat)
    PROVE  /\ s \o t \in Seq(Nat) /\ Len(s) \in Nat /\ Len(s \o t) = Len(s) + Len(t)
           /\ Holds(s \o t, 0, s) /\ Holds(s \o t, Len(s), t)
<1>1. PICK z : z = s \o t
  OBVIOUS
<1>2. z \in Seq(Nat) /\ Len(s) \in Nat /\ Len(z) = Len(s) + Len(t) /\ 0 \in Nat /\ 0 + Len(s) = Len(s)
  BY <1>1, Joined
<1>3. Holds(z, 0, z)
  BY <1>2, HoldsItself
<1>4. Holds(z, 0, s) /\ Holds(z, 0 + Len(s), t)
  BY <1>1, <1>2, <1>3, HoldsConcat
<1> QED BY <1>1, <1>2, <1>4

\* What lies within x, and x within s, lies within s; and the other way round.
LEMMA HoldsWithin ==
    ASSUME NEW s \in Seq(Nat), NEW x \in Seq(Nat), NEW y \in Seq(Nat), NEW p \in Nat, NEW q \in Nat,
           Holds(s, p, x)
    PROVE  Holds(x, q, y) <=> q + Len(y) <= Len(x) /\ Holds(s, p + q, y)
<1>1. Len(x) \in Nat /\ Len(y) \in Nat /\ Len(s) \in Nat
  OBVIOUS
<1>2. p + Len(x) <= Len(s) /\ \A i \in 1..Len(x) : s[p+i] = x[i]
  BY DEF Holds
<1>3. ASSUME q + Len(y) <= Len(x), NEW i \in 1..Len(y)
      PROVE  s[p + q + i] = x[q+i]
  <2>1. q + i \in 1..Len(x) /\ p + (q + i) = p + q + i
    BY <1>1, <1>3
  <2> QED BY <2>1, <1>2
<1>4. q + Len(y) <= Len(x) => p + q + Len(y) <= Len(s)
  BY <1>1, <1>2
<1> QED BY <1>3, <1>4 DEF Holds

\* A byte that is held.
LEMMA HoldsByte ==
    ASSUME NEW s \in Seq(Nat), NEW p \in Nat, NEW n \in Nat
    PROVE  /\ <<n>> \in Seq(Nat) /\ Len(<<n>>) = 1
           /\ Holds(s, p, <<n>>) <=> p < Len(s) /\ s[p+1] = n
<1>1. Len(<<n>>) = 1 /\ <<n>>[1] = n /\ Len(s) \in Nat /\ <<n>> \in Seq(Nat)
  OBVIOUS
<1>2. p + 1 <= Len(s) <=> p < Len(s)
  BY <1>1
<1>3. \A i \in 1..1 : i = 1
  OBVIOUS
<1> QED BY <1>1, <1>2, <1>3 DEF Holds

\* Three parts, one after the other.
LEMMA HoldsThree ==
    ASSUME NEW s \in Seq(Nat), NEW p \in Nat, NEW n \in Nat, NEW x \in Seq(Nat), NEW y \in Seq(Nat)
    PROVE  /\ <<n>> \o x \o y \in Seq(Nat) /\ Len(<<n>> \o x \o y) = 1 + Len(x) + Len(y)
           /\ Holds(s, p, <<n>> \o x \o y) <=>
                 /\ p < Len(s) /\ s[p+1] = n
                 /\ Holds(s, p + 1, x) /\ Holds(s, p + 1 + Len(x), y)
<1> DEFINE h == <<n>>
           z == h \o x
<1>1. h \in Seq(Nat) /\ Len(h) = 1 /\ (Holds(s, p, h) <=> p < Len(s) /\ s[p+1] = n)
  BY HoldsByte
<1> HIDE DEF h
<1>2. z \in Seq(Nat) /\ Len(z) = 1 + Len(x) /\ Len(x) \in Nat
  <2>1. z \in Seq(Nat) /\ Len(z) = Len(h) + Len(x) /\ Len(x) \in Nat
    BY <1>1, Joint
  <2> QED BY <1>1, <2>1
<1>3. Holds(s, p, z) <=> Holds(s, p, h) /\ Holds(s, p + 1, x)
  BY <1>1, HoldsConcat
<1> HIDE DEF z
<1>4. z \o y \in Seq(Nat) /\ Len(z \o y) = 1 + Len(x) + Len(y)
  <2>1. z \o y \in Seq(Nat) /\ Len(z \o y) = Len(z) + Len(y)
    BY <1>2, Joint
  <2> QED BY <1>2, <2>1
<1>5. Holds(s, p, z \o y) <=> Holds(s, p, z) /\ Holds(s, p + Len(z), y)
  BY <1>2, HoldsConcat
<1>6. p + Len(z) = p + 1 + Len(x)
  BY <1>2
<1> QED BY <1>1, <1>3, <1>4, <1>5, <1>6 DEF z, h

\* The length of a frame, and that it is a sequence.
LEMMA FrameIs ==
    ASSUME NEW type \in 0..15, NEW flags \in 0..15, NEW body \in Seq(Nat), Len(body) <= Limit
    PROVE  /\ Len(body) \in 0..Limit /\ Len(body) \in Nat
           /\ Numeral[Len(body)] \in Seq(Nat) /\ Len(Numeral[Len(body)]) \in Nat
           /\ Frame(type, flags, body) \in Seq(Nat)
           /\ Len(Frame(type, flags, body)) = 1 + Len(Numeral[Len(body)]) + Len(body)
           /\ 16 * type + flags \in Nat
<1> DEFINE n == Len(body)
           d == Numeral[n]
           a == 16 * type + flags
<1>1. n \in 0..Limit /\ n \in Nat
  BY PowerFacts
<1>2. d \in Seq(Nat) /\ Len(d) \in 1..Digits /\ Digits \in Nat
  <2> HIDE DEF n
  <2> QED BY <1>1, NumeralIs, PowerFacts
<1>3. Len(d) \in Nat
  BY <1>2
<1>4. a \in Nat
  OBVIOUS
<1> HIDE DEF d, a
<1>5. <<a>> \o d \o body \in Seq(Nat) /\ Len(<<a>> \o d \o body) = 1 + Len(d) + Len(body)
  BY <1>2, <1>4, HoldsThree
<1> QED BY <1>1, <1>2, <1>3, <1>4, <1>5 DEF Frame, d, a

\* Where the parts of a frame lie in what holds it.
LEMMA FrameParts ==
    ASSUME NEW s \in Seq(Nat), NEW p \in Nat,
           NEW type \in 0..15, NEW flags \in 0..15, NEW body \in Seq(Nat), Len(body) <= Limit
    PROVE  Holds(s, p, Frame(type, flags, body)) <=>
              /\ p < Len(s) /\ s[p+1] = 16 * type + flags
              /\ Holds(s, p + 1, Numeral[Len(body)])
              /\ Holds(s, p + 1 + Len(Numeral[Len(body)]), body)
<1> DEFINE d == Numeral[Len(body)]
           a == 16 * type + flags
<1>1. d \in Seq(Nat) /\ a \in Nat
  BY FrameIs
<1> HIDE DEF d, a
<1>2. Holds(s, p, <<a>> \o d \o body) <=>
         p < Len(s) /\ s[p+1] = a /\ Holds(s, p + 1, d) /\ Holds(s, p + 1 + Len(d), body)
  BY <1>1, HoldsThree
<1> QED BY <1>2 DEF Frame, d, a

\* The first byte of a frame gives its type and flags back.
LEMMA FirstByte ==
    ASSUME NEW type \in 0..15, NEW flags \in 0..15
    PROVE  (16 * type + flags) \div 16 = type /\ (16 * type + flags) % 16 = flags
OBVIOUS

\* What Tail yields, by offset.
LEMMA TailIs ==
    ASSUME NEW s \in Seq(Nat), Len(s) > 0
    PROVE  /\ s # <<>> /\ Tail(s) \in Seq(Nat) /\ Len(Tail(s)) = Len(s) - 1
           /\ \A i \in 1..Len(s) - 1 : Tail(s)[i] = s[1+i]
<1>1. s # <<>>
  BY EmptySeq
<1>2. Tail(s) \in Seq(Nat) /\ Len(Tail(s)) = Len(s) - 1 /\ \A i \in 1..Len(Tail(s)) : Tail(s)[i] = s[i+1]
  BY <1>1, HeadTailProperties
<1>3. \A i \in 1..Len(s) - 1 : i + 1 = 1 + i
  OBVIOUS
<1> QED BY <1>1, <1>2, <1>3

\* t is what remains of s from offset p on.
Remains(t, s, p) ==
    t \in Seq(Nat) /\ p + Len(t) = Len(s) /\ \A i \in 1..Len(t) : t[i] = s[p+i]

\* The remaining length is read behind the first byte.
LEMMA LengthAfter ==
    ASSUME NEW s \in Seq(Nat), NEW p \in Nat, NEW n \in 0..Limit, Holds(s, p, Numeral[n]),
           NEW t, Remains(t, s, p)
    PROVE  DecodeRemainingLength(t) = Got(n, Len(Numeral[n]))
<1> DEFINE d == Numeral[n]
           k == Len(d)
<1>1. d \in Seq(Nat) /\ Len(d) \in 1..Digits /\ Digits \in Nat
  BY NumeralIs, PowerFacts
<1>2. p + Len(d) <= Len(s) /\ \A i \in 1..Len(d) : s[p+i] = d[i]
  BY DEF Holds
<1>3. /\ Len(s) \in Nat /\ Len(t) \in Nat /\ t \in Seq(Nat) /\ p + Len(t) = Len(s)
      /\ \A i \in 1..Len(t) : t[i] = s[p+i]
  BY DEF Remains
<1> HIDE DEF d
<1>4. k <= Len(t) /\ \A i \in 1..k : i \in 1..Len(t)
  BY <1>1, <1>2, <1>3
<1>5. \A i \in 1..k : t[i] = d[i]
  BY <1>2, <1>3, <1>4
<1> QED BY <1>3, <1>4, <1>5, LengthRead DEF d

\* ReadPacket finds the packet a client has framed at the head of what it has sent,
\* whatever comes after it, and takes its bytes and no more (internal/mqtt/mqtt_utils.go).
THEOREM PacketRead ==
    ASSUME NEW s \in Seq(Nat), NEW type \in 0..15, NEW flags \in 0..15, ValidateFlags(type, flags),
           NEW body \in Seq(Nat), Len(body) <= Limit, Holds(s, 0, Frame(type, flags, body))
    PROVE  ReadPacket(s) = Got([type |-> type, flags |-> flags, body |-> body],
                               Len(Frame(type, flags, body)))
<1> DEFINE n == Len(body)
           k == Len(Numeral[n])
           a == 16 * type + flags
           F == Frame(type, flags, body)
<1>1. n \in 0..Limit /\ n \in Nat /\ k \in Nat /\ Len(F) = 1 + k + n /\ Len(s) \in Nat /\ a \in Nat
  <2>1. Len(s) \in Nat
    OBVIOUS
  <2> QED BY ONLY <2>1, FrameIs, type \in 0..15, flags \in 0..15, body \in Seq(Nat), Len(body) <= Limit
<1>2. /\ 0 < Len(s) /\ s[0+1] = a
      /\ Holds(s, 0 + 1, Numeral[n]) /\ Holds(s, 0 + 1 + k, body)
  <2>1. 0 \in Nat
    OBVIOUS
  <2> QED BY ONLY <2>1, FrameParts, s \in Seq(Nat), type \in 0..15, flags \in 0..15, body \in Seq(Nat),
                 Len(body) <= Limit, Holds(s, 0, F)
<1>3. a \div 16 = type /\ a % 16 = flags
  BY FirstByte
<1> HIDE DEF n, F, a
<1>4. Len(s) > 0 /\ s[1] = a /\ 0 + 1 = 1 /\ 0 + 1 + k = 1 + k
  BY <1>1, <1>2
<1>5. s # <<>> /\ Tail(s) \in Seq(Nat) /\ Len(Tail(s)) = Len(s) - 1 /\ \A i \in 1..Len(s) - 1 : Tail(s)[i] = s[1+i]
  BY <1>4, TailIs
<1>6. DecodeRemainingLength(Tail(s)) = Got(n, k)
  <2>1. PICK t : t = Tail(s)
    OBVIOUS
  <2>2. Remains(t, s, 1)
    BY <1>1, <1>5, <2>1 DEF Remains
  <2>3. Holds(s, 1, Numeral[n]) /\ 1 \in Nat
    BY <1>2, <1>4
  <2> QED BY ONLY <1>1, <2>1, <2>2, <2>3, LengthAfter, s \in Seq(Nat)
<1>7. /\ (1 + k) + n <= Len(s) /\ SubSeq(s, (1 + k) + 1, (1 + k) + n) = body
  <2>1. 1 + k \in Nat /\ Holds(s, 1 + k, body)
    BY <1>1, <1>2, <1>4
  <2> QED BY <2>1, SliceHeld DEF n
<1> HIDE DEF k
<1>8. PICK e : e = (1 + k) + n
  OBVIOUS
<1>9. Packet(s, 1 + k, e) = Got([type |-> type, flags |-> flags, body |-> body], e)
  BY <1>3, <1>4, <1>7, <1>8 DEF Packet
<1>10. ~ (Len(s) < e)
  BY <1>1, <1>7, <1>8
<1>11. Fine(Got(n, k)) /\ Got(n, k).ptr = k /\ Got(n, k).value = n
  BY DEF Fine, Got
<1>12. ReadPacket(s) = Packet(s, 1 + k, e)
  BY <1>5, <1>6, <1>8, <1>10, <1>11 DEF ReadPacket
<1>13. e = Len(F)
  BY <1>1, <1>8
<1> QED BY <1>9, <1>12, <1>13 DEF F

-----------------------------------------------------------------------------
(***************************************************************************)
(* The readers of fields.                                                  *)
(***************************************************************************)
\* What the outcomes are.
LEMMA GotIs ==
    ASSUME NEW v, NEW p
    PROVE  /\ Fine(Got(v, p)) /\ Got(v, p).value = v /\ Got(v, p).ptr = p
           /\ Got(v, p).is = "ok" /\ Got(v, p).is # "panic" /\ Got(v, p).is # "error"
           /\ ~Fine(Error) /\ Error.is = "error" /\ ~Fine(Panic)
BY DEF Got, Fine, Error, Panic

\* A slice within bounds does not panic.
LEMMA SliceIs ==
    ASSUME NEW b \in Seq(Nat), NEW lo \in Nat, NEW hi \in Nat, hi <= Len(b)
    PROVE  Slice(b, lo, hi) = Got(SubSeq(b, lo + 1, hi), hi)
BY DEF Slice

\* The length of a field, and where it ends.
Ends(b, p) == p + 2 + Uint16(SubSeq(b, p + 1, p + 2))

\* readPacketPayload either fails or yields a slice and the offset behind it; it never
\* panics.
LEMMA PayloadIs ==
    ASSUME NEW b \in Seq(Nat), NEW p \in Nat, p + 2 <= Len(b)
    PROVE  readPacketPayload(b, p) = IF Ends(b, p) > Len(b) THEN Error
                                     ELSE Slice(b, p + 2, Ends(b, p))
<1>1. ~ (p + 1 >= Len(b)) /\ p + 2 \in Nat
  OBVIOUS
<1>2. PICK r : r = Slice(b, p, p + 2)
  OBVIOUS
<1>3. Fine(r) /\ r.ptr = p + 2
  <2>1. r = Got(SubSeq(b, p + 1, p + 2), p + 2)
    BY <1>1, <1>2, SliceIs
  <2> QED BY <2>1, GotIs
<1>4. readPacketPayload(b, p) =
        IF p + 1 >= Len(b) THEN Error
        ELSE Then(r, LAMBDA q : LET end == q + Uint16(SubSeq(b, p + 1, q)) IN
                                IF end > Len(b) THEN Error ELSE Slice(b, q, end))
  BY <1>2 DEF readPacketPayload
<1>5. readPacketPayload(b, p) =
        Then(r, LAMBDA q : LET end == q + Uint16(SubSeq(b, p + 1, q)) IN
                                IF end > Len(b) THEN Error ELSE Slice(b, q, end))
  BY <1>1, <1>4
<1>6. PICK q : q = p + 2
  OBVIOUS
<1>7. readPacketPayload(b, p) =
         IF q + Uint16(SubSeq(b, p + 1, q)) > Len(b) THEN Error ELSE Slice(b, q, q + Uint16(SubSeq(b, p + 1, q)))
  BY <1>3, <1>5, <1>6 DEF Then
<1> QED BY <1>6, <1>7 DEF Ends

\* What a parser may answer with an error.
Refusals == {ConnectRespType.UnacceptableProtocol, ConnectRespType.IdentifierRejected}

\* What comes with an error: nothing, or the refusal of a CONNECT.
Answers == {<<>>} \cup {NewConnectAckPacket(FALSE, code) : code \in Refusals}

\* An outcome that is no panic, and from which parsing can go on.
Moves(r) == (r.is = "error" /\ r.resp \in Answers) \/ (r.is = "ok" /\ r.ptr \in Nat)

\* Errors and values are such outcomes.
LEMMA MovesOn == /\ Moves(Error) /\ \A code \in Refusals : Moves(Refused(code))
                 /\ \A v : \A p \in Nat : Moves(Got(v, p))
                 /\ \A r : Moves(r) => /\ r.is # "panic" /\ (Fine(r) => r.ptr \in Nat)
                                       /\ (r.is = "error" => r.resp \in Answers)
                 /\ \A r : Fine(r) => r.is = "ok"
<1>1. Error.is = "error" /\ Error.resp = <<>>
  BY DEF Error
<1>2. \A code : Refused(code).is = "error" /\ Refused(code).resp = NewConnectAckPacket(FALSE, code)
  BY DEF Refused
<1>3. Moves(Error) /\ \A code \in Refusals : Moves(Refused(code))
  BY <1>1, <1>2 DEF Moves, Answers
<1> QED BY <1>3 DEF Moves, Got, Fine

\* A number of 16 bits from its two bytes.
LEMMA SixteenBits ==
    ASSUME NEW n \in Nat
    PROVE  Two(n) \in Seq(Nat) /\ Len(Two(n)) = 2 /\ Uint16(Two(n)) = n /\ Byte \in Nat \ {0}
<1>1. Byte \in Nat \ {0}
  BY PacketsAssumption
<1>2. n \div Byte \in Nat /\ n % Byte \in Nat /\ n = Byte * (n \div Byte) + (n % Byte)
  BY <1>1, DivMod
<1> QED BY <1>1, <1>2 DEF Two, Uint16

\* Uint16 reads Two back.
LEMMA UintIs ==
    ASSUME NEW s \in Seq(Nat), Len(s) = 2
    PROVE  Uint16(s) \in Nat
<1>1. s[1] \in Nat /\ s[2] \in Nat
  BY 1 \in 1..2, 2 \in 1..2
<1>2. Byte \in Nat
  BY PacketsAssumption
<1> QED BY <1>1, <1>2 DEF Uint16

\* readPacketByte and readPacketBytes do not panic.
LEMMA BytesMove ==
    ASSUME NEW b \in Seq(Nat), NEW p \in Nat, NEW n \in Int
    PROVE  /\ Moves(readPacketBytes(b, p, n)) /\ Moves(readPacketByte(b, p))
           /\ Moves(readPacketResumeByte(b, p)) /\ Moves(readPacketPayload(b, p))
           /\ \A there : Moves(Optional(there, b, p))
<1>1. ASSUME NEW m \in Int PROVE Moves(readPacketBytes(b, p, m))
  <2>1. CASE m <= 0 \/ p >= Len(b) \/ p + m > Len(b)
    BY <2>1, MovesOn DEF readPacketBytes
  <2>2. CASE ~ (m <= 0 \/ p >= Len(b) \/ p + m > Len(b))
    <3>1. readPacketBytes(b, p, m) = Slice(b, p, p + m)
      BY <2>2 DEF readPacketBytes
    <3>2. p + m \in Nat /\ p + m <= Len(b)
      BY <2>2
    <3>3. Slice(b, p, p + m) = Got(SubSeq(b, p + 1, p + m), p + m)
      BY <3>2, SliceIs
    <3> QED BY <3>1, <3>2, <3>3, MovesOn
  <2> QED BY <2>1, <2>2
<1>2. Moves(readPacketByte(b, p))
  <2>1. p + 1 \in Nat
    OBVIOUS
  <2> QED BY <2>1, MovesOn DEF readPacketByte
<1>3. Moves(readPacketResumeByte(b, p))
  <2>1. Len(b) - p \in Int
    OBVIOUS
  <2> QED BY <2>1, <1>1 DEF readPacketResumeByte
<1>4. Moves(readPacketPayload(b, p))
  <2>1. CASE p + 1 >= Len(b)
    BY <2>1, MovesOn DEF readPacketPayload
  <2>2. CASE ~ (p + 1 >= Len(b))
    <3>1. p + 2 <= Len(b) /\ p <= p + 2 /\ p + 2 \in Nat /\ p + 2 - p = 2
      BY <2>2
    <3>2. SubSeq(b, p + 1, p + 2) \in Seq(Nat) /\ Len(SubSeq(b, p + 1, p + 2)) = 2
      <4>1. SubSeq(b, p + 1, p + 2) \in Seq(Nat) /\ Len(SubSeq(b, p + 1, p + 2)) = p + 2 - p
        BY ONLY <3>1, Slices, b \in Seq(Nat), p \in Nat
      <4> QED BY <3>1, <4>1
    <3>3. PICK e : e = Ends(b, p)
      OBVIOUS
    <3>4. e \in Nat
      <4>1. Uint16(SubSeq(b, p + 1, p + 2)) \in Nat
        BY <3>2, UintIs
      <4> QED BY <3>3, <4>1 DEF Ends
    <3>5. readPacketPayload(b, p) = IF e > Len(b) THEN Error ELSE Slice(b, p + 2, e)
      BY <3>1, <3>3, PayloadIs
    <3>6. CASE e > Len(b)
      BY <3>5, <3>6, MovesOn
    <3>7. CASE ~ (e > Len(b))
      <4>1. e <= Len(b)
        BY <3>4, <3>7
      <4>2. readPacketPayload(b, p) = Got(SubSeq(b, p + 2 + 1, e), e)
        BY <3>1, <3>4, <3>5, <3>7, <4>1, SliceIs
      <4> QED BY <3>4, <4>2, MovesOn
    <3> QED BY <3>6, <3>7
  <2> QED BY <2>1, <2>2
<1>5. Moves(Got(<<>>, p))
  BY MovesOn
<1> QED BY <1>1, <1>2, <1>3, <1>4, <1>5 DEF Optional

\* A field is its length and its bytes.
LEMMA FieldIs ==
    ASSUME NEW x \in Seq(Nat)
    PROVE  Field(x) \in Seq(Nat) /\ Len(Field(x)) = 2 + Len(x) /\ Len(x) \in Nat
<1>1. Len(x) \in Nat
  OBVIOUS
<1>2. Two(Len(x)) \in Seq(Nat) /\ Len(Two(Len(x))) = 2
  BY <1>1, SixteenBits
<1>3. Two(Len(x)) \o x \in Seq(Nat) /\ Len(Two(Len(x)) \o x) = Len(Two(Len(x))) + Len(x)
  BY <1>2, Joint
<1> QED BY <1>1, <1>2, <1>3 DEF Field

\* readPacketBytes finds the two bytes of a number.
LEMMA TwoRead ==
    ASSUME NEW b \in Seq(Nat), NEW p \in Nat, NEW n \in Nat, Holds(b, p, Two(n))
    PROVE  /\ p + 2 <= Len(b) /\ SubSeq(b, p + 1, p + 2) = Two(n)
           /\ readPacketBytes(b, p, 2) = Got(Two(n), p + 2)
<1>1. Two(n) \in Seq(Nat) /\ Len(Two(n)) = 2
  BY SixteenBits
<1>2. p + 2 <= Len(b) /\ SubSeq(b, p + 1, p + 2) = Two(n)
  <2>1. p + Len(Two(n)) <= Len(b) /\ SubSeq(b, p + 1, p + Len(Two(n))) = Two(n)
    BY <1>1, SliceHeld
  <2> QED BY <1>1, <2>1
<1>3. p + 2 \in Nat /\ ~ (2 <= 0 \/ p >= Len(b) \/ p + 2 > Len(b))
  BY <1>2
<1>4. readPacketBytes(b, p, 2) = Slice(b, p, p + 2)
  BY <1>3 DEF readPacketBytes
<1>5. Slice(b, p, p + 2) = Got(SubSeq(b, p + 1, p + 2), p + 2)
  BY <1>2, <1>3, SliceIs
<1> QED BY <1>2, <1>4, <1>5

\* readPacketPayload finds a field where it lies.
LEMMA FieldRead ==
    ASSUME NEW b \in Seq(Nat), NEW p \in Nat, NEW x \in Seq(Nat), Holds(b, p, Field(x))
    PROVE  readPacketPayload(b, p) = Got(x, p + 2 + Len(x))
<1>1. Len(x) \in Nat
  OBVIOUS
<1>2. Two(Len(x)) \in Seq(Nat) /\ Len(Two(Len(x))) = 2 /\ Uint16(Two(Len(x))) = Len(x)
  BY <1>1, SixteenBits
<1>3. Holds(b, p, Two(Len(x))) /\ Holds(b, p + Len(Two(Len(x))), x)
  BY <1>2, HoldsConcat DEF Field
<1>4. Holds(b, p + 2, x) /\ p + 2 \in Nat
  BY <1>2, <1>3
<1>5. p + 2 <= Len(b) /\ SubSeq(b, p + 1, p + 2) = Two(Len(x))
  BY <1>1, <1>3, TwoRead
<1>6. PICK e : e = p + 2 + Len(x)
  OBVIOUS
<1>7. Ends(b, p) = e
  BY <1>2, <1>5, <1>6 DEF Ends
<1>8. e <= Len(b) /\ SubSeq(b, p + 2 + 1, e) = x
  BY <1>4, <1>6, SliceHeld
<1>9. e \in Nat /\ ~ (e > Len(b))
  BY <1>1, <1>6, <1>8
<1>10. readPacketPayload(b, p) = Slice(b, p + 2, e)
  BY <1>5, <1>7, <1>9, PayloadIs
<1>11. Slice(b, p + 2, e) = Got(SubSeq(b, p + 2 + 1, e), e)
  BY <1>4, <1>8, <1>9, SliceIs
<1> QED BY <1>6, <1>8, <1>10, <1>11

\* readPacketByte finds a byte where it lies.
LEMMA ByteRead ==
    ASSUME NEW b \in Seq(Nat), NEW p \in Nat, NEW n \in Nat, Holds(b, p, <<n>>)
    PROVE  readPacketByte(b, p) = Got(n, p + 1)
<1>1. p < Len(b) /\ b[p+1] = n
  BY HoldsByte
<1>2. ~ (p >= Len(b))
  BY <1>1
<1> QED BY <1>1, <1>2 DEF readPacketByte

-----------------------------------------------------------------------------
(***************************************************************************)
(* No parser panics.                                                       *)
(***************************************************************************)
\* No body makes the parser of PUBLISH read beyond its end (internal/packet/publish.go).
THEOREM PublishNeverPanics ==
    ASSUME NEW flags \in Nat, NEW b \in Seq(Nat)
    PROVE  ParsePublishPacket(flags, b).is # "panic"
<1>1. PICK qos : qos = Bits(flags, 1)
  OBVIOUS
<1>2. PICK topic : topic = readPacketPayload(b, 0)
  OBVIOUS
<1>3. PICK id : id = IF Fine(topic) THEN (IF qos > 0 THEN readPacketBytes(b, topic.ptr, 2)
                                        ELSE Got(<<0, 0>>, topic.ptr)) ELSE topic
  OBVIOUS
<1>4. PICK data : data = IF Fine(id) THEN (IF id.ptr < Len(b) THEN readPacketResumeByte(b, id.ptr)
                                     ELSE Got(<<>>, id.ptr)) ELSE id
  OBVIOUS
<1>5. ParsePublishPacket(flags, b) =
      IF (qos = 0 /\ Bit(flags, 3)) \/ qos = 3 THEN Error
      ELSE IF Fine(data)
           THEN Got([qos |-> qos, topic |-> topic.value, id |-> Uint16(id.value), payload |-> data.value], data.ptr)
           ELSE data
  BY <1>1, <1>2, <1>3, <1>4 DEF ParsePublishPacket, Then
<1>6. Moves(topic)
  BY <1>2, BytesMove, 0 \in Nat, 0 \in Int
<1>7. Moves(id)
  <2>1. CASE Fine(topic)
    <3>1. topic.ptr \in Nat /\ 2 \in Int
      BY <1>6, <2>1, MovesOn
    <3>2. Moves(readPacketBytes(b, topic.ptr, 2)) /\ Moves(Got(<<0, 0>>, topic.ptr))
      BY <3>1, BytesMove, MovesOn
    <3> QED BY <1>3, <2>1, <3>2
  <2>2. CASE ~Fine(topic)
    BY <1>3, <1>6, <2>2
  <2> QED BY <2>1, <2>2
<1>8. Moves(data)
  <2>1. CASE Fine(id)
    <3>1. id.ptr \in Nat /\ 2 \in Int
      BY <1>7, <2>1, MovesOn
    <3>2. Moves(readPacketResumeByte(b, id.ptr)) /\ Moves(Got(<<>>, id.ptr))
      BY <3>1, BytesMove, MovesOn
    <3> QED BY <1>4, <2>1, <3>2
  <2>2. CASE ~Fine(id)
    BY <1>4, <1>7, <2>2
  <2> QED BY <2>1, <2>2
<1>9. data.is # "panic" /\ Error.is # "panic" /\ \A v : \A p : Got(v, p).is # "panic"
  BY <1>8, MovesOn, GotIs DEF Error
<1> QED BY <1>5, <1>9

\* No body makes the parser of CONNECT read beyond its end (internal/packet/connect.go).
THEOREM ConnectNeverPanics ==
    ASSUME NEW b \in Seq(Nat)
    PROVE  /\ ParseConnectPacket(b).is # "panic"
           /\ ParseConnectPacket(b).is = "error" => ParseConnectPacket(b).resp \in Answers
<1>1. PICK name : name = readPacketPayload(b, 0)
  OBVIOUS
<1>2. PICK version : version = ConnectVersion(b, name)
  OBVIOUS
<1>3. PICK flags : flags = ConnectFlags(b, version)
  OBVIOUS
<1>4. PICK flag : flag = ConnectPacketFlag(flags.value)
  OBVIOUS
<1>5. PICK alive : alive = ConnectKeepAlive(b, flags, flag)
  OBVIOUS
<1>6. PICK id : id = ConnectIdentifier(b, alive)
  OBVIOUS
<1>7. PICK topic : topic = ConnectTopic(b, id, flag)
  OBVIOUS
<1>8. PICK content : content = ConnectField(b, topic, flag.WillMessageFlag)
  OBVIOUS
<1>9. PICK user : user = ConnectField(b, content, flag.UsernameFlag)
  OBVIOUS
<1>10. PICK pass : pass = ConnectField(b, user, flag.PasswordFlag)
  OBVIOUS
<1>11. ParseConnectPacket(b) =
         IF Fine(pass)
         THEN Got([ClientIdentifier |-> id.value, CleanSession |-> flag.CleanSession,
                   KeepAlive |-> Uint16(alive.value), WillMessageTopic |-> topic.value,
                   WillMessageContent |-> content.value, UsernamePayload |-> user.value,
                   PasswordPayload |-> pass.value], pass.ptr)
         ELSE pass
  BY ONLY <1>1, <1>2, <1>3, <1>4, <1>5, <1>6, <1>7, <1>8, <1>9, <1>10 DEF ParseConnectPacket, Then
<1>12. ASSUME NEW p \in Nat
       PROVE  /\ Moves(readPacketBytes(b, p, 2)) /\ Moves(readPacketByte(b, p))
              /\ Moves(readPacketPayload(b, p)) /\ \A there : Moves(Optional(there, b, p))
              /\ Moves(Error) /\ \A code \in Refusals : Moves(Refused(code))
  <2>1. 2 \in Int
    OBVIOUS
  <2> QED BY <2>1, BytesMove, MovesOn
<1>13. \A r : Moves(r) /\ Fine(r) => r.ptr \in Nat
  BY MovesOn
<1>14. Moves(name)
  BY <1>1, <1>12, 0 \in Nat
<1>15. Moves(version)
  BY <1>2, <1>12, <1>13, <1>14 DEF ConnectVersion, Then
<1>16. Moves(flags)
  BY <1>3, <1>12, <1>13, <1>15 DEF ConnectFlags, Then, Refusals
<1>17. Moves(alive)
  BY <1>5, <1>12, <1>13, <1>16 DEF ConnectKeepAlive, Then
<1>18. Moves(id)
  BY <1>6, <1>12, <1>13, <1>17 DEF ConnectIdentifier, Then
<1>19. Moves(topic)
  BY <1>7, <1>12, <1>13, <1>18 DEF ConnectTopic, Then, Refusals
<1>20. Moves(content)
  BY <1>8, <1>12, <1>13, <1>19 DEF ConnectField, Then
<1>21. Moves(user)
  BY <1>9, <1>12, <1>13, <1>20 DEF ConnectField, Then
<1>22. Moves(pass)
  BY <1>10, <1>12, <1>13, <1>21 DEF ConnectField, Then
<1>23. /\ pass.is # "panic" /\ \A v : \A p : Got(v, p).is # "panic" /\ Got(v, p).is # "error"
       /\ pass.is = "error" => pass.resp \in Answers
  BY <1>22, MovesOn, GotIs
<1> QED BY <1>11, <1>23

-----------------------------------------------------------------------------
(***************************************************************************)
(* CONNECT.                                                                *)
(***************************************************************************)
\* The powers of two that the flags need.
LEMMA Pows == 2^0 = 1 /\ 2^1 = 2 /\ 2^2 = 4 /\ 2^3 = 8 /\ 2^5 = 32 /\ 2^6 = 64 /\ 2^7 = 128
OBVIOUS

\* The flags of CONNECT as the client sets them.
ConnectBits(u, p, w, c) == Flag(u # <<>>, 128) + Flag(p # <<>>, 64) + Flag(w # <<>>, 4) + Flag(c, 2)

\* What the parser is to make of them.
FlagsSay(flag, u, p, w, c) ==
    /\ (flag.UsernameFlag <=> u # <<>>)
    /\ (flag.PasswordFlag <=> p # <<>>)
    /\ (flag.WillMessageFlag <=> w # <<>>)
    /\ ~flag.RemainFlag /\ flag.QoSLevel = 0 /\ flag.CleanSession = c

\* ConnectPacketFlag finds the flags as they were set.
LEMMA FlagsRead ==
    ASSUME NEW u, NEW p, NEW w, NEW c \in BOOLEAN
    PROVE  /\ ConnectBits(u, p, w, c) \in Nat
           /\ FlagsSay(ConnectPacketFlag(ConnectBits(u, p, w, c)), u, p, w, c)
<1>0. PICK f : f = ConnectBits(u, p, w, c)
  OBVIOUS
<1> DEFINE a == Flag(u # <<>>, 128)
           b == Flag(p # <<>>, 64)
           d == Flag(w # <<>>, 4)
           e == Flag(c, 2)
<1>1. /\ a \in {0, 128} /\ (a = 128 <=> u # <<>>) /\ b \in {0, 64} /\ (b = 64 <=> p # <<>>)
      /\ d \in {0, 4} /\ (d = 4 <=> w # <<>>) /\ e \in {0, 2} /\ (e = 2 <=> c)
  BY DEF Flag
<1>2. f = a + b + d + e
  BY <1>0 DEF ConnectBits
<1> HIDE DEF a, b, d, e
<1>3. /\ f \in Nat
      /\ ((f \div 128) % 2 = 1 <=> a = 128) /\ ((f \div 64) % 2 = 1 <=> b = 64)
      /\ ((f \div 4) % 2 = 1 <=> d = 4) /\ ((f \div 2) % 2 = 1 <=> e = 2)
      /\ (f \div 32) % 2 = 0 /\ (f \div 8) % 4 = 0
  <2>1. a \in {0, 128} /\ b \in {0, 64} /\ d \in {0, 4} /\ e \in {0, 2}
    BY <1>1
  <2> QED BY ONLY <2>1, <1>2
<1>4. /\ (Bit(f, 7) <=> u # <<>>) /\ (Bit(f, 6) <=> p # <<>>) /\ (Bit(f, 2) <=> w # <<>>)
      /\ (Bit(f, 1) <=> c) /\ ~Bit(f, 5) /\ Bits(f, 3) = 0
      /\ Bit(f, 1) \in BOOLEAN
  BY <1>1, <1>3, Pows DEF Bit, Bits
<1>5. PICK flag : flag = ConnectPacketFlag(f)
  OBVIOUS
<1>6. /\ flag.UsernameFlag = Bit(f, 7) /\ flag.PasswordFlag = Bit(f, 6) /\ flag.RemainFlag = Bit(f, 5)
      /\ flag.QoSLevel = Bits(f, 3) /\ flag.WillMessageFlag = Bit(f, 2) /\ flag.CleanSession = Bit(f, 1)
  BY <1>5 DEF ConnectPacketFlag
<1>7. FlagsSay(flag, u, p, w, c)
  BY <1>4, <1>6 DEF FlagsSay
<1> QED BY <1>0, <1>3, <1>5, <1>7

\* A field that is there unless it is empty.
Maybe(x) == When(x # <<>>, Field(x))

\* An optional field is found when it is there, and is empty when it is not.
LEMMA OptionalRead ==
    ASSUME NEW b \in Seq(Nat), NEW p \in Nat, NEW x \in Seq(Nat), NEW there, there <=> x # <<>>,
           Holds(b, p, Maybe(x))
    PROVE  Optional(there, b, p) = Got(x, p + Len(Maybe(x)))
<1>1. PICK fx : fx = Field(x)
  OBVIOUS
<1>2. fx \in Seq(Nat) /\ Len(fx) = 2 + Len(x) /\ Len(x) \in Nat
  BY <1>1, FieldIs
<1>3. CASE x = <<>>
  <2>1. Maybe(x) = <<>> /\ Len(<<>>) = 0
    BY <1>3 DEF When, Maybe
  <2>2. Optional(there, b, p) = Got(<<>>, p)
    BY <1>3 DEF Optional
  <2>3. p + Len(Maybe(x)) = p
    BY <2>1
  <2> QED BY <1>3, <2>2, <2>3
<1>4. CASE x # <<>>
  <2>1. Maybe(x) = fx
    BY <1>1, <1>4 DEF When, Maybe
  <2>2. Optional(there, b, p) = readPacketPayload(b, p)
    BY <1>4 DEF Optional
  <2>3. readPacketPayload(b, p) = Got(x, p + 2 + Len(x))
    BY <1>1, <2>1, FieldRead
  <2>4. p + 2 + Len(x) = p + Len(fx)
    <3>1. PICK n : n = Len(fx)
      OBVIOUS
    <3>2. n = 2 + Len(x)
      BY <1>2, <3>1
    <3> QED BY <1>2, <3>1, <3>2
  <2> QED BY <2>1, <2>2, <2>3, <2>4
<1> QED BY <1>3, <1>4

\* A will is a topic and a content; it is there unless its topic is empty.
Will(x, y) == When(x # <<>>, Field(x) \o Field(y))

\* The body of a CONNECT is seven parts.
LEMMA Bodies ==
    ASSUME NEW g, NEW id \in Seq(Nat), g.keepAlive \in Nat, g.clean \in BOOLEAN,
           g.topic \in Seq(Nat), g.content \in Seq(Nat), g.user \in Seq(Nat), g.password \in Seq(Nat)
    PROVE  LET A == Field(ProtocolName)
               B == <<4, ConnectBits(g.user, g.password, g.topic, g.clean)>>
               C == Two(g.keepAlive)
               D == Field(id)
               E == Will(g.topic, g.content)
               F == Maybe(g.user)
               G == Maybe(g.password)
           IN  /\ ConnectBody(g, id) = A \o B \o C \o D \o E \o F \o G
               /\ A \in Seq(Nat) /\ B \in Seq(Nat) /\ C \in Seq(Nat) /\ D \in Seq(Nat)
               /\ E \in Seq(Nat) /\ F \in Seq(Nat) /\ G \in Seq(Nat)
<1>1. \A x \in Seq(Nat) : Field(x) \in Seq(Nat)
  BY FieldIs
<1>2. ProtocolName \in Seq(Nat) /\ Two(g.keepAlive) \in Seq(Nat) /\ <<>> \in Seq(Nat)
  BY PacketsAssumption, SixteenBits
<1>3. ConnectBits(g.user, g.password, g.topic, g.clean) \in Nat
  BY FlagsRead
<1>4. <<4, ConnectBits(g.user, g.password, g.topic, g.clean)>> \in Seq(Nat)
  BY <1>3
<1>5. Field(g.topic) \o Field(g.content) \in Seq(Nat)
  <2>1. Field(g.topic) \in Seq(Nat) /\ Field(g.content) \in Seq(Nat)
    BY <1>1
  <2> QED BY <2>1, Joint
<1>6. \A there : \A x \in Seq(Nat) : When(there, x) \in Seq(Nat)
  BY <1>2 DEF When
<1>7. ConnectBody(g, id) =
        Field(ProtocolName) \o <<4, ConnectBits(g.user, g.password, g.topic, g.clean)>>
        \o Two(g.keepAlive) \o Field(id)
        \o When(g.topic # <<>>, Field(g.topic) \o Field(g.content))
        \o When(g.user # <<>>, Field(g.user)) \o When(g.password # <<>>, Field(g.password))
  BY DEF ConnectBody, ConnectBits
<1>8. \A x \in Seq(Nat) : Maybe(x) \in Seq(Nat)
  BY <1>1, <1>6 DEF Maybe
<1> QED BY <1>1, <1>2, <1>4, <1>5, <1>6, <1>7, <1>8 DEF Maybe, Will

\* b is seven parts, one after the other.
Sevenfold(b, A, B, C, D, E, F, G) ==
    /\ Holds(b, 0, A) /\ Holds(b, Len(A), B) /\ Holds(b, Len(A) + Len(B), C)
    /\ Holds(b, Len(A) + Len(B) + Len(C), D)
    /\ Holds(b, Len(A) + Len(B) + Len(C) + Len(D), E)
    /\ Holds(b, Len(A) + Len(B) + Len(C) + Len(D) + Len(E), F)
    /\ Holds(b, Len(A) + Len(B) + Len(C) + Len(D) + Len(E) + Len(F), G)

\* Where the seven parts lie.
LEMMA HoldsSeven ==
    ASSUME NEW b \in Seq(Nat),
           NEW A \in Seq(Nat), NEW B \in Seq(Nat), NEW C \in Seq(Nat), NEW D \in Seq(Nat),
           NEW E \in Seq(Nat), NEW F \in Seq(Nat), NEW G \in Seq(Nat),
           b = A \o B \o C \o D \o E \o F \o G
    PROVE  Sevenfold(b, A, B, C, D, E, F, G)
<1> DEFINE b1 == A \o B
           b2 == b1 \o C
           b3 == b2 \o D
           b4 == b3 \o E
           b5 == b4 \o F
           b6 == b5 \o G
<1>1. b1 \in Seq(Nat) /\ Len(b1) = Len(A) + Len(B)
  BY Joint
<1>2. ASSUME NEW x \in Seq(Nat), NEW y \in Seq(Nat), Holds(b, 0, x \o y)
      PROVE  Holds(b, 0, x) /\ Holds(b, Len(x), y)
  <2>1. PICK p \in Nat : p = 0
    OBVIOUS
  <2>2. Holds(b, p, x) /\ Holds(b, p + Len(x), y)
    BY ONLY <1>2, <2>1, HoldsConcat, b \in Seq(Nat), x \in Seq(Nat), y \in Seq(Nat)
  <2>3. p + Len(x) = Len(x)
    BY <2>1
  <2> QED BY <2>1, <2>2, <2>3
<1> HIDE DEF b1
<1>3. b2 \in Seq(Nat) /\ Len(b2) = Len(b1) + Len(C)
  BY <1>1, Joint
<1> HIDE DEF b2
<1>4. b3 \in Seq(Nat) /\ Len(b3) = Len(b2) + Len(D)
  BY <1>3, Joint
<1> HIDE DEF b3
<1>5. b4 \in Seq(Nat) /\ Len(b4) = Len(b3) + Len(E)
  BY <1>4, Joint
<1> HIDE DEF b4
<1>6. b5 \in Seq(Nat) /\ Len(b5) = Len(b4) + Len(F)
  BY <1>5, Joint
<1> HIDE DEF b5
<1>7. b6 \in Seq(Nat) /\ b = b6
  <2>1. b6 \in Seq(Nat)
    BY <1>6, Joint
  <2>2. b = b6
    BY DEF b1, b2, b3, b4, b5
  <2> QED BY <2>1, <2>2
<1>8. Holds(b, 0, b6)
  BY <1>7, HoldsItself
<1>9. Holds(b, 0, b5) /\ Holds(b, Len(b5), G)
  BY <1>2, <1>6, <1>8 DEF b6
<1>10. Holds(b, 0, b4) /\ Holds(b, Len(b4), F)
  BY <1>2, <1>5, <1>9 DEF b5
<1>11. Holds(b, 0, b3) /\ Holds(b, Len(b3), E)
  BY <1>2, <1>4, <1>10 DEF b4
<1>12. Holds(b, 0, b2) /\ Holds(b, Len(b2), D)
  BY <1>2, <1>3, <1>11 DEF b3
<1>13. Holds(b, 0, b1) /\ Holds(b, Len(b1), C)
  BY <1>2, <1>1, <1>12 DEF b2
<1>14. Holds(b, 0, A) /\ Holds(b, Len(A), B)
  BY <1>2, <1>13 DEF b1
<1> QED BY <1>1, <1>3, <1>4, <1>5, <1>6, <1>9, <1>10, <1>11, <1>12, <1>13, <1>14 DEF Sevenfold

\* A pair of bytes.
LEMMA PairRead ==
    ASSUME NEW b \in Seq(Nat), NEW p \in Nat, NEW m \in Nat, NEW n \in Nat, Holds(b, p, <<m, n>>)
    PROVE  readPacketByte(b, p) = Got(m, p + 1) /\ readPacketByte(b, p + 1) = Got(n, p + 2)
<1>1. p + 2 <= Len(b) /\ \A i \in 1..2 : b[p+i] = <<m, n>>[i]
  BY DEF Holds
<1>2. b[p+1] = m /\ b[p+1+1] = n
  <2>1. p + 1 + 1 = p + 2 /\ 1 \in 1..2 /\ 2 \in 1..2
    OBVIOUS
  <2> QED BY <1>1, <2>1
<1>3. ~ (p >= Len(b)) /\ ~ (p + 1 >= Len(b)) /\ p + 1 + 1 = p + 2
  BY <1>1
<1> QED BY <1>2, <1>3 DEF readPacketByte

\* The will is found, or nothing is when there is none.
WillFound(there, b, p, x, y) ==
    \E q \in Nat : /\ Optional(there, b, p) = Got(x, q)
                   /\ Optional(there, b, q) = Got(y, p + Len(Will(x, y)))

\* The two fields of a will are read together or not at all.
LEMMA WillRead ==
    ASSUME NEW b \in Seq(Nat), NEW p \in Nat, NEW x \in Seq(Nat), NEW y \in Seq(Nat),
           x = <<>> => y = <<>>,
           NEW there, there <=> x # <<>>,
           Holds(b, p, Will(x, y))
    PROVE  WillFound(there, b, p, x, y)
<1> DEFINE z == Will(x, y)
<1>0. PICK fx, fy : fx = Field(x) /\ fy = Field(y)
  OBVIOUS
<1>1. /\ fx \in Seq(Nat) /\ Len(fx) = 2 + Len(x) /\ Len(x) \in Nat
      /\ fy \in Seq(Nat) /\ Len(fy) = 2 + Len(y) /\ Len(y) \in Nat
  BY <1>0, FieldIs
<1>2. CASE x = <<>>
  <2>1. z = <<>> /\ Len(<<>>) = 0 /\ y = <<>>
    BY <1>2 DEF When, Will
  <2>2. Optional(there, b, p) = Got(<<>>, p)
    BY <1>2 DEF Optional
  <2>3. p + Len(z) = p
    BY <2>1
  <2> QED BY <1>2, <2>1, <2>2, <2>3 DEF WillFound
<1>3. CASE x # <<>>
  <2>1. z = fx \o fy
    BY <1>0, <1>3 DEF When, Will
  <2>2. \A q : Optional(there, b, q) = readPacketPayload(b, q)
    BY <1>3 DEF Optional
  <2>3. Holds(b, p, fx) /\ Holds(b, p + Len(fx), fy)
    <3>1. Holds(b, p, fx \o fy)
      BY <2>1
    <3> QED BY ONLY <1>1, <3>1, HoldsConcat, b \in Seq(Nat), p \in Nat
  <2>4. Len(z) = Len(fx) + Len(fy)
    <3>1. Len(fx \o fy) = Len(fx) + Len(fy)
      BY ONLY <1>1, Joint
    <3> QED BY <2>1, <3>1
  <2>5. PICK q : q = p + 2 + Len(x)
    OBVIOUS
  <2>6. q \in Nat /\ p + Len(fx) = q /\ q + 2 + Len(y) = p + Len(z)
    <3>1. PICK m, n : m = Len(fx) /\ n = Len(fy)
      OBVIOUS
    <3>2. m = 2 + Len(x) /\ n = 2 + Len(y) /\ Len(z) = m + n
      BY <1>1, <2>4, <3>1
    <3>3. q \in Nat /\ p + m = q /\ q + 2 + Len(y) = p + (m + n)
      BY ONLY <3>2, <2>5, <1>1, p \in Nat
    <3> QED BY <3>1, <3>2, <3>3
  <2>7. readPacketPayload(b, p) = Got(x, q)
    BY <1>0, <2>3, <2>5, FieldRead
  <2>8. Holds(b, q, Field(y)) /\ q \in Nat
    BY <1>0, <2>3, <2>6
  <2>9. readPacketPayload(b, q) = Got(y, q + 2 + Len(y))
    BY <2>8, FieldRead
  <2> QED BY <2>2, <2>6, <2>7, <2>9 DEF WillFound
<1> QED BY <1>2, <1>3

\* What a client puts in its CONNECT is what the handshake finds there.
THEOREM ConnectBodyRead ==
    ASSUME NEW g, NEW id \in Seq(Nat), id # <<>>, g.keepAlive \in Nat, g.clean \in BOOLEAN,
           g.topic \in Seq(Nat), g.content \in Seq(Nat), g.user \in Seq(Nat), g.password \in Seq(Nat),
           g.topic = <<>> => g.content = <<>>
    PROVE  \E p : ParseConnectPacket(ConnectBody(g, id)) = Got(Claim(g, id), p)
<1> DEFINE k == ConnectBits(g.user, g.password, g.topic, g.clean)
<1>1. PICK b, A, B, C, D, E, F, G :
         /\ A = Field(ProtocolName)
         /\ B = <<4, k>>
         /\ C = Two(g.keepAlive)
         /\ D = Field(id)
         /\ E = Will(g.topic, g.content)
         /\ F = Maybe(g.user)
         /\ G = Maybe(g.password)
         /\ b = ConnectBody(g, id)
  OBVIOUS
<1>2. /\ b = A \o B \o C \o D \o E \o F \o G
      /\ A \in Seq(Nat) /\ B \in Seq(Nat) /\ C \in Seq(Nat) /\ D \in Seq(Nat)
      /\ E \in Seq(Nat) /\ F \in Seq(Nat) /\ G \in Seq(Nat)
  BY <1>1, Bodies
<1>3. PICK a, c, d, e, f, h :
         a = Len(A) /\ c = Len(B) /\ d = Len(C) /\ e = Len(D) /\ f = Len(E) /\ h = Len(F)
  OBVIOUS
<1>4. a \in Nat /\ c \in Nat /\ d \in Nat /\ e \in Nat /\ f \in Nat /\ h \in Nat
  BY <1>2, <1>3
<1> DEFINE p1 == a
           p2 == a + c
           p3 == a + c + d
           p4 == a + c + d + e
           p5 == a + c + d + e + f
           p6 == a + c + d + e + f + h
<1>5. b \in Seq(Nat)
  <2>1. \A x, y \in Seq(Nat) : x \o y \in Seq(Nat)
    BY Joint
  <2>2. A \o B \in Seq(Nat)
    BY <1>2, <2>1
  <2>3. A \o B \o C \in Seq(Nat)
    BY <1>2, <2>1, <2>2
  <2>4. A \o B \o C \o D \in Seq(Nat)
    BY <1>2, <2>1, <2>3
  <2>5. A \o B \o C \o D \o E \in Seq(Nat)
    BY <1>2, <2>1, <2>4
  <2>6. A \o B \o C \o D \o E \o F \in Seq(Nat)
    BY <1>2, <2>1, <2>5
  <2> QED BY <1>2, <2>1, <2>6
<1>6. /\ Holds(b, 0, A) /\ Holds(b, p1, B) /\ Holds(b, p2, C) /\ Holds(b, p3, D)
      /\ Holds(b, p4, E) /\ Holds(b, p5, F) /\ Holds(b, p6, G)
  <2>1. Sevenfold(b, A, B, C, D, E, F, G)
    BY ONLY <1>2, <1>5, HoldsSeven
  <2> QED BY <1>3, <2>1 DEF Sevenfold
<1>7. k \in Nat /\ FlagsSay(ConnectPacketFlag(k), g.user, g.password, g.topic, g.clean)
  BY FlagsRead
<1> HIDE DEF k
<1>33. /\ p1 \in Nat /\ p2 \in Nat /\ p3 \in Nat /\ p4 \in Nat /\ p5 \in Nat /\ p6 \in Nat
       /\ p2 = p1 + c /\ p3 = p2 + d /\ p4 = p3 + e /\ p5 = p4 + f /\ p6 = p5 + h
  BY ONLY <1>4
<1> HIDE DEF p2, p3, p4, p5, p6
<1>8. /\ Len(A) = 2 + Len(ProtocolName) /\ Len(B) = 2 /\ Len(C) = 2 /\ Len(D) = 2 + Len(id)
      /\ ProtocolName \in Seq(Nat)
  <2>1. ProtocolName \in Seq(Nat)
    BY PacketsAssumption
  <2>2. Len(Field(ProtocolName)) = 2 + Len(ProtocolName) /\ Len(Field(id)) = 2 + Len(id)
    BY <2>1, FieldIs
  <2>3. Len(Two(g.keepAlive)) = 2
    BY SixteenBits
  <2> QED BY <1>1, <2>1, <2>2, <2>3
<1>9. PICK name : name = readPacketPayload(b, 0)
  OBVIOUS
<1>10. name = Got(ProtocolName, p1)
  <2>1. 0 \in Nat /\ Holds(b, 0, Field(ProtocolName)) /\ 0 + 2 + Len(ProtocolName) = p1
    BY <1>1, <1>3, <1>4, <1>6, <1>8
  <2> QED BY <1>5, <1>8, <1>9, <2>1, FieldRead
<1>11. PICK version : version = ConnectVersion(b, name)
  OBVIOUS
<1>12. version = Got(4, p1 + 1) /\ readPacketByte(b, p1 + 1) = Got(k, p2)
  <2>1. readPacketByte(b, p1) = Got(4, p1 + 1) /\ readPacketByte(b, p1 + 1) = Got(k, p1 + 2)
    BY <1>1, <1>33, <1>5, <1>6, <1>7, PairRead
  <2>2. p1 + 2 = p2
    BY <1>3, <1>8, <1>33
  <2> QED BY <1>10, <1>11, <2>1, <2>2, GotIs DEF ConnectVersion, Then
<1>13. PICK flags : flags = ConnectFlags(b, version)
  OBVIOUS
<1>14. flags = Got(k, p2)
  BY <1>12, <1>13, GotIs DEF ConnectFlags, Then
<1>15. PICK flag : flag = ConnectPacketFlag(flags.value)
  OBVIOUS
<1>16. /\ (flag.UsernameFlag <=> g.user # <<>>)
       /\ (flag.PasswordFlag <=> g.password # <<>>)
       /\ (flag.WillMessageFlag <=> g.topic # <<>>)
       /\ ~flag.RemainFlag /\ flag.QoSLevel = 0 /\ flag.CleanSession = g.clean
  <2>1. flag = ConnectPacketFlag(k)
    BY <1>14, <1>15, GotIs
  <2>2. FlagsSay(flag, g.user, g.password, g.topic, g.clean)
    BY <1>7, <2>1
  <2> QED BY ONLY <2>2, Zenon DEF FlagsSay
<1>17. PICK alive : alive = ConnectKeepAlive(b, flags, flag)
  OBVIOUS
<1>18. alive = Got(Two(g.keepAlive), p3) /\ Uint16(alive.value) = g.keepAlive
  <2>1. readPacketBytes(b, p2, 2) = Got(Two(g.keepAlive), p2 + 2)
    BY <1>1, <1>33, <1>5, <1>6, TwoRead
  <2>2. p2 + 2 = p3
    BY <1>3, <1>8, <1>33
  <2>3. Uint16(Two(g.keepAlive)) = g.keepAlive
    BY SixteenBits
  <2>4. alive = readPacketBytes(b, p2, 2)
    BY <1>14, <1>16, <1>17, GotIs DEF ConnectKeepAlive, Then
  <2> QED BY <2>1, <2>2, <2>3, <2>4, GotIs
<1>19. PICK i : i = ConnectIdentifier(b, alive)
  OBVIOUS
<1>20. i = Got(id, p4)
  <2>1. readPacketPayload(b, p3) = Got(id, p3 + 2 + Len(id))
    BY <1>1, <1>33, <1>5, <1>6, FieldRead
  <2>2. p3 + 2 + Len(id) = p4
    <3>1. PICK n \in Nat : n = Len(id)
      OBVIOUS
    <3>2. e = 2 + n
      BY <1>3, <1>8, <3>1
    <3> QED BY <1>4, <1>33, <3>1, <3>2
  <2> QED BY <1>18, <1>19, <2>1, <2>2, GotIs DEF ConnectIdentifier, Then
<1>21. PICK q \in Nat : /\ Optional(flag.WillMessageFlag, b, p4) = Got(g.topic, q)
                        /\ Optional(flag.WillMessageFlag, b, q) = Got(g.content, p5)
  <2>1. PICK there : there = flag.WillMessageFlag
    OBVIOUS
  <2>2. there <=> g.topic # <<>>
    BY <1>16, <2>1
  <2>3. Holds(b, p4, Will(g.topic, g.content))
    BY <1>1, <1>6
  <2>4. WillFound(there, b, p4, g.topic, g.content)
    BY <1>33, <1>5, <2>2, <2>3, WillRead
  <2>5. p4 + Len(Will(g.topic, g.content)) = p5
    BY <1>1, <1>3, <1>33
  <2> QED BY <2>1, <2>4, <2>5 DEF WillFound
<1>22. PICK topic : topic = ConnectTopic(b, i, flag)
  OBVIOUS
<1>23. topic = Got(g.topic, q)
  BY <1>20, <1>21, <1>22, GotIs DEF ConnectTopic, Then
<1>24. PICK content : content = ConnectField(b, topic, flag.WillMessageFlag)
  OBVIOUS
<1>25. content = Got(g.content, p5)
  BY <1>21, <1>23, <1>24, GotIs DEF ConnectField, Then
<1>26. PICK user : user = ConnectField(b, content, flag.UsernameFlag)
  OBVIOUS
<1>27. user = Got(g.user, p6)
  <2>1. Optional(flag.UsernameFlag, b, p5) = Got(g.user, p5 + Len(F))
    <3>1. PICK there : there = flag.UsernameFlag
      OBVIOUS
    <3>2. (there <=> g.user # <<>>) /\ Holds(b, p5, Maybe(g.user))
      BY <1>1, <1>6, <1>16, <3>1
    <3>3. Optional(there, b, p5) = Got(g.user, p5 + Len(Maybe(g.user)))
      BY <1>33, <1>5, <3>2, OptionalRead
    <3> QED BY <1>1, <3>1, <3>3
  <2>2. p5 + Len(F) = p6
    BY <1>3, <1>33
  <2>3. Fine(content) /\ content.ptr = p5
    BY <1>25, GotIs
  <2> QED BY <1>26, <2>1, <2>2, <2>3 DEF ConnectField, Then
<1>28. PICK pass : pass = ConnectField(b, user, flag.PasswordFlag)
  OBVIOUS
<1>29. pass = Got(g.password, p6 + Len(G))
  <2>1. Optional(flag.PasswordFlag, b, p6) = Got(g.password, p6 + Len(G))
    <3>1. PICK there : there = flag.PasswordFlag
      OBVIOUS
    <3>2. (there <=> g.password # <<>>) /\ Holds(b, p6, Maybe(g.password))
      BY <1>1, <1>6, <1>16, <3>1
    <3>3. Optional(there, b, p6) = Got(g.password, p6 + Len(Maybe(g.password)))
      BY <1>33, <1>5, <3>2, OptionalRead
    <3> QED BY <1>1, <3>1, <3>3
  <2> QED BY <1>27, <1>28, <2>1, GotIs DEF ConnectField, Then
<1>30. ParseConnectPacket(b) =
         IF Fine(pass)
         THEN Got([ClientIdentifier |-> i.value, CleanSession |-> flag.CleanSession,
                   KeepAlive |-> Uint16(alive.value), WillMessageTopic |-> topic.value,
                   WillMessageContent |-> content.value, UsernamePayload |-> user.value,
                   PasswordPayload |-> pass.value], pass.ptr)
         ELSE pass
  BY ONLY <1>9, <1>11, <1>13, <1>15, <1>17, <1>19, <1>22, <1>24, <1>26, <1>28 DEF ParseConnectPacket, Then
<1>31. ParseConnectPacket(b) = Got(Claim(g, id), p6 + Len(G))
  <2>1. /\ i.value = id /\ flag.CleanSession = g.clean /\ Uint16(alive.value) = g.keepAlive
        /\ topic.value = g.topic /\ content.value = g.content /\ user.value = g.user
        /\ pass.value = g.password /\ pass.ptr = p6 + Len(G) /\ Fine(pass)
    BY <1>16, <1>18, <1>20, <1>23, <1>25, <1>27, <1>29, GotIs
  <2> QED BY ONLY <1>30, <2>1 DEF Claim
<1> QED BY <1>1, <1>31

-----------------------------------------------------------------------------
(***************************************************************************)
(* PUBLISH.                                                                *)
(***************************************************************************)
\* The flags of PUBLISH give its QoS and DUP back.
LEMMA PublishFlags ==
    ASSUME NEW qos \in 0..2, NEW dup \in BOOLEAN, NEW f, f = 2 * qos + Flag(dup, 8)
    PROVE  f \in 0..15 /\ Bits(f, 1) = qos /\ (Bit(f, 3) <=> dup)
<1>1. PICK d : d = Flag(dup, 8)
  OBVIOUS
<1>2. d \in {0, 8} /\ (d = 8 <=> dup)
  BY <1>1 DEF Flag
<1>3. f = 2 * qos + d
  BY <1>1
<1>4. f \in 0..15 /\ (f \div 2) % 4 = qos /\ ((f \div 8) % 2 = 1 <=> d = 8)
  <2>1. d \in {0, 8} /\ qos \in {0, 1, 2}
    BY <1>2
  <2> QED BY ONLY <2>1, <1>3
<1> QED BY <1>2, <1>4, Pows DEF Bit, Bits

\* A PUBLISH is a topic, an identifier if its QoS has one, and a payload.
PublishLaid(b, A, B, C, qos) ==
    /\ A \in Seq(Nat) /\ B \in Seq(Nat) /\ b \in Seq(Nat) /\ Len(B) = IF qos > 0 THEN 2 ELSE 0
    /\ Len(b) = Len(A) + Len(B) + Len(C)
    /\ Holds(b, 0, A) /\ Holds(b, Len(A), B) /\ Holds(b, Len(A) + Len(B), C)

\* The body a client writes is laid out like this.
LEMMA PublishBodyIs ==
    ASSUME NEW topic \in Seq(Nat), NEW qos \in Nat, NEW id \in Nat, NEW payload \in Seq(Nat),
           NEW A, A = Field(topic), NEW B, B = When(qos > 0, Two(id)),
           NEW b, b = A \o B \o payload
    PROVE  PublishLaid(b, A, B, payload, qos)
<1>1. A \in Seq(Nat) /\ Len(A) \in Nat
  BY FieldIs
<1>2. B \in Seq(Nat) /\ Len(B) = (IF qos > 0 THEN 2 ELSE 0)
  <2>1. CASE qos > 0
    <3>1. B = Two(id)
      BY <2>1 DEF When
    <3> QED BY <2>1, <3>1, SixteenBits
  <2>2. CASE ~ (qos > 0)
    <3>1. B = <<>>
      BY <2>2 DEF When
    <3>2. <<>> \in Seq(Nat) /\ Len(<<>>) = 0
      OBVIOUS
    <3>3. (IF qos > 0 THEN 2 ELSE 0) = 0
      BY <2>2
    <3> QED BY ONLY <3>1, <3>2, <3>3
  <2> QED BY <2>1, <2>2
<1>3. PICK c : c = A \o B
  OBVIOUS
<1>4. c \in Seq(Nat) /\ Len(c) = Len(A) + Len(B)
  BY <1>1, <1>2, <1>3, Joint
<1>5. b = c \o payload /\ b \in Seq(Nat)
  BY <1>3, <1>4, Joint
<1>6. Len(b) = Len(c) + Len(payload)
  BY <1>4, <1>5, Joint
<1>7. Holds(b, 0, c) /\ Holds(b, Len(c), payload)
  BY <1>4, <1>5, HoldsTwo
<1>8. PICK z \in Nat : z = 0
  OBVIOUS
<1>9. Holds(b, z, A) /\ Holds(b, z + Len(A), B)
  <2>1. Holds(b, z, A \o B)
    BY <1>3, <1>7, <1>8
  <2> QED BY ONLY <1>1, <1>2, <1>5, <2>1, z \in Nat, HoldsConcat
<1>10. z + Len(A) = Len(A)
  BY <1>1, <1>8
<1> QED BY <1>1, <1>2, <1>4, <1>5, <1>6, <1>7, <1>8, <1>9, <1>10 DEF PublishLaid

\* The payload is all the rest, which may be empty.
LEMMA RestRead ==
    ASSUME NEW b \in Seq(Nat), NEW p \in Nat, NEW x \in Seq(Nat), Holds(b, p, x), Len(b) = p + Len(x)
    PROVE  (IF p < Len(b) THEN readPacketResumeByte(b, p) ELSE Got(<<>>, p)) = Got(x, Len(b))
<1>1. PICK n \in Nat : n = Len(x)
  OBVIOUS
<1>2. Len(b) = p + n
  BY <1>1
<1>3. CASE n = 0
  <2>1. Len(x) = 0
    BY <1>1, <1>3
  <2>2. x = <<>>
    BY <2>1
  <2>3. ~ (p < Len(b)) /\ Len(b) = p
    BY <1>2, <1>3
  <2> QED BY <2>2, <2>3
<1>4. CASE n > 0
  <2>1. p < Len(b) /\ Len(b) - p = n /\ p + n \in Nat
    BY <1>2, <1>4
  <2>2. ~ (n <= 0 \/ p >= Len(b) \/ p + n > Len(b))
    BY <1>2, <1>4, <2>1
  <2>3. readPacketResumeByte(b, p) = Slice(b, p, p + n)
    BY <2>1, <2>2 DEF readPacketResumeByte, readPacketBytes
  <2>4. SubSeq(b, p + 1, p + n) = x
    BY <1>1, SliceHeld
  <2>5. Slice(b, p, p + n) = Got(SubSeq(b, p + 1, p + n), p + n)
    BY <1>2, <2>1, SliceIs
  <2> QED BY <1>2, <2>1, <2>3, <2>4, <2>5
<1> QED BY <1>3, <1>4

\* ParsePublishPacket finds in the body of a PUBLISH what the publisher has put there
\* (internal/packet/publish.go).
THEOREM PublishBodyRead ==
    ASSUME NEW qos \in 0..2, NEW dup \in BOOLEAN, dup => qos > 0,
           NEW topic \in Seq(Nat), NEW id \in Nat, qos = 0 => id = 0, NEW payload \in Seq(Nat),
           NEW p, p = [qos |-> qos, dup |-> dup, topic |-> topic, id |-> id, payload |-> payload]
    PROVE  \E q : ParsePublishPacket(2 * qos + Flag(dup, 8), PublishBody(p, qos, id))
                  = Got([qos |-> qos, topic |-> topic, id |-> id, payload |-> payload], q)
<1>1. PICK A, B, b, f : /\ A = Field(topic) /\ B = When(qos > 0, Two(id)) /\ b = A \o B \o payload
                        /\ f = 2 * qos + Flag(dup, 8)
  OBVIOUS
<1>2. b = PublishBody(p, qos, id)
  BY <1>1 DEF PublishBody
<1>3. qos \in Nat
  OBVIOUS
<1>4. /\ A \in Seq(Nat) /\ B \in Seq(Nat) /\ b \in Seq(Nat) /\ Len(B) = (IF qos > 0 THEN 2 ELSE 0)
      /\ Len(b) = Len(A) + Len(B) + Len(payload)
      /\ Holds(b, 0, A) /\ Holds(b, Len(A), B) /\ Holds(b, Len(A) + Len(B), payload)
  <2>1. PublishLaid(b, A, B, payload, qos)
    BY ONLY <1>1, <1>3, PublishBodyIs, topic \in Seq(Nat), id \in Nat, payload \in Seq(Nat)
  <2> QED BY ONLY <2>1 DEF PublishLaid
<1>5. Bits(f, 1) = qos /\ (Bit(f, 3) <=> dup)
  BY <1>1, PublishFlags
<1>6. PICK a \in Nat, c \in Nat : a = Len(A) /\ c = a + Len(B)
  BY <1>4
<1>7. Holds(b, 0, A) /\ Holds(b, a, B) /\ Holds(b, c, payload) /\ Len(b) = c + Len(payload)
  BY <1>4, <1>6
<1>8. c = (IF qos > 0 THEN a + 2 ELSE a)
  BY <1>4, <1>6
<1>9. PICK t : t = readPacketPayload(b, 0)
  OBVIOUS
<1>10. t = Got(topic, a)
  <2>1. PICK n \in Nat : n = Len(topic)
    OBVIOUS
  <2>2. a = 2 + n
    BY <1>1, <1>6, <2>1, FieldIs
  <2>3. PICK z \in Nat : z = 0
    OBVIOUS
  <2>4. Holds(b, z, Field(topic))
    BY <1>1, <1>7, <2>3
  <2>5. readPacketPayload(b, z) = Got(topic, z + 2 + Len(topic))
    BY ONLY <1>4, <2>4, FieldRead, z \in Nat, topic \in Seq(Nat)
  <2>6. z + 2 + Len(topic) = a
    BY <2>1, <2>2, <2>3
  <2> QED BY <1>9, <2>3, <2>5, <2>6
<1>11. PICK i : i = IF Fine(t) THEN (IF qos > 0 THEN readPacketBytes(b, t.ptr, 2) ELSE Got(<<0, 0>>, t.ptr)) ELSE t
  OBVIOUS
<1>12. i = Got(IF qos > 0 THEN Two(id) ELSE <<0, 0>>, c)
  <2>1. CASE qos > 0
    <3>1. Holds(b, a, Two(id))
      BY <1>1, <1>7, <2>1 DEF When
    <3>2. readPacketBytes(b, a, 2) = Got(Two(id), a + 2)
      BY <1>4, <3>1, TwoRead
    <3> QED BY <1>8, <1>10, <1>11, <2>1, <3>2, GotIs
  <2>2. CASE ~ (qos > 0)
    BY <1>8, <1>10, <1>11, <2>2, GotIs
  <2> QED BY <2>1, <2>2
<1>13. Uint16(i.value) = id /\ i.ptr = c /\ Fine(i)
  <2>1. Uint16(Two(id)) = id /\ Uint16(<<0, 0>>) = 0
    <3>1. Byte \in Nat
      BY SixteenBits, 0 \in Nat
    <3>2. Byte * 0 + 0 = 0
      BY <3>1
    <3> QED BY <3>2, SixteenBits DEF Uint16
  <2>2. ~ (qos > 0) => id = 0
    OBVIOUS
  <2> QED BY <1>12, <2>1, <2>2, GotIs
<1>14. PICK d : d = IF Fine(i) THEN (IF i.ptr < Len(b) THEN readPacketResumeByte(b, i.ptr) ELSE Got(<<>>, i.ptr)) ELSE i
  OBVIOUS
<1>15. d = Got(payload, Len(b))
  <2>1. d = IF c < Len(b) THEN readPacketResumeByte(b, c) ELSE Got(<<>>, c)
    BY <1>13, <1>14
  <2> QED BY <1>4, <1>7, <2>1, RestRead
<1>16. ParsePublishPacket(f, b) =
      IF (qos = 0 /\ Bit(f, 3)) \/ qos = 3 THEN Error
      ELSE IF Fine(d)
           THEN Got([qos |-> qos, topic |-> t.value, id |-> Uint16(i.value), payload |-> d.value], d.ptr)
           ELSE d
  BY ONLY <1>5, <1>9, <1>11, <1>14 DEF ParsePublishPacket, Then
<1>17. ~ ((qos = 0 /\ Bit(f, 3)) \/ qos = 3)
  BY <1>5
<1>18. Fine(d) /\ d.value = payload /\ t.value = topic
  BY <1>10, <1>15, GotIs
<1> QED BY <1>1, <1>2, <1>13, <1>16, <1>17, <1>18

-----------------------------------------------------------------------------
(***************************************************************************)
(* SUBSCRIBE and UNSUBSCRIBE: the loop over the entries.                   *)
(***************************************************************************)
\* What a reader of bytes may yield that has not failed in a way of Go's.
Outcome(V) == {Error} \cup {Got(v, q) : v \in V, q \in Nat}

\* A value or an error, and nothing else.
LEMMA OutcomeIs ==
    ASSUME NEW V, NEW r \in Outcome(V)
    PROVE  /\ Moves(r) /\ (Fine(r) => r.value \in V /\ r.ptr \in Nat /\ r = Got(r.value, r.ptr))
           /\ (~Fine(r) => r = Error)
<1>1. CASE r = Error
  BY <1>1, GotIs, MovesOn
<1>2. ASSUME NEW v \in V, NEW q \in Nat, r = Got(v, q) PROVE Moves(r) /\ Fine(r) /\ r.value \in V /\ r.ptr \in Nat /\ r = Got(r.value, r.ptr)
  BY <1>2, GotIs, MovesOn
<1> QED BY <1>1, <1>2 DEF Outcome

\* readPacketPayload yields such an outcome.
LEMMA PayloadYields ==
    ASSUME NEW b \in Seq(Nat), NEW p \in Nat
    PROVE  readPacketPayload(b, p) \in Outcome(Seq(Nat))
<1>1. CASE p + 2 <= Len(b)
  <2>1. PICK e : e = Ends(b, p)
    OBVIOUS
  <2>2. e \in Nat
    <3>1. SubSeq(b, p + 1, p + 2) \in Seq(Nat) /\ Len(SubSeq(b, p + 1, p + 2)) = 2
      BY <1>1, Slices
    <3>2. Uint16(SubSeq(b, p + 1, p + 2)) \in Nat
      BY <3>1, UintIs
    <3> QED BY <2>1, <3>2 DEF Ends
  <2>3. readPacketPayload(b, p) = IF e > Len(b) THEN Error ELSE Slice(b, p + 2, e)
    BY <1>1, <2>1, PayloadIs
  <2>4. CASE e > Len(b)
    BY <2>3, <2>4 DEF Outcome
  <2>5. CASE ~(e > Len(b))
    <3>1. PICK x : x = SubSeq(b, (p + 2) + 1, e)
      OBVIOUS
    <3>2. e <= Len(b)
      BY <2>2, <2>5
    <3>3. readPacketPayload(b, p) = Got(x, e)
      BY <2>2, <2>3, <2>5, <3>1, <3>2, SliceIs
    <3>4. x \in Seq(Nat)
      <4>1. \A i \in (p + 2) + 1..e : i \in 1..Len(b)
        BY <2>2, <3>2
      <4> QED BY <2>2, <3>1, <4>1, SubSeqProperties
    <3> QED BY <2>2, <3>3, <3>4 DEF Outcome
  <2> QED BY <2>4, <2>5
<1>2. CASE ~(p + 2 <= Len(b))
  <2>1. p + 1 >= Len(b)
    BY <1>2
  <2> QED BY <2>1 DEF readPacketPayload, Outcome
<1> QED BY <1>1, <1>2

\* readPacketByte yields such an outcome.
LEMMA ByteYields ==
    ASSUME NEW b \in Seq(Nat), NEW p \in Nat
    PROVE  readPacketByte(b, p) \in Outcome(Nat)
<1>1. CASE p >= Len(b)
  BY <1>1 DEF readPacketByte, Outcome
<1>2. CASE ~(p >= Len(b))
  <2>1. p + 1 \in 1..Len(b) /\ p + 1 \in Nat /\ b[p+1] \in Nat
    BY <1>2
  <2>2. PICK n : n = b[p+1]
    OBVIOUS
  <2>3. readPacketByte(b, p) = Got(n, p + 1)
    BY <1>2, <2>2 DEF readPacketByte
  <2> QED BY <2>1, <2>2, <2>3 DEF Outcome
<1> QED BY <1>1, <1>2

\* A filter as the parser yields it.
Subscribed == [topic : Seq(Nat), qos : Nat]

\* So does an entry of SUBSCRIBE.
LEMMA SubscribeEntryYields ==
    ASSUME NEW b \in Seq(Nat), NEW p \in Nat
    PROVE  SubscribeEntry(b, p) \in Outcome(Subscribed)
<1>1. PICK filter : filter = readPacketPayload(b, p)
  OBVIOUS
<1>2. PICK qos : qos = IF Fine(filter) THEN readPacketByte(b, filter.ptr) ELSE filter
  OBVIOUS
<1>3. SubscribeEntry(b, p) = IF Fine(qos) THEN Got([topic |-> filter.value, qos |-> GrantedQoS(qos.value)], qos.ptr) ELSE qos
  BY ONLY <1>1, <1>2 DEF SubscribeEntry, Then
<1>4. filter \in Outcome(Seq(Nat))
  BY <1>1, PayloadYields
<1>5. CASE ~Fine(filter)
  <2>1. qos = Error /\ ~Fine(qos)
    BY <1>2, <1>4, <1>5, OutcomeIs
  <2> QED BY <1>3, <2>1 DEF Outcome
<1>6. CASE Fine(filter)
  <2>1. filter.ptr \in Nat /\ filter.value \in Seq(Nat)
    BY <1>4, <1>6, OutcomeIs
  <2>2. qos \in Outcome(Nat)
    BY <1>2, <1>6, <2>1, ByteYields
  <2>3. CASE ~Fine(qos)
    <3>1. SubscribeEntry(b, p) = Error
      BY <1>3, <2>2, <2>3, OutcomeIs
    <3> QED BY <3>1 DEF Outcome
  <2>4. CASE Fine(qos)
    <3>1. qos.value \in Nat /\ qos.ptr \in Nat
      BY <2>2, <2>4, OutcomeIs
    <3>2. GrantedQoS(qos.value) \in Nat
      BY <3>1 DEF GrantedQoS
    <3>3. [topic |-> filter.value, qos |-> GrantedQoS(qos.value)] \in Subscribed
      BY <2>1, <3>2 DEF Subscribed
    <3> QED BY <1>3, <2>4, <3>1, <3>3 DEF Outcome
  <2> QED BY <2>3, <2>4
<1> QED BY <1>5, <1>6

\* A value makes an outcome.
LEMMA OutcomeMade == \A V : \A v \in V : \A q \in Nat : Got(v, q) \in Outcome(V)
BY DEF Outcome

\* A turn of the loop over entries, where E holds what the entry at an offset yields.
TurnOf(b, before, E) ==
    IF Fine(before)
    THEN IF before.ptr >= Len(b) THEN before
         ELSE IF Fine(E[before.ptr])
              THEN Got(Append(before.value, E[before.ptr].value), E[before.ptr].ptr)
              ELSE E[before.ptr]
    ELSE before

\* A turn yields an outcome again.
TurnYields(b, before, E, V) == TurnOf(b, before, E) \in Outcome(Seq(V))

\* A turn yields an outcome when its entries do.
LEMMA TurnStays ==
    ASSUME NEW b \in Seq(Nat), NEW V, NEW E \in [Nat -> Outcome(V)], NEW before \in Outcome(Seq(V))
    PROVE  TurnYields(b, before, E, V)
<1>1. CASE ~Fine(before)
  BY <1>1 DEF TurnOf, TurnYields
<1>2. CASE Fine(before) /\ before.ptr >= Len(b)
  BY <1>2 DEF TurnOf, TurnYields
<1>3. CASE Fine(before) /\ ~(before.ptr >= Len(b))
  <2>1. before.ptr \in Nat /\ before.value \in Seq(V)
    BY <1>3, OutcomeIs
  <2>2. PICK e : e = E[before.ptr]
    OBVIOUS
  <2>3. e \in Outcome(V)
    BY <2>1, <2>2
  <2>4. CASE Fine(e)
    <3>1. e.value \in V /\ e.ptr \in Nat
      BY <2>3, <2>4, OutcomeIs
    <3>2. Append(before.value, e.value) \in Seq(V)
      BY <2>1, <3>1
    <3>3. TurnOf(b, before, E) = Got(Append(before.value, e.value), e.ptr)
      BY <1>3, <2>2, <2>4 DEF TurnOf
    <3> QED BY <3>1, <3>2, <3>3, OutcomeMade DEF TurnYields
  <2>5. CASE ~Fine(e)
    <3>1. TurnOf(b, before, E) = e /\ e = Error
      BY <1>3, <2>2, <2>3, <2>5, OutcomeIs DEF TurnOf
    <3> QED BY <3>1 DEF Outcome, TurnYields
  <2> QED BY <2>4, <2>5
<1> QED BY <1>1, <1>2, <1>3

\* f is the loop over the entries of b from the outcome z on.
Loops(f, b, z, E, V) ==
    /\ f \in [0..Len(b) -> Outcome(Seq(V))] /\ f[0] = z
    /\ \A i \in 1..Len(b) : f[i] = TurnOf(b, f[i-1], E)

\* There is such a loop, and its turns are outcomes.
LEMMA LoopExists ==
    ASSUME NEW b \in Seq(Nat), NEW V, NEW E \in [Nat -> Outcome(V)], NEW z \in Outcome(Seq(V))
    PROVE  \E f : Loops(f, b, z, E, V)
<1> DEFINE W == Outcome(Seq(V))
           D == Len(b)
           G == [i \in 1..D |-> [v \in W |-> TurnOf(b, v, E)]]
<1>1. D \in Nat /\ z \in W
  OBVIOUS
<1>2. \A v \in W : TurnOf(b, v, E) \in W
  BY TurnStays DEF TurnYields
<1>3. \A i \in 1..D : \A v \in W : G[i][v] = TurnOf(b, v, E)
  OBVIOUS
<1>4. G \in [1..D -> [W -> W]]
  BY <1>2
<1> HIDE DEF G, W, D
<1>5. PICK f : Computes(f, D, W, z, G)
  BY <1>1, <1>4, Recursion
<1>6. f \in [0..D -> W] /\ f[0] = z /\ \A i \in 1..D : f[i] = G[i][f[i-1]]
  BY <1>5 DEF Computes
<1>7. \A i \in 1..D : f[i] = TurnOf(b, f[i-1], E)
  <2>1. \A i \in 1..D : i - 1 \in 0..D
    BY <1>1
  <2> QED BY <1>3, <1>6, <2>1
<1>8. Loops(f, b, z, E, V)
  BY <1>6, <1>7 DEF Loops, D, W
<1> QED BY <1>8

\* What the loop starts from, and what it ends with.
Opening(id) == IF Fine(id) THEN Got(<<>>, id.ptr) ELSE id

\* What Entries makes of the end of the loop.
Ending(id, all) ==
    IF Fine(all) THEN Got([id |-> Uint16(id.value), subscriptions |-> all.value], all.ptr) ELSE all

\* The loop begins with an outcome.
LEMMA OpeningYields ==
    ASSUME NEW b \in Seq(Nat), NEW V, NEW id, id = readPacketBytes(b, 0, 2)
    PROVE  Opening(id) \in Outcome(Seq(V))
<1>1. CASE 0 + 2 <= Len(b)
  <2>1. id = Slice(b, 0, 0 + 2)
    BY <1>1 DEF readPacketBytes
  <2>2. id = Got(SubSeq(b, 0 + 1, 0 + 2), 0 + 2)
    BY <1>1, <2>1, SliceIs
  <2>3. Fine(id) /\ id.ptr \in Nat
    BY <2>2, GotIs
  <2>4. <<>> \in Seq(V)
    OBVIOUS
  <2>5. Got(<<>>, id.ptr) \in Outcome(Seq(V))
    BY <2>3, <2>4, OutcomeMade
  <2> QED BY <2>3, <2>5 DEF Opening
<1>2. CASE ~(0 + 2 <= Len(b))
  <2>1. id = Error
    BY <1>2 DEF readPacketBytes
  <2> QED BY <2>1, GotIs DEF Opening, Outcome
<1> QED BY <1>1, <1>2

\* A function that is the loop on all outcomes the entries can have is the loop.
LEMMA LoopIs ==
    ASSUME NEW b \in Seq(Nat), NEW V, NEW E \in [Nat -> Outcome(V)], NEW z \in Outcome(Seq(V)),
           NEW g, DOMAIN g = 0..Len(b), g[0] = z,
           \A i \in 1..Len(b) : g[i-1] \in Outcome(Seq(V)) => g[i] = TurnOf(b, g[i-1], E),
           g = [i \in DOMAIN g |-> g[i]]
    PROVE  Loops(g, b, z, E, V)
<1> DEFINE W == Outcome(Seq(V))
           D == Len(b)
<1>1. D \in Nat
  OBVIOUS
<1>2. \A v \in W : TurnOf(b, v, E) \in W
  BY TurnStays DEF TurnYields
<1>3. g[0] \in W /\ \A i \in 1..D : g[i-1] \in W => g[i] \in W
  BY <1>2
<1> HIDE DEF W, D
<1>4. \A i \in 0..D : g[i] \in W
  BY <1>1, <1>3, RecursionType
<1>5. \A i \in 1..D : i - 1 \in 0..D
  BY <1>1
<1> QED BY <1>4, <1>5 DEF Loops, W, D

\* The turn of SUBSCRIBE, with the operators of Entries applied.
SubscribeTurn(b, v) ==
    IF Fine(v)
    THEN IF v.ptr >= Len(b) THEN v
         ELSE IF Fine(SubscribeEntry(b, v.ptr))
              THEN Got(Append(v.value, SubscribeEntry(b, v.ptr).value), SubscribeEntry(b, v.ptr).ptr)
              ELSE SubscribeEntry(b, v.ptr)
    ELSE v

\* The loop of SUBSCRIBE, likewise.
SubscribeAfter(b) ==
    LET id == readPacketBytes(b, 0, 2)
        after[i \in 0..Len(b)] == IF i = 0 THEN Opening(id) ELSE SubscribeTurn(b, after[i-1])
    IN  after

\* The entries of SUBSCRIBE by their offset.
SubscribeEntriesOf(b) == [p \in Nat |-> SubscribeEntry(b, p)]

\* ParseSubscribePacket is such a loop and its ending.
LEMMA SubscribeLoops ==
    ASSUME NEW b \in Seq(Nat), NEW id, id = readPacketBytes(b, 0, 2)
    PROVE  /\ SubscribeEntriesOf(b) \in [Nat -> Outcome(Subscribed)]
           /\ Opening(id) \in Outcome(Seq(Subscribed))
           /\ Loops(SubscribeAfter(b), b, Opening(id), SubscribeEntriesOf(b), Subscribed)
           /\ ParseSubscribePacket(b) = Ending(id, SubscribeAfter(b)[Len(b)])
<1> DEFINE E == SubscribeEntriesOf(b)
           W == Outcome(Seq(Subscribed))
           z == Opening(id)
           D == Len(b)
<1>1. E \in [Nat -> Outcome(Subscribed)] /\ z \in W /\ D \in Nat
  BY SubscribeEntryYields, OpeningYields DEF SubscribeEntriesOf
<1>2. ASSUME NEW v \in W PROVE TurnOf(b, v, E) = SubscribeTurn(b, v)
  <2>1. Fine(v) => v.ptr \in Nat
    BY OutcomeIs
  <2>2. Fine(v) => E[v.ptr] = SubscribeEntry(b, v.ptr)
    BY <2>1 DEF SubscribeEntriesOf
  <2> HIDE DEF E
  <2> QED BY <2>2 DEF TurnOf, SubscribeTurn
<1> HIDE DEF E, W, z, D
<1>3. PICK f : Loops(f, b, z, E, Subscribed)
  BY <1>1, LoopExists DEF W
<1>4. f = [i \in 0..D |-> IF i = 0 THEN z ELSE SubscribeTurn(b, f[i-1])]
  <2>1. f \in [0..D -> W] /\ f[0] = z /\ \A i \in 1..D : f[i] = TurnOf(b, f[i-1], E)
    BY <1>3 DEF Loops, W, D
  <2>2. \A i \in 0..D : i = 0 \/ (i \in 1..D /\ i - 1 \in 0..D)
    BY <1>1
  <2>3. \A i \in 1..D : i - 1 \in 0..D
    BY <1>1
  <2>4. \A i \in 1..D : f[i] = SubscribeTurn(b, f[i-1])
    BY <1>2, <2>1, <2>3
  <2>5. \A i \in 0..D : f[i] = IF i = 0 THEN z ELSE SubscribeTurn(b, f[i-1])
    BY <2>1, <2>2, <2>4, Zenon
  <2>6. f = [i \in 0..D |-> f[i]]
    BY <2>1
  <2> QED BY <2>5, <2>6, Zenon
<1> DEFINE g == SubscribeAfter(b)
<1>5. g = [i \in 0..D |-> IF i = 0 THEN z ELSE SubscribeTurn(b, g[i-1])]
  BY <1>4 DEF SubscribeAfter, z, D
<1> HIDE DEF g
<1>6. /\ DOMAIN g = 0..D /\ g[0] = z /\ g = [i \in DOMAIN g |-> g[i]]
      /\ \A i \in 1..D : g[i] = SubscribeTurn(b, g[i-1])
  <2>1. \A i \in 1..D : i \in 0..D /\ i # 0
    BY <1>1
  <2>2. 0 \in 0..D
    BY <1>1
  <2>3. DOMAIN g = 0..D
    BY <1>5, Zenon
  <2>4. g[0] = z
    BY <1>5, <2>2, Zenon
  <2>5. g = [i \in DOMAIN g |-> g[i]]
    BY <1>5, <2>3, Zenon
  <2> QED BY <1>5, <2>1, <2>3, <2>4, <2>5, Zenon
<1>7. Loops(g, b, z, E, Subscribed)
  BY <1>1, <1>2, <1>6, LoopIs DEF W, D
<1>8. ParseSubscribePacket(b) = Ending(id, g[D])
  BY DEF ParseSubscribePacket, Entries, Turn, Then, Ending, Opening, SubscribeAfter, SubscribeTurn, g, D
<1> QED BY <1>1, <1>7, <1>8 DEF E, W, z, D, g

\* The turn of UNSUBSCRIBE.
UnSubscribeTurn(b, v) ==
    IF Fine(v)
    THEN IF v.ptr >= Len(b) THEN v
         ELSE IF Fine(readPacketPayload(b, v.ptr))
              THEN Got(Append(v.value, readPacketPayload(b, v.ptr).value), readPacketPayload(b, v.ptr).ptr)
              ELSE readPacketPayload(b, v.ptr)
    ELSE v

\* The loop of UNSUBSCRIBE.
UnSubscribeAfter(b) ==
    LET id == readPacketBytes(b, 0, 2)
        after[i \in 0..Len(b)] == IF i = 0 THEN Opening(id) ELSE UnSubscribeTurn(b, after[i-1])
    IN  after

\* The entries of UNSUBSCRIBE by their offset.
FiltersOf(b) == [p \in Nat |-> readPacketPayload(b, p)]

\* ParseUnSubscribePacket is such a loop and its ending.
LEMMA UnSubscribeLoops ==
    ASSUME NEW b \in Seq(Nat), NEW id, id = readPacketBytes(b, 0, 2)
    PROVE  /\ FiltersOf(b) \in [Nat -> Outcome(Seq(Nat))]
           /\ Opening(id) \in Outcome(Seq(Seq(Nat)))
           /\ Loops(UnSubscribeAfter(b), b, Opening(id), FiltersOf(b), Seq(Nat))
           /\ ParseUnSubscribePacket(b) = Ending(id, UnSubscribeAfter(b)[Len(b)])
<1> DEFINE E == FiltersOf(b)
           W == Outcome(Seq(Seq(Nat)))
           z == Opening(id)
           D == Len(b)
<1>1. E \in [Nat -> Outcome(Seq(Nat))] /\ z \in W /\ D \in Nat
  BY PayloadYields, OpeningYields DEF FiltersOf
<1>2. ASSUME NEW v \in W PROVE TurnOf(b, v, E) = UnSubscribeTurn(b, v)
  <2>1. Fine(v) => v.ptr \in Nat
    BY OutcomeIs
  <2>2. Fine(v) => E[v.ptr] = readPacketPayload(b, v.ptr)
    BY <2>1 DEF FiltersOf
  <2> HIDE DEF E
  <2> QED BY <2>2 DEF TurnOf, UnSubscribeTurn
<1> HIDE DEF E, W, z, D
<1>3. PICK f : Loops(f, b, z, E, Seq(Nat))
  BY <1>1, LoopExists DEF W
<1>4. f = [i \in 0..D |-> IF i = 0 THEN z ELSE UnSubscribeTurn(b, f[i-1])]
  <2>1. f \in [0..D -> W] /\ f[0] = z /\ \A i \in 1..D : f[i] = TurnOf(b, f[i-1], E)
    BY <1>3 DEF Loops, W, D
  <2>2. \A i \in 0..D : i = 0 \/ (i \in 1..D /\ i - 1 \in 0..D)
    BY <1>1
  <2>3. \A i \in 1..D : i - 1 \in 0..D
    BY <1>1
  <2>4. \A i \in 1..D : f[i] = UnSubscribeTurn(b, f[i-1])
    BY <1>2, <2>1, <2>3
  <2>5. \A i \in 0..D : f[i] = IF i = 0 THEN z ELSE UnSubscribeTurn(b, f[i-1])
    BY <2>1, <2>2, <2>4, Zenon
  <2>6. f = [i \in 0..D |-> f[i]]
    BY <2>1
  <2> QED BY <2>5, <2>6, Zenon
<1> DEFINE g == UnSubscribeAfter(b)
<1>5. g = [i \in 0..D |-> IF i = 0 THEN z ELSE UnSubscribeTurn(b, g[i-1])]
  BY <1>4 DEF UnSubscribeAfter, z, D
<1> HIDE DEF g
<1>6. /\ DOMAIN g = 0..D /\ g[0] = z /\ g = [i \in DOMAIN g |-> g[i]]
      /\ \A i \in 1..D : g[i] = UnSubscribeTurn(b, g[i-1])
  <2>1. \A i \in 1..D : i \in 0..D /\ i # 0
    BY <1>1
  <2>2. 0 \in 0..D
    BY <1>1
  <2>3. DOMAIN g = 0..D
    BY <1>5, Zenon
  <2>4. g[0] = z
    BY <1>5, <2>2, Zenon
  <2>5. g = [i \in DOMAIN g |-> g[i]]
    BY <1>5, <2>3, Zenon
  <2> QED BY <1>5, <2>1, <2>3, <2>4, <2>5, Zenon
<1>7. Loops(g, b, z, E, Seq(Nat))
  BY <1>1, <1>2, <1>6, LoopIs DEF W, D
<1>8. ParseUnSubscribePacket(b) = Ending(id, g[D])
  BY DEF ParseUnSubscribePacket, Entries, Turn, Then, Ending, Opening, UnSubscribeAfter, UnSubscribeTurn, g, D
<1> QED BY <1>1, <1>7, <1>8 DEF E, W, z, D, g

\* The ending does not panic.
LEMMA EndingMoves ==
    ASSUME NEW V, NEW all \in Outcome(V), NEW id
    PROVE  Ending(id, all).is # "panic"
<1>1. CASE Fine(all)
  BY <1>1, GotIs DEF Ending
<1>2. CASE ~Fine(all)
  <2>1. Ending(id, all) = all /\ all = Error
    BY <1>2, OutcomeIs DEF Ending
  <2> QED BY <2>1, GotIs
<1> QED BY <1>1, <1>2

\* No body makes the parser of SUBSCRIBE read beyond its end
\* (internal/packet/subscribe.go).
THEOREM SubscribeNeverPanics ==
    ASSUME NEW b \in Seq(Nat)
    PROVE  ParseSubscribePacket(b).is # "panic"
<1>1. PICK id : id = readPacketBytes(b, 0, 2)
  OBVIOUS
<1>2. /\ Loops(SubscribeAfter(b), b, Opening(id), SubscribeEntriesOf(b), Subscribed)
      /\ ParseSubscribePacket(b) = Ending(id, SubscribeAfter(b)[Len(b)])
  BY <1>1, SubscribeLoops
<1>3. Len(b) \in 0..Len(b)
  OBVIOUS
<1>4. SubscribeAfter(b)[Len(b)] \in Outcome(Seq(Subscribed))
  BY <1>2, <1>3 DEF Loops
<1> QED BY <1>2, <1>4, EndingMoves

\* No body makes the parser of UNSUBSCRIBE read beyond its end.
THEOREM UnSubscribeNeverPanics ==
    ASSUME NEW b \in Seq(Nat)
    PROVE  ParseUnSubscribePacket(b).is # "panic"
<1>1. PICK id : id = readPacketBytes(b, 0, 2)
  OBVIOUS
<1>2. /\ Loops(UnSubscribeAfter(b), b, Opening(id), FiltersOf(b), Seq(Nat))
      /\ ParseUnSubscribePacket(b) = Ending(id, UnSubscribeAfter(b)[Len(b)])
  BY <1>1, UnSubscribeLoops
<1>3. Len(b) \in 0..Len(b)
  OBVIOUS
<1>4. UnSubscribeAfter(b)[Len(b)] \in Outcome(Seq(Seq(Nat)))
  BY <1>2, <1>3 DEF Loops
<1> QED BY <1>2, <1>4, EndingMoves
-----
\* The sequences es one after the other: at[i] is where the i-th of them ends.
Laid(s, es, at) ==
    /\ at \in [0..Len(es) -> Nat] /\ at[0] = 0 /\ at[Len(es)] = Len(s)
    /\ \A i \in 1..Len(es) : at[i] = at[i-1] + Len(es[i]) /\ Holds(s, at[i-1], es[i])

\* g joins the members of es one by one.
Joins(g, es) ==
    /\ g \in [0..Len(es) -> Seq(Nat)] /\ g[0] = <<>>
    /\ \A i \in 1..Len(es) : g[i] = g[i-1] \o es[i]

\* There is such a g.
LEMMA JoinsExists ==
    ASSUME NEW es \in Seq(Seq(Nat))
    PROVE  \E g : Joins(g, es)
<1> DEFINE V == Seq(Nat)
           D == Len(es)
           G == [i \in 1..D |-> [v \in V |-> v \o es[i]]]
<1>1. D \in Nat /\ <<>> \in V
  OBVIOUS
<1>2. \A i \in 1..D : \A v \in V : G[i][v] = v \o es[i]
  OBVIOUS
<1>3. \A i \in 1..D : \A v \in V : v \o es[i] \in V
  <2>1. \A i \in 1..D : es[i] \in Seq(Nat)
    OBVIOUS
  <2> QED BY <2>1, Joint
<1>4. G \in [1..D -> [V -> V]]
  BY <1>3
<1> HIDE DEF G, V, D
<1>5. PICK f : Computes(f, D, V, <<>>, G)
  BY <1>1, <1>4, Recursion
<1>6. f \in [0..D -> V] /\ f[0] = <<>> /\ \A i \in 1..D : f[i] = G[i][f[i-1]]
  BY <1>5 DEF Computes
<1>7. \A i \in 1..D : i - 1 \in 0..D
  BY <1>1
<1>8. \A i \in 1..D : f[i] = f[i-1] \o es[i]
  BY <1>2, <1>6, <1>7
<1>9. Joins(f, es)
  BY <1>6, <1>8 DEF Joins, D, V
<1> QED BY <1>9

\* What has been joined lies there, member by member.
LEMMA JoinsLaid ==
    ASSUME NEW es \in Seq(Seq(Nat)), NEW g, Joins(g, es)
    PROVE  \E at : Laid(g[Len(es)], es, at)
<1> DEFINE n == Len(es)
           at == [i \in 0..n |-> Len(g[i])]
           Up(i) == \A j \in 1..i : Holds(g[i], at[j-1], es[j])
           T == {i \in 0..n : Up(i)}
<1>1. n \in Nat /\ \A i \in 1..n : i - 1 \in 0..n /\ i \in 0..n /\ es[i] \in Seq(Nat)
  OBVIOUS
<1>2. /\ g \in [0..n -> Seq(Nat)] /\ g[0] = <<>>
      /\ \A i \in 1..n : g[i] = g[i-1] \o es[i]
  BY DEF Joins
<1>3. \A i \in 0..n : g[i] \in Seq(Nat) /\ at[i] = Len(g[i]) /\ at[i] \in Nat
  BY <1>2
<1> HIDE DEF n, at
<1>4. ASSUME NEW i \in 1..n
      PROVE  at[i] = at[i-1] + Len(es[i]) /\ Holds(g[i], 0, g[i-1]) /\ Holds(g[i], at[i-1], es[i])
  <2>1. g[i-1] \in Seq(Nat) /\ es[i] \in Seq(Nat) /\ g[i] = g[i-1] \o es[i] /\ at[i-1] = Len(g[i-1]) /\ at[i] = Len(g[i])
    BY <1>1, <1>2, <1>3
  <2> QED BY <2>1, HoldsTwo
<1>5. 0 \in T
  BY <1>1
<1>6. ASSUME NEW i \in 1..n, i - 1 \in T PROVE i \in T
  <2>1. i \in 0..n /\ i - 1 \in 0..n /\ Up(i-1)
    BY <1>1, <1>6
  <2>2. ASSUME NEW j \in 1..i PROVE Holds(g[i], at[j-1], es[j])
    <3>1. CASE j = i
      BY <1>4, <3>1
    <3>2. CASE j # i
      <4>1. j \in 1..i-1 /\ j \in 1..n
        BY <1>1, <3>2
      <4>2. Holds(g[i-1], at[j-1], es[j])
        BY <2>1, <4>1
      <4>3. /\ g[i-1] \in Seq(Nat) /\ g[i] \in Seq(Nat) /\ es[j] \in Seq(Nat)
            /\ at[j-1] \in Nat /\ Holds(g[i], 0, g[i-1])
        BY <1>1, <1>3, <1>4, <2>1, <4>1
      <4>4. Holds(g[i], 0 + at[j-1], es[j])
        BY <4>2, <4>3, 0 \in Nat, HoldsWithin
      <4>5. 0 + at[j-1] = at[j-1]
        BY <4>3
      <4> QED BY <4>4, <4>5
    <3> QED BY <3>1, <3>2
  <2> QED BY <2>1, <2>2
<1>7. \A i \in 0..n : i \in T
  <2> HIDE DEF T
  <2> QED BY <1>1, <1>5, <1>6, Induction
<1>8. n \in 0..n /\ 0 \in 0..n
  BY <1>1
<1>9. Up(n)
  BY <1>7, <1>8
<1>10. at[0] = 0 /\ at[n] = Len(g[n]) /\ at \in [0..n -> Nat]
  <2>1. at[0] = Len(g[0]) /\ Len(<<>>) = 0
    BY <1>3, <1>8
  <2>2. at = [i \in 0..n |-> at[i]]
    BY DEF at
  <2> QED BY <1>2, <1>3, <1>8, <2>1, <2>2
<1>11. Laid(g[n], es, at)
  BY <1>4, <1>9, <1>10 DEF Laid, n
<1> QED BY <1>11 DEF n

\* FlattenSeq lays its members out one after the other.
LEMMA Flattened ==
    ASSUME NEW es \in Seq(Seq(Nat))
    PROVE  FlattenSeq(es) \in Seq(Nat) /\ \E at : Laid(FlattenSeq(es), es, at)
<1> DEFINE n == Len(es)
<1>0. n \in Nat /\ \A i \in 1..n : es[i] \in Seq(Nat)
  OBVIOUS
<1>1. PICK g : Joins(g, es)
  BY JoinsExists
<1>2. /\ g \in [0..n -> Seq(Nat)] /\ g[0] = <<>>
      /\ \A i \in 1..n : g[i] = g[i-1] \o es[i] /\ es[i] \in Seq(Nat)
  BY <1>0, <1>1 DEF Joins
<1>3. FlattenSeq(es) = g[n]
  <2>1. CASE n = 0
    <3>1. es = <<>>
      BY <2>1
    <3>2. FlattenSeq(es) = es
      BY <2>1 DEF FlattenSeq
    <3> QED BY <1>2, <2>1, <3>1, <3>2
  <2>2. CASE n # 0
    <3> DEFINE F == LET flatten[i \in 1..n] == IF i = 1 THEN es[i] ELSE flatten[i-1] \o es[i] IN flatten
               h == [i \in 1..n |-> g[i]]
    <3>1. g[1] = es[1]
      <4>1. 1 \in 1..n /\ 1 - 1 = 0
        BY <1>0, <2>2
      <4>2. g[1] = <<>> \o es[1] /\ es[1] \in Seq(Nat)
        BY <1>2, <4>1
      <4> QED BY <4>2
    <3>2. \A i \in 1..n : i # 1 => i - 1 \in 1..n
      BY <1>0
    <3>3. h = [i \in 1..n |-> IF i = 1 THEN es[i] ELSE h[i-1] \o es[i]]
      <4>1. \A i \in 1..n : h[i] = IF i = 1 THEN es[i] ELSE h[i-1] \o es[i]
        BY <1>2, <3>1, <3>2
      <4>2. h = [i \in 1..n |-> h[i]]
        OBVIOUS
      <4> HIDE DEF h
      <4> QED BY <4>1, <4>2, Zenon
    <3> HIDE DEF h
    <3>4. F = [i \in 1..n |-> IF i = 1 THEN es[i] ELSE F[i-1] \o es[i]]
      BY <3>3
    <3>5. FlattenSeq(es) = F[n]
      BY <2>2 DEF FlattenSeq
    <3> HIDE DEF F
    <3>6. \A i \in 1..n : F[i] = IF i = 1 THEN es[i] ELSE F[i-1] \o es[i]
      BY <3>4, Zenon
    <3> DEFINE T == {i \in 0..n : i = 0 \/ F[i] = g[i]}
    <3>7. 0 \in T
      BY <1>0
    <3>8. ASSUME NEW i \in 1..n, i - 1 \in T PROVE i \in T
      <4>1. CASE i = 1
        BY <3>1, <3>6, <3>8, <4>1
      <4>2. CASE i # 1
        <5>1. F[i-1] = g[i-1]
          BY <3>8, <4>2
        <5>2. F[i] = F[i-1] \o es[i] /\ g[i] = g[i-1] \o es[i]
          BY <1>2, <3>6, <4>2, Zenon
        <5>3. F[i] = g[i]
          BY <5>1, <5>2, Zenon
        <5> QED BY <3>8, <5>3
      <4> QED BY <4>1, <4>2
    <3>9. \A i \in 0..n : i \in T
      <4> HIDE DEF T
      <4> HIDE DEF n
      <4> QED BY <1>0, <3>7, <3>8, Induction
    <3>10. n \in 0..n
      BY <1>0
    <3> QED BY <2>2, <3>5, <3>9, <3>10
  <2> QED BY <2>1, <2>2
<1>4. g[n] \in Seq(Nat)
  BY <1>0, <1>2
<1> QED BY <1>1, <1>3, <1>4, JoinsLaid

-----------------------------------------------------------------------------
(***************************************************************************)
(* The entries as the client has laid them out.                            *)
(***************************************************************************)
\* What entries with values vs and ends at make of the loop.
Served(b, E, p, vs, at) ==
    /\ at \in [0..Len(vs) -> Nat] /\ at[0] = p /\ at[Len(vs)] = Len(b)
    /\ \A i \in 1..Len(vs) : at[i-1] < at[i] /\ E[at[i-1]] = Got(vs[i], at[i])

\* A prefix grows by the next member.
LEMMA Longer ==
    ASSUME NEW vs, NEW V, vs \in Seq(V), NEW i \in 1..Len(vs)
    PROVE  SubSeq(vs, 1, i) = Append(SubSeq(vs, 1, i-1), vs[i])
<1> DEFINE x == SubSeq(vs, 1, i)
           w == SubSeq(vs, 1, i-1)
           y == Append(w, vs[i])
<1>1. i \in Nat /\ i - 1 \in Nat /\ i <= Len(vs) /\ vs[i] \in V
  OBVIOUS
<1>2. x \in Seq(V) /\ Len(x) = i /\ \A j \in 1..i : x[j] = vs[j]
  OBVIOUS
<1>3. w \in Seq(V) /\ Len(w) = i - 1 /\ \A j \in 1..i-1 : w[j] = vs[j]
  OBVIOUS
<1> HIDE DEF x, w
<1>4. y \in Seq(V) /\ Len(y) = i /\ y[i] = vs[i] /\ \A j \in 1..i-1 : y[j] = w[j]
  <2>1. Len(w) + 1 = i
    BY <1>1, <1>3
  <2> QED BY <1>1, <1>3, <2>1, AppendProperties
<1> HIDE DEF y
<1>5. \A j \in 1..i : j \in 1..i-1 \/ j = i
  BY <1>1
<1>6. \A j \in 1..Len(x) : x[j] = y[j]
  BY <1>2, <1>3, <1>4, <1>5
<1>7. x = y
  BY <1>2, <1>4, <1>6, SeqEqual
<1> QED BY <1>7 DEF x, w, y

\* What LoopRuns needs, in one piece.
Serves(b, V, E, p, f, vs, at) ==
    /\ E \in [Nat -> Outcome(V)] /\ vs \in Seq(V)
    /\ Loops(f, b, Got(<<>>, p), E, V) /\ Served(b, E, p, vs, at)

\* The loop takes up one entry after the other and stops at the end of the body.
LEMMA LoopRuns ==
    ASSUME NEW b \in Seq(Nat), NEW V, NEW E, NEW p \in Nat, NEW f, NEW vs, NEW at,
           Serves(b, V, E, p, f, vs, at)
    PROVE  f[Len(b)] = Got(vs, Len(b))
<1>0. PICK z : z = Got(<<>>, p)
  OBVIOUS
<1>0a. E \in [Nat -> Outcome(V)] /\ vs \in Seq(V) /\ Loops(f, b, z, E, V) /\ Served(b, E, p, vs, at)
  BY <1>0 DEF Serves
<1> DEFINE n == Len(vs)
           D == Len(b)
<1>1. /\ n \in Nat /\ D \in Nat /\ at \in [0..n -> Nat] /\ at[0] = p /\ at[n] = D
      /\ \A i \in 1..n : at[i-1] < at[i] /\ E[at[i-1]] = Got(vs[i], at[i])
  BY <1>0a DEF Served
<1>2. f[0] = z /\ \A i \in 1..D : f[i] = TurnOf(b, f[i-1], E)
  BY <1>0a DEF Loops
<1> HIDE DEF D
<1>3a. SubSeq(vs, 1, n) = vs /\ SubSeq(vs, 1, 0) = <<>>
  BY <1>0a
<1>3b. \A i \in 1..n : SubSeq(vs, 1, i) = Append(SubSeq(vs, 1, i-1), vs[i])
  BY <1>0a, Longer
<1> HIDE DEF n
<1>4. \A i \in 0..n : at[i] + (n - i) <= D
  <2> DEFINE T == {k \in 0..n : at[n-k] + k <= D}
  <2>1. 0 \in T
    BY <1>1
  <2>2. ASSUME NEW k \in 1..n, k - 1 \in T PROVE k \in T
    <3>1. n - (k - 1) \in 1..n /\ (n - (k - 1)) - 1 = n - k /\ n - k \in 0..n /\ n - (k - 1) \in 0..n
      BY <1>1
    <3>2. at[n-k] < at[n - (k-1)] /\ at[n-k] \in Nat /\ at[n - (k-1)] \in Nat
      BY <1>1, <3>1
    <3>3. at[n - (k-1)] + (k - 1) <= D
      BY <2>2
    <3> QED BY <1>1, <3>2, <3>3
  <2>3. \A k \in 0..n : k \in T
    <3> HIDE DEF T
    <3> QED BY <1>1, <2>1, <2>2, Induction
  <2>4. ASSUME NEW i \in 0..n PROVE at[i] + (n - i) <= D
    <3>1. n - i \in 0..n /\ n - (n - i) = i
      BY <1>1
    <3> QED BY <2>3, <3>1
  <2> QED BY <2>4
<1>5. n <= D /\ \A i \in 1..n : at[i-1] < D /\ i \in 1..D /\ i - 1 \in 0..n /\ i \in 0..n /\ at[i-1] \in Nat
  <2>1. at[0] + (n - 0) <= D /\ at[0] \in Nat
    BY <1>1, <1>4
  <2>2. n <= D
    BY <1>1, <2>1
  <2>3. ASSUME NEW i \in 1..n PROVE at[i-1] < D /\ i \in 1..D /\ i - 1 \in 0..n /\ i \in 0..n /\ at[i-1] \in Nat
    <3>1. i - 1 \in 0..n
      BY <1>1
    <3>2. at[i-1] + (n - (i - 1)) <= D /\ at[i-1] \in Nat
      BY <1>1, <1>4, <3>1
    <3> QED BY <1>1, <2>2, <3>1, <3>2
  <2> QED BY <2>2, <2>3
<1> DEFINE U == {i \in 0..n : f[i] = Got(SubSeq(vs, 1, i), at[i])}
<1>6. 0 \in U
  <2>1. PICK o \in Nat : o = 0
    OBVIOUS
  <2>2. o \in 0..n /\ f[o] = Got(<<>>, p) /\ at[o] = p /\ SubSeq(vs, 1, o) = <<>>
    BY <1>0, <1>1, <1>2, <1>3a, <2>1
  <2>3. f[o] = Got(SubSeq(vs, 1, o), at[o])
    BY <2>2
  <2>4. o \in U
    BY <2>2, <2>3
  <2> QED BY <2>1, <2>4
<1>7. ASSUME NEW i \in 1..n, i - 1 \in U PROVE i \in U
  <2>1. PICK v : v = f[i-1]
    OBVIOUS
  <2>2. PICK w : w = SubSeq(vs, 1, i-1)
    OBVIOUS
  <2>3. PICK a : a = at[i-1]
    OBVIOUS
  <2>4. v = Got(w, a) /\ a \in Nat /\ a < D
    BY <1>5, <1>7, <2>1, <2>2, <2>3
  <2>5. Fine(v) /\ v.ptr = a /\ v.value = w /\ ~(a >= D)
    BY <1>1, <2>4, GotIs
  <2>6. PICK e : e = E[a]
    OBVIOUS
  <2>7. e = Got(vs[i], at[i])
    BY <1>1, <2>3, <2>6
  <2>8. Fine(e) /\ e.ptr = at[i] /\ e.value = vs[i]
    BY <2>7, GotIs
  <2>9. f[i] = TurnOf(b, v, E)
    BY <1>2, <1>5, <2>1
  <2>10. TurnOf(b, v, E) = Got(Append(w, vs[i]), at[i])
    BY <2>5, <2>6, <2>8 DEF TurnOf, D
  <2>11. SubSeq(vs, 1, i) = Append(w, vs[i])
    BY <1>3b, <2>2
  <2> QED BY <1>5, <2>9, <2>10, <2>11
<1>8. \A i \in 0..n : i \in U
  <2> HIDE DEF U
  <2> QED BY <1>1, <1>6, <1>7, Induction
<1>9. f[n] = Got(vs, D)
  <2>1. n \in 0..n
    BY <1>1
  <2> QED BY <1>1, <1>3a, <1>8, <2>1
<1> DEFINE T == {i \in 0..D : i < n \/ f[i] = Got(vs, D)}
<1>10. 0 \in T
  <2>1. CASE n = 0
    BY <1>1, <1>9, <2>1
  <2>2. CASE n # 0
    BY <1>1, <2>2
  <2> QED BY <2>1, <2>2
<1>11. ASSUME NEW i \in 1..D, i - 1 \in T PROVE i \in T
  <2>1. CASE i < n
    BY <2>1
  <2>2. CASE i = n
    BY <1>9, <2>2
  <2>3. CASE i > n
    <3>1. f[i-1] = Got(vs, D)
      BY <1>1, <1>11, <2>3
    <3>2. f[i] = TurnOf(b, f[i-1], E)
      BY <1>2
    <3>3. PICK v : v = f[i-1]
      OBVIOUS
    <3>4. Fine(v) /\ v.ptr = D
      BY <3>1, <3>3, GotIs
    <3>5. TurnOf(b, v, E) = v
      BY <1>1, <3>4 DEF TurnOf, D
    <3> QED BY <3>1, <3>2, <3>3, <3>5
  <2> QED BY <1>1, <2>1, <2>2, <2>3
<1>12. \A i \in 0..D : i \in T
  <2> HIDE DEF T
  <2> QED BY <1>1, <1>10, <1>11, Induction
<1>13. D \in 0..D /\ ~(D < n)
  BY <1>1, <1>5
<1> QED BY <1>12, <1>13 DEF D
-----

\* A body of SUBSCRIBE or UNSUBSCRIBE is an identifier and entries.
LEMMA BodyLaid ==
    ASSUME NEW es \in Seq(Seq(Nat)), NEW b, b = Two(1) \o FlattenSeq(es)
    PROVE  /\ b \in Seq(Nat) /\ readPacketBytes(b, 0, 2) = Got(Two(1), 2)
           /\ \E at : /\ at \in [0..Len(es) -> Nat] /\ at[0] = 2 /\ at[Len(es)] = Len(b)
                      /\ \A i \in 1..Len(es) : at[i] = at[i-1] + Len(es[i]) /\ Holds(b, at[i-1], es[i])
<1>1. PICK s : s = FlattenSeq(es)
  OBVIOUS
<1>2. s \in Seq(Nat) /\ \E at : Laid(s, es, at)
  BY <1>1, Flattened
<1>3. PICK k : Laid(s, es, k)
  BY <1>2
<1>4. PICK x : x = Two(1)
  OBVIOUS
<1>5. x \in Seq(Nat) /\ Len(x) = 2
  BY <1>4, SixteenBits, 1 \in Nat
<1>6. /\ b \in Seq(Nat) /\ Len(b) = 2 + Len(s) /\ Holds(b, 0, x) /\ Holds(b, 2, s)
  BY <1>1, <1>2, <1>4, <1>5, HoldsTwo
<1>7. readPacketBytes(b, 0, 2) = Got(Two(1), 2)
  <2>1. Holds(b, 0, Two(1)) /\ 0 \in Nat /\ 1 \in Nat
    BY <1>4, <1>6
  <2>2. readPacketBytes(b, 0, 2) = Got(Two(1), 0 + 2)
    BY <1>6, <2>1, TwoRead
  <2> QED BY <2>2
<1> DEFINE n == Len(es)
           at == [i \in 0..n |-> 2 + k[i]]
<1>8. n \in Nat /\ \A i \in 1..n : i - 1 \in 0..n /\ i \in 0..n /\ es[i] \in Seq(Nat) /\ Len(es[i]) \in Nat
  OBVIOUS
<1>9. /\ k \in [0..n -> Nat] /\ k[0] = 0 /\ k[n] = Len(s)
      /\ \A i \in 1..n : k[i] = k[i-1] + Len(es[i]) /\ Holds(s, k[i-1], es[i])
  BY <1>3 DEF Laid
<1> HIDE DEF n
<1>10. at \in [0..n -> Nat] /\ \A i \in 0..n : at[i] = 2 + k[i] /\ k[i] \in Nat
  BY <1>9
<1> HIDE DEF at
<1>11. at[0] = 2 /\ at[n] = Len(b)
  <2>1. 0 \in 0..n /\ n \in 0..n
    BY <1>8
  <2> QED BY <1>6, <1>9, <1>10, <2>1
<1>12. ASSUME NEW i \in 1..n PROVE at[i] = at[i-1] + Len(es[i]) /\ Holds(b, at[i-1], es[i])
  <2>1. k[i-1] \in Nat /\ at[i-1] = 2 + k[i-1] /\ at[i] = 2 + k[i] /\ k[i] = k[i-1] + Len(es[i])
        /\ Holds(s, k[i-1], es[i]) /\ es[i] \in Seq(Nat) /\ Len(es[i]) \in Nat
    BY <1>8, <1>9, <1>10
  <2>2. PICK e : e = es[i]
    OBVIOUS
  <2>3. PICK q : q = k[i-1]
    OBVIOUS
  <2>4. e \in Seq(Nat) /\ q \in Nat /\ Holds(s, q, e)
    BY <2>1, <2>2, <2>3
  <2>5. Holds(b, 2 + q, e)
    BY <1>2, <1>6, <2>4, 2 \in Nat, HoldsWithin
  <2>6. PICK l \in Nat : l = Len(es[i])
    BY <2>1
  <2>7. at[i-1] = 2 + q /\ at[i] = (2 + q) + l
    BY <2>1, <2>3, <2>4, <2>6
  <2> QED BY <2>2, <2>5, <2>6, <2>7
<1>13. /\ at \in [0..n -> Nat] /\ at[0] = 2 /\ at[n] = Len(b)
       /\ \A i \in 1..n : at[i] = at[i-1] + Len(es[i]) /\ Holds(b, at[i-1], es[i])
  BY <1>10, <1>11, <1>12
<1> QED BY <1>6, <1>7, <1>13 DEF n

\* What the parser yields for the filters of a SUBSCRIBE.
Granted(filters) == [i \in 1..Len(filters) |->
    [topic |-> filters[i].topic, qos |-> GrantedQoS(filters[i].qos)]]

\* SubscribeEntry finds a filter and the QoS it is granted.
LEMMA SubscribeEntryRead ==
    ASSUME NEW b \in Seq(Nat), NEW p \in Nat, NEW x \in Seq(Nat), NEW q \in Nat,
           Holds(b, p, Field(x) \o <<q>>)
    PROVE  SubscribeEntry(b, p) = Got([topic |-> x, qos |-> GrantedQoS(q)], p + 3 + Len(x))
<1>1. Field(x) \in Seq(Nat) /\ Len(Field(x)) = 2 + Len(x) /\ Len(x) \in Nat /\ <<q>> \in Seq(Nat)
  BY FieldIs
<1>2. Holds(b, p, Field(x)) /\ Holds(b, p + Len(Field(x)), <<q>>)
  BY <1>1, HoldsConcat
<1>3. PICK m \in Nat : m = p + 2 + Len(x)
  BY <1>1
<1>4. p + Len(Field(x)) = m /\ m + 1 = p + 3 + Len(x)
  BY <1>1, <1>3
<1>5. PICK filter : filter = readPacketPayload(b, p)
  OBVIOUS
<1>6. filter = Got(x, m)
  BY <1>2, <1>3, <1>5, FieldRead
<1>7. Fine(filter) /\ filter.value = x /\ filter.ptr = m
  BY <1>6, GotIs
<1>8. PICK qos : qos = IF Fine(filter) THEN readPacketByte(b, filter.ptr) ELSE filter
  OBVIOUS
<1>9. qos = Got(q, m + 1)
  BY <1>2, <1>4, <1>7, <1>8, ByteRead
<1>10. Fine(qos) /\ qos.value = q /\ qos.ptr = m + 1
  BY <1>9, GotIs
<1>11. SubscribeEntry(b, p) = IF Fine(qos) THEN Got([topic |-> filter.value, qos |-> GrantedQoS(qos.value)], qos.ptr) ELSE qos
  BY ONLY <1>5, <1>8 DEF SubscribeEntry, Then
<1> QED BY <1>4, <1>7, <1>10, <1>11

\* ParseSubscribePacket finds in the body of a SUBSCRIBE the filters the client has put
\* there, in their order, each with the QoS qos & 0x02 (internal/packet/subscribe.go).
THEOREM SubscribeBodyRead ==
    ASSUME NEW filters \in Seq([topic : Seq(Nat), qos : Nat])
    PROVE  /\ SubscribeBody(filters) \in Seq(Nat)
           /\ ParseSubscribePacket(SubscribeBody(filters))
              = Got([id |-> 1, subscriptions |-> Granted(filters)], Len(SubscribeBody(filters)))
<1> DEFINE n == Len(filters)
           es == [i \in DOMAIN filters |-> Field(filters[i].topic) \o <<filters[i].qos>>]
           vs == Granted(filters)
<1>1. n \in Nat /\ DOMAIN filters = 1..n
  OBVIOUS
<1>2. ASSUME NEW i \in 1..n
      PROVE  /\ filters[i].topic \in Seq(Nat) /\ filters[i].qos \in Nat
             /\ es[i] = Field(filters[i].topic) \o <<filters[i].qos>>
             /\ es[i] \in Seq(Nat) /\ Len(es[i]) = 3 + Len(filters[i].topic)
             /\ vs[i] = [topic |-> filters[i].topic, qos |-> GrantedQoS(filters[i].qos)]
             /\ vs[i] \in Subscribed
  <2>1. PICK x : x = filters[i].topic
    OBVIOUS
  <2>2. PICK q : q = filters[i].qos
    OBVIOUS
  <2>3. filters[i] \in [topic : Seq(Nat), qos : Nat]
    <3>1. PICK S : S = [topic : Seq(Nat), qos : Nat]
      OBVIOUS
    <3>2. filters \in Seq(S) /\ i \in 1..Len(filters)
      BY <3>1
    <3>3. filters[i] \in S
      BY ONLY <3>2
    <3> QED BY <3>1, <3>3
  <2>4. x \in Seq(Nat) /\ q \in Nat
    BY <2>1, <2>2, <2>3
  <2>5. Field(x) \in Seq(Nat) /\ Len(Field(x)) = 2 + Len(x) /\ Len(x) \in Nat /\ <<q>> \in Seq(Nat) /\ Len(<<q>>) = 1
    BY <2>4, FieldIs
  <2>6. Field(x) \o <<q>> \in Seq(Nat) /\ Len(Field(x) \o <<q>>) = 3 + Len(x)
    BY <2>5, Joint
  <2>7. es[i] = Field(filters[i].topic) \o <<filters[i].qos>>
    BY <1>1
  <2>8. vs[i] = [topic |-> filters[i].topic, qos |-> GrantedQoS(filters[i].qos)]
    BY DEF Granted
  <2>9. GrantedQoS(q) \in Nat
    BY <2>4 DEF GrantedQoS
  <2>10. vs[i] \in Subscribed
    BY <2>1, <2>2, <2>4, <2>8, <2>9 DEF Subscribed
  <2> HIDE DEF es, vs
  <2> QED BY <2>1, <2>2, <2>4, <2>6, <2>7, <2>8, <2>10
<1>3. es \in Seq(Seq(Nat)) /\ Len(es) = n
  <2>1. es = [i \in 1..n |-> es[i]]
    BY <1>1
  <2>2. \A i \in 1..n : es[i] \in Seq(Nat)
    BY <1>2
  <2> HIDE DEF es, n
  <2>3. es \in [1..n -> Seq(Nat)]
    BY <2>1, <2>2
  <2> QED BY <1>1, <2>3
<1>4. vs \in Seq(Subscribed) /\ Len(vs) = n
  <2>1. vs = [i \in 1..n |-> vs[i]]
    BY DEF Granted
  <2>2. \A i \in 1..n : vs[i] \in Subscribed
    BY <1>2
  <2> HIDE DEF vs, n
  <2>3. vs \in [1..n -> Subscribed]
    BY <2>1, <2>2
  <2> QED BY <1>1, <2>3
<1>5. PICK b : b = SubscribeBody(filters)
  OBVIOUS
<1>6. b = Two(1) \o FlattenSeq(es)
  BY <1>5 DEF SubscribeBody
<1> HIDE DEF es, n, vs
<1>7. b \in Seq(Nat) /\ readPacketBytes(b, 0, 2) = Got(Two(1), 2)
  BY <1>3, <1>6, BodyLaid
<1>8. PICK at : /\ at \in [0..n -> Nat] /\ at[0] = 2 /\ at[n] = Len(b)
                /\ \A i \in 1..n : at[i] = at[i-1] + Len(es[i]) /\ Holds(b, at[i-1], es[i])
  BY <1>3, <1>6, BodyLaid
<1>9. PICK E : E = SubscribeEntriesOf(b)
  OBVIOUS
<1>10. ASSUME NEW i \in 1..n PROVE at[i-1] < at[i] /\ E[at[i-1]] = Got(vs[i], at[i])
  <2>1. PICK x : x = filters[i].topic
    OBVIOUS
  <2>2. PICK q : q = filters[i].qos
    OBVIOUS
  <2>3. PICK p : p = at[i-1]
    OBVIOUS
  <2>4. p \in Nat /\ at[i] = p + Len(es[i]) /\ Holds(b, p, es[i])
    <3>1. i - 1 \in 0..n
      BY <1>1
    <3> QED BY <1>8, <2>3, <3>1
  <2>5. /\ x \in Seq(Nat) /\ q \in Nat /\ es[i] = Field(x) \o <<q>> /\ Len(es[i]) = 3 + Len(x)
        /\ vs[i] = [topic |-> x, qos |-> GrantedQoS(q)] /\ Len(x) \in Nat
    BY <1>2, <2>1, <2>2
  <2>6. Holds(b, p, Field(x) \o <<q>>)
    BY <2>4, <2>5
  <2>7. SubscribeEntry(b, p) = Got([topic |-> x, qos |-> GrantedQoS(q)], p + 3 + Len(x))
    BY <1>7, <2>4, <2>5, <2>6, SubscribeEntryRead
  <2>8. E[p] = SubscribeEntry(b, p)
    BY <1>9, <2>4 DEF SubscribeEntriesOf
  <2>9. at[i] = p + 3 + Len(x)
    <3>1. PICK l \in Nat : l = Len(x)
      BY <2>5
    <3>2. at[i] = p + (3 + l)
      BY <2>4, <2>5, <3>1
    <3> QED BY <2>4, <3>1, <3>2
  <2> QED BY <2>3, <2>4, <2>5, <2>7, <2>8, <2>9
<1>11. Served(b, E, 2, vs, at)
  BY <1>4, <1>8, <1>10 DEF Served
<1>12. PICK id : id = readPacketBytes(b, 0, 2)
  OBVIOUS
<1>13. Fine(id) /\ id.value = Two(1) /\ Opening(id) = Got(<<>>, 2)
  BY <1>7, <1>12, GotIs DEF Opening
<1>14. PICK f : f = SubscribeAfter(b)
  OBVIOUS
<1>15. /\ E \in [Nat -> Outcome(Subscribed)] /\ Loops(f, b, Opening(id), E, Subscribed)
       /\ ParseSubscribePacket(b) = Ending(id, f[Len(b)])
  BY <1>7, <1>9, <1>12, <1>14, SubscribeLoops
<1>16. f[Len(b)] = Got(vs, Len(b))
  <2>1. PICK z : z = Got(<<>>, 2)
    OBVIOUS
  <2>2. PICK V : V = Subscribed
    OBVIOUS
  <2>3. PICK w \in Nat : w = 2
    OBVIOUS
  <2>4. PICK xs : xs = vs
    OBVIOUS
  <2>5. Loops(f, b, z, E, V) /\ z = Got(<<>>, w)
    BY <1>13, <1>15, <2>1, <2>2, <2>3
  <2>6. E \in [Nat -> Outcome(V)] /\ xs \in Seq(V) /\ Served(b, E, w, xs, at)
    BY <1>4, <1>11, <1>15, <2>2, <2>3, <2>4
  <2>7. Serves(b, V, E, w, f, xs, at)
    BY <2>5, <2>6 DEF Serves
  <2>8. f[Len(b)] = Got(xs, Len(b))
    BY ONLY <1>7, <2>3, <2>7, LoopRuns
  <2> QED BY <2>4, <2>8
<1>17. Uint16(id.value) = 1
  BY <1>13, SixteenBits, 1 \in Nat
<1>18. Ending(id, f[Len(b)]) = Got([id |-> 1, subscriptions |-> vs], Len(b))
  <2>1. PICK all : all = f[Len(b)]
    OBVIOUS
  <2>2. Fine(all) /\ all.value = vs /\ all.ptr = Len(b)
    BY <1>16, <2>1, GotIs
  <2> QED BY <1>17, <2>1, <2>2 DEF Ending
<1> QED BY <1>5, <1>7, <1>15, <1>18 DEF vs

\* ParseUnSubscribePacket finds the filters the client has put there
\* (internal/packet/unsubscribe.go).
THEOREM UnSubscribeBodyRead ==
    ASSUME NEW filters \in Seq(Seq(Nat))
    PROVE  /\ UnSubscribeBody(filters) \in Seq(Nat)
           /\ ParseUnSubscribePacket(UnSubscribeBody(filters))
              = Got([id |-> 1, subscriptions |-> filters], Len(UnSubscribeBody(filters)))
<1> DEFINE n == Len(filters)
           es == [i \in DOMAIN filters |-> Field(filters[i])]
<1>1. n \in Nat /\ DOMAIN filters = 1..n
  OBVIOUS
<1>2. ASSUME NEW i \in 1..n
      PROVE  /\ filters[i] \in Seq(Nat) /\ es[i] = Field(filters[i])
             /\ es[i] \in Seq(Nat) /\ Len(es[i]) = 2 + Len(filters[i])
  <2>1. filters[i] \in Seq(Nat)
    OBVIOUS
  <2>2. Field(filters[i]) \in Seq(Nat) /\ Len(Field(filters[i])) = 2 + Len(filters[i])
    BY <2>1, FieldIs
  <2>3. es[i] = Field(filters[i])
    BY <1>1
  <2> HIDE DEF es
  <2> QED BY <2>1, <2>2, <2>3
<1>3. es \in Seq(Seq(Nat)) /\ Len(es) = n
  <2>1. es = [i \in 1..n |-> es[i]]
    BY <1>1
  <2>2. \A i \in 1..n : es[i] \in Seq(Nat)
    BY <1>2
  <2> HIDE DEF es, n
  <2>3. es \in [1..n -> Seq(Nat)]
    BY <2>1, <2>2
  <2> QED BY <1>1, <2>3
<1>5. PICK b : b = UnSubscribeBody(filters)
  OBVIOUS
<1>6. b = Two(1) \o FlattenSeq(es)
  BY <1>5 DEF UnSubscribeBody
<1> HIDE DEF es
<1>7. b \in Seq(Nat) /\ readPacketBytes(b, 0, 2) = Got(Two(1), 2)
  BY <1>3, <1>6, BodyLaid
<1>8. PICK at : /\ at \in [0..n -> Nat] /\ at[0] = 2 /\ at[n] = Len(b)
                /\ \A i \in 1..n : at[i] = at[i-1] + Len(es[i]) /\ Holds(b, at[i-1], es[i])
  BY <1>3, <1>6, BodyLaid
<1>9. PICK E : E = FiltersOf(b)
  OBVIOUS
<1>10. ASSUME NEW i \in 1..n PROVE at[i-1] < at[i] /\ E[at[i-1]] = Got(filters[i], at[i])
  <2>1. PICK x : x = filters[i]
    OBVIOUS
  <2>3. PICK p : p = at[i-1]
    OBVIOUS
  <2>4. p \in Nat /\ at[i] = p + Len(es[i]) /\ Holds(b, p, es[i])
    <3>1. i - 1 \in 0..n
      BY <1>1
    <3> QED BY <1>8, <2>3, <3>1
  <2>5. x \in Seq(Nat) /\ es[i] = Field(x) /\ Len(es[i]) = 2 + Len(x) /\ Len(x) \in Nat
    BY <1>2, <2>1
  <2>6. Holds(b, p, Field(x))
    BY <2>4, <2>5
  <2>7. readPacketPayload(b, p) = Got(x, p + 2 + Len(x))
    BY <1>7, <2>4, <2>5, <2>6, FieldRead
  <2>8. E[p] = readPacketPayload(b, p)
    BY <1>9, <2>4 DEF FiltersOf
  <2>9. at[i] = p + 2 + Len(x)
    <3>1. PICK l \in Nat : l = Len(x)
      BY <2>5
    <3>2. at[i] = p + (2 + l)
      BY <2>4, <2>5, <3>1
    <3> QED BY <2>4, <3>1, <3>2
  <2> QED BY <2>1, <2>3, <2>4, <2>5, <2>7, <2>8, <2>9
<1>11. Served(b, E, 2, filters, at)
  BY <1>8, <1>10 DEF Served
<1>12. PICK id : id = readPacketBytes(b, 0, 2)
  OBVIOUS
<1>13. Fine(id) /\ id.value = Two(1) /\ Opening(id) = Got(<<>>, 2)
  BY <1>7, <1>12, GotIs DEF Opening
<1>14. PICK f : f = UnSubscribeAfter(b)
  OBVIOUS
<1>15. /\ E \in [Nat -> Outcome(Seq(Nat))] /\ Loops(f, b, Opening(id), E, Seq(Nat))
       /\ ParseUnSubscribePacket(b) = Ending(id, f[Len(b)])
  BY <1>7, <1>9, <1>12, <1>14, UnSubscribeLoops
<1>16. f[Len(b)] = Got(filters, Len(b))
  <2>1. PICK z : z = Got(<<>>, 2)
    OBVIOUS
  <2>2. PICK V : V = Seq(Nat)
    OBVIOUS
  <2>3. PICK w \in Nat : w = 2
    OBVIOUS
  <2>4. PICK xs : xs = filters
    OBVIOUS
  <2>5. Loops(f, b, z, E, V) /\ z = Got(<<>>, w)
    BY <1>13, <1>15, <2>1, <2>2, <2>3
  <2>6. E \in [Nat -> Outcome(V)] /\ xs \in Seq(V) /\ Served(b, E, w, xs, at)
    BY <1>11, <1>15, <2>2, <2>3, <2>4
  <2>7. Serves(b, V, E, w, f, xs, at)
    BY <2>5, <2>6 DEF Serves
  <2>8. f[Len(b)] = Got(xs, Len(b))
    BY ONLY <1>7, <2>3, <2>7, LoopRuns
  <2> QED BY <2>4, <2>8
<1>17. Uint16(id.value) = 1
  BY <1>13, SixteenBits, 1 \in Nat
<1>18. Ending(id, f[Len(b)]) = Got([id |-> 1, subscriptions |-> filters], Len(b))
  <2>1. PICK all : all = f[Len(b)]
    OBVIOUS
  <2>2. Fine(all) /\ all.value = filters /\ all.ptr = Len(b)
    BY <1>16, <2>1, GotIs
  <2> QED BY <1>17, <2>1, <2>2 DEF Ending
<1> QED BY <1>5, <1>7, <1>15, <1>18

-----------------------------------------------------------------------------
(***************************************************************************)
(* The reader of the broker's bytes.                                       *)
(***************************************************************************)
\* A number of one digit is its own numeral.
LEMMA OneDigit ==
    ASSUME NEW n \in 0..Limit, n < Base
    PROVE  Numeral[n] = <<n>>
<1> DEFINE d == Numeral[n]
           k == Len(d)
<1>1. /\ d \in Seq(Nat) /\ k \in 1..Digits /\ Shortest(d) /\ Depth(d) = k /\ Worth(d)[k] = n
      /\ Digits \in Nat /\ Base \in Nat /\ Base > 2
  BY NumeralIs, PacketsAssumption
<1> HIDE DEF d, k
<1>2. /\ d[k] \in Nat /\ ~(d[k] >= Base) /\ (k > 1 => d[k] > 0) /\ k \in Nat /\ k \in 1..Len(d) /\ Len(d) = k
  <2>1. Len(d) = k /\ k \in 1..Len(d) /\ k \in Nat
    BY <1>1 DEF k
  <2> QED BY <1>1, <2>1 DEF Shortest
<1>3. /\ k - 1 \in 0..k /\ Worth(d) \in [0..k -> Nat] /\ Worth(d)[0] = 0
      /\ Worth(d)[k] = Worth(d)[k-1] + (d[k] % Base) * Power[k-1]
  BY <1>1, <1>2, WorthRec
<1>4. d[k] % Base = d[k]
  BY <1>1, <1>2
<1>5. k = 1
  <2> SUFFICES ASSUME k > 1 PROVE FALSE
    BY <1>1
  <2>1. PICK j : j = k - 1
    OBVIOUS
  <2>2. j \in 1..Digits /\ j - 1 \in 0..Digits
    BY <1>1, <2>1
  <2>3. Power[j] = Base * Power[j-1] /\ Power[j-1] \in Nat \ {0}
    BY <2>2, PowerFacts, PacketsAssumption
  <2>4. PICK P \in Nat \ {0} : P = Power[j-1]
    BY <2>3
  <2>5. Power[j] = Base * P
    BY <2>3, <2>4
  <2>6. PICK e \in Nat \ {0} : e = d[k]
    BY <1>2
  <2>7. Base * P >= Base
    BY <1>1
  <2>8. e * (Base * P) >= Base * P
    BY <1>1
  <2>9. Worth(d)[k-1] \in Nat
    BY <1>3
  <2>10. PICK w \in Nat : w = Worth(d)[k-1]
    BY <2>9
  <2>11. n = w + e * (Base * P)
    BY <1>1, <1>3, <1>4, <2>1, <2>5, <2>6, <2>10
  <2>12. PICK m : m = e * (Base * P)
    OBVIOUS
  <2>13. m \in Nat /\ m >= Base /\ n = w + m
    BY <1>1, <2>7, <2>8, <2>11, <2>12
  <2> QED BY <1>1, <2>13
<1>6. d[1] = n
  <2>1. Power[0] = 1
    BY PowerRec
  <2>2. k - 1 = 0 /\ Worth(d)[0] = 0
    BY <1>3, <1>5
  <2>3. Worth(d)[1] = Worth(d)[0] + (d[1] % Base) * Power[0]
    BY <1>3, <1>5, <2>2
  <2>4. n = 0 + d[1] * 1
    BY <1>1, <1>3, <1>4, <1>5, <2>1, <2>3
  <2> QED BY <1>2, <1>5, <2>4
<1>7. d = <<n>>
  <2>1. n \in Nat
    BY <1>1
  <2>2. <<n>> \in Seq(Nat) /\ Len(<<n>>) = 1 /\ <<n>>[1] = n
    BY <2>1
  <2>3. \A i \in 1..Len(d) : d[i] = <<n>>[i]
    BY <1>2, <1>5, <1>6, <2>2
  <2> QED BY <1>1, <1>2, <1>5, <2>2, <2>3, SeqEqual
<1> QED BY <1>7 DEF d
-----
\* At an offset lies at most one packet.
LEMMA OneLength ==
    ASSUME NEW s \in Seq(Nat), NEW p \in Nat, NEW n \in 0..Limit,
           p + 1 + Len(Numeral[n]) + n <= Len(s), Holds(s, p + 1, Numeral[n])
    PROVE  LengthsAt(s, p) = {n}
<1>1. PICK t : t = SubSeq(s, (p + 1) + 1, Len(s))
  OBVIOUS
<1>2. Limit \in Nat /\ Len(Numeral[n]) \in Nat /\ n \in Nat /\ Digits \in Nat
  BY NumeralIs, PowerFacts, PacketsAssumption
<1>3. p + 1 <= Len(s) /\ p + 1 \in Nat /\ Len(s) \in Nat
  <2>1. PICK l \in Nat : l = Len(Numeral[n])
    BY <1>2
  <2>2. PICK e \in Nat : e = Len(s)
    OBVIOUS
  <2>3. p + 1 + l + n <= e
    BY <2>1, <2>2
  <2> QED BY <1>2, <2>2, <2>3
<1>4. /\ t \in Seq(Nat) /\ Len(t) = Len(s) - (p + 1)
      /\ \A i \in 1..Len(s) - (p + 1) : t[i] = s[(p + 1) + i]
  BY <1>1, <1>3, Slices
<1>5. Remains(t, s, p + 1)
  BY <1>3, <1>4 DEF Remains
<1>6. ASSUME NEW m \in 0..Limit, Holds(s, p + 1, Numeral[m]) PROVE m = n
  <2>1. DecodeRemainingLength(t) = Got(n, Len(Numeral[n]))
    BY <1>3, <1>5, LengthAfter
  <2>2. DecodeRemainingLength(t) = Got(m, Len(Numeral[m]))
    BY <1>3, <1>5, <1>6, LengthAfter
  <2>3. PICK r : r = DecodeRemainingLength(t)
    OBVIOUS
  <2>4. r.value = n
    BY <2>1, <2>3, GotIs
  <2>5. r.value = m
    BY <2>2, <2>3, GotIs
  <2> QED BY <2>4, <2>5
<1> QED BY <1>6 DEF LengthsAt

\* What a packet consists of.
Kind == [type : Nat, flags : Nat, body : Seq(Nat)]

\* A packet that fits a frame.
IsPacket(k) == /\ k = [type |-> k.type, flags |-> k.flags, body |-> k.body]
               /\ k.type \in 0..15 /\ k.flags \in 0..15 /\ k.body \in Seq(Nat) /\ Len(k.body) <= Limit

\* The bytes of a packet.
Framed(k) == Frame(k.type, k.flags, k.body)

\* ReadNext takes up the packet that lies at the offset of the reader.
LEMMA NextRead ==
    ASSUME NEW s \in Seq(Nat), NEW p \in Nat, NEW k, IsPacket(k), Holds(s, p, Framed(k)),
           NEW types, NEW kept, NEW before, before = Got(kept, p)
    PROVE  /\ Framed(k) \in Seq(Nat) /\ Len(Framed(k)) \in Nat \ {0} /\ p + Len(Framed(k)) <= Len(s)
           /\ ReadNext(s, before, types) = Got(Keep(kept, k, types), p + Len(Framed(k)))
<1>1. PICK type \in 0..15 : type = k.type
  BY DEF IsPacket
<1>2. PICK flags \in 0..15 : flags = k.flags
  BY DEF IsPacket
<1>3. PICK body \in Seq(Nat) : body = k.body /\ Len(body) <= Limit
  BY DEF IsPacket
<1>4. k = [type |-> type, flags |-> flags, body |-> body]
  BY <1>1, <1>2, <1>3 DEF IsPacket
<1>5. PICK F : F = Frame(type, flags, body)
  OBVIOUS
<1>6. Framed(k) = F
  BY <1>1, <1>2, <1>3, <1>5 DEF Framed
<1>7. PICK n : n = Len(body)
  OBVIOUS
<1>8. PICK j : j = Len(Numeral[n])
  OBVIOUS
<1>9. /\ n \in 0..Limit /\ n \in Nat /\ j \in Nat /\ F \in Seq(Nat) /\ Len(F) = 1 + j + n
      /\ Numeral[n] \in Seq(Nat)
  BY <1>3, <1>5, <1>7, <1>8, FrameIs
<1>10. /\ p < Len(s) /\ s[p+1] = 16 * type + flags
       /\ Holds(s, p + 1, Numeral[n]) /\ Holds(s, p + 1 + j, body)
  <2>1. Holds(s, p, Frame(type, flags, body))
    BY <1>5, <1>6
  <2>2. /\ p < Len(s) /\ s[p+1] = 16 * type + flags
        /\ Holds(s, p + 1, Numeral[Len(body)])
        /\ Holds(s, p + 1 + Len(Numeral[Len(body)]), body)
    <3>1. Len(body) <= Limit /\ s \in Seq(Nat) /\ p \in Nat
      BY <1>3
    <3> HIDE DEF Framed
    <3> QED BY ONLY <3>1, <2>1, FrameParts, type \in 0..15, flags \in 0..15, body \in Seq(Nat)
  <2> QED BY <1>7, <1>8, <2>2
<1>11. p + 1 + j + n <= Len(s)
  <2>1. p + 1 + j + Len(body) <= Len(s)
    BY <1>10 DEF Holds
  <2> QED BY <1>7, <2>1
<1>12. LengthsAt(s, p) = {n}
  BY <1>8, <1>9, <1>10, <1>11, OneLength
<1>13. PICK q \in Nat : q = p + 1 + j
  BY <1>9
<1>14. SubSeq(s, q + 1, q + n) = body
  BY <1>7, <1>10, <1>13, <1>3, SliceHeld
<1>15. s[p+1] \div 16 = type /\ s[p+1] % 16 = flags
  BY <1>10, FirstByte
<1>16. (CHOOSE m \in {n} : TRUE) = n
  OBVIOUS
<1>17. PICK packet : packet = [type |-> s[p+1] \div 16, flags |-> s[p+1] % 16, body |-> SubSeq(s, q + 1, q + n)]
  OBVIOUS
<1>18. packet = k
  BY <1>4, <1>14, <1>15, <1>17
<1>19. before.ptr = p /\ before.value = kept
  BY GotIs
<1>20. p # Len(s)
  BY <1>10
<1>21. PICK lengths : lengths = LengthsAt(s, p)
  OBVIOUS
<1>22. PICK m : m = CHOOSE x \in lengths : TRUE
  OBVIOUS
<1>23. m = n /\ lengths # {}
  BY <1>12, <1>16, <1>21, <1>22
<1>24. ReadNext(s, before, types) = Got(Keep(kept, packet, types), q + n)
  <2>1. p + 1 + Len(Numeral[m]) = q
    BY <1>8, <1>13, <1>23
  <2>2. packet = [type |-> s[p+1] \div 16, flags |-> s[p+1] % 16,
                  body |-> SubSeq(s, p + 1 + Len(Numeral[m]) + 1, p + 1 + Len(Numeral[m]) + m)]
    BY <1>17, <1>23, <2>1
  <2>3. ReadNext(s, before, types) = Got(Keep(kept, packet, types), p + 1 + Len(Numeral[m]) + m)
    BY ONLY <1>19, <1>20, <1>21, <1>22, <1>23, <2>2 DEF ReadNext
  <2> QED BY <1>23, <2>1, <2>3
<1>25. q + n = p + Len(F)
  BY <1>9, <1>13
<1>26. Len(F) \in Nat \ {0} /\ p + Len(F) <= Len(s)
  BY <1>9, <1>11
<1>27. ReadNext(s, before, types) = Got(Keep(kept, k, types), p + Len(F))
  BY <1>18, <1>24, <1>25
<1> QED BY <1>6, <1>9, <1>26, <1>27

\* Where a reader may be.
Readers(s) == {Got(v, p) : v \in Seq(Kind), p \in 0..Len(s)}

\* A value makes such an outcome.
LEMMA ReadersMade == \A s : \A v \in Seq(Kind) : \A p \in 0..Len(s) : Got(v, p) \in Readers(s)
BY DEF Readers

\* The reader yields such an outcome.
LEMMA ReadStays ==
    ASSUME NEW s \in Seq(Nat), NEW before \in Readers(s), NEW types
    PROVE  ReadNext(s, before, types) \in Readers(s)
<1>1. PICK v \in Seq(Kind), p \in 0..Len(s) : before = Got(v, p)
  BY DEF Readers
<1>2. before.value = v /\ before.ptr = p
  BY <1>1, GotIs
<1>3. Len(s) \in Nat /\ p \in Nat /\ p <= Len(s)
  OBVIOUS
<1>4. PICK lengths : lengths = LengthsAt(s, p)
  OBVIOUS
<1>5. ASSUME NEW k \in Kind PROVE Keep(v, k, types) \in Seq(Kind)
  BY DEF Keep
<1>6. CASE p = Len(s)
  BY <1>1, <1>2, <1>6 DEF ReadNext
<1>7. CASE p # Len(s) /\ lengths = {}
  <2>1. Torn \in Kind
    BY DEF Torn, Kind
  <2>2. Keep(v, Torn, types) \in Seq(Kind)
    BY <1>5, <2>1
  <2>3. ReadNext(s, before, types) = Got(Keep(v, Torn, types), Len(s))
    BY <1>2, <1>4, <1>7 DEF ReadNext
  <2>4. Len(s) \in 0..Len(s)
    BY <1>3
  <2> QED BY <2>2, <2>3, <2>4, ReadersMade
<1>8. CASE p # Len(s) /\ lengths # {}
  <2>1. PICK n : n = CHOOSE m \in lengths : TRUE
    OBVIOUS
  <2>2. n \in lengths
    BY <1>8, <2>1
  <2>3. /\ n \in 0..Limit /\ p + 1 + Len(Numeral[n]) + n <= Len(s) /\ Len(Numeral[n]) \in Nat /\ n \in Nat
    <3>1. n \in 0..Limit /\ p + 1 + Len(Numeral[n]) + n <= Len(s)
      BY <1>4, <2>2 DEF LengthsAt
    <3>2. Limit \in Nat /\ Digits \in Nat
      BY PowerFacts
    <3>3. Len(Numeral[n]) \in 1..Digits
      BY <3>1, NumeralIs
    <3>4. PICK l : l = Len(Numeral[n])
      OBVIOUS
    <3>5. l \in Nat /\ n \in Nat
      BY ONLY <3>1, <3>2, <3>3, <3>4
    <3> QED BY <3>1, <3>4, <3>5
  <2>4. PICK j \in Nat : j = Len(Numeral[n])
    BY <2>3
  <2>5. PICK q \in Nat : q = p + 1 + j
    BY <1>3
  <2>6. q + n <= Len(s) /\ q + n \in 0..Len(s) /\ p + 1 \in 1..Len(s)
    <3>1. p + 1 + j + n <= Len(s)
      BY <2>3, <2>4
    <3> QED BY <1>3, <2>3, <2>5, <3>1
  <2>7. SubSeq(s, q + 1, q + n) \in Seq(Nat)
    <3>1. q + n \in Nat /\ q <= q + n
      BY <2>3
    <3> QED BY <2>6, <3>1, Slices
  <2>8. PICK k : k = [type |-> s[p+1] \div 16, flags |-> s[p+1] % 16, body |-> SubSeq(s, q + 1, q + n)]
    OBVIOUS
  <2>9. k \in Kind
    <3>1. s[p+1] \in Nat
      BY <2>6
    <3>2. s[p+1] \div 16 \in Nat /\ s[p+1] % 16 \in Nat
      BY <3>1
    <3> QED BY <2>7, <2>8, <3>2 DEF Kind
  <2>10. ReadNext(s, before, types) = Got(Keep(v, k, types), q + n)
    <3>1. k = [type |-> s[p+1] \div 16, flags |-> s[p+1] % 16,
               body |-> SubSeq(s, p + 1 + Len(Numeral[n]) + 1, p + 1 + Len(Numeral[n]) + n)]
      BY <2>4, <2>5, <2>8
    <3>2. ReadNext(s, before, types) = Got(Keep(v, k, types), p + 1 + Len(Numeral[n]) + n)
      BY ONLY <1>2, <1>4, <1>8, <2>1, <3>1 DEF ReadNext
    <3> QED BY <2>4, <2>5, <3>2
  <2>11. Keep(v, k, types) \in Seq(Kind)
    BY <1>5, <2>9
  <2> QED BY <2>6, <2>10, <2>11, ReadersMade
<1> QED BY <1>6, <1>7, <1>8

\* f is the reader of s.
Reads(f, s, types) ==
    /\ f \in [0..Len(s) -> Readers(s)] /\ f[0] = Got(<<>>, 0)
    /\ \A i \in 1..Len(s) : f[i] = ReadNext(s, f[i-1], types)

\* The reader, as PacketsIn defines it.
ReadAfter(s, types) ==
    LET after[i \in 0..Len(s)] == IF i = 0 THEN Got(<<>>, 0) ELSE ReadNext(s, after[i-1], types)
    IN  after

\* PacketsIn is the last value of the reader.
LEMMA ReaderRuns ==
    ASSUME NEW s \in Seq(Nat), NEW types
    PROVE  \E f : Reads(f, s, types) /\ PacketsIn(s, types) = f[Len(s)].value
<1> DEFINE W == Readers(s)
           D == Len(s)
           G == [i \in 1..D |-> [v \in W |-> ReadNext(s, v, types)]]
           z == Got(<<>>, 0)
<1>1. D \in Nat /\ z \in W
  <2>1. PICK o : o = 0
    OBVIOUS
  <2>2. PICK v : v = <<>>
    OBVIOUS
  <2>3. v \in Seq(Kind) /\ o \in 0..Len(s) /\ Len(s) \in Nat
    BY <2>1, <2>2
  <2>4. Got(v, o) \in Readers(s)
    BY <2>3, ReadersMade
  <2> QED BY <2>1, <2>2, <2>3, <2>4
<1>2. \A v \in W : ReadNext(s, v, types) \in W
  BY ReadStays
<1>3. \A i \in 1..D : \A v \in W : G[i][v] = ReadNext(s, v, types)
  OBVIOUS
<1>4. G \in [1..D -> [W -> W]]
  BY <1>2
<1> HIDE DEF G, W, D, z
<1>5. PICK f : Computes(f, D, W, z, G)
  BY <1>1, <1>4, Recursion
<1>6. f \in [0..D -> W] /\ f[0] = z /\ \A i \in 1..D : f[i] = G[i][f[i-1]]
  BY <1>5 DEF Computes
<1>7. \A i \in 1..D : i - 1 \in 0..D /\ i \in 0..D /\ i # 0
  BY <1>1
<1>8. \A i \in 1..D : f[i] = ReadNext(s, f[i-1], types)
  BY <1>3, <1>6, <1>7
<1>9. f = [i \in 0..D |-> IF i = 0 THEN z ELSE ReadNext(s, f[i-1], types)]
  <2>1. f = [i \in 0..D |-> f[i]]
    BY <1>6
  <2>2. \A i \in 0..D : i = 0 \/ i \in 1..D
    BY <1>1
  <2>3. \A i \in 0..D : f[i] = IF i = 0 THEN z ELSE ReadNext(s, f[i-1], types)
    BY <1>6, <1>8, <2>2, Zenon
  <2> QED BY <2>1, <2>3, Zenon
<1> DEFINE g == ReadAfter(s, types)
<1>10. g = [i \in 0..D |-> IF i = 0 THEN z ELSE ReadNext(s, g[i-1], types)]
  BY <1>9 DEF ReadAfter, z, D
<1>11. PacketsIn(s, types) = g[D].value
  BY DEF PacketsIn, ReadAfter, g, D
<1> HIDE DEF g
<1>12. DOMAIN g = 0..D /\ g[0] = z /\ \A i \in 1..D : g[i] = ReadNext(s, g[i-1], types)
  <2>1. 0 \in 0..D
    BY <1>1
  <2> QED BY <1>7, <1>10, <2>1, Zenon
<1>13. g[0] \in W /\ \A i \in 1..D : g[i-1] \in W => g[i] \in W
  BY <1>1, <1>2, <1>12
<1>14. \A i \in 0..D : g[i] \in W
  BY <1>1, <1>13, RecursionType
<1>15. g = [i \in 0..D |-> g[i]]
  BY <1>10, <1>12, Zenon
<1>16. Reads(g, s, types)
  BY <1>12, <1>14, <1>15 DEF Reads, z, D, W
<1> QED BY <1>11, <1>16 DEF D

-----------------------------------------------------------------------------
(***************************************************************************)
(* Streams of packets.                                                     *)
(***************************************************************************)
\* The packets that can be framed.
Fitting == {k \in Kind : k.type \in 0..15 /\ k.flags \in 0..15 /\ Len(k.body) <= Limit}

\* They have a frame, which is not empty.
LEMMA FittingIs ==
    ASSUME NEW k \in Fitting
    PROVE  IsPacket(k) /\ Framed(k) \in Seq(Nat) /\ Len(Framed(k)) \in Nat \ {0}
<1>1. /\ k.type \in 0..15 /\ k.flags \in 0..15 /\ k.body \in Seq(Nat) /\ Len(k.body) <= Limit
      /\ k = [type |-> k.type, flags |-> k.flags, body |-> k.body]
  BY DEF Fitting, Kind
<1>2. IsPacket(k)
  BY <1>1 DEF IsPacket
<1>3. PICK F : F = Framed(k)
  OBVIOUS
<1>4. PICK n : n = Len(k.body)
  OBVIOUS
<1>5. PICK j : j = Len(Numeral[n])
  OBVIOUS
<1>6. n \in Nat /\ j \in Nat /\ F \in Seq(Nat) /\ Len(F) = 1 + j + n
  BY <1>1, <1>3, <1>4, <1>5, FrameIs DEF Framed
<1>7. Len(F) \in Nat \ {0}
  BY <1>6
<1> QED BY <1>2, <1>3, <1>6, <1>7

\* s is the packets ps, framed, and t after them.
FramesAt(s, ps, t, at) ==
    /\ s \in Seq(Nat) /\ ps \in Seq(Fitting) /\ t \in Seq(Nat)
    /\ at \in [0..Len(ps) -> Nat] /\ at[0] = 0 /\ at[Len(ps)] + Len(t) = Len(s)
    /\ Holds(s, at[Len(ps)], t)
    /\ \A i \in 1..Len(ps) : at[i] = at[i-1] + Len(Framed(ps[i])) /\ Holds(s, at[i-1], Framed(ps[i]))

\* s is the packets ps, framed, and t after them.
Frames(s, ps, t) == \E at : FramesAt(s, ps, t, at)

\* No packets, and all of t.
LEMMA FramesNone ==
    ASSUME NEW t \in Seq(Nat)
    PROVE  Frames(t, <<>>, t)
<1>1. PICK o : o = 0
  OBVIOUS
<1> DEFINE at == [i \in 0..0 |-> o]
<1>2. PICK e : e = <<>>
  OBVIOUS
<1>3. e \in Seq(Fitting) /\ Len(e) = 0 /\ 1..0 = {}
  BY <1>2
<1>4. at \in [0..0 -> Nat] /\ at[0] = 0
  BY <1>1
<1> HIDE DEF at
<1>5. at[Len(e)] = 0 /\ at[Len(e)] + Len(t) = Len(t)
  BY <1>3, <1>4
<1>6. Holds(t, at[Len(e)], t)
  BY <1>5, HoldsItself
<1>7. FramesAt(t, e, t, at)
  BY <1>3, <1>4, <1>5, <1>6 DEF FramesAt
<1> QED BY <1>2, <1>7 DEF Frames

\* Without packets there is only the rest.
LEMMA FramesOnly ==
    ASSUME NEW s, NEW t, Frames(s, <<>>, t)
    PROVE  s = t
<1>1. PICK at : FramesAt(s, <<>>, t, at)
  BY DEF Frames
<1>2. s \in Seq(Nat) /\ t \in Seq(Nat) /\ at[0] = 0 /\ at[0] + Len(t) = Len(s) /\ Holds(s, at[0], t)
  BY <1>1, Len(<<>>) = 0 DEF FramesAt
<1>3. Len(t) = Len(s) /\ Holds(s, 0, t)
  BY <1>2
<1>4. \A i \in 1..Len(s) : s[i] = t[i]
  BY <1>2, <1>3 DEF Holds
<1> QED BY <1>2, <1>3, <1>4, SeqEqual

\* What lies in s lies at the same offset in what begins with s.
LEMMA HoldsBefore ==
    ASSUME NEW s \in Seq(Nat), NEW r \in Seq(Nat), Holds(r, 0, s), NEW q \in Nat, NEW x \in Seq(Nat),
           Holds(s, q, x)
    PROVE  Holds(r, q, x)
<1>1. PICK o \in Nat : o = 0
  OBVIOUS
<1>2. Holds(r, o + q, x)
  BY <1>1, HoldsWithin
<1>3. o + q = q
  BY <1>1
<1> QED BY <1>2, <1>3

\* What is written after whole packets is the rest.
LEMMA FramesTail ==
    ASSUME NEW s, NEW ps, Frames(s, ps, <<>>), NEW t \in Seq(Nat)
    PROVE  Frames(s \o t, ps, t)
<1>1. PICK at : FramesAt(s, ps, <<>>, at)
  BY DEF Frames
<1>2. PICK r : r = s \o t
  OBVIOUS
<1>3. PICK m : m = Len(ps)
  OBVIOUS
<1>4. /\ s \in Seq(Nat) /\ ps \in Seq(Fitting) /\ at \in [0..m -> Nat] /\ at[0] = 0
      /\ at[m] + Len(<<>>) = Len(s) /\ m \in Nat
      /\ \A i \in 1..m : at[i] = at[i-1] + Len(Framed(ps[i])) /\ Holds(s, at[i-1], Framed(ps[i]))
  BY <1>1, <1>3 DEF FramesAt
<1>5. at[m] = Len(s)
  BY <1>4
<1>6. r \in Seq(Nat) /\ Len(r) = Len(s) + Len(t) /\ Holds(r, 0, s) /\ Holds(r, Len(s), t)
  BY <1>2, <1>4, HoldsTwo
<1>7. ASSUME NEW i \in 1..m PROVE Holds(r, at[i-1], Framed(ps[i]))
  <2>1. i - 1 \in 0..m /\ ps[i] \in Fitting
    BY <1>3, <1>4
  <2>2. at[i-1] \in Nat /\ Framed(ps[i]) \in Seq(Nat) /\ Holds(s, at[i-1], Framed(ps[i]))
    BY <1>4, <2>1, FittingIs
  <2> QED BY <1>4, <1>6, <2>2, HoldsBefore
<1>8. FramesAt(r, ps, t, at)
  BY <1>3, <1>4, <1>5, <1>6, <1>7 DEF FramesAt
<1> QED BY <1>2, <1>8 DEF Frames

\* What Append yields.
LEMMA Longest ==
    ASSUME NEW V, NEW ps \in Seq(V), NEW k \in V, NEW qs, qs = Append(ps, k)
    PROVE  /\ qs \in Seq(V) /\ Len(qs) = Len(ps) + 1 /\ Len(ps) \in Nat /\ qs[Len(ps) + 1] = k
           /\ \A i \in 1..Len(ps) : qs[i] = ps[i] /\ ps[i] \in V
<1>1. Len(ps) \in Nat /\ \A i \in 1..Len(ps) : ps[i] \in V
  OBVIOUS
<1> QED BY <1>1, AppendProperties

\* A packet written after whole packets is one more.
LEMMA FramesMore ==
    ASSUME NEW s, NEW ps, Frames(s, ps, <<>>), NEW k \in Fitting
    PROVE  Frames(s \o Framed(k), Append(ps, k), <<>>)
<1>1. PICK at : FramesAt(s, ps, <<>>, at)
  BY DEF Frames
<1>2. PICK F : F = Framed(k)
  OBVIOUS
<1>3. PICK r : r = s \o F
  OBVIOUS
<1>4. PICK m : m = Len(ps)
  OBVIOUS
<1>5. PICK qs : qs = Append(ps, k)
  OBVIOUS
<1>6. /\ s \in Seq(Nat) /\ ps \in Seq(Fitting) /\ at \in [0..m -> Nat] /\ at[0] = 0
      /\ at[m] + Len(<<>>) = Len(s)
      /\ \A i \in 1..m : at[i] = at[i-1] + Len(Framed(ps[i])) /\ Holds(s, at[i-1], Framed(ps[i]))
  BY <1>1, <1>4 DEF FramesAt
<1>7. /\ qs \in Seq(Fitting) /\ Len(qs) = m + 1 /\ m \in Nat /\ qs[m+1] = k
      /\ \A i \in 1..m : qs[i] = ps[i] /\ ps[i] \in Fitting
  BY <1>4, <1>5, <1>6, Longest
<1>8. F \in Seq(Nat) /\ Len(F) \in Nat \ {0}
  BY <1>2, FittingIs
<1>9. at[m] = Len(s) /\ Len(s) \in Nat
  <2>1. m \in 0..m /\ Len(<<>>) = 0
    BY <1>7
  <2> QED BY <1>6, <2>1
<1>10. r \in Seq(Nat) /\ Len(r) = Len(s) + Len(F) /\ Holds(r, 0, s) /\ Holds(r, Len(s), F)
  BY <1>3, <1>6, <1>8, HoldsTwo
<1> DEFINE b == [i \in 0..m+1 |-> IF i <= m THEN at[i] ELSE Len(r)]
<1>11. b \in [0..m+1 -> Nat] /\ \A i \in 0..m : b[i] = at[i] /\ at[i] \in Nat
  BY <1>6, <1>7, <1>10
<1>12. b[m+1] = Len(r)
  BY <1>7
<1> HIDE DEF b
<1>13. b[0] = 0
  <2>1. 0 \in 0..m
    BY <1>7
  <2> QED BY <1>6, <1>11, <2>1
<1>14. ASSUME NEW i \in 1..m+1
       PROVE  b[i] = b[i-1] + Len(Framed(qs[i])) /\ Holds(r, b[i-1], Framed(qs[i]))
  <2>1. CASE i = m + 1
    <3>1. i - 1 = m /\ m \in 0..m
      BY <1>7, <2>1
    <3>2. b[i-1] = Len(s)
      BY <1>9, <1>11, <3>1
    <3>3. Framed(qs[i]) = F
      BY <1>2, <1>7, <2>1
    <3> QED BY <1>10, <1>12, <2>1, <3>2, <3>3
  <2>2. CASE i # m + 1
    <3>1. i \in 1..m /\ i - 1 \in 0..m /\ i \in 0..m
      BY <1>7, <2>2
    <3>2. b[i-1] = at[i-1] /\ b[i] = at[i] /\ at[i-1] \in Nat /\ qs[i] = ps[i] /\ ps[i] \in Fitting
      BY <1>7, <1>11, <3>1
    <3>3. at[i] = at[i-1] + Len(Framed(ps[i])) /\ Holds(s, at[i-1], Framed(ps[i]))
      BY <1>6, <3>1
    <3>4. Framed(ps[i]) \in Seq(Nat)
      BY <3>2, FittingIs
    <3>5. Holds(r, at[i-1], Framed(ps[i]))
      BY <1>6, <1>10, <3>2, <3>3, <3>4, HoldsBefore
    <3> QED BY <3>2, <3>3, <3>5
  <2> QED BY <2>1, <2>2
<1>15. PICK e : e = <<>>
  OBVIOUS
<1>16. e \in Seq(Nat) /\ Len(e) = 0
  BY <1>15
<1>17. b[m+1] + Len(e) = Len(r) /\ Holds(r, b[m+1], e)
  BY <1>10, <1>12, <1>16 DEF Holds
<1>18. FramesAt(r, qs, e, b)
  BY <1>7, <1>10, <1>11, <1>13, <1>14, <1>16, <1>17 DEF FramesAt
<1> QED BY <1>2, <1>3, <1>5, <1>15, <1>18 DEF Frames

\* ReadPacket takes the first packet, and leaves the others and the rest.
LEMMA FramesRead ==
    ASSUME NEW s, NEW ps, NEW t, Frames(s, ps, t), ps # <<>>, NEW k, k = ps[1],
           ValidateFlags(k.type, k.flags), NEW n, n = Len(Framed(k))
    PROVE  /\ k \in Fitting /\ ReadPacket(s) = Got(k, n) /\ s \in Seq(Nat)
           /\ Frames(SubSeq(s, n + 1, Len(s)), Tail(ps), t)
<1>1. PICK at : FramesAt(s, ps, t, at)
  BY DEF Frames
<1>2. PICK m : m = Len(ps)
  OBVIOUS
<1>3. /\ s \in Seq(Nat) /\ ps \in Seq(Fitting) /\ at \in [0..m -> Nat] /\ at[0] = 0 /\ t \in Seq(Nat)
      /\ at[m] + Len(t) = Len(s) /\ Holds(s, at[m], t)
      /\ \A i \in 1..m : at[i] = at[i-1] + Len(Framed(ps[i])) /\ Holds(s, at[i-1], Framed(ps[i]))
  BY <1>1, <1>2 DEF FramesAt
<1>4. m \in Nat \ {0} /\ \A i \in 1..m : ps[i] \in Fitting
  BY <1>2, <1>3
<1>5. k \in Fitting /\ 1 \in 1..m /\ 1 - 1 = 0
  BY <1>4
<1>6. PICK F : F = Framed(k)
  OBVIOUS
<1>7. F \in Seq(Nat) /\ n \in Nat \ {0} /\ n = Len(F) /\ IsPacket(k)
  BY <1>5, <1>6, FittingIs
<1>8. at[1] = n /\ Holds(s, 0, F)
  BY <1>3, <1>5, <1>6, <1>7
<1>9. ReadPacket(s) = Got(k, n)
  <2>1. /\ k.type \in 0..15 /\ k.flags \in 0..15 /\ k.body \in Seq(Nat) /\ Len(k.body) <= Limit
        /\ k = [type |-> k.type, flags |-> k.flags, body |-> k.body]
    BY <1>7 DEF IsPacket
  <2>2. PICK a \in 0..15 : a = k.type
    BY <2>1
  <2>3. PICK b \in 0..15 : b = k.flags
    BY <2>1
  <2>4. PICK c \in Seq(Nat) : c = k.body
    BY <2>1
  <2>5. ValidateFlags(a, b) /\ Len(c) <= Limit /\ Holds(s, 0, Frame(a, b, c)) /\ n = Len(Frame(a, b, c))
        /\ k = [type |-> a, flags |-> b, body |-> c]
    BY <1>6, <1>7, <1>8, <2>1, <2>2, <2>3, <2>4 DEF Framed
  <2>6. ReadPacket(s) = Got([type |-> a, flags |-> b, body |-> c], Len(Frame(a, b, c)))
    BY <1>3, <2>5, PacketRead
  <2> QED BY <2>5, <2>6
<1> DEFINE r == SubSeq(s, n + 1, Len(s))
           qs == Tail(ps)
           b == [i \in 0..m-1 |-> at[i+1] - n]
<1>10. /\ n <= Len(s) /\ Len(s) \in Nat /\ r \in Seq(Nat) /\ Len(r) = Len(s) - n
       /\ Holds(s, n, r)
  <2>1. n <= Len(s) /\ Len(s) \in Nat
    <3>1. 0 + Len(F) <= Len(s)
      BY <1>8 DEF Holds
    <3> QED BY <1>3, <1>7, <3>1
  <2>2. n \in Nat
    BY <1>7
  <2>3. PICK e : e = Len(s)
    OBVIOUS
  <2>4. PICK g : g = r
    OBVIOUS
  <2>5. PICK l : l = Len(g)
    OBVIOUS
  <2>6. e \in Nat /\ n <= e /\ g = SubSeq(s, n + 1, e)
    BY <2>1, <2>3, <2>4
  <2>7. g \in Seq(Nat) /\ l = e - n /\ \A i \in 1..e - n : g[i] = s[n + i]
    <3>1. s \in Seq(Nat) /\ e <= Len(s)
      BY <1>3, <2>3, <2>6
    <3>2. /\ SubSeq(s, n + 1, e) \in Seq(Nat) /\ Len(SubSeq(s, n + 1, e)) = e - n
          /\ \A i \in 1..e - n : SubSeq(s, n + 1, e)[i] = s[n + i]
      BY ONLY <3>1, <2>2, <2>6, Slices
    <3> QED BY <2>5, <2>6, <3>2
  <2>8. n + l <= e /\ \A i \in 1..l : s[n+i] = g[i]
    BY <2>2, <2>6, <2>7
  <2>9. Holds(s, n, g)
    BY <2>3, <2>5, <2>8 DEF Holds
  <2> QED BY <2>1, <2>3, <2>4, <2>5, <2>7, <2>9
<1>11. /\ qs \in Seq(Fitting) /\ Len(qs) = m - 1 /\ \A i \in 1..m-1 : qs[i] = ps[i+1]
  BY <1>2, <1>3, <1>4, HeadTailProperties
<1> HIDE DEF r, qs
<1>12. \A i \in 1..m : at[i] >= n
  <2> DEFINE T == {i \in 0..m : i = 0 \/ at[i] >= n}
  <2>1. 0 \in T
    BY <1>4
  <2>2. ASSUME NEW i \in 1..m, i - 1 \in T PROVE i \in T
    <3>1. i - 1 \in 0..m /\ i \in 0..m
      BY <1>4
    <3>2. at[i] = at[i-1] + Len(Framed(ps[i])) /\ at[i-1] \in Nat /\ Len(Framed(ps[i])) \in Nat
      BY <1>3, <1>4, <3>1, FittingIs
    <3>3. CASE i = 1
      BY <1>7, <1>8, <3>1, <3>3
    <3>4. CASE i # 1
      <4>1. at[i-1] >= n
        BY <2>2, <3>4
      <4> QED BY <1>7, <3>1, <3>2, <4>1
    <3> QED BY <3>3, <3>4
  <2>3. \A i \in 0..m : i \in T
    <3> HIDE DEF T
    <3> QED BY <1>4, <2>1, <2>2, Induction
  <2>4. \A i \in 1..m : i \in 0..m /\ i # 0
    BY <1>4
  <2> QED BY <2>3, <2>4
<1>13. ASSUME NEW i \in 0..m-1 PROVE b[i] \in Nat /\ b[i] = at[i+1] - n /\ at[i+1] \in Nat /\ at[i+1] >= n /\ i + 1 \in 1..m
  <2>1. i + 1 \in 1..m /\ i + 1 \in 0..m
    BY <1>4
  <2>2. at[i+1] \in Nat /\ at[i+1] >= n
    BY <1>3, <1>12, <2>1
  <2> QED BY <1>7, <2>1, <2>2
<1>14. b \in [0..m-1 -> Nat]
  BY <1>13
<1> HIDE DEF b
\* What lies in s from n on lies in the rest.
<1>15. ASSUME NEW q \in Nat, q >= n, NEW x \in Seq(Nat), Holds(s, q, x) PROVE Holds(r, q - n, x)
  <2>1. PICK d : d = q - n
    OBVIOUS
  <2>2. d \in Nat /\ n + d = q /\ n \in Nat
    BY <1>7, <1>15, <2>1
  <2>3. q + Len(x) <= Len(s) /\ Len(x) \in Nat
    BY <1>15 DEF Holds
  <2>4. d + Len(x) <= Len(r)
    BY <1>10, <2>2, <2>3
  <2>5. Holds(s, n + d, x)
    BY <1>15, <2>2
  <2>6. Holds(r, d, x)
    BY <1>3, <1>10, <2>2, <2>4, <2>5, HoldsWithin
  <2> QED BY <2>1, <2>6
<1>16. b[0] = 0
  <2>1. 0 \in 0..m-1 /\ 0 + 1 = 1
    BY <1>4
  <2>2. b[0] = at[0+1] - n
    BY <1>13, <2>1
  <2> QED BY <1>7, <1>8, <2>1, <2>2
<1>17. b[m-1] + Len(t) = Len(r) /\ Holds(r, b[m-1], t)
  <2>1. m - 1 \in 0..m-1 /\ (m - 1) + 1 = m
    BY <1>4
  <2>2. b[m-1] = at[m] - n /\ at[m] \in Nat /\ at[m] >= n
    BY <1>13, <2>1
  <2>3. Holds(r, at[m] - n, t)
    BY <1>3, <1>15, <2>2
  <2>4. PICK l : l = Len(t)
    OBVIOUS
  <2>5. PICK e : e = Len(s)
    OBVIOUS
  <2>6. PICK x : x = at[m]
    OBVIOUS
  <2>7. x + l = e /\ b[m-1] = x - n /\ Len(r) = e - n /\ Holds(r, x - n, t)
    BY <1>3, <1>10, <2>2, <2>3, <2>4, <2>5, <2>6
  <2>8. l \in Nat /\ e \in Nat /\ x \in Nat /\ n \in Nat
    BY <1>3, <1>7, <2>2, <2>4, <2>5, <2>6
  <2>9. (x - n) + l = e - n
    BY <2>7, <2>8
  <2> QED BY <2>4, <2>7, <2>9
<1>18. ASSUME NEW i \in 1..m-1 PROVE b[i] = b[i-1] + Len(Framed(qs[i])) /\ Holds(r, b[i-1], Framed(qs[i]))
  <2>1. i \in 0..m-1 /\ i - 1 \in 0..m-1 /\ (i - 1) + 1 = i /\ i + 1 \in 1..m /\ (i + 1) - 1 = i
    BY <1>4
  <2>2. b[i] = at[i+1] - n /\ at[i+1] \in Nat /\ b[i-1] = at[i] - n /\ at[i] \in Nat /\ at[i] >= n
    BY <1>13, <2>1
  <2>3. at[i+1] = at[i] + Len(Framed(ps[i+1])) /\ Holds(s, at[i], Framed(ps[i+1])) /\ ps[i+1] \in Fitting
    BY <1>3, <1>4, <2>1
  <2>4. qs[i] = ps[i+1]
    BY <1>11
  <2>5. PICK G : G = Framed(qs[i])
    OBVIOUS
  <2>6. G \in Seq(Nat) /\ Len(G) \in Nat /\ at[i+1] = at[i] + Len(G) /\ Holds(s, at[i], G)
    BY <2>3, <2>4, <2>5, FittingIs
  <2>7. Holds(r, at[i] - n, G)
    BY <1>15, <2>2, <2>6
  <2>8. b[i] = b[i-1] + Len(G)
    BY <1>7, <2>2, <2>6
  <2> QED BY <2>2, <2>5, <2>7, <2>8
<1>19. FramesAt(r, qs, t, b)
  BY <1>3, <1>10, <1>11, <1>14, <1>16, <1>17, <1>18 DEF FramesAt
<1>20. Frames(r, qs, t)
  BY <1>19 DEF Frames
<1> QED BY <1>3, <1>5, <1>9, <1>20 DEF r, qs
-----
\* What a reader has kept after each of the packets ps.
Kept(kept, ps, types) ==
    /\ kept[0] = <<>>
    /\ \A i \in 1..Len(ps) : kept[i] = Keep(kept[i-1], ps[i], types)

\* A reader of whole packets finds them all, in their order: it keeps in step.
THEOREM StreamRead ==
    ASSUME NEW s, NEW ps, Frames(s, ps, <<>>), NEW types, NEW kept, Kept(kept, ps, types)
    PROVE  PacketsIn(s, types) = kept[Len(ps)]
<1>1. PICK at : FramesAt(s, ps, <<>>, at)
  BY DEF Frames
<1>2. PICK m : m = Len(ps)
  OBVIOUS
<1>3. /\ s \in Seq(Nat) /\ ps \in Seq(Fitting) /\ at \in [0..m -> Nat] /\ at[0] = 0
      /\ at[m] + Len(<<>>) = Len(s)
      /\ \A i \in 1..m : at[i] = at[i-1] + Len(Framed(ps[i])) /\ Holds(s, at[i-1], Framed(ps[i]))
  BY <1>1, <1>2 DEF FramesAt
<1>4. m \in Nat /\ \A i \in 1..m : ps[i] \in Fitting /\ i - 1 \in 0..m /\ i \in 0..m
  BY <1>2, <1>3
<1>5. PICK D : D = Len(s)
  OBVIOUS
<1>6. at[m] = D /\ D \in Nat
  <2>1. m \in 0..m /\ Len(<<>>) = 0
    BY <1>4
  <2> QED BY <1>3, <1>5, <2>1
<1>7. PICK f : Reads(f, s, types) /\ PacketsIn(s, types) = f[D].value
  BY <1>3, <1>5, ReaderRuns
<1>8. f[0] = Got(<<>>, 0) /\ \A i \in 1..D : f[i] = ReadNext(s, f[i-1], types)
  BY <1>5, <1>7 DEF Reads
<1>9. \A i \in 1..m : at[i-1] \in Nat /\ at[i] \in Nat /\ at[i-1] < at[i]
  <2> SUFFICES ASSUME NEW i \in 1..m PROVE at[i-1] \in Nat /\ at[i] \in Nat /\ at[i-1] < at[i]
    OBVIOUS
  <2>1. at[i-1] \in Nat /\ at[i] \in Nat
    BY <1>3, <1>4
  <2>2. PICK l : l = Len(Framed(ps[i]))
    OBVIOUS
  <2>3. at[i] = at[i-1] + l /\ l \in Nat \ {0}
    BY <1>3, <1>4, <2>2, FittingIs
  <2> QED BY <2>1, <2>3
<1>10. \A i \in 0..m : at[i] >= i
  <2> DEFINE T == {i \in 0..m : at[i] >= i}
  <2>1. 0 \in T
    BY <1>3, <1>4
  <2>2. ASSUME NEW i \in 1..m, i - 1 \in T PROVE i \in T
    BY <1>4, <1>9, <2>2
  <2>3. \A i \in 0..m : i \in T
    <3> HIDE DEF T
    <3> QED BY <1>4, <2>1, <2>2, Induction
  <2> QED BY <2>3
<1>11. m <= D
  BY <1>4, <1>6, <1>10
<1> DEFINE T == {i \in 0..m : f[i] = Got(kept[i], at[i])}
<1>12. 0 \in T
  <2>1. PICK o : o = 0
    OBVIOUS
  <2>2. f[o] = Got(<<>>, 0) /\ kept[o] = <<>> /\ at[o] = 0 /\ o \in 0..m
    BY <1>3, <1>4, <1>8, <2>1 DEF Kept
  <2>3. f[o] = Got(kept[o], at[o])
    BY <2>2
  <2>4. o \in T
    BY <2>2, <2>3
  <2> QED BY <2>1, <2>4
<1>13. ASSUME NEW i \in 1..m, i - 1 \in T PROVE i \in T
  <2>1. PICK a : a = at[i-1]
    OBVIOUS
  <2>2. PICK v : v = kept[i-1]
    OBVIOUS
  <2>3. PICK k : k = ps[i]
    OBVIOUS
  <2>4. f[i-1] = Got(v, a)
    BY <1>13, <2>1, <2>2
  <2>5. a \in Nat /\ k \in Fitting /\ Holds(s, a, Framed(k)) /\ at[i] = a + Len(Framed(k)) /\ IsPacket(k)
    BY <1>3, <1>4, <1>9, <2>1, <2>3, FittingIs
  <2>6. PICK before : before = f[i-1]
    OBVIOUS
  <2>7. ReadNext(s, before, types) = Got(Keep(v, k, types), a + Len(Framed(k)))
    BY <1>3, <2>4, <2>5, <2>6, NextRead
  <2>8. i \in 1..D
    BY <1>4, <1>6, <1>11
  <2>9. kept[i] = Keep(v, k, types)
    BY <1>2, <2>2, <2>3 DEF Kept
  <2>10. f[i] = Got(kept[i], at[i])
    BY <1>8, <2>5, <2>6, <2>7, <2>8, <2>9
  <2> QED BY <1>4, <2>10
<1>14. \A i \in 0..m : i \in T
  <2> HIDE DEF T
  <2> QED BY <1>4, <1>12, <1>13, Induction
<1>15. f[m] = Got(kept[m], D)
  <2>1. m \in 0..m
    BY <1>4
  <2> QED BY <1>6, <1>14, <2>1
<1> HIDE DEF T
<1> DEFINE U == {i \in 0..D : i < m \/ f[i] = Got(kept[m], D)}
<1>16. 0 \in U
  <2>1. m = 0 \/ 0 < m
    BY <1>4
  <2>2. 0 \in 0..D
    BY <1>6
  <2> QED BY <1>15, <2>1, <2>2
<1>17. ASSUME NEW i \in 1..D, i - 1 \in U PROVE i \in U
  <2>0. i \in 0..D /\ i \in Nat
    BY <1>6
  <2>1. CASE i < m
    BY <2>0, <2>1
  <2>2. CASE i = m
    BY <1>15, <2>0, <2>2
  <2>3. CASE i > m
    <3>1. f[i-1] = Got(kept[m], D)
      <4>1. ~(i - 1 < m)
        BY <1>4, <2>0, <2>3
      <4> QED BY <1>17, <4>1
    <3>2. PICK before : before = f[i-1]
      OBVIOUS
    <3>3. before.ptr = Len(s)
      BY <1>5, <3>1, <3>2, GotIs
    <3>4. ReadNext(s, before, types) = before
      BY <3>3 DEF ReadNext
    <3>5. f[i] = f[i-1]
      BY <1>8, <3>2, <3>4
    <3> QED BY <2>0, <3>1, <3>5
  <2> QED BY <1>4, <2>0, <2>1, <2>2, <2>3
<1>18. \A i \in 0..D : i \in U
  <2> HIDE DEF U
  <2> QED BY <1>6, <1>16, <1>17, Induction
<1>19. f[D] = Got(kept[m], D)
  <2>1. D \in 0..D /\ ~(D < m)
    BY <1>4, <1>6, <1>11
  <2> QED BY <1>18, <2>1
<1> QED BY <1>2, <1>7, <1>19, GotIs

-----------------------------------------------------------------------------
(***************************************************************************)
(* What the broker writes.                                                 *)
(***************************************************************************)
\* A remaining length that is found is a number, and its numeral lies in the bytes.
LEMMA LengthYields ==
    ASSUME NEW t \in Seq(Nat), NEW r, r = DecodeRemainingLength(t), Fine(r)
    PROVE  r.value \in Nat /\ r.ptr \in 1..Len(t)
<1> DEFINE last == {k \in 1..Min({Digits, Len(t)}) : ~More(t[k])}
           n    == Min(last)
<1>1. r = CASE last # {} -> Got(Worth(t)[n], n)
            [] last = {} /\ Len(t) >= Digits -> Error
            [] last = {} /\ Len(t) < Digits -> Waiting
  BY DEF DecodeRemainingLength
<1>2. Len(t) \in Nat /\ Digits \in Nat
  BY PacketsAssumption
<1>3. last # {}
  <2> SUFFICES ASSUME last = {} PROVE FALSE
    OBVIOUS
  <2>1. Len(t) >= Digits \/ Len(t) < Digits
    BY <1>2
  <2>2. r = Error \/ r = Waiting
    <3> HIDE DEF last, n
    <3>1. CASE Len(t) >= Digits
      BY <1>1, <1>2, <3>1
    <3>2. CASE ~(Len(t) >= Digits)
      BY <1>1, <1>2, <2>1, <3>2
    <3> QED BY <3>1, <3>2
  <2> QED BY <2>2 DEF Fine, Error, Waiting
<1>4. r = Got(Worth(t)[n], n)
  <2> HIDE DEF last, n
  <2> QED BY <1>1, <1>3
<1>5. last \subseteq 1..Depth(t) /\ Depth(t) \in Nat /\ Depth(t) <= Len(t)
  BY DepthIs DEF Depth
<1>6. n \in last
  <2>1. last \subseteq Nat
    BY <1>5
  <2>2. PICK L : L = last
    OBVIOUS
  <2>3. PICK m \in L : \A k \in L : m <= k
    BY <1>3, <2>1, <2>2, Least
  <2>4. Min(L) \in L
    <3>1. \E x : x \in L /\ \A y \in L : x <= y
      BY <2>3
    <3> QED BY <3>1 DEF Min
  <2> QED BY <2>2, <2>4
<1> HIDE DEF n, last
<1>7. n \in 1..Depth(t) /\ n \in 1..Len(t) /\ n \in 0..Depth(t)
  BY <1>2, <1>5, <1>6
<1>8. Worth(t)[n] \in Nat
  BY <1>7, WorthRec
<1> QED BY <1>4, <1>7, <1>8, GotIs

\* Whatever ReadPacket finds is a packet: numbers and a sequence of bytes.
LEMMA PacketYields ==
    ASSUME NEW s \in Seq(Nat), NEW r, r = ReadPacket(s), Fine(r)
    PROVE  /\ r.value.type \in Nat /\ r.value.flags \in Nat /\ r.value.body \in Seq(Nat)
           /\ r.ptr \in Nat
<1>1. s # <<>>
  BY DEF ReadPacket, Fine, Waiting
<1>2. PICK t : t = Tail(s)
  OBVIOUS
<1>3. t \in Seq(Nat) /\ Len(t) = Len(s) - 1 /\ Len(s) \in Nat \ {0}
  BY <1>1, <1>2
<1>4. PICK l : l = DecodeRemainingLength(t)
  OBVIOUS
<1>5. r = IF ~Fine(l) THEN l
          ELSE IF Len(s) < (1 + l.ptr) + l.value THEN Waiting
               ELSE Packet(s, 1 + l.ptr, (1 + l.ptr) + l.value)
  BY <1>1, <1>2, <1>4 DEF ReadPacket
<1>6. Fine(l)
  BY <1>5
<1>7. l.value \in Nat /\ l.ptr \in 1..Len(t)
  BY <1>3, <1>4, <1>6, LengthYields
<1>8. PICK start : start = 1 + l.ptr
  OBVIOUS
<1>9. PICK end : end = start + l.value
  OBVIOUS
<1>10. r = Packet(s, start, end) /\ ~(Len(s) < end)
  BY <1>5, <1>6, <1>8, <1>9 DEF Fine, Waiting
<1>11. start \in Nat /\ end \in Nat /\ start <= end /\ end <= Len(s)
  <2>1. PICK a \in Nat, v \in Nat, m \in Nat : a = l.ptr /\ v = l.value /\ m = Len(s)
    BY <1>3, <1>7
  <2> QED BY <1>8, <1>9, <1>10, <2>1
<1>12. SubSeq(s, start + 1, end) \in Seq(Nat)
  BY <1>11, Slices
<1>13. s[1] \in Nat
  <2>1. 1 \in 1..Len(s)
    BY <1>3
  <2> QED BY <2>1
<1>14. s[1] \div 16 \in Nat /\ s[1] % 16 \in Nat
  BY <1>13
<1>15. PICK k : k = [type |-> s[1] \div 16, flags |-> s[1] % 16, body |-> SubSeq(s, start + 1, end)]
  OBVIOUS
<1>16. r = Got(k, end)
  BY <1>10, <1>15 DEF Packet, Fine, Error
<1>17. k.type \in Nat /\ k.flags \in Nat /\ k.body \in Seq(Nat)
  BY <1>12, <1>14, <1>15
<1>18. r.value = k /\ r.ptr = end
  BY <1>16, GotIs
<1> QED BY <1>11, <1>17, <1>18

\* A packet alone is found, and nothing is left behind it.
LEMMA WholePacket ==
    ASSUME NEW k \in Fitting, ValidateFlags(k.type, k.flags), NEW s, s = Framed(k)
    PROVE  s \in Seq(Nat) /\ ReadPacket(s) = Got(k, Len(s)) /\ SubSeq(s, Len(s) + 1, Len(s)) = <<>>
<1>1. s \in Seq(Nat) /\ Len(s) \in Nat /\ IsPacket(k)
  BY FittingIs
<1>2. /\ k.type \in 0..15 /\ k.flags \in 0..15 /\ k.body \in Seq(Nat) /\ Len(k.body) <= Limit
      /\ k = [type |-> k.type, flags |-> k.flags, body |-> k.body]
  BY <1>1 DEF IsPacket
<1>3. PICK a \in 0..15, b \in 0..15, c \in Seq(Nat) : a = k.type /\ b = k.flags /\ c = k.body
  BY <1>2
<1>4. ValidateFlags(a, b) /\ Len(c) <= Limit /\ s = Frame(a, b, c) /\ k = [type |-> a, flags |-> b, body |-> c]
  BY <1>2, <1>3 DEF Framed
<1>5. Holds(s, 0, Frame(a, b, c))
  BY <1>1, <1>4, HoldsItself
<1>6. ReadPacket(s) = Got([type |-> a, flags |-> b, body |-> c], Len(Frame(a, b, c)))
  <2>1. ReadPacket(s) = Got([type |-> a, flags |-> b, body |-> c], Len(Frame(a, b, c)))
    BY <1>1, <1>4, <1>5, PacketRead
  <2> QED BY <2>1
<1>7. SubSeq(s, Len(s) + 1, Len(s)) = <<>>
  <2>1. PICK x : x = SubSeq(s, Len(s) + 1, Len(s))
    OBVIOUS
  <2>2. x \in Seq(Nat) /\ Len(x) = 0
    BY <1>1, <2>1, Slices
  <2> QED BY <2>1, <2>2
<1>8. ReadPacket(s) = Got(k, Len(s))
  <2>1. Len(Frame(a, b, c)) = Len(s)
    BY <1>4
  <2>2. ReadPacket(s) = Got(k, Len(Frame(a, b, c)))
    BY <1>4, <1>6
  <2> QED BY <2>1, <2>2
<1> QED BY <1>1, <1>7, <1>8

\* The body of a CONNECT is a sequence of bytes.
LEMMA ConnectBodyIs ==
    ASSUME NEW g, NEW id \in Seq(Nat), g.keepAlive \in Nat, g.clean \in BOOLEAN,
           g.topic \in Seq(Nat), g.content \in Seq(Nat), g.user \in Seq(Nat), g.password \in Seq(Nat)
    PROVE  ConnectBody(g, id) \in Seq(Nat)
<1>1. PICK b, A, B, C, D, E, F, G :
         /\ A = Field(ProtocolName)
         /\ B = <<4, ConnectBits(g.user, g.password, g.topic, g.clean)>>
         /\ C = Two(g.keepAlive)
         /\ D = Field(id)
         /\ E = Will(g.topic, g.content)
         /\ F = Maybe(g.user)
         /\ G = Maybe(g.password)
         /\ b = ConnectBody(g, id)
  OBVIOUS
<1>2. /\ b = A \o B \o C \o D \o E \o F \o G
      /\ A \in Seq(Nat) /\ B \in Seq(Nat) /\ C \in Seq(Nat) /\ D \in Seq(Nat)
      /\ E \in Seq(Nat) /\ F \in Seq(Nat) /\ G \in Seq(Nat)
  BY <1>1, Bodies
<1>3. \A x, y \in Seq(Nat) : x \o y \in Seq(Nat)
  BY Joint
<1>4. A \o B \in Seq(Nat)
  BY <1>2, <1>3
<1>5. A \o B \o C \in Seq(Nat)
  BY <1>2, <1>3, <1>4
<1>6. A \o B \o C \o D \in Seq(Nat)
  BY <1>2, <1>3, <1>5
<1>7. A \o B \o C \o D \o E \in Seq(Nat)
  BY <1>2, <1>3, <1>6
<1>8. A \o B \o C \o D \o E \o F \in Seq(Nat)
  BY <1>2, <1>3, <1>7
<1> QED BY <1>1, <1>2, <1>3, <1>8

\* A packet of these parts, if its body fits.
PacketWith(type, flags, body) == [type |-> type, flags |-> flags, body |-> body]

\* It does fit if its parts are right.
LEMMA PacketFits ==
    ASSUME NEW type \in 0..15, NEW flags \in 0..15, NEW body \in Seq(Nat), Len(body) <= Limit
    PROVE  PacketWith(type, flags, body) \in Fitting
BY DEF PacketWith, Fitting, Kind

\* Its parts, and its frame.
LEMMA PacketFields ==
    ASSUME NEW type, NEW flags, NEW body, NEW k, k = PacketWith(type, flags, body)
    PROVE  Framed(k) = Frame(type, flags, body) /\ k.type = type /\ k.flags = flags /\ k.body = body
BY DEF PacketWith, Framed

\* Two bytes, one after the other.
LEMMA Pairs ==
    ASSUME NEW a \in Nat, NEW b \in Nat
    PROVE  <<a>> \o <<b>> = <<a, b>>
<1>1. PICK x, y, r, t : x = <<a>> /\ y = <<b>> /\ r = x \o y /\ t = <<a, b>>
  OBVIOUS
<1>2. x \in Seq(Nat) /\ Len(x) = 1 /\ y \in Seq(Nat) /\ Len(y) = 1
  BY <1>1
<1>3. r \in Seq(Nat) /\ Len(r) = 2 /\ r[1] = x[1] /\ r[2] = y[1]
  BY <1>1, <1>2
<1>4. r[1] = a /\ r[2] = b
  BY <1>1, <1>3
<1>5. t \in Seq(Nat) /\ Len(t) = 2 /\ t[1] = a /\ t[2] = b
  BY <1>1
<1>6. \A i \in 1..2 : i = 1 \/ i = 2
  OBVIOUS
<1>7. r = t
  BY <1>3, <1>4, <1>5, <1>6, SeqEqual
<1> QED BY <1>1, <1>7

\* Four bytes, two by two.
LEMMA Fours ==
    ASSUME NEW a \in Nat, NEW b \in Nat, NEW c \in Nat, NEW d \in Nat
    PROVE  <<a, b>> \o <<c, d>> = <<a, b, c, d>>
<1>1. PICK x, y, r, t : x = <<a, b>> /\ y = <<c, d>> /\ r = x \o y /\ t = <<a, b, c, d>>
  OBVIOUS
<1>2. x \in Seq(Nat) /\ Len(x) = 2 /\ y \in Seq(Nat) /\ Len(y) = 2
  BY <1>1
<1>3. r \in Seq(Nat) /\ Len(r) = 4 /\ r[1] = x[1] /\ r[2] = x[2] /\ r[3] = y[1] /\ r[4] = y[2]
  BY <1>1, <1>2
<1>4. r[1] = a /\ r[2] = b /\ r[3] = c /\ r[4] = d
  BY <1>1, <1>3
<1>5. t \in Seq(Nat) /\ Len(t) = 4 /\ t[1] = a /\ t[2] = b /\ t[3] = c /\ t[4] = d
  BY <1>1
<1>6. \A i \in 1..4 : i = 1 \/ i = 2 \/ i = 3 \/ i = 4
  OBVIOUS
<1>7. r = t
  BY <1>3, <1>4, <1>5, <1>6, SeqEqual
<1> QED BY <1>1, <1>7

\* For a number of 16 bits, UInt16ToByte writes the two bytes of the protocol.
LEMMA SmallBytes ==
    ASSUME NEW n \in Nat, n < Byte * Byte
    PROVE  UInt16ToByte(n) = Two(n)
<1>1. Byte \in Nat \ {0}
  BY PacketsAssumption
<1>2. PICK q : q = n \div Byte
  OBVIOUS
<1>3. PICK r : r = n % Byte
  OBVIOUS
<1>4. q \in Nat /\ r \in 0..Byte-1 /\ n = Byte * q + r
  BY <1>1, <1>2, <1>3, DivMod
<1>5. q < Byte
  <2> SUFFICES ASSUME q >= Byte PROVE FALSE
    BY <1>1, <1>4
  <2>1. PICK d \in Nat : q = Byte + d
    <3>1. q - Byte \in Nat /\ q = Byte + (q - Byte)
      BY <1>1, <1>4
    <3> QED BY <3>1
  <2>2. Byte * q = Byte * Byte + Byte * d /\ Byte * d \in Nat /\ Byte * Byte \in Nat
    BY <1>1, <2>1
  <2> QED BY <1>1, <1>4, <2>2
<1>6. q % Byte = q
  BY <1>1, <1>4, <1>5
<1> QED BY <1>2, <1>3, <1>6 DEF UInt16ToByte, Two

\* It writes two bytes for any number.
LEMMA TwoBytes ==
    ASSUME NEW n \in Nat
    PROVE  UInt16ToByte(n) \in Seq(Nat) /\ Len(UInt16ToByte(n)) = 2
<1>1. Byte \in Nat \ {0}
  BY PacketsAssumption
<1>2. n \div Byte \in Nat
  BY <1>1, DivMod
<1>3. (n \div Byte) % Byte \in Nat /\ n % Byte \in Nat
  BY <1>1, <1>2, DivMod
<1> QED BY <1>3 DEF UInt16ToByte

\* An acknowledgement of the broker is a packet of MQTT.
LEMMA AckFramed ==
    ASSUME Limit >= 3, NEW type \in 0..15, NEW id \in Nat, NEW state \in Seq(Nat), Len(state) <= 1
    PROVE  \E k \in Fitting : k.type = type /\ Ack(type, id, state) = Framed(k)
<1>1. PICK u, body : u = UInt16ToByte(id) /\ body = u \o state
  OBVIOUS
<1>2. PICK n : n = Len(body)
  OBVIOUS
<1>3. body \in Seq(Nat) /\ n = 2 + Len(state) /\ Len(state) \in Nat
  <2>1. u \in Seq(Nat) /\ Len(u) = 2
    BY <1>1, TwoBytes
  <2> QED BY <1>1, <1>2, <2>1, Joint
<1>4. Limit \in Nat
  BY PowerFacts
<1>5. n \in 1..Limit /\ n <= Limit
  BY <1>3, <1>4
<1>6. PICK z \in 0..15 : z = 0
  OBVIOUS
<1>7. PICK k \in Fitting : Framed(k) = Frame(type, z, body) /\ k.type = type
  <2>1. Len(body) <= Limit
    BY <1>2, <1>5
  <2>2. PICK k : k = PacketWith(type, z, body)
    OBVIOUS
  <2>3. k \in Fitting
    BY <1>3, <2>1, <2>2, PacketFits
  <2>4. Framed(k) = Frame(type, z, body) /\ k.type = type
    BY <2>2, PacketFields
  <2> QED BY <2>3, <2>4
<1>8. EncodeRemainingLength(n) = Numeral[n]
  BY <1>5, NumeralEncoded
<1>9. PICK a : a = 16 * type
  OBVIOUS
<1>10. a = 16 * type + z
  BY <1>6, <1>9
<1>11. Ack(type, id, state) = <<a>> \o Numeral[n] \o body
  BY <1>1, <1>2, <1>8, <1>9 DEF Ack
<1>12. Frame(type, z, body) = <<a>> \o Numeral[n] \o body
  BY <1>2, <1>10 DEF Frame
<1> QED BY <1>7, <1>11, <1>12

\* A packet whose length is a digit.
LEMMA ShortFramed ==
    ASSUME Limit >= 3, NEW type \in 0..15, NEW body \in Seq(Nat), NEW n, n = Len(body), n <= 2
    PROVE  \E k \in Fitting : k.type = type /\ Framed(k) = <<16 * type, n>> \o body
<1>1. Limit \in Nat /\ n \in Nat /\ Base > 2 /\ Base \in Nat
  BY PowerFacts, PacketsAssumption
<1>2. n \in 0..Limit /\ n < Base
  BY <1>1
<1>3. Numeral[n] = <<n>>
  BY <1>2, OneDigit
<1>4. PICK z \in 0..15 : z = 0
  OBVIOUS
<1>5. PICK k \in Fitting : Framed(k) = Frame(type, z, body) /\ k.type = type
  <2>1. Len(body) <= Limit
    BY <1>1, <1>2
  <2>2. PICK k : k = PacketWith(type, z, body)
    OBVIOUS
  <2>3. k \in Fitting
    BY <2>1, <2>2, PacketFits
  <2>4. Framed(k) = Frame(type, z, body) /\ k.type = type
    BY <2>2, PacketFields
  <2> QED BY <2>3, <2>4
<1>6. PICK a : a = 16 * type
  OBVIOUS
<1>7. a = 16 * type + z /\ a \in Nat
  BY <1>4, <1>6
<1>8. Frame(type, z, body) = <<a>> \o <<n>> \o body
  BY <1>3, <1>7 DEF Frame
<1>9. <<a>> \o <<n>> = <<a, n>>
  BY <1>1, <1>7, Pairs
<1> QED BY <1>5, <1>6, <1>8, <1>9

\* So is its answer to CONNECT.
LEMMA ConnackFramed ==
    ASSUME Limit >= 3, NEW status \in BOOLEAN, NEW code \in Nat
    PROVE  \E k \in Fitting : k.type = PacketType.CONNACK /\ NewConnectAckPacket(status, code) = Framed(k)
<1>1. PICK x \in Nat : x = IF code = ConnectRespType.Accepted /\ status THEN 1 ELSE 0
  OBVIOUS
<1>2. PICK body : body = <<x, code>>
  OBVIOUS
<1>3. PICK n \in Nat : n = 2
  OBVIOUS
<1>4. body \in Seq(Nat) /\ n = Len(body) /\ n <= 2
  BY <1>2, <1>3
<1>5. PICK t \in 0..15 : t = PacketType.CONNACK
  BY DEF PacketType
<1>6. PICK k \in Fitting : k.type = t /\ Framed(k) = <<16 * t, n>> \o body
  BY <1>4, ShortFramed
<1>7. PICK a \in Nat : a = 16 * t
  OBVIOUS
<1>8. <<a, n>> \o body = <<a, n, x, code>>
  BY <1>2, Fours
<1>9. NewConnectAckPacket(status, code) = <<a, n, x, code>>
  BY <1>1, <1>3, <1>5, <1>7 DEF NewConnectAckPacket
<1> QED BY <1>5, <1>6, <1>7, <1>8, <1>9

\* So is its answer to PINGREQ.
LEMMA PingFramed ==
    ASSUME Limit >= 3
    PROVE  \E k \in Fitting : k.type = PacketType.PINGRESP /\ NewPingRespPacket = Framed(k)
<1>1. PICK body : body = <<>>
  OBVIOUS
<1>2. PICK z \in Nat : z = 0
  OBVIOUS
<1>3. body \in Seq(Nat) /\ z = Len(body) /\ z <= 2
  BY <1>1, <1>2
<1>4. PICK t \in 0..15 : t = PacketType.PINGRESP
  BY DEF PacketType
<1>5. PICK k \in Fitting : k.type = t /\ Framed(k) = <<16 * t, z>> \o body
  BY <1>3, ShortFramed
<1>6. PICK a \in Nat : a = 16 * t
  OBVIOUS
<1>7. <<a, z>> \o body = <<a, z>>
  BY <1>1
<1>8. NewPingRespPacket = <<a, z>>
  BY <1>2, <1>4, <1>6 DEF NewPingRespPacket
<1> QED BY <1>4, <1>5, <1>6, <1>7, <1>8

\* A PUBLISH of the broker is one of MQTT as long as its length and its identifier are.
THEOREM PublishFramed ==
    ASSUME NEW p, p.topic \in Seq(Nat), p.payload \in Seq(Nat), Len(p.topic) < Byte * Byte,
           NEW qos \in {0, 2}, NEW id \in Nat, id < Byte * Byte,
           NEW body, body = PublishBody(p, qos, id), Len(body) <= Limit,
           NEW k, k = PacketWith(PacketType.PUBLISH, 2 * qos, body)
    PROVE  k \in Fitting /\ NewPublishPacket(qos, p.topic, id, p.payload) = Framed(k)
<1>1. PICK A, B : A = Field(p.topic) /\ B = When(qos > 0, Two(id))
  OBVIOUS
<1>2. body = A \o B \o p.payload
  BY <1>1 DEF PublishBody
<1>3. /\ A \in Seq(Nat) /\ B \in Seq(Nat) /\ body \in Seq(Nat)
      /\ Len(body) = Len(A) + Len(B) + Len(p.payload) /\ Len(B) \in Nat
  <2>1. qos \in Nat
    OBVIOUS
  <2>2. PublishLaid(body, A, B, p.payload, qos)
    BY <1>1, <1>2, <2>1, PublishBodyIs
  <2> QED BY <2>2 DEF PublishLaid
<1>4. PICK n : n = Len(body)
  OBVIOUS
<1>5. Len(A) = 2 + Len(p.topic) /\ Len(p.topic) \in Nat /\ Len(p.payload) \in Nat
  BY <1>1, FieldIs
<1>6. n \in 1..Limit
  <2>1. PICK x \in Nat, y \in Nat, w \in Nat : x = Len(p.topic) /\ y = Len(B) /\ w = Len(p.payload)
    BY <1>3, <1>5
  <2>2. n = 2 + x + y + w /\ n <= Limit
    BY <1>3, <1>4, <1>5, <2>1
  <2>3. PICK l \in Nat : l = Limit
    BY PowerFacts
  <2> QED BY <2>2, <2>3
<1>7. PICK f : f = 2 * qos
  OBVIOUS
<1>8. f \in 0..15
  BY <1>7
<1>17. PICK t \in 0..15 : t = PacketType.PUBLISH
  BY DEF PacketType
<1>9. k \in Fitting /\ Framed(k) = Frame(t, f, body)
  <2>1. k = PacketWith(t, f, body)
    BY <1>7, <1>17
  <2>2. body \in Seq(Nat) /\ Len(body) <= Limit
    BY <1>3
  <2>3. k \in Fitting
    BY <1>8, <2>1, <2>2, PacketFits
  <2>4. Framed(k) = Frame(t, f, body)
    BY <2>1, PacketFields
  <2> QED BY <2>3, <2>4
<1>10. UInt16ToByte(Len(p.topic)) = Two(Len(p.topic)) /\ UInt16ToByte(id) = Two(id)
  BY <1>5, SmallBytes
<1>11. UInt16ToByte(Len(p.topic)) \o p.topic = A
  BY <1>1, <1>10 DEF Field
<1>12. (IF qos > 0 THEN UInt16ToByte(id) ELSE <<>>) = B
  BY <1>1, <1>10 DEF When
<1>13. NewPublishPacket(qos, p.topic, id, p.payload) = <<16 * t + f>> \o EncodeRemainingLength(n) \o body
  BY <1>2, <1>4, <1>7, <1>11, <1>12, <1>17 DEF NewPublishPacket
<1>14. EncodeRemainingLength(n) = Numeral[n]
  BY <1>6, NumeralEncoded
<1>15. Frame(t, f, body) = <<16 * t + f>> \o Numeral[n] \o body
  BY <1>4 DEF Frame
<1> QED BY <1>9, <1>13, <1>14, <1>15
\* s is whole packets, and x are those of these types.
Stream(s, types, x) ==
    \E ps, kept : Frames(s, ps, <<>>) /\ Kept(kept, ps, types) /\ kept[Len(ps)] = x

\* The reader of MQTT finds exactly those.
LEMMA StreamFound ==
    ASSUME NEW s, NEW types, NEW x, Stream(s, types, x)
    PROVE  PacketsIn(s, types) = x
BY StreamRead DEF Stream

\* An empty stream.
LEMMA StreamNone ==
    ASSUME NEW types
    PROVE  Stream(<<>>, types, <<>>)
<1>1. PICK e : e = <<>>
  OBVIOUS
<1>2. PICK o : o = 0
  OBVIOUS
<1>3. e \in Seq(Nat) /\ Len(e) = o /\ 1..o = {}
  BY <1>1, <1>2
<1>4. Frames(e, e, e)
  BY <1>1, <1>3, FramesNone
<1> DEFINE kept == [i \in {o} |-> e]
<1>5. kept[o] = e
  OBVIOUS
<1> HIDE DEF kept
<1>6. Kept(kept, e, types)
  BY <1>1, <1>2, <1>3, <1>5 DEF Kept
<1>7. Stream(e, types, e)
  BY <1>1, <1>3, <1>4, <1>5, <1>6 DEF Stream
<1> QED BY <1>1, <1>7

\* A packet written behind a stream keeps it one: the reader stays in step.
LEMMA StreamMore ==
    ASSUME NEW s, NEW types, NEW x, Stream(s, types, x), NEW k \in Fitting
    PROVE  Stream(s \o Framed(k), types, Keep(x, k, types))
<1>1. PICK ps, kept : Frames(s, ps, <<>>) /\ Kept(kept, ps, types) /\ kept[Len(ps)] = x
  BY DEF Stream
<1>2. PICK qs : qs = Append(ps, k)
  OBVIOUS
<1>3. PICK r : r = s \o Framed(k)
  OBVIOUS
<1>4. Frames(r, qs, <<>>)
  BY <1>1, <1>2, <1>3, FramesMore
<1>5. PICK m : m = Len(ps)
  OBVIOUS
<1>6. ps \in Seq(Fitting)
  BY <1>1 DEF Frames, FramesAt
<1>7. /\ Len(qs) = m + 1 /\ m \in Nat /\ qs[m+1] = k /\ \A i \in 1..m : qs[i] = ps[i]
  BY <1>2, <1>5, <1>6, Longest
<1>8. PICK y : y = Keep(x, k, types)
  OBVIOUS
<1> DEFINE more == [i \in 0..m+1 |-> IF i <= m THEN kept[i] ELSE y]
<1>9. more[m+1] = y /\ \A i \in 0..m : more[i] = kept[i]
  BY <1>7
<1> HIDE DEF more
<1>10. more[0] = <<>>
  <2>1. 0 \in 0..m /\ kept[0] = <<>>
    BY <1>1, <1>7 DEF Kept
  <2> QED BY <1>9, <2>1
<1>11. ASSUME NEW i \in 1..m+1 PROVE more[i] = Keep(more[i-1], qs[i], types)
  <2>1. CASE i = m + 1
    <3>1. i - 1 = m /\ m \in 0..m
      BY <1>7, <2>1
    <3> QED BY <1>1, <1>5, <1>7, <1>8, <1>9, <2>1, <3>1
  <2>2. CASE i # m + 1
    <3>1. i \in 1..m /\ i - 1 \in 0..m /\ i \in 0..m
      BY <1>7, <2>2
    <3>2. kept[i] = Keep(kept[i-1], ps[i], types)
      BY <1>1, <1>5, <3>1 DEF Kept
    <3> QED BY <1>7, <1>9, <3>1, <3>2
  <2> QED BY <2>1, <2>2
<1>12. Kept(more, qs, types) /\ more[Len(qs)] = y
  BY <1>7, <1>9, <1>10, <1>11 DEF Kept
<1>13. Stream(r, types, y)
  BY <1>4, <1>12 DEF Stream
<1> QED BY <1>3, <1>8, <1>13

=============================================================================
