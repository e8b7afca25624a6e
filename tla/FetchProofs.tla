----------------------------- MODULE FetchProofs -----------------------------
(***************************************************************************)
(* Proofs about Message, Exchange and Fetch, for any base and any width of  *)
(* the integers: what a number is written as is read back as that number,   *)
(* so the host executes what was judged, its answers are its table, and a   *)
(* fetch that succeeds has the rows it was asked for.                       *)
(*                                                                         *)
(* Induction over the naturals is used in the form of a set: one that has   *)
(* every number all smaller ones of which it has is Nat.                    *)
(***************************************************************************)
EXTENDS Fetch, WellFoundedInduction, TLAPS

(* Induction: a least number outside the set cannot be.                      *)
LEMMA StrongInduction ==
  ASSUME NEW S \in SUBSET Nat, \A n \in Nat : (\A m \in Nat : m < n => m \in S) => n \in S
  PROVE  S = Nat
<1> DEFINE R == {ss \in Nat \X Nat : ss[1] < ss[2]}
<1> DEFINE T == Nat \ S
<1>1. IsWellFoundedOn(R, Nat)
  BY NatLessThanWellFounded DEF OpToRel
<1>2. \A x, y \in Nat : <<x, y>> \in R <=> x < y
  OBVIOUS
<1>3. T \subseteq Nat
  OBVIOUS
<1> HIDE DEF R
<1>4. SUFFICES ASSUME T # {} PROVE FALSE
  OBVIOUS
<1> HIDE DEF T
<1>5. PICK n \in T : \A m \in T : ~(<<m, n>> \in R)
  BY <1>1, <1>3, <1>4, WFMin
<1>6. \A m \in Nat : m < n => m \notin T
  BY <1>2, <1>3, <1>5
<1> QED
  BY <1>5, <1>6 DEF T

-----------------------------------------------------------------------------
(* Digits.                                                                   *)

LEMMA BaseFacts == Base \in Nat /\ Base > 1
  BY BaseAssumption

(* Division by the base.                                                     *)
LEMMA Quotient ==
  ASSUME NEW b \in Nat, b > 0, NEW n \in Nat
  PROVE  n = b * (n \div b) + (n % b)
  BY Z3

LEMMA NoSmallMultiple ==
  ASSUME NEW b \in Nat, b > 0, NEW k \in Int, -b < b * k, b * k < b
  PROVE  k = 0
<1>1. CASE k >= 1
  <2>1. b * k >= b
    BY <1>1, Z3
  <2> QED
    BY <2>1
<1>2. CASE k <= -1
  <2>1. b * k <= -b
    BY <1>2, Z3
  <2> QED
    BY <2>1
<1> QED
  BY <1>1, <1>2

LEMMA QuotientUnique ==
  ASSUME NEW b \in Nat, b > 0, NEW q \in Nat, NEW d \in 0..(b - 1)
  PROVE  (q * b + d) \div b = q /\ (q * b + d) % b = d
<1> DEFINE n == q * b + d
<1>0. n \in Nat
  BY Z3
<1> DEFINE p == n \div b
<1> DEFINE r == n % b
<1>1. p \in Nat /\ r \in 0..(b - 1)
  BY <1>0, Z3
<1>2. n = b * p + r
  BY <1>0, Quotient
<1>3. n = b * q + d
  BY Z3
<1> HIDE DEF n, p, r
<1>4. b * (p - q) = b * p - b * q
  BY <1>1, Z3
<1>5. b * p \in Int /\ b * q \in Int
  BY <1>1
<1>6. b * (p - q) = d - r
  BY <1>1, <1>2, <1>3, <1>4, <1>5
<1>7. -b < b * (p - q) /\ b * (p - q) < b
  BY <1>1, <1>6
<1>8. p - q = 0
  BY <1>1, <1>7, NoSmallMultiple
<1> QED
  BY <1>1, <1>6, <1>8 DEF n, p, r

(* The last digit and what is before it.                                     *)
LEMMA LastDigit ==
  ASSUME NEW n \in Nat
  PROVE  /\ n \div Base \in Nat
         /\ n % Base \in 0..(Base - 1)
         /\ n = (n \div Base) * Base + (n % Base)
         /\ n >= Base => n \div Base < n /\ n \div Base > 0
<1>1. n \div Base \in Nat /\ n % Base \in 0..(Base - 1)
  BY BaseFacts, Z3
<1>2. n = Base * (n \div Base) + (n % Base)
  BY BaseFacts, Quotient
<1>3. n >= Base => n \div Base < n
  BY BaseFacts, Z3
<1>4. n >= Base => n \div Base > 0
  BY BaseFacts, Z3
<1>5. Base * (n \div Base) = (n \div Base) * Base
  BY <1>1, BaseFacts, Z3
<1> QED
  BY <1>1, <1>2, <1>3, <1>4, <1>5

Digit == 0..(Base - 1)

(* One unfolding of DigitsOf, and a table of it up to n.                     *)
DigitsStep(f, m) == IF m < Base THEN <<m>> ELSE Append(f[m \div Base], m % Base)

IsTable(f, n) ==
  /\ f \in [0..n -> Seq(Digit)]
  /\ \A m \in 0..n : f[m] = DigitsStep(f, m)

LEMMA StepType ==
  ASSUME NEW m \in Nat, NEW f, m >= Base => f[m \div Base] \in Seq(Digit)
  PROVE  DigitsStep(f, m) \in Seq(Digit)
<1>1. CASE m < Base
  <2>1. m \in Digit
    BY <1>1, BaseFacts DEF Digit
  <2> QED
    BY <1>1, <2>1 DEF DigitsStep
<1>2. CASE m >= Base
  <2>1. m % Base \in Digit
    BY LastDigit DEF Digit
  <2> QED
    BY <1>2, <2>1, BaseFacts DEF DigitsStep
<1> QED
  BY <1>1, <1>2, BaseFacts

LEMMA TableExists ==
  ASSUME NEW n \in Nat
  PROVE  \E f : IsTable(f, n)
<1> DEFINE S == {k \in Nat : \E f : IsTable(f, k)}
<1> SUFFICES ASSUME NEW k \in Nat, \A m \in Nat : m < k => m \in S
             PROVE  k \in S
  <2>1. S \in SUBSET Nat
    OBVIOUS
  <2> HIDE DEF S
  <2>2. S = Nat
    BY <2>1, StrongInduction
  <2> QED
    BY <2>2 DEF S
<1>1. CASE k = 0
  <2> DEFINE f == [m \in 0..0 |-> <<m>>]
  <2>1. 0 \in Digit /\ 0 < Base
    BY BaseFacts DEF Digit
  <2>2. IsTable(f, 0)
    BY <2>1 DEF IsTable, DigitsStep
  <2> QED
    BY <1>1, <2>2
<1>2. CASE k > 0
  <2>1. k - 1 \in Nat /\ k - 1 < k
    BY <1>2
  <2>2. PICK g : IsTable(g, k - 1)
    BY <2>1
  <2> DEFINE f == [m \in 0..k |-> IF m < k THEN g[m] ELSE DigitsStep(g, k)]
  <2>3. ASSUME NEW m \in 0..k, m >= Base
        PROVE  m \div Base \in 0..(k - 1)
    <3>1. m \in Nat
      OBVIOUS
    <3>2. m \div Base \in Nat /\ m \div Base < m
      BY <2>3, <3>1, LastDigit
    <3> QED
      BY <3>2
  <2>4. \A m \in 0..(k - 1) : m \in 0..k /\ m < k /\ f[m] = g[m] /\ g[m] \in Seq(Digit)
    BY <2>2 DEF IsTable
  <2>5. DigitsStep(g, k) \in Seq(Digit)
    <3>1. k >= Base => k \div Base \in 0..(k - 1)
      BY <2>3
    <3>2. k >= Base => g[k \div Base] \in Seq(Digit)
      BY <2>4, <3>1
    <3> QED
      BY <3>2, StepType
  <2>6. f \in [0..k -> Seq(Digit)]
    <3>1. \A m \in 0..k : m < k => m \in 0..(k - 1)
      OBVIOUS
    <3>2. \A m \in 0..k : m < k => g[m] \in Seq(Digit)
      BY <2>4, <3>1
    <3> QED
      BY <2>5, <3>2
  <2>7. f[k] = DigitsStep(g, k)
    OBVIOUS
  <2> HIDE DEF f
  <2>8. \A m \in 0..k : DigitsStep(f, m) = DigitsStep(g, m)
    BY <2>3, <2>4, BaseFacts DEF DigitsStep
  <2>9. \A m \in 0..k : f[m] = DigitsStep(f, m)
    BY <2>2, <2>4, <2>7, <2>8 DEF IsTable
  <2> QED
    BY <2>6, <2>9 DEF IsTable
<1> QED
  BY <1>1, <1>2

LEMMA TablesAgree ==
  ASSUME NEW k \in Nat, NEW f, IsTable(f, k), NEW n \in Nat, NEW g, IsTable(g, n),
         NEW m \in Nat, m <= k, m <= n
  PROVE  f[m] = g[m]
<1> DEFINE S == {i \in Nat : i <= k /\ i <= n => f[i] = g[i]}
<1> SUFFICES ASSUME NEW i \in Nat, \A j \in Nat : j < i => j \in S, i <= k, i <= n
             PROVE  f[i] = g[i]
  <2>1. S \in SUBSET Nat
    OBVIOUS
  <2>2. \A i \in Nat : (\A j \in Nat : j < i => j \in S) => i \in S
    OBVIOUS
  <2> HIDE DEF S
  <2>3. S = Nat
    BY <2>1, <2>2, StrongInduction
  <2> QED
    BY <2>3 DEF S
<1>1. f[i] = DigitsStep(f, i) /\ g[i] = DigitsStep(g, i)
  BY DEF IsTable
<1>2. i >= Base => f[i \div Base] = g[i \div Base]
  BY LastDigit
<1> QED
  BY <1>1, <1>2, BaseFacts DEF DigitsStep

(* The recursive definition has a solution, and DigitsOf is one.             *)
LEMMA DigitsOfEquation ==
  ASSUME NEW n \in Nat
  PROVE  DigitsOf[n] = DigitsStep(DigitsOf, n)
<1> DEFINE Table(m) == CHOOSE f : IsTable(f, m)
<1> DEFINE F == [m \in Nat |-> Table(m)[m]]
<1>1. \A m \in Nat : IsTable(Table(m), m)
  BY TableExists
<1> HIDE DEF Table
<1>2. ASSUME NEW m \in Nat
      PROVE  F[m] = DigitsStep(F, m)
  <2>1. F[m] = DigitsStep(Table(m), m)
    BY <1>1 DEF IsTable
  <2>2. m >= Base => Table(m)[m \div Base] = F[m \div Base]
    <3>1. ASSUME m >= Base
          PROVE  Table(m)[m \div Base] = F[m \div Base]
      <4>1. m \div Base \in Nat /\ m \div Base < m
        BY <3>1, LastDigit
      <4>2. Table(m)[m \div Base] = Table(m \div Base)[m \div Base]
        BY <1>1, <4>1, TablesAgree
      <4> QED
        BY <4>1, <4>2
    <3> QED
      BY <3>1
  <2> QED
    BY <2>1, <2>2, BaseFacts DEF DigitsStep
<1>3. F = [m \in Nat |-> DigitsStep(F, m)]
  BY <1>2
<1> HIDE DEF F
<1> DEFINE G == CHOOSE f : f = [m \in Nat |-> DigitsStep(f, m)]
<1>4. G = [m \in Nat |-> DigitsStep(G, m)]
  BY <1>3
<1>5. DigitsOf = G
  BY DEF DigitsOf, DigitsStep
<1> HIDE DEF G
<1> QED
  BY <1>4, <1>5

-----------------------------------------------------------------------------
(* Reading and writing digits.                                               *)

(* DigitsOf writes digits.                                                   *)
LEMMA DigitsOfType ==
  ASSUME NEW n \in Nat
  PROVE  DigitsOf[n] \in Seq(Digit) /\ Len(DigitsOf[n]) \in Nat \ {0}
<1> DEFINE S == {k \in Nat : DigitsOf[k] \in Seq(Digit)}
<1>1. ASSUME NEW k \in Nat, \A m \in Nat : m < k => m \in S
      PROVE  k \in S
  <2>1. k >= Base => DigitsOf[k \div Base] \in Seq(Digit)
    BY <1>1, LastDigit
  <2> QED
    BY <2>1, DigitsOfEquation, StepType
<1>2. S \in SUBSET Nat
  OBVIOUS
<1> HIDE DEF S
<1>3. S = Nat
  BY <1>1, <1>2, StrongInduction
<1>4. \A k \in Nat : DigitsOf[k] \in Seq(Digit)
  BY <1>3 DEF S
<1> DEFINE E == DigitsStep(DigitsOf, n)
<1>0. DigitsOf[n] = E
  BY DigitsOfEquation
<1>5. CASE n < Base
  <2>1. E = <<n>>
    BY <1>5 DEF DigitsStep
  <2>2. DigitsOf[n] = <<n>>
    BY <1>0, <2>1
  <2>3. Len(DigitsOf[n]) = 1
    BY <2>2
  <2>4. DigitsOf[n] \in Seq(Digit)
    BY <1>4
  <2> QED
    BY <2>3, <2>4
<1>6. CASE n >= Base
  <2>1. DigitsOf[n \div Base] \in Seq(Digit)
    BY <1>4, <1>6, LastDigit
  <2>2. DigitsOf[n] = Append(DigitsOf[n \div Base], n % Base)
    <3>1. E = Append(DigitsOf[n \div Base], n % Base)
      BY <1>6, BaseFacts DEF DigitsStep
    <3> QED
      BY <1>0, <3>1
  <2> QED
    BY <1>4, <2>1, <2>2
<1> QED
  BY <1>5, <1>6, BaseFacts

(* What a sequence of digits comes to: Prefixes has a solution, too.         *)
PrefixStep(ds, f, i) == IF i = 0 THEN 0 ELSE f[i - 1] * Base + ds[i]

LEMMA PrefixTable ==
  ASSUME NEW ds \in Seq(Nat), NEW n \in Nat, n <= Len(ds)
  PROVE  \E f \in [0..n -> Nat] : \A i \in 0..n : f[i] = PrefixStep(ds, f, i)
<1> DEFINE IsPrefix(f, k) == \A i \in 0..k : f[i] = PrefixStep(ds, f, i)
<1> DEFINE S == {k \in Nat : k <= Len(ds) => \E f \in [0..k -> Nat] : IsPrefix(f, k)}
<1> SUFFICES ASSUME NEW k \in Nat, \A m \in Nat : m < k => m \in S, k <= Len(ds)
             PROVE  \E f \in [0..k -> Nat] : IsPrefix(f, k)
  <2>1. S \in SUBSET Nat
    OBVIOUS
  <2>2. \A k \in Nat : (\A m \in Nat : m < k => m \in S) => k \in S
    OBVIOUS
  <2> HIDE DEF S
  <2>3. S = Nat
    BY <2>1, <2>2, StrongInduction
  <2> QED
    BY <2>3 DEF S
<1>1. CASE k = 0
  <2> DEFINE f == [i \in 0..0 |-> 0]
  <2>1. f \in [0..0 -> Nat] /\ IsPrefix(f, 0)
    BY DEF PrefixStep
  <2> QED
    BY <1>1, <2>1
<1>2. CASE k > 0
  <2>1. k - 1 \in Nat /\ k - 1 < k /\ k - 1 <= Len(ds)
    BY <1>2
  <2>2. PICK g \in [0..(k - 1) -> Nat] : IsPrefix(g, k - 1)
    BY <2>1
  <2>3. ds[k] \in Nat /\ g[k - 1] \in Nat
    BY <1>2, <2>1
  <2>4. g[k - 1] * Base + ds[k] \in Nat
    <3>1. g[k - 1] * Base \in Nat
      BY <2>3, BaseFacts
    <3> QED
      BY <2>3, <3>1
  <2> DEFINE f == [i \in 0..k |-> IF i < k THEN g[i] ELSE g[k - 1] * Base + ds[k]]
  <2>5. \A i \in 0..k : i < k => i \in 0..(k - 1) /\ g[i] \in Nat
    OBVIOUS
  <2>6. f \in [0..k -> Nat]
    BY <2>4, <2>5
  <2>7. f[k] = g[k - 1] * Base + ds[k] /\ \A i \in 0..(k - 1) : f[i] = g[i]
    <3>1. k \in 0..k /\ ~(k < k)
      OBVIOUS
    <3>2. \A i \in 0..(k - 1) : i \in 0..k /\ i < k
      OBVIOUS
    <3> QED
      BY <3>1, <3>2
  <2> HIDE DEF f
  <2>8. f[k] = PrefixStep(ds, f, k)
    BY <1>2, <2>1, <2>7 DEF PrefixStep
  <2>9. ASSUME NEW i \in 0..(k - 1)
        PROVE  f[i] = PrefixStep(ds, f, i)
    <3>1. i # 0 => i - 1 \in 0..(k - 1)
      OBVIOUS
    <3> QED
      BY <2>2, <2>7, <3>1 DEF PrefixStep
  <2> QED
    BY <2>6, <2>8, <2>9
<1> QED
  BY <1>1, <1>2

LEMMA PrefixesEquation ==
  ASSUME NEW ds \in Seq(Nat)
  PROVE  /\ \A i \in 0..Len(ds) : Prefixes(ds)[i] = PrefixStep(ds, Prefixes(ds), i)
         /\ Natural(ds) = Prefixes(ds)[Len(ds)]
<1>0. Len(ds) \in Nat /\ Len(ds) <= Len(ds)
  OBVIOUS
<1>1. PICK f \in [0..Len(ds) -> Nat] : \A i \in 0..Len(ds) : f[i] = PrefixStep(ds, f, i)
  BY <1>0, PrefixTable
<1>2. f = [i \in 0..Len(ds) |-> PrefixStep(ds, f, i)]
  BY <1>1
<1> DEFINE G == CHOOSE g : g = [i \in 0..Len(ds) |-> PrefixStep(ds, g, i)]
<1>3. G = [i \in 0..Len(ds) |-> PrefixStep(ds, G, i)]
  BY <1>2
<1>4. Prefixes(ds) = G
  BY DEF Prefixes, PrefixStep
<1> HIDE DEF G
<1> QED
  BY <1>3, <1>4 DEF Natural

(* Every prefix of digits comes to a natural number.                         *)
LEMMA PrefixesType ==
  ASSUME NEW ds \in Seq(Nat), NEW n \in 0..Len(ds)
  PROVE  Prefixes(ds)[n] \in Nat
<1> DEFINE S == {i \in Nat : i <= Len(ds) => Prefixes(ds)[i] \in Nat}
<1> SUFFICES ASSUME NEW k \in Nat, \A m \in Nat : m < k => m \in S, k <= Len(ds)
             PROVE  Prefixes(ds)[k] \in Nat
  <2>1. S \in SUBSET Nat
    OBVIOUS
  <2>2. \A k \in Nat : (\A m \in Nat : m < k => m \in S) => k \in S
    OBVIOUS
  <2> HIDE DEF S
  <2>3. S = Nat
    BY <2>1, <2>2, StrongInduction
  <2>4. n \in Nat /\ n <= Len(ds)
    OBVIOUS
  <2> QED
    BY <2>3, <2>4 DEF S
<1>1. Prefixes(ds)[k] = PrefixStep(ds, Prefixes(ds), k)
  BY PrefixesEquation
<1>2. CASE k = 0
  BY <1>1, <1>2 DEF PrefixStep
<1>3. CASE k > 0
  <2>1. Prefixes(ds)[k - 1] \in Nat /\ ds[k] \in Nat
    BY <1>3
  <2>2. Prefixes(ds)[k - 1] * Base \in Nat
    BY <2>1, BaseFacts
  <2> QED
    BY <1>1, <1>3, <2>1, <2>2 DEF PrefixStep
<1> QED
  BY <1>2, <1>3

(* Reading one digit more.                                                   *)
LEMMA NaturalEmpty == Natural(<<>>) = 0
<1>1. <<>> \in Seq(Nat) /\ Len(<<>>) = 0 /\ 0 \in 0..0
  OBVIOUS
<1>2. Prefixes(<<>>)[0] = PrefixStep(<<>>, Prefixes(<<>>), 0)
  BY <1>1, PrefixesEquation
<1>3. Natural(<<>>) = Prefixes(<<>>)[0]
  BY <1>1, PrefixesEquation
<1> QED
  BY <1>2, <1>3 DEF PrefixStep

LEMMA NaturalType ==
  ASSUME NEW ds \in Seq(Nat)
  PROVE  Natural(ds) \in Nat
<1>1. Len(ds) \in 0..Len(ds)
  OBVIOUS
<1> QED
  BY <1>1, PrefixesEquation, PrefixesType

LEMMA NaturalAppend ==
  ASSUME NEW ds \in Seq(Nat), NEW d \in Nat
  PROVE  Natural(Append(ds, d)) = Natural(ds) * Base + d
<1> DEFINE es == Append(ds, d)
<1> DEFINE S == {i \in Nat : i <= Len(ds) => Prefixes(es)[i] = Prefixes(ds)[i]}
<1>1. /\ es \in Seq(Nat) /\ Len(es) = Len(ds) + 1
      /\ es[Len(ds) + 1] = d
      /\ \A i \in 1..Len(ds) : es[i] = ds[i]
  OBVIOUS
<1> HIDE DEF es
<1>2. ASSUME NEW k \in Nat, \A m \in Nat : m < k => m \in S, k <= Len(ds)
      PROVE  Prefixes(es)[k] = Prefixes(ds)[k]
  <2>1. k \in 0..Len(es) /\ k \in 0..Len(ds)
    BY <1>1, <1>2
  <2>2. /\ Prefixes(es)[k] = PrefixStep(es, Prefixes(es), k)
        /\ Prefixes(ds)[k] = PrefixStep(ds, Prefixes(ds), k)
    BY <1>1, <2>1, PrefixesEquation
  <2>3. k # 0 => Prefixes(es)[k - 1] = Prefixes(ds)[k - 1] /\ es[k] = ds[k]
    BY <1>1, <1>2
  <2> QED
    BY <2>2, <2>3 DEF PrefixStep
<1>3. S \in SUBSET Nat /\ \A k \in Nat : (\A m \in Nat : m < k => m \in S) => k \in S
  BY <1>2
<1>4. Len(ds) \in S
  <2> HIDE DEF S
  <2>1. S = Nat
    BY <1>3, StrongInduction
  <2> QED
    BY <2>1
<1>5. Prefixes(es)[Len(ds)] = Natural(ds)
  BY <1>4, PrefixesEquation
<1>6. Natural(es) = Prefixes(es)[Len(ds) + 1]
  BY <1>1, PrefixesEquation
<1>7. Prefixes(es)[Len(ds) + 1] = PrefixStep(es, Prefixes(es), Len(ds) + 1)
  BY <1>1, PrefixesEquation
<1>8. PrefixStep(es, Prefixes(es), Len(ds) + 1) = Prefixes(es)[Len(ds)] * Base + d
  BY <1>1 DEF PrefixStep
<1> QED
  BY <1>5, <1>6, <1>7, <1>8 DEF es

(* A zero in front changes nothing.                                          *)
LEMMA NaturalLeadingZero ==
  ASSUME NEW ds \in Seq(Nat)
  PROVE  Natural(<<0>> \o ds) = Natural(ds)
<1> DEFINE es == <<0>> \o ds
<1> DEFINE S == {i \in Nat : i <= Len(ds) => Prefixes(es)[i + 1] = Prefixes(ds)[i]}
<1>1. /\ es \in Seq(Nat) /\ Len(es) = Len(ds) + 1
      /\ es[1] = 0
      /\ \A i \in 1..Len(ds) : es[i + 1] = ds[i]
  OBVIOUS
<1> HIDE DEF es
<1>2. \A i \in 0..Len(es) : Prefixes(es)[i] = PrefixStep(es, Prefixes(es), i)
  BY <1>1, PrefixesEquation
<1>3. ASSUME NEW k \in Nat, \A m \in Nat : m < k => m \in S, k <= Len(ds)
      PROVE  Prefixes(es)[k + 1] = Prefixes(ds)[k]
  <2>1. k \in 0..Len(ds) /\ k + 1 \in 0..Len(es) /\ k + 1 # 0 /\ (k + 1) - 1 = k
    BY <1>1, <1>3
  <2>2. Prefixes(ds)[k] = PrefixStep(ds, Prefixes(ds), k)
    BY <2>1, PrefixesEquation
  <2>3. Prefixes(es)[k + 1] = Prefixes(es)[k] * Base + es[k + 1]
    BY <1>2, <2>1 DEF PrefixStep
  <2>4. CASE k = 0
    <3>1. 0 \in 0..Len(es)
      BY <1>1
    <3>2. Prefixes(es)[0] = 0
      BY <1>2, <3>1 DEF PrefixStep
    <3> QED
      BY <1>1, <2>2, <2>3, <2>4, <3>2, BaseFacts DEF PrefixStep
  <2>5. CASE k # 0
    <3>1. k - 1 \in Nat /\ k - 1 < k /\ k - 1 <= Len(ds) /\ (k - 1) + 1 = k /\ k \in 1..Len(ds)
      BY <2>1, <2>5
    <3>2. Prefixes(es)[k] = Prefixes(ds)[k - 1]
      BY <1>3, <3>1
    <3> QED
      BY <1>1, <2>2, <2>3, <2>5, <3>1, <3>2 DEF PrefixStep
  <2> QED
    BY <2>4, <2>5
<1>4. S \in SUBSET Nat /\ \A k \in Nat : (\A m \in Nat : m < k => m \in S) => k \in S
  BY <1>3
<1>5. Len(ds) \in S
  <2> HIDE DEF S
  <2>1. S = Nat
    BY <1>4, StrongInduction
  <2> QED
    BY <2>1
<1>6. Prefixes(es)[Len(ds) + 1] = Natural(ds)
  BY <1>5, PrefixesEquation
<1>7. Natural(es) = Prefixes(es)[Len(ds) + 1]
  BY <1>1, PrefixesEquation
<1> QED
  BY <1>6, <1>7 DEF es

LEMMA DigitsAreNaturals == Seq(Digit) \subseteq Seq(Nat)
<1>1. Digit \subseteq Nat
  BY BaseFacts DEF Digit
<1> SUFFICES ASSUME NEW s \in Seq(Digit) PROVE s \in Seq(Nat)
  OBVIOUS
<1>2. Len(s) \in Nat /\ s \in [1..Len(s) -> Digit]
  OBVIOUS
<1>3. s \in [1..Len(s) -> Nat]
  BY <1>1, <1>2
<1> QED
  BY <1>2, <1>3

(* What is written is read back.                                             *)
LEMMA NaturalOfDigits ==
  ASSUME NEW n \in Nat
  PROVE  Natural(DigitsOf[n]) = n
<1> DEFINE S == {k \in Nat : Natural(DigitsOf[k]) = k}
<1>1. ASSUME NEW k \in Nat, \A m \in Nat : m < k => m \in S
      PROVE  Natural(DigitsOf[k]) = k
  <2>1. DigitsOf[k] = DigitsStep(DigitsOf, k)
    BY DigitsOfEquation
  <2>2. CASE k < Base
    <3>1. DigitsOf[k] = <<k>>
      BY <2>1, <2>2 DEF DigitsStep
    <3>2. <<k>> = Append(<<>>, k) /\ <<>> \in Seq(Nat)
      OBVIOUS
    <3>3. Natural(Append(<<>>, k)) = Natural(<<>>) * Base + k
      BY <3>2, NaturalAppend
    <3> QED
      BY <3>1, <3>2, <3>3, NaturalEmpty, BaseFacts
  <2>3. CASE k >= Base
    <3> DEFINE q == k \div Base
    <3> DEFINE d == k % Base
    <3>1. q \in Nat /\ q < k /\ d \in Nat /\ k = q * Base + d
      BY <2>3, LastDigit, BaseFacts
    <3>2. DigitsOf[k] = Append(DigitsOf[q], d)
      BY <2>1, <2>3, BaseFacts DEF DigitsStep
    <3> HIDE DEF q, d
    <3>3. Natural(DigitsOf[q]) = q
      BY <1>1, <3>1
    <3>4. DigitsOf[q] \in Seq(Nat)
      BY <3>1, DigitsOfType, DigitsAreNaturals
    <3>5. Natural(Append(DigitsOf[q], d)) = q * Base + d
      BY <3>1, <3>3, <3>4, NaturalAppend
    <3> QED
      BY <3>1, <3>2, <3>5
  <2> QED
    BY <2>2, <2>3, BaseFacts
<1>2. S \in SUBSET Nat /\ \A k \in Nat : (\A m \in Nat : m < k => m \in S) => k \in S
  BY <1>1
<1> HIDE DEF S
<1>3. S = Nat
  BY <1>2, StrongInduction
<1> QED
  BY <1>3 DEF S

(* The digits of one digit more.                                             *)
LEMMA OneDigit ==
  ASSUME NEW d \in Nat, d < Base
  PROVE  Len(DigitsOf[d]) = 1
<1>1. DigitsOf[d] = DigitsStep(DigitsOf, d)
  BY DigitsOfEquation
<1>2. DigitsOf[d] = <<d>>
  BY <1>1 DEF DigitsStep
<1> QED
  BY <1>2

LEMMA MoreDigits ==
  ASSUME NEW p \in Nat, p > 0, NEW d \in Digit
  PROVE  /\ p * Base + d \in Nat /\ p * Base + d >= Base
         /\ Len(DigitsOf[p * Base + d]) = Len(DigitsOf[p]) + 1
<1> DEFINE n == p * Base + d
<1>1. d \in 0..(Base - 1) /\ Base \in Nat /\ Base > 0
  BY BaseFacts DEF Digit
<1>2. n \in Nat /\ n >= Base
  BY <1>1, Z3
<1>3. n \div Base = p /\ n % Base = d
  BY <1>1, QuotientUnique
<1>4. DigitsOf[n] = DigitsStep(DigitsOf, n)
  BY <1>2, DigitsOfEquation
<1>5. DigitsOf[n] = Append(DigitsOf[p], d)
  BY <1>1, <1>2, <1>3, <1>4 DEF DigitsStep
<1>6. Len(DigitsOf[n]) = Len(DigitsOf[p]) + 1
  BY <1>5, DigitsOfType
<1> QED
  BY <1>2, <1>6

(* The prefix that is one digit longer.                                      *)
LEMMA PrefixSuccessor ==
  ASSUME NEW ds \in Seq(Digit), NEW k \in Nat, k > 0, k <= Len(ds)
  PROVE  /\ k - 1 \in Nat /\ Prefixes(ds)[k - 1] \in Nat /\ ds[k] \in Digit
         /\ Prefixes(ds)[k] = Prefixes(ds)[k - 1] * Base + ds[k]
         /\ k = 1 => Prefixes(ds)[k - 1] = 0
<1>1. ds \in Seq(Nat)
  BY DigitsAreNaturals
<1>2. k \in 0..Len(ds) /\ k - 1 \in 0..Len(ds) /\ k - 1 \in Nat /\ k \in 1..Len(ds)
  OBVIOUS
<1>3. Prefixes(ds)[k] = PrefixStep(ds, Prefixes(ds), k)
  BY <1>1, <1>2, PrefixesEquation
<1>4. Prefixes(ds)[k - 1] = PrefixStep(ds, Prefixes(ds), k - 1)
  BY <1>1, <1>2, PrefixesEquation
<1>5. Prefixes(ds)[k - 1] \in Nat
  BY <1>1, <1>2, PrefixesType
<1> QED
  BY <1>2, <1>3, <1>4, <1>5 DEF PrefixStep

(* A number that was read is written with no more digits than it was typed,  *)
(* and with as many if it was typed without leading zeros.                   *)
DigitsBound(ds, k) ==
  LET p == Prefixes(ds)[k] IN
    /\ Len(DigitsOf[p]) <= IF k = 0 THEN 1 ELSE k
    /\ k >= 1 /\ ds[1] # 0 => p > 0 /\ Len(DigitsOf[p]) = k

LEMMA DigitsOfPrefix ==
  ASSUME NEW ds \in Seq(Digit), NEW n \in Nat, n <= Len(ds)
  PROVE  DigitsBound(ds, n)
<1> DEFINE S == {k \in Nat : k <= Len(ds) => DigitsBound(ds, k)}
<1>1. ASSUME NEW k \in Nat, \A m \in Nat : m < k => m \in S, k <= Len(ds)
      PROVE  DigitsBound(ds, k)
  <2>1. CASE k = 0
    <3>1. ds \in Seq(Nat) /\ 0 \in 0..Len(ds)
      BY DigitsAreNaturals
    <3>2. Prefixes(ds)[0] = 0
      BY <3>1, PrefixesEquation DEF PrefixStep
    <3>3. Len(DigitsOf[0]) = 1
      BY OneDigit, BaseFacts
    <3> QED
      BY <2>1, <3>2, <3>3 DEF DigitsBound
  <2>2. CASE k > 0
    <3> DEFINE p == Prefixes(ds)[k - 1]
    <3> DEFINE d == ds[k]
    <3>1. /\ k - 1 \in Nat /\ p \in Nat /\ d \in Digit
          /\ Prefixes(ds)[k] = p * Base + d
          /\ k = 1 => p = 0
      BY <1>1, <2>2, PrefixSuccessor
    <3>2. DigitsBound(ds, k - 1)
      BY <1>1, <3>1
    <3>3. /\ Len(DigitsOf[p]) <= IF k - 1 = 0 THEN 1 ELSE k - 1
          /\ k - 1 >= 1 /\ ds[1] # 0 => p > 0 /\ Len(DigitsOf[p]) = k - 1
          /\ Len(DigitsOf[p]) \in Nat
      BY <3>1, <3>2, DigitsOfType DEF DigitsBound
    <3>4. CASE p = 0
      <4>1. Prefixes(ds)[k] = d /\ d \in Nat /\ d < Base
        BY <3>1, <3>4, BaseFacts DEF Digit
      <4>2. Len(DigitsOf[d]) = 1
        BY <4>1, OneDigit
      <4>3. ds[1] # 0 => k = 1
        BY <3>1, <3>3, <3>4
      <4> QED
        BY <2>2, <4>1, <4>2, <4>3 DEF DigitsBound
    <3>5. CASE p > 0
      <4>1. /\ Prefixes(ds)[k] > 0
            /\ Len(DigitsOf[Prefixes(ds)[k]]) = Len(DigitsOf[p]) + 1
        <5>1. /\ p * Base + d >= Base /\ p * Base + d \in Nat
              /\ Len(DigitsOf[p * Base + d]) = Len(DigitsOf[p]) + 1
          BY <3>1, <3>5, MoreDigits
        <5> DEFINE q == p * Base + d
        <5>2. Prefixes(ds)[k] = q
          BY <3>1
        <5> HIDE DEF q
        <5> QED
          BY <5>1, <5>2, BaseFacts DEF q
      <4>2. k - 1 >= 1
        BY <3>1, <3>5
      <4> HIDE DEF p
      <4> QED
        BY <3>3, <4>1, <4>2 DEF DigitsBound
    <3> QED
      BY <3>1, <3>4, <3>5
  <2> QED
    BY <2>1, <2>2
<1>2. S \in SUBSET Nat /\ \A k \in Nat : (\A m \in Nat : m < k => m \in S) => k \in S
  BY <1>1
<1> HIDE DEF S
<1>3. S = Nat
  BY <1>2, StrongInduction
<1> QED
  BY <1>3 DEF S

LEMMA DigitsOfNatural ==
  ASSUME NEW ds \in Seq(Digit)
  PROVE  /\ \A n \in Nat : n >= 1 /\ Len(ds) <= n => Len(DigitsOf[Natural(ds)]) <= n
         /\ Len(ds) >= 1 /\ ds[1] # 0 => Len(DigitsOf[Natural(ds)]) = Len(ds)
<1>0. ds \in Seq(Nat)
  BY DigitsAreNaturals
<1>1. Natural(ds) = Prefixes(ds)[Len(ds)] /\ Len(ds) \in Nat /\ Len(ds) <= Len(ds)
  BY <1>0, PrefixesEquation
<1>2. DigitsBound(ds, Len(ds))
  BY <1>1, DigitsOfPrefix
<1>3. Len(DigitsOf[Natural(ds)]) \in Nat
  BY <1>0, NaturalType, DigitsOfType
<1> QED
  BY <1>1, <1>2, <1>3 DEF DigitsBound

-----------------------------------------------------------------------------
(* Numbers and commands.                                                     *)

LEMMA IntsFacts == MaxInt \in Nat /\ Ints \subseteq Int /\ 0..MaxInt \subseteq Ints
  BY CommandsAssumption DEF Ints

LEMMA IntIsNumber ==
  ASSUME NEW i \in Ints
  PROVE  Int64(i) \in Number /\ Int64(i).whole = i /\ Int64(i).frac = 0
  BY IntsFacts DEF Int64, Number

LEMMA NumberFields ==
  ASSUME NEW n \in Number
  PROVE  /\ n.whole \in Ints /\ n.whole \in Int
         /\ n.frac \in 0..MaxInt /\ n.frac \in Nat
         /\ n = [whole |-> n.whole, frac |-> n.frac]
<1>1. n \in [whole : Ints, frac : 0..MaxInt]
  BY DEF Number
<1>2. n = [whole |-> n.whole, frac |-> n.frac] /\ n.whole \in Ints /\ n.frac \in 0..MaxInt
  BY <1>1
<1> QED
  BY <1>2, IntsFacts

(* A number is neither NaN nor None, and no text or command is.              *)
LEMMA NotNull ==
  ASSUME NEW y, y \in Number \/ y \in Text \/ y \in Command
  PROVE  y # NaN /\ y # None
  BY NullAssumption

(* What parsing a text gives.                                                *)
LEMMA ParseText ==
  ASSUME NEW t \in Text
  PROVE  /\ ParseNumber(t) =
              IF Signed(t) \in Ints /\ Natural(t.frac) <= MaxInt
              THEN [whole |-> Signed(t), frac |-> Natural(t.frac)] ELSE None
         /\ Natural(t.frac) \in Nat
         /\ Natural(t.whole) \in Nat
<1>1. t # NaN /\ t # None
  BY NotNull
<1>2. t.whole \in Seq(Nat) /\ t.frac \in Seq(Nat)
  BY DigitsAreNaturals DEF Text, Digit
<1> QED
  BY <1>1, <1>2, NaturalType DEF ParseNumber

LEMMA ParseTextType ==
  ASSUME NEW t \in Text, ParseNumber(t) # None
  PROVE  /\ ParseNumber(t) \in Number
         /\ ~t.neg => ParseNumber(t).whole >= 0
         /\ ParseNumber(t).frac = Natural(t.frac)
<1>1. /\ Signed(t) \in Ints /\ Natural(t.frac) <= MaxInt
      /\ ParseNumber(t) = [whole |-> Signed(t), frac |-> Natural(t.frac)]
      /\ Natural(t.frac) \in Nat /\ Natural(t.whole) \in Nat
  BY ParseText
<1>2. Natural(t.frac) \in 0..MaxInt
  BY <1>1, IntsFacts
<1>3. ~t.neg => Signed(t) = Natural(t.whole)
  BY DEF Signed
<1> QED
  BY <1>1, <1>2, <1>3 DEF Number

LEMMA AbsFacts ==
  ASSUME NEW i \in Int
  PROVE  Abs(i) \in Nat /\ (IF i < 0 THEN -Abs(i) ELSE Abs(i)) = i
  BY DEF Abs

(* A number is written as a text, and read back.                             *)
LEMMA FormatFacts ==
  ASSUME NEW n \in Number
  PROVE  /\ Format(n) = [neg |-> n.whole < 0, whole |-> DigitsOf[Abs(n.whole)],
                         frac |-> DigitsOf[n.frac]]
         /\ Format(n) \in Text
         /\ ParseNumber(Format(n)) = n
<1>1. n.whole \in Ints /\ n.whole \in Int /\ n.frac \in 0..MaxInt /\ n.frac \in Nat
      /\ n = [whole |-> n.whole, frac |-> n.frac]
  BY NumberFields
<1> DEFINE t == [neg |-> n.whole < 0, whole |-> DigitsOf[Abs(n.whole)],
                 frac |-> DigitsOf[n.frac]]
<1>2. Format(n) = t
  BY NotNull DEF Format, FormatInt
<1>3. Abs(n.whole) \in Nat
  BY <1>1, AbsFacts
<1>4. DigitsOf[Abs(n.whole)] \in Seq(Digit) /\ DigitsOf[n.frac] \in Seq(Digit)
  BY <1>1, <1>3, DigitsOfType
<1>5. t \in Text
  BY <1>4 DEF Text, Digit
<1>6. Natural(t.whole) = Abs(n.whole) /\ Natural(t.frac) = n.frac
  BY <1>1, <1>3, NaturalOfDigits
<1>7. Signed(t) = n.whole
  BY <1>1, <1>6, AbsFacts DEF Signed
<1>8. ParseNumber(t) = [whole |-> n.whole, frac |-> n.frac]
  <2>1. n.frac <= MaxInt
    BY <1>1, IntsFacts
  <2> HIDE DEF t
  <2> QED
    BY <1>1, <1>5, <1>6, <1>7, <2>1, ParseText
<1> QED
  BY <1>1, <1>2, <1>5, <1>8

(* Every number is written such that reading it gives that number             *)
(* (TestParseNumber, message_test.go:226).                                     *)
THEOREM NumbersRoundTrip == \A n \in Number : ParseNumber(Format(n)) = n
  BY FormatFacts

LEMMA FormatIntFacts ==
  ASSUME NEW i \in Ints
  PROVE  /\ FormatInt(Int64(i)) \in Text
         /\ ParseNumber(FormatInt(Int64(i))) = Int64(i)
<1>1. i \in Int
  BY IntsFacts
<1> DEFINE t == [neg |-> i < 0, whole |-> DigitsOf[Abs(i)], frac |-> <<>>]
<1>2. FormatInt(Int64(i)) = t
  BY DEF FormatInt, Int64
<1>3. DigitsOf[Abs(i)] \in Seq(Digit) /\ <<>> \in Seq(Digit)
  BY <1>1, AbsFacts, DigitsOfType
<1>4. t \in Text
  BY <1>3 DEF Text, Digit
<1>5. Natural(t.whole) = Abs(i) /\ Natural(t.frac) = 0
  BY <1>1, AbsFacts, NaturalOfDigits, NaturalEmpty
<1>6. Signed(t) = i
  BY <1>1, <1>5, AbsFacts DEF Signed
<1>7. ParseNumber(t) = [whole |-> i, frac |-> 0]
  <2>1. 0 <= MaxInt
    BY IntsFacts
  <2> HIDE DEF t
  <2> QED
    BY <1>4, <1>5, <1>6, <2>1, ParseText
<1> QED
  BY <1>2, <1>4, <1>7 DEF Int64

(* The commands that can be judged.  A value was typed with few digits.      *)
Short(n) == Len(DigitsOf[n.frac]) <= FracDigits

Writes == {Write(x, n) : x \in Variables, n \in {m \in Number : Short(m)}}
Queries == {Query(x) : x \in Number}
Basics == {Basic(Int64(i)) : i \in 0..MaxInt \ {QMacroVariable}}
Judgeable == Writes \union Queries \union Basics

LEMMA VariablesAreNumbers ==
  ASSUME NEW x \in Variables
  PROVE  x \in Number /\ \E i \in 0..MaxInt : x = Int64(i)
  BY IntsFacts, IntIsNumber DEF Variables

LEMMA JudgeableType ==
  ASSUME NEW c \in Judgeable
  PROVE  c \in Command /\ c # None
<1>1. c \in Command
  <2>1. CASE c \in Writes
    BY <2>1, VariablesAreNumbers DEF Writes, Write, Command
  <2>2. CASE c \in Queries
    BY <2>2 DEF Queries, Query, Command
  <2>3. CASE c \in Basics
    BY <2>3, IntsFacts, IntIsNumber DEF Basics, Basic, Command
  <2> QED
    BY <2>1, <2>2, <2>3 DEF Judgeable
<1> QED
  BY <1>1, NotNull

(* The host reads what the proxy writes as the command it wrote; only a      *)
(* query with a sign is refused.                                             *)
Understood(c) == IF c.kind = "query" /\ c.variable.whole < 0 THEN None ELSE c

LEMMA WrittenIsUnderstood ==
  ASSUME NEW c \in Judgeable
  PROVE  ParseCommand(WriteTo(c)) = Understood(c)
<1>1. CASE c \in Writes
  <2>1. PICK x \in Variables, n \in Number : c = Write(x, n)
    BY <1>1 DEF Writes
  <2>2. WriteTo(c) = [letter |-> "E", variable |-> FormatInt(x), value |-> Format(n)]
    BY <2>1 DEF WriteTo, Write
  <2>3. ParseCommand(WriteTo(c)) = ParseWrite(WriteTo(c))
    BY <2>2 DEF ParseCommand
  <2>4. PICK i \in 0..MaxInt : x = Int64(i)
    BY VariablesAreNumbers
  <2>5. ParseNumber(FormatInt(x)) = x /\ ParseNumber(Format(n)) = n
    BY <2>4, IntsFacts, FormatIntFacts, FormatFacts
  <2>6. None \notin {x, n}
    BY VariablesAreNumbers, NotNull
  <2>7. ParseWrite(WriteTo(c)) = Write(x, n)
    BY <2>2, <2>5, <2>6 DEF ParseWrite
  <2> QED
    BY <2>1, <2>3, <2>7 DEF Understood, Write
<1>2. CASE c \in Queries
  <2>1. PICK x \in Number : c = Query(x)
    BY <1>2 DEF Queries
  <2> DEFINE l == WriteTo(c)
  <2>2. l = [letter |-> "Q", command |-> FormatInt(Int64(QMacroVariable)),
             variable |-> Format(x)]
    BY <2>1 DEF WriteTo, Query, VariableText
  <2> HIDE DEF l
  <2>3. ParseCommand(l) = ParseQuery(l)
    BY <2>2 DEF ParseCommand
  <2>4. QMacroVariable \in Ints
    BY CommandsAssumption, IntsFacts
  <2>5. /\ ParseNumber(l.command) = Int64(QMacroVariable)
        /\ Int64(QMacroVariable) # None
        /\ Int64(QMacroVariable).whole = QMacroVariable
    BY <2>2, <2>4, FormatIntFacts, IntIsNumber, NotNull
  <2>6. /\ l.variable # None
        /\ l.variable.neg = (x.whole < 0)
        /\ ParseNumber(l.variable) = x
        /\ x # None
    BY <2>2, FormatFacts, NotNull
  <2>7. ParseQuery(l) = IF x.whole < 0 THEN None ELSE Query(x)
    BY <2>5, <2>6 DEF ParseQuery
  <2> QED
    BY <2>1, <2>3, <2>7 DEF Understood, Query, l
<1>3. CASE c \in Basics
  <2>1. PICK i \in 0..MaxInt \ {QMacroVariable} : c = Basic(Int64(i))
    BY <1>3 DEF Basics
  <2> DEFINE l == WriteTo(c)
  <2>2. l = [letter |-> "Q", command |-> FormatInt(Int64(i)), variable |-> None]
    BY <2>1 DEF WriteTo, Basic
  <2> HIDE DEF l
  <2>3. ParseCommand(l) = ParseQuery(l)
    BY <2>2 DEF ParseCommand
  <2>4. i \in Ints
    BY IntsFacts
  <2>5. /\ ParseNumber(l.command) = Int64(i)
        /\ Int64(i) # None
        /\ Int64(i).whole # QMacroVariable
    BY <2>2, <2>4, FormatIntFacts, IntIsNumber, NotNull
  <2>6. ParseQuery(l) = Basic(Int64(i))
    BY <2>2, <2>5 DEF ParseQuery
  <2> QED
    BY <2>1, <2>3, <2>6 DEF Understood, Basic, l
<1> QED
  BY <1>1, <1>2, <1>3 DEF Judgeable

(* What a client may type.                                                   *)
LEMMA DigitsType ==
  ASSUME NEW lo \in Nat, NEW hi \in Nat, NEW ds \in Digits(lo, hi)
  PROVE  ds \in Seq(Digit) /\ Len(ds) <= hi
<1>1. PICK n \in lo..hi : ds \in [1..n -> Digit]
  BY DEF Digits, Digit
<1>2. n \in Nat /\ n <= hi
  BY <1>1
<1> QED
  BY <1>1, <1>2

LEMMA NumeralsType ==
  ASSUME NEW signs \in SUBSET BOOLEAN, NEW t \in Numerals(signs)
  PROVE  t \in Text /\ t.neg \in signs /\ Len(t.frac) <= FracDigits
<1>1. WholeDigits \in Nat /\ FracDigits \in Nat
  BY BoundsAssumption
<1>2. /\ t = [neg |-> t.neg, whole |-> t.whole, frac |-> t.frac]
      /\ t.neg \in signs
      /\ t.whole \in Digits(1, WholeDigits) /\ t.frac \in Digits(0, FracDigits)
  BY DEF Numerals
<1>3. t.whole \in Seq(Digit) /\ t.frac \in Seq(Digit) /\ Len(t.frac) <= FracDigits
  BY <1>1, <1>2, DigitsType
<1> QED
  BY <1>2, <1>3 DEF Text, Digit

(* A number without a sign and without a fraction.                           *)
LEMMA UnsignedFacts ==
  ASSUME NEW t \in Unsigned, ParseNumber(t) # None
  PROVE  \E i \in 0..MaxInt : ParseNumber(t) = Int64(i)
<1>1. t \in Text /\ ~t.neg /\ t.frac = <<>>
  <2>1. t \in Numerals({FALSE}) /\ {FALSE} \in SUBSET BOOLEAN /\ t.frac = <<>>
    BY DEF Unsigned
  <2> QED
    BY <2>1, NumeralsType
<1>2. /\ Signed(t) \in Ints
      /\ ParseNumber(t) = [whole |-> Signed(t), frac |-> Natural(t.frac)]
      /\ Natural(t.whole) \in Nat
  BY <1>1, ParseText
<1>3. Signed(t) = Natural(t.whole) /\ Natural(t.frac) = 0
  BY <1>1, NaturalEmpty DEF Signed
<1>4. Signed(t) \in 0..MaxInt
  BY <1>2, <1>3, IntsFacts DEF Ints
<1> QED
  BY <1>2, <1>3, <1>4 DEF Int64

(* The proxy judges what it can parse.                                       *)
LEMMA ParsedIsJudgeable ==
  ASSUME NEW l \in Lines, ParseCommand(l) # None
  PROVE  /\ ParseCommand(l) \in Judgeable
         /\ Understood(ParseCommand(l)) = ParseCommand(l)
         /\ IsWrite(ParseCommand(l)) =>
              /\ l.value \in Text /\ Len(l.value.frac) <= FracDigits
              /\ ParseCommand(l).value = ParseNumber(l.value)
<1>1. CASE l.letter = "E"
  <2> DEFINE x == ParseNumber(l.variable)
  <2> DEFINE n == ParseNumber(l.value)
  <2>1. l.variable \in Unsigned /\ l.value \in Numerals(BOOLEAN)
    BY <1>1 DEF Lines
  <2>2. ParseCommand(l) = IF None \in {x, n} THEN None ELSE Write(x, n)
    BY <1>1 DEF ParseCommand, ParseWrite
  <2>3. x # None /\ n # None
    BY <2>2
  <2>4. x \in Variables
    BY <2>1, <2>3, UnsignedFacts DEF Variables
  <2>5. l.value \in Text /\ Len(l.value.frac) <= FracDigits
    BY <2>1, NumeralsType
  <2>6. n \in Number /\ n.frac = Natural(l.value.frac)
    BY <2>3, <2>5, ParseTextType
  <2>7. l.value.frac \in Seq(Digit)
    BY <2>5 DEF Text, Digit
  <2>8. Short(n)
    <3>1. FracDigits \in Nat /\ FracDigits >= 1
      BY BoundsAssumption
    <3> HIDE DEF n
    <3> QED
      BY <2>5, <2>6, <2>7, <3>1, DigitsOfNatural DEF Short
  <2> HIDE DEF x, n
  <2>9. Write(x, n) \in Writes
    BY <2>4, <2>6, <2>8 DEF Writes
  <2>10. ParseCommand(l).value = ParseNumber(l.value)
    BY <2>2, <2>3 DEF Write, n
  <2> QED
    BY <2>2, <2>3, <2>5, <2>9, <2>10 DEF Judgeable, Understood, Write
<1>2. CASE l.letter = "Q"
  <2> DEFINE n == ParseNumber(l.command)
  <2> DEFINE x == ParseNumber(l.variable)
  <2>1. l.command \in Unsigned /\ l.variable \in Numerals({FALSE}) \union {None}
    BY <1>2 DEF Lines
  <2>2. ParseCommand(l) = ParseQuery(l)
    BY <1>2 DEF ParseCommand
  <2>3. n # None
    BY <2>2 DEF ParseQuery
  <2>4. PICK i \in 0..MaxInt : n = Int64(i)
    BY <2>1, <2>3, UnsignedFacts
  <2>5. n.whole = i
    BY <2>4 DEF Int64
  <2>6. CASE i # QMacroVariable
    <3>1. ParseCommand(l) = Basic(n)
      BY <2>2, <2>5, <2>6 DEF ParseQuery
    <3>2. Basic(n) \in Basics
      BY <2>4, <2>6 DEF Basics
    <3> QED
      BY <3>1, <3>2 DEF Judgeable, Understood, Basic, IsWrite
  <2>7. CASE i = QMacroVariable
    <3>1. x # None /\ ParseCommand(l) = Query(x)
      BY <2>2, <2>5, <2>7 DEF ParseQuery
    <3>2. l.variable # None
      BY <3>1, NullAssumption DEF ParseNumber
    <3>3. l.variable \in Text /\ ~l.variable.neg
      <4>1. l.variable \in Numerals({FALSE}) /\ {FALSE} \in SUBSET BOOLEAN
        BY <2>1, <3>2
      <4> QED
        BY <4>1, NumeralsType
    <3>4. x \in Number /\ x.whole >= 0
      BY <3>1, <3>3, ParseTextType
    <3>5. x.whole \in Int
      BY <3>4, IntsFacts DEF Number
    <3> HIDE DEF x
    <3> QED
      BY <3>1, <3>4, <3>5 DEF Judgeable, Queries, Understood, Query, IsWrite
  <2> QED
    BY <2>6, <2>7
<1>3. CASE l.letter = "other"
  BY <1>3 DEF ParseCommand
<1> QED
  BY <1>1, <1>2, <1>3 DEF Lines

(* Float64 and Format: the text that Float64 takes a number for.              *)
TakenFor(n) ==
  LET t == Format(n) IN
    IF n.frac \in LogCarries THEN [t EXCEPT !.frac = <<0>> \o @] ELSE t

LEMMA TakenForFacts ==
  ASSUME NEW n \in Number, Short(n)
  PROVE  /\ TakenFor(n).neg = (n.whole < 0)
         /\ Natural(TakenFor(n).whole) = Abs(n.whole)
         /\ Natural(TakenFor(n).frac) = n.frac
         /\ Len(TakenFor(n).frac) = LogDigits(n.frac)
         /\ LogDigits(n.frac) \in 0..(FracDigits + 1) /\ FracDigits \in Nat
<1> DEFINE t == Format(n)
<1> DEFINE ds == DigitsOf[n.frac]
<1>1. n.whole \in Int /\ n.frac \in Nat /\ Abs(n.whole) \in Nat
  BY NumberFields, AbsFacts
<1>2. ds \in Seq(Nat) /\ Len(ds) \in Nat /\ Natural(ds) = n.frac
  BY <1>1, DigitsOfType, DigitsAreNaturals, NaturalOfDigits
<1>3. Len(ds) <= FracDigits /\ FracDigits \in Nat
  BY BoundsAssumption DEF Short
<1>4. t = [neg |-> n.whole < 0, whole |-> DigitsOf[Abs(n.whole)], frac |-> ds]
  BY FormatFacts
<1>5. Natural(t.whole) = Abs(n.whole) /\ t.neg = (n.whole < 0) /\ t.frac = ds
  BY <1>1, <1>4, NaturalOfDigits
<1>6. Len(<<0>> \o ds) = Len(ds) + 1 /\ Natural(<<0>> \o ds) = n.frac
  BY <1>2, NaturalLeadingZero
<1>7. LogDigits(n.frac) = Len(ds) + IF n.frac \in LogCarries THEN 1 ELSE 0
  BY DEF LogDigits
<1> HIDE DEF ds
<1>8. CASE n.frac \in LogCarries
  <2>0. TakenFor(n) = [t EXCEPT !.frac = <<0>> \o @]
    BY <1>8 DEF TakenFor
  <2> HIDE DEF t
  <2>1. TakenFor(n) = [neg |-> t.neg, whole |-> t.whole, frac |-> <<0>> \o ds]
    BY <1>4, <2>0
  <2> QED
    BY <1>2, <1>3, <1>5, <1>6, <1>7, <1>8, <2>1
<1>9. CASE n.frac \notin LogCarries
  <2>1. TakenFor(n) = t
    BY <1>9 DEF TakenFor
  <2> HIDE DEF t
  <2> QED
    BY <1>2, <1>3, <1>5, <1>7, <1>9, <2>1
<1> QED
  BY <1>8, <1>9

LEMMA FloatIsFormat ==
  ASSUME NEW n \in Number, Short(n)
  PROVE  Float64(n) = Value(TakenFor(n))
<1> DEFINE t == TakenFor(n)
<1> DEFINE k == LogDigits(n.frac)
<1> DEFINE W == Base ^ Places
<1> DEFINE F == Base ^ (Places - k)
<1>1. n.whole \in Int /\ n.frac \in Nat
  BY NumberFields
<1>2. /\ t.neg = (n.whole < 0)
      /\ Natural(t.whole) = Abs(n.whole) /\ Natural(t.frac) = n.frac
      /\ Len(t.frac) = k /\ k \in 0..(FracDigits + 1) /\ FracDigits \in Nat
  BY TakenForFacts
<1>3. W \in Int /\ F \in Int
  <2> HIDE DEF t, k
  <2>1. Places \in Nat /\ Places - k \in Nat
    BY <1>2 DEF Places
  <2> QED
    BY <2>1, BaseFacts
<1>4. Value(t) = IF n.whole < 0 THEN -(Abs(n.whole) * W + n.frac * F)
                 ELSE Abs(n.whole) * W + n.frac * F
  <2> HIDE DEF t, k
  <2> QED
    BY <1>2 DEF Value
<1>5. Float64(n) = n.whole * W + (IF n.whole < 0 THEN -(n.frac * F) ELSE n.frac * F)
  BY DEF Float64, Copysign
<1> HIDE DEF t, k, W, F
<1>6. CASE n.whole < 0
  <2>1. Abs(n.whole) = -n.whole
    BY <1>1, <1>6 DEF Abs
  <2>2. (-n.whole) * W = -(n.whole * W)
    BY <1>1, <1>3
  <2>3. n.whole * W \in Int /\ n.frac * F \in Int
    BY <1>1, <1>3
  <2> QED
    BY <1>4, <1>5, <1>6, <2>1, <2>2, <2>3 DEF t
<1>7. CASE ~(n.whole < 0)
  <2>1. Abs(n.whole) = n.whole
    BY <1>1, <1>7 DEF Abs
  <2> QED
    BY <1>4, <1>5, <1>7, <2>1 DEF t
<1> QED
  BY <1>6, <1>7

-----------------------------------------------------------------------------
(* The exchange.                                                             *)

(* Its inductive invariant: what is under way is one judgeable command, the  *)
(* line that was written for it, what the host understood and answered, and  *)
(* what arrived of that, unless a stray did; the host's variables are what   *)
(* the judged writes made them.                                              *)
ExchangeInvariant ==
  /\ at \in {"idle", "judge", "wire", "reply", "told"}
  /\ IF at = "idle" THEN judged = None ELSE judged \in Judgeable
  /\ at \in {"judge", "wire"} /\ IsWrite(judged) =>
       /\ typed \in Text /\ Len(typed.frac) <= FracDigits
       /\ judged.value = ParseNumber(typed)
  /\ at = "wire" => wire = WriteTo(judged)
  /\ at = "told" => how \in {"whole", "cut", "stray"}
  /\ at = "reply" \/ (at = "told" /\ how # "stray") => seen = Understood(judged)
  /\ at = "reply" \/ (at = "told" /\ how = "whole") => answer = HandleAnswer(seen)
  /\ at = "told" /\ how = "cut" => answer \in Cuts(HandleAnswer(seen))
  /\ data \in [Variables -> Number]
  /\ table = data

(* A number that was fetched for variable x: one that x had, what a cut line  *)
(* left of it, or another command's.                                         *)
Fetched(x, c, n) ==
  /\ c = "whole" => Format(n) \in Texts(x)
  /\ c = "cut" => Format(n) \in CutTexts(x)
  /\ c = "stray" => \/ \E y \in 0..MaxInt : Format(n) \in CutTexts(y)
                    \/ Format(n) = Format(ParseNumber(CannedNumber))

(* The invariant of fetch: what it has fetched so far is right for the first  *)
(* variables, while it waits the command under way asks for the next, and the *)
(* numbers that are heard are those that variables had.                      *)
FetchInvariant ==
  /\ pc \in {"new", "ask", "await", "write", "done", "error", "panic"}
  /\ start \in Ints /\ end \in Ints
  /\ buf \in Seq(Number \union {NaN})
  /\ came \in Seq({"whole", "cut", "stray"}) /\ Len(came) = Len(buf)
  /\ held \in [Variables -> SUBSET Number]
  /\ \A x \in Variables : data[x] \in held[x]
  /\ \A r \in heard : HasNumber(r) =>
       r.value = CannedNumber \/ \E y \in 0..MaxInt : r.value \in Texts(y)
  /\ pc = "new" => buf = <<>> /\ came = <<>>
  /\ pc \in {"ask", "await", "write", "done"} => Count > 0
  /\ pc \in {"ask", "await"} => Len(buf) < Count
  /\ pc = "await" =>
       /\ at \in {"wire", "reply", "told"}
       /\ judged = Query(Int64(Variable(Len(buf) + 1)))
       /\ at = "told" /\ how = "stray" => \E r \in heard : answer \in Cuts(r)
  /\ pc \in {"write", "done"} => Len(buf) = Count
  /\ \A i \in 1..Len(buf) : Fetched(Variable(i), came[i], buf[i])
  /\ pc = "done" =>
       rows = [i \in 1..Count |-> [variable |-> Variable(i), text |-> Format(buf[i])]]

LEMMA ExchangeInit == Init => ExchangeInvariant
<1>1. Unset \in Number
  BY IntIsNumber, IntsFacts DEF Unset
<1> QED
  BY <1>1 DEF Init, ExchangeInvariant

LEMMA ReadInv ==
  ASSUME ExchangeInvariant, NEW l \in Lines, Read(l)
  PROVE  ExchangeInvariant'
<1> USE DEF Read, ExchangeInvariant
<1>1. CASE ParseCommand(l) = None
  BY <1>1
<1>2. CASE ParseCommand(l) # None
  BY <1>2, ParsedIsJudgeable
<1> QED
  BY <1>1, <1>2

LEMMA DenyInv ==
  ASSUME ExchangeInvariant, Deny
  PROVE  ExchangeInvariant'
BY DEF Deny, ExchangeInvariant

LEMMA ForwardInv ==
  ASSUME ExchangeInvariant, Forward
  PROVE  ExchangeInvariant'
BY DEF Forward, ExchangeInvariant

LEMMA JudgeableKinds ==
  ASSUME NEW c \in Judgeable
  PROVE  /\ c.kind \in {"write", "query", "basic"}
         /\ c.kind = "write" <=> c \in Writes
         /\ c.kind = "query" <=> c \in Queries
         /\ c.kind = "basic" <=> c \in Basics
BY DEF Judgeable, Writes, Queries, Basics, Write, Query, Basic

LEMMA HandleFacts ==
  ASSUME ExchangeInvariant, Handle
  PROVE  /\ judged \in Judgeable
         /\ seen' = Understood(judged)
         /\ answer' = HandleAnswer(seen)'
         /\ data' = IF IsWrite(judged) THEN [data EXCEPT ![judged.variable] = judged.value]
                    ELSE data
<1> USE DEF ExchangeInvariant, Handle
<1>1. judged \in Judgeable /\ wire = WriteTo(judged)
  OBVIOUS
<1>2. ParseCommand(wire) = Understood(judged)
  BY <1>1, WrittenIsUnderstood
<1> DEFINE c == ParseCommand(wire)
<1>3. seen' = c /\ answer' = HandleAnswer(c)
  OBVIOUS
<1>4. (c # None /\ IsWrite(c)) <=> IsWrite(judged)
  BY <1>1, <1>2, JudgeableType, JudgeableKinds DEF Understood, IsWrite
<1>5. IsWrite(judged) => c = judged
  BY <1>2 DEF Understood, IsWrite
<1>6. data' = IF IsWrite(judged) THEN [data EXCEPT ![judged.variable] = judged.value]
              ELSE data
  BY <1>4, <1>5
<1> HIDE DEF c
<1>7. HandleAnswer(seen)' = HandleAnswer(c)
  <2>1. CASE IsWrite(judged)
    BY <1>3, <1>4, <1>5, <2>1 DEF HandleAnswer
  <2>2. CASE ~IsWrite(judged)
    BY <1>3, <1>6, <2>2 DEF HandleAnswer, QueryAnswer, BasicAnswer, Lookup
  <2> QED
    BY <2>1, <2>2
<1> QED
  BY <1>1, <1>2, <1>3, <1>6, <1>7 DEF c

LEMMA HandleInv ==
  ASSUME ExchangeInvariant, Handle
  PROVE  ExchangeInvariant'
<1>1. /\ judged \in Judgeable
      /\ seen' = Understood(judged)
      /\ answer' = HandleAnswer(seen)'
      /\ data' = IF IsWrite(judged) THEN [data EXCEPT ![judged.variable] = judged.value]
                 ELSE data
  BY HandleFacts
<1>2. IsWrite(judged) => judged.variable \in Variables /\ judged.value \in Number
  BY <1>1, JudgeableKinds DEF IsWrite, Writes, Write
<1>3. data' \in [Variables -> Number]
  BY <1>1, <1>2 DEF ExchangeInvariant
<1>4. table' = data'
  BY <1>1 DEF ExchangeInvariant, Handle
<1>5. at' = "reply" /\ judged' = judged
  BY DEF Handle
<1>6. Understood(judged)' = Understood(judged)
  BY <1>5 DEF Understood
<1> QED
  BY <1>1, <1>3, <1>4, <1>5, <1>6 DEF ExchangeInvariant

LEMMA HandleAnswerUnmoved ==
  ASSUME UNCHANGED <<judged, seen, data>>
  PROVE  HandleAnswer(seen)' = HandleAnswer(seen) /\ Understood(judged)' = Understood(judged)
BY DEF HandleAnswer, QueryAnswer, BasicAnswer, Lookup, Understood

LEMMA ReceiveInv ==
  ASSUME ExchangeInvariant, Receive
  PROVE  ExchangeInvariant'
<1> USE DEF Receive, ExchangeInvariant
<1>1. /\ at' = "told" /\ how' \in {"whole", "cut"}
      /\ UNCHANGED <<judged, seen, data, table>>
  OBVIOUS
<1>2. HandleAnswer(seen)' = HandleAnswer(seen) /\ Understood(judged)' = Understood(judged)
  BY <1>1, HandleAnswerUnmoved
<1>3. seen' = Understood(judged)'
  BY <1>1, <1>2
<1>4. /\ how' = "whole" => answer' = HandleAnswer(seen)'
      /\ how' = "cut" => answer' \in Cuts(HandleAnswer(seen)')
  BY <1>2
<1>5. Cuts(HandleAnswer(seen))' = Cuts(HandleAnswer(seen)')
  BY DEF Cuts, Beginnings, HasNumber
<1> QED
  BY <1>1, <1>3, <1>4, <1>5

LEMMA ForgetInv ==
  ASSUME ExchangeInvariant, Forget
  PROVE  ExchangeInvariant'
BY DEF Forget, ExchangeInvariant

LEMMA ExchangeStutter ==
  ASSUME ExchangeInvariant, UNCHANGED vars
  PROVE  ExchangeInvariant'
<1>1. UNCHANGED <<at, typed, judged, wire, seen, answer, how, data, table>>
  BY DEF vars
<1>2. HandleAnswer(seen)' = HandleAnswer(seen) /\ Understood(judged)' = Understood(judged)
  BY <1>1, HandleAnswerUnmoved
<1>3. Cuts(HandleAnswer(seen))' = Cuts(HandleAnswer(seen))
  BY <1>2 DEF Cuts, Beginnings, HasNumber
<1> QED
  BY <1>1, <1>2, <1>3 DEF ExchangeInvariant, IsWrite

(* What the invariant means for the answers.                                 *)
LEMMA InvariantImpliesJudged == ExchangeInvariant => JudgedIsExecuted
  BY DEF ExchangeInvariant, JudgedIsExecuted, Understood

LEMMA AnswerOfQuery ==
  ASSUME NEW x \in Variables
  PROVE  /\ Understood(Query(x)) = Query(x)
         /\ HandleAnswer(Query(x)) =
              [text |-> "MACRO", value |-> IF x = Int64(0) THEN NaN ELSE Format(data[x])]
<1>1. x.whole >= 0 /\ x.frac = 0
  BY DEF Variables, Int64
<1>2. x.whole \in Int
  BY VariablesAreNumbers, NumberFields
<1>3. Understood(Query(x)) = Query(x)
  BY <1>1, <1>2 DEF Understood, Query
<1>4. Query(x) # None
  BY VariablesAreNumbers, JudgeableType DEF Judgeable, Queries
<1>5. HandleAnswer(Query(x)) = QueryAnswer(x)
  BY <1>4 DEF HandleAnswer, Query, IsWrite
<1>6. ~(x.whole < 0 \/ x.frac # 0)
  BY <1>1, <1>2
<1>7. QueryAnswer(x) =
        [text |-> "MACRO", value |-> IF x = Int64(0) THEN NaN ELSE Format(Lookup(x))]
  BY <1>6 DEF QueryAnswer
<1>8. Lookup(x) = data[x]
  BY DEF Lookup
<1> QED
  BY <1>3, <1>5, <1>7, <1>8

LEMMA TextOnly ==
  ASSUME NEW r, NEW x, r = [text |-> x]
  PROVE  r.text = x
OBVIOUS

(* What a cut leaves of an answer that has a number.                          *)
LEMMA CutNumber ==
  ASSUME NEW r, NEW a \in Cuts(r), HasNumber(a)
  PROVE  HasNumber(r) /\ a.value \in Beginnings(r.value)
<1>1. a # [text |-> "part"]
  BY DEF HasNumber
<1>2. CASE HasNumber(r)
  <2>1. PICK t \in Beginnings(r.value) : a = [r EXCEPT !.value = t]
    BY <1>1, <1>2 DEF Cuts
  <2> QED
    BY <1>2, <2>1
<1>3. CASE ~HasNumber(r)
  BY <1>1, <1>3 DEF Cuts
<1> QED
  BY <1>2, <1>3

LEMMA InvariantImpliesReads == ExchangeInvariant => ReadsLastWrite
<1> DEFINE IsRead == judged.kind = "query" /\ judged.variable \in Variables \ {Int64(0)}
<1>1. ASSUME ExchangeInvariant, IsRead, at \in {"reply", "told"}, at = "told" => how # "stray"
      PROVE  LET x == judged.variable
                 r == [text |-> "MACRO", value |-> Format(table[x])]
             IN /\ HandleAnswer(seen) = r
                /\ HasNumber(r) /\ r.value = Format(table[x])
                /\ ParseNumber(Format(table[x])) = table[x]
  <2> DEFINE x == judged.variable
  <2>1. judged \in Judgeable /\ seen = Understood(judged)
    BY <1>1 DEF ExchangeInvariant
  <2>2. judged = Query(x)
    BY <1>1, <2>1, JudgeableKinds DEF Queries, Query
  <2>3. seen = Query(x) /\ HandleAnswer(seen) = [text |-> "MACRO", value |-> Format(data[x])]
    BY <1>1, <2>1, <2>2, AnswerOfQuery
  <2>4. data[x] \in Number /\ table[x] = data[x]
    BY <1>1 DEF ExchangeInvariant
  <2>5. ParseNumber(Format(data[x])) = data[x]
    BY <2>4, FormatFacts
  <2> QED
    BY <2>3, <2>4, <2>5 DEF HasNumber
<1>2. ASSUME ExchangeInvariant, IsRead, at = "reply" \/ (at = "told" /\ how = "whole")
      PROVE  ParseResponse(judged, answer) = table[judged.variable]
  <2>1. answer = HandleAnswer(seen)
    BY <1>2 DEF ExchangeInvariant
  <2> QED
    BY <1>1, <1>2, <2>1 DEF ParseResponse
<1>3. ASSUME ExchangeInvariant, IsWrite(judged), at = "reply" \/ (at = "told" /\ how = "whole")
      PROVE  IsSuccess(judged, answer)
  <2>1. judged # None /\ seen = judged /\ answer = HandleAnswer(judged)
    BY <1>3, JudgeableType DEF ExchangeInvariant, Understood, IsWrite
  <2>2. answer = [text |-> "!"]
    BY <1>3, <2>1 DEF HandleAnswer, IsWrite
  <2> QED
    BY <1>3, <2>2 DEF IsSuccess, IsWrite
<1>4. ASSUME ExchangeInvariant, IsRead, at = "told", how = "cut"
      PROVE  ParseResponse(judged, answer) \in
               {None} \union {ParseNumber(t) : t \in Beginnings(Format(table[judged.variable]))}
  <2>1. answer \in Cuts(HandleAnswer(seen))
    BY <1>4 DEF ExchangeInvariant
  <2>2. CASE ~HasNumber(answer)
    BY <2>2 DEF ParseResponse
  <2>3. CASE HasNumber(answer)
    <3>1. answer.value \in Beginnings(Format(table[judged.variable]))
      BY <1>1, <1>4, <2>1, <2>3, CutNumber
    <3>2. ParseResponse(judged, answer) = ParseNumber(answer.value)
      BY <1>4, <2>3 DEF ParseResponse
    <3> QED
      BY <3>1, <3>2
  <2> QED
    BY <2>2, <2>3
<1> QED
  BY <1>2, <1>3, <1>4 DEF ReadsLastWrite

LEMMA InvariantImpliesSafe == ExchangeInvariant => SafeIsAnswered
<1> SUFFICES ASSUME ExchangeInvariant, at = "reply", IsSafe(judged)
             PROVE  answer.text \in {"MACRO", "canned"}
  BY DEF SafeIsAnswered
<1>1. judged \in Judgeable /\ judged # None
  BY JudgeableType DEF ExchangeInvariant
<1>2. CASE judged.kind = "query"
  <2>1. PICK x \in Number : judged = Query(x)
    BY <1>1, <1>2, JudgeableKinds DEF Queries
  <2>2. x.whole >= 0 /\ x.frac = 0
    BY <2>1 DEF IsSafe, Query
  <2>3. x \in Variables
    BY <2>2, NumberFields, IntsFacts DEF Variables, Int64, Ints
  <2>4. seen = Query(x) /\ answer = HandleAnswer(Query(x))
    BY <2>1, <2>3, AnswerOfQuery DEF ExchangeInvariant
  <2> QED
    BY <2>3, <2>4, AnswerOfQuery
<1>3. CASE judged.kind = "basic"
  <2>1. judged.command.whole \in Documented
    <3>1. PICK i \in 0..MaxInt \ {QMacroVariable} : judged = Basic(Int64(i))
      BY <1>1, <1>3, JudgeableKinds DEF Basics
    <3>2. judged.command # Int64(QMacroVariable)
      BY <3>1 DEF Basic, Int64
    <3> QED
      BY <1>3, <3>2 DEF IsSafe
  <2>2. seen = judged
    BY <1>3 DEF ExchangeInvariant, Understood
  <2>3. answer = BasicAnswer(judged.command)
    BY <1>1, <1>3, <2>2 DEF ExchangeInvariant, HandleAnswer, IsWrite
  <2> QED
    BY <2>1, <2>3 DEF BasicAnswer
<1> QED
  BY <1>2, <1>3 DEF IsSafe

LEMMA InvariantImpliesFloat == ExchangeInvariant => FloatAgrees
<1> SUFFICES ASSUME ExchangeInvariant, judged # None, IsWrite(judged)
             PROVE  Float64(judged.value) = Value(TakenFor(judged.value))
  BY DEF FloatAgrees, TakenFor
<1>1. judged \in Writes
  BY JudgeableKinds DEF ExchangeInvariant, IsWrite
<1>2. judged.value \in Number /\ Short(judged.value)
  BY <1>1 DEF Writes, Write
<1> QED
  BY <1>2, FloatIsFormat

(* Which numbers keep their value (number.go:41: "A Number represents a        *)
(* fixed-point decimal value"): those without a fraction, and those whose     *)
(* fraction does not begin with a zero and whose sign has a whole part to     *)
(* stand with.                                                                *)
Exact(t) ==
  \/ Natural(t.frac) = 0
  \/ t.frac[1] # 0 /\ (t.neg => Natural(t.whole) # 0)

FixedPointIfExact ==
  at = "wire" /\ IsWrite(judged) /\ Exact(typed) => Value(wire.value) = Value(typed)

LEMMA ExactKeepsValue ==
  ASSUME NEW t \in Text, Exact(t), ParseNumber(t) # None, Short(ParseNumber(t)),
         Len(t.frac) <= FracDigits
  PROVE  Value(Format(ParseNumber(t))) = Value(t)
<1> DEFINE n == ParseNumber(t)
<1> DEFINE f == Format(n)
<1> DEFINE W == Base ^ Places
<1> DEFINE F(k) == Base ^ (Places - k)
<1> DEFINE k == Len(DigitsOf[n.frac])
<1> DEFINE m == Len(t.frac)
<1>1. /\ n \in Number /\ n.whole = Signed(t) /\ n.frac = Natural(t.frac)
      /\ Natural(t.whole) \in Nat /\ Natural(t.frac) \in Nat
  BY ParseText, ParseTextType
<1>2. t.frac \in Seq(Digit) /\ m \in Nat /\ t.neg \in BOOLEAN
  BY DEF Text, Digit
<1>3. n.whole \in Int /\ n.frac \in Nat
  BY <1>1, NumberFields
<1>4. Abs(n.whole) = Natural(t.whole)
  BY <1>1 DEF Signed, Abs
<1>5. /\ f.neg = (n.whole < 0)
      /\ Natural(f.whole) = Abs(n.whole) /\ Natural(f.frac) = n.frac
      /\ Len(f.frac) = k
  BY <1>1, <1>3, FormatFacts, AbsFacts, NaturalOfDigits
<1>6. W \in Int /\ F(k) \in Int /\ F(m) \in Int
  <2>1. k \in Nat /\ k <= FracDigits /\ FracDigits \in Nat
    BY <1>3, DigitsOfType, BoundsAssumption DEF Short
  <2> HIDE DEF k, m
  <2>2. Places \in Nat /\ Places - k \in Nat /\ Places - m \in Nat
    BY <1>2, <2>1 DEF Places, m
  <2> QED
    BY <2>2, BaseFacts
<1>7. Value(t) = IF t.neg THEN -(Natural(t.whole) * W + Natural(t.frac) * F(m))
                 ELSE Natural(t.whole) * W + Natural(t.frac) * F(m)
  BY DEF Value
<1>8. Value(f) = IF n.whole < 0 THEN -(Natural(t.whole) * W + Natural(t.frac) * F(k))
                 ELSE Natural(t.whole) * W + Natural(t.frac) * F(k)
  BY <1>1, <1>4, <1>5 DEF Value
<1>9. n.whole < 0 <=> t.neg /\ Natural(t.whole) # 0
  BY <1>1, <1>2 DEF Signed
<1>10. Natural(t.frac) * F(k) = Natural(t.frac) * F(m)
  <2>1. CASE Natural(t.frac) = 0
    <3> HIDE DEF F, k, m
    <3> QED
      BY <1>6, <2>1
  <2>2. CASE Natural(t.frac) # 0
    <3>1. t.frac[1] # 0
      BY <2>2 DEF Exact
    <3>2. m >= 1
      <4>1. SUFFICES ASSUME m = 0 PROVE FALSE
        BY <1>2
      <4>2. t.frac = <<>>
        BY <1>2, <4>1
      <4> QED
        BY <2>2, <4>2, NaturalEmpty
    <3>3. k = m
      BY <1>1, <1>2, <3>1, <3>2, DigitsOfNatural
    <3> QED
      BY <3>3
  <2> QED
    BY <2>1, <2>2
<1> DEFINE a == Natural(t.whole) * W
<1> DEFINE b == Natural(t.frac) * F(m)
<1>11. a \in Int /\ b \in Int
  <2> HIDE DEF W, F
  <2> QED
    BY <1>1, <1>6
<1>12. Natural(t.whole) = 0 => a = 0
  <2> HIDE DEF W
  <2> QED
    BY <1>6
<1>13. Natural(t.frac) = 0 => b = 0
  <2> HIDE DEF F, m
  <2> QED
    BY <1>6
<1>14. Value(t) = (IF t.neg THEN -(a + b) ELSE a + b)
       /\ Value(f) = IF n.whole < 0 THEN -(a + b) ELSE a + b
  BY <1>7, <1>8, <1>10
<1> HIDE DEF a, b, n
<1>15. CASE t.neg /\ Natural(t.whole) = 0
  <2>1. Natural(t.frac) = 0
    BY <1>15 DEF Exact
  <2>2. a = 0 /\ b = 0
    BY <1>12, <1>13, <1>15, <2>1
  <2> QED
    BY <1>14, <2>2 DEF n
<1>16. CASE ~(t.neg /\ Natural(t.whole) = 0)
  <2>1. n.whole < 0 <=> t.neg
    BY <1>9, <1>16
  <2> QED
    BY <1>2, <1>14, <2>1 DEF n
<1> QED
  BY <1>15, <1>16

LEMMA InvariantImpliesExact == ExchangeInvariant => FixedPointIfExact
<1> SUFFICES ASSUME ExchangeInvariant, at = "wire", IsWrite(judged), Exact(typed)
             PROVE  Value(wire.value) = Value(typed)
  BY DEF FixedPointIfExact
<1>1. PICK x \in Variables, n \in Number : judged = Write(x, n) /\ Short(n)
  BY JudgeableKinds DEF ExchangeInvariant, IsWrite, Writes
<1>2. /\ typed \in Text /\ Len(typed.frac) <= FracDigits
      /\ judged.value = ParseNumber(typed)
      /\ wire = WriteTo(judged)
  BY DEF ExchangeInvariant
<1>3. n = ParseNumber(typed) /\ n # None
  BY <1>1, <1>2, NotNull DEF Write
<1>4. wire.value = Format(n)
  BY <1>1, <1>2 DEF WriteTo, Write
<1> QED
  BY <1>1, <1>2, <1>3, <1>4, ExactKeepsValue

(* Without fetch: the properties of the exchange for every base and width,    *)
(* with answers that are cut and with any set of fractions whose logarithm is *)
(* rounded up.                                                               *)
THEOREM ExchangeCorrect ==
  Spec => [](JudgedIsExecuted /\ ReadsLastWrite /\ SafeIsAnswered /\ FloatAgrees)
<1>1. ExchangeInvariant /\ [Next]_vars => ExchangeInvariant'
  BY ReadInv, DenyInv, ForwardInv, HandleInv, ReceiveInv, ForgetInv, ExchangeStutter
     DEF Next, Answer, TripFails
<1> QED
  BY <1>1, ExchangeInit, InvariantImpliesJudged, InvariantImpliesReads,
     InvariantImpliesSafe, InvariantImpliesFloat, PTL DEF Spec

-----------------------------------------------------------------------------
(* Go's integers.                                                            *)

LEMMA WrapType ==
  ASSUME NEW i \in Int
  PROVE  Wrap(i) \in Ints
<1>1. (i + MaxInt + 1) % (2 * MaxInt + 2) \in 0..(2 * MaxInt + 1)
  BY IntsFacts, Z3
<1> QED
  BY <1>1, IntsFacts DEF Wrap, Ints

LEMMA WrapUnique ==
  ASSUME NEW i \in Int, NEW j \in Ints, i = j \/ i = j + (2 * MaxInt + 2) \/ i = j - (2 * MaxInt + 2)
  PROVE  Wrap(i) = j
<1> DEFINE w == 2 * MaxInt + 2
<1> DEFINE k == j + MaxInt + 1
<1>1. w \in Nat /\ w > 0 /\ k \in 0..(w - 1) /\ j \in Int
  BY IntsFacts DEF Ints
<1>2. i + MaxInt + 1 = k \/ i + MaxInt + 1 = k + w \/ i + MaxInt + 1 = k - w
  BY <1>1, IntsFacts
<1>3. Wrap(i) = ((i + MaxInt + 1) % w) - MaxInt - 1
  BY DEF Wrap
<1> HIDE DEF w
<1>4. k % w = k /\ (k + w) % w = k /\ (k - w) % w = k
  <2> HIDE DEF k
  <2> QED
    BY <1>1, Z3
<1>5. (i + MaxInt + 1) % w = k
  BY <1>2, <1>4
<1>6. Wrap(i) = k - MaxInt - 1
  BY <1>3, <1>5
<1> QED
  BY <1>1, <1>6, IntsFacts

(* The range of a fetch that starts: its length did not wrap around, or one  *)
(* of its variables is the least integer.                                    *)
LEMMA RangeFacts ==
  ASSUME start \in Ints, end \in Ints, Count > 0
  PROVE  \/ Count = end - start + 1 /\ \A i \in 1..Count : Variable(i) = start + i - 1
         \/ \E i \in 1..Count : Variable(i) = -MaxInt - 1
<1> DEFINE n == end - start + 1
<1> DEFINE w == 2 * MaxInt + 2
<1>1. /\ MaxInt \in Nat /\ start \in Int /\ end \in Int
      /\ -MaxInt - 1 <= start /\ start <= MaxInt
      /\ -MaxInt - 1 <= end /\ end <= MaxInt
  BY IntsFacts DEF Ints
<1>2. CASE n > MaxInt
  <2>1. n - w \in Ints /\ n - w <= 0
    BY <1>1, <1>2 DEF Ints
  <2>2. Count = n - w
    BY <1>1, <2>1, WrapUnique DEF Count
  <2> QED
    BY <2>1, <2>2
<1>3. CASE n < -MaxInt - 1
  <2>1. n + w \in Ints
    BY <1>1, <1>3 DEF Ints
  <2>2. Count = n + w
    BY <1>1, <2>1, WrapUnique DEF Count
  <2> DEFINE i == MaxInt + 2 - start
  <2>3. i \in 1..Count
    BY <1>1, <2>2
  <2>4. -MaxInt - 1 \in Ints /\ start + i - 1 = (-MaxInt - 1) + w /\ start + i - 1 \in Int
    BY <1>1 DEF Ints
  <2>5. Variable(i) = -MaxInt - 1
    BY <2>4, WrapUnique DEF Variable
  <2> QED
    BY <2>3, <2>5
<1>4. CASE n <= MaxInt /\ n >= -MaxInt - 1
  <2>1. n \in Ints
    BY <1>1, <1>4 DEF Ints
  <2>2. Count = n
    BY <1>1, <2>1, WrapUnique DEF Count
  <2>3. ASSUME NEW i \in 1..Count
        PROVE  Variable(i) = start + i - 1
    <3>1. start + i - 1 \in Ints /\ start + i - 1 \in Int
      BY <1>1, <2>2 DEF Ints
    <3> QED
      BY <3>1, WrapUnique DEF Variable
  <2> QED
    BY <2>2, <2>3
<1>5. n \in Int
  BY <1>1
<1> QED
  BY <1>1, <1>2, <1>3, <1>4, <1>5

-----------------------------------------------------------------------------
(* Fetch.                                                                    *)

FetchInv == ExchangeInvariant /\ FetchInvariant

LEMMA FetchInitInv == FetchInit => FetchInv
<1> SUFFICES ASSUME FetchInit PROVE FetchInv
  OBVIOUS
<1>1. ExchangeInvariant
  BY ExchangeInit DEF FetchInit
<1>2. data \in [Variables -> Number] /\ 0 \in Ints
  BY <1>1, IntsFacts DEF ExchangeInvariant
<1> QED
  BY <1>1, <1>2 DEF FetchInit, FetchInv, FetchInvariant

(* The texts of numbers, and what a cut line leaves of them.                  *)
LEMMA BeginningsType ==
  ASSUME NEW u, u \in Text \/ u = NaN, NEW t \in Beginnings(u)
  PROVE  t \in Text \/ t = NaN
<1>1. CASE u = NaN
  BY <1>1 DEF Beginnings
<1>2. CASE u # NaN
  <2>1. u \in Text /\ u.whole \in Seq(Digit) /\ u.frac \in Seq(Digit) /\ <<>> \in Seq(Digit)
    BY <1>2 DEF Text, Digit
  <2>2. ASSUME NEW ds \in Seq(Digit), NEW i \in 1..Len(ds)
        PROVE  SubSeq(ds, 1, i) \in Seq(Digit)
    OBVIOUS
  <2>3. CASE \E i \in 1..Len(u.whole) : t = [u EXCEPT !.whole = SubSeq(@, 1, i), !.frac = <<>>]
    BY <2>1, <2>2, <2>3 DEF Text, Digit
  <2>4. CASE \E i \in 1..Len(u.frac) : t = [u EXCEPT !.frac = SubSeq(@, 1, i)]
    BY <2>1, <2>2, <2>4 DEF Text, Digit
  <2> QED
    BY <1>2, <2>3, <2>4 DEF Beginnings
<1> QED
  BY <1>1, <1>2

LEMMA ParsedNumberType ==
  ASSUME NEW t, t \in Text \/ t = NaN, ParseNumber(t) # None
  PROVE  ParseNumber(t) \in Number \union {NaN}
<1>1. CASE t \in Text
  BY <1>1, ParseTextType
<1>2. CASE t = NaN
  BY <1>2 DEF ParseNumber
<1> QED
  BY <1>1, <1>2

LEMMA VariableOf ==
  ASSUME NEW x \in 0..MaxInt
  PROVE  Int64(x) \in Variables /\ (Int64(x) = Int64(0) <=> x = 0)
BY DEF Variables, Int64

LEMMA TextsType ==
  ASSUME held \in [Variables -> SUBSET Number], NEW x \in Ints, NEW u \in Texts(x)
  PROVE  u \in Text \/ u = NaN
<1>1. x \in Int
  BY IntsFacts
<1>2. CASE x > 0
  <2>1. x \in 0..MaxInt
    BY <1>1, <1>2, IntsFacts DEF Ints
  <2>2. held[Int64(x)] \subseteq Number
    BY <2>1, VariableOf
  <2> QED
    BY <1>1, <1>2, <2>2, FormatFacts DEF Texts
<1> QED
  BY <1>1, <1>2 DEF Texts

(* A variable below zero has none.                                           *)
LEMMA NoTexts ==
  ASSUME NEW x \in Int, x < 0
  PROVE  Texts(x) = {} /\ CutTexts(x) = {}
<1>1. Texts(x) = {}
  BY DEF Texts
<1> QED
  BY <1>1 DEF CutTexts

(* A number that the host answers with is one that some variable has, or that *)
(* of a canned message.                                                      *)
LEMMA AnswerNumber ==
  ASSUME FetchInv, NEW c \in Judgeable, HasNumber(HandleAnswer(Understood(c)))
  PROVE  LET r == HandleAnswer(Understood(c)) IN
           r.value = CannedNumber \/ \E y \in 0..MaxInt : r.value \in Texts(y)
<1> DEFINE r == HandleAnswer(Understood(c))
<1>1. Understood(c) = c
  <2>1. SUFFICES ASSUME Understood(c) = None PROVE FALSE
    BY DEF Understood
  <2>2. r = [text |-> "BAD MESSAGE"]
    BY <2>1 DEF HandleAnswer
  <2>3. r.text = "BAD MESSAGE"
    BY <2>2, TextOnly
  <2> QED
    BY <2>3 DEF HasNumber
<1>2. c # None /\ c.kind \in {"write", "query", "basic"}
  BY JudgeableType, JudgeableKinds
<1>3. CASE c.kind = "write"
  <2>1. r = [text |-> "!"]
    BY <1>1, <1>2, <1>3 DEF HandleAnswer, IsWrite
  <2> QED
    BY <2>1 DEF HasNumber
<1>4. CASE c.kind = "basic"
  <2>1. r = BasicAnswer(c.command)
    BY <1>1, <1>2, <1>4 DEF HandleAnswer, IsWrite
  <2>2. r = [text |-> "?"] \/ r = [text |-> "canned", value |-> CannedNumber]
    BY <2>1 DEF BasicAnswer
  <2> QED
    BY <2>2 DEF HasNumber
<1>5. CASE c.kind = "query"
  <2>1. PICK x \in Number : c = Query(x)
    BY <1>5, JudgeableKinds DEF Queries
  <2>2. r = QueryAnswer(x)
    <3>1. c.variable = x /\ ~IsWrite(c)
      BY <1>5, <2>1 DEF Query, IsWrite
    <3>2. HandleAnswer(c) = QueryAnswer(c.variable)
      BY <1>2, <1>5, <3>1 DEF HandleAnswer
    <3> QED
      BY <1>1, <3>1, <3>2
  <2>3. ~(x.whole < 0 \/ x.frac # 0)
    <3>1. SUFFICES ASSUME x.whole < 0 \/ x.frac # 0 PROVE FALSE
      OBVIOUS
    <3>2. r = [text |-> "BAD VARIABLE NUMBER"]
      BY <2>2, <3>1 DEF QueryAnswer
    <3>3. r.text = "BAD VARIABLE NUMBER"
      BY <3>2, TextOnly
    <3> QED
      BY <3>3 DEF HasNumber
  <2> DEFINE y == x.whole
  <2>4. y \in 0..MaxInt /\ x = Int64(y)
    BY <2>3, NumberFields, IntsFacts DEF Int64, Ints
  <2>5. x \in Variables
    BY <2>4, VariableOf
  <2>6. r.value = IF x = Int64(0) THEN NaN ELSE Format(data[x])
    BY <2>1, <2>5, <1>1, AnswerOfQuery
  <2>7. data[x] \in held[x]
    BY <2>5 DEF FetchInv, FetchInvariant
  <2>8. x = Int64(0) <=> y = 0
    BY <2>4, VariableOf
  <2> HIDE DEF r, y
  <2>9. r.value \in Texts(y)
    BY <2>4, <2>6, <2>7, <2>8 DEF Texts
  <2> QED
    BY <2>4, <2>9 DEF r
<1> QED
  BY <1>2, <1>3, <1>4, <1>5

(* A step that leaves the host's variables and fetch alone.                  *)
LEMMA FetchUnmoved ==
  ASSUME FetchInv, ExchangeInvariant', UNCHANGED <<data, fetchVars>>,
         pc = "await" => /\ at' \in {"wire", "reply", "told"} /\ judged' = judged
                         /\ at' = "told" /\ how' = "stray" =>
                              at = "told" /\ how = "stray" /\ answer' = answer
  PROVE  FetchInv'
<1>1. UNCHANGED <<pc, start, end, buf, rows, held, heard, came>>
  BY DEF fetchVars
<1>2. Count' = Count /\ \A i : Variable(i)' = Variable(i)
  BY <1>1 DEF Count, Variable
<1>3. \A x : Texts(x)' = Texts(x)
  BY <1>1 DEF Texts
<1>4. \A x, c, n : Fetched(x, c, n)' = Fetched(x, c, n)
  BY <1>3 DEF Fetched, CutTexts
<1>5. \A r \in heard' : HasNumber(r) =>
        r.value = CannedNumber \/ \E y \in 0..MaxInt : r.value \in Texts(y)'
  BY <1>1, <1>3 DEF FetchInv, FetchInvariant
<1>6. pc' = "await" =>
        /\ at' \in {"wire", "reply", "told"}
        /\ judged' = Query(Int64(Variable(Len(buf) + 1)))'
        /\ at' = "told" /\ how' = "stray" => \E r \in heard' : answer' \in Cuts(r)
  BY <1>1, <1>2 DEF FetchInv, FetchInvariant
<1>7. FetchInvariant'
  BY <1>1, <1>2, <1>4, <1>5, <1>6 DEF FetchInv, FetchInvariant
<1> QED
  BY <1>7 DEF FetchInv

LEMMA ClientInv ==
  ASSUME FetchInv, Client
  PROVE  FetchInv'
<1>1. UNCHANGED fetchVars
  BY DEF Client
<1>2. pc = "await" => at \in {"wire", "reply", "told"}
  BY DEF FetchInv, FetchInvariant
<1>3. CASE \E l \in Lines : Read(l)
  BY <1>1, <1>2, <1>3, ReadInv, FetchUnmoved DEF Read, FetchInv
<1>4. CASE Deny
  BY <1>1, <1>2, <1>4, DenyInv, FetchUnmoved DEF Deny, FetchInv
<1>5. CASE Forward
  BY <1>1, <1>2, <1>5, ForwardInv, FetchUnmoved DEF Forward, FetchInv
<1>6. CASE Receive
  <2>1. at' = "told" /\ how' # "stray" /\ judged' = judged /\ data' = data
    BY <1>6 DEF Receive
  <2> QED
    BY <1>1, <1>6, <2>1, ReceiveInv, FetchUnmoved DEF FetchInv
<1>7. CASE pc # "await" /\ (Answer \/ TripFails)
  BY <1>1, <1>7, ForgetInv, FetchUnmoved DEF Answer, TripFails, Forget, FetchInv
<1> QED
  BY <1>3, <1>4, <1>5, <1>6, <1>7 DEF Client

(* The host adds to what its variables have had, and is heard.                *)
LEMMA HostInv ==
  ASSUME FetchInv, Host
  PROVE  FetchInv'
<1> USE DEF Host
<1>1. ExchangeInvariant'
  BY HandleInv DEF FetchInv
<1>2. /\ data' \in [Variables -> Number]
      /\ held \in [Variables -> SUBSET Number]
      /\ held' = [x \in Variables |-> held[x] \union {data'[x]}]
  BY <1>1 DEF ExchangeInvariant, FetchInv, FetchInvariant
<1>3. \A x \in Variables : held'[x] \in SUBSET Number /\ data'[x] \in held'[x]
                           /\ held[x] \subseteq held'[x]
  BY <1>2
<1>4. held' \in [Variables -> SUBSET Number]
  BY <1>2, <1>3
<1>5. at' = "reply" /\ judged' = judged
  BY DEF Handle
<1>6. Count' = Count /\ \A i : Variable(i)' = Variable(i)
  BY DEF Count, Variable
<1>7. ASSUME NEW x \in Ints
      PROVE  Texts(x) \subseteq Texts(x)' /\ CutTexts(x) \subseteq CutTexts(x)'
  <2>1. x \in Int
    BY IntsFacts
  <2>2. x > 0 => held[Int64(x)] \subseteq held'[Int64(x)]
    <3>1. x > 0 => x \in 0..MaxInt
      BY <2>1, IntsFacts DEF Ints
    <3> QED
      BY <1>3, <3>1, VariableOf
  <2>3. Texts(x) \subseteq Texts(x)'
    BY <2>1, <2>2 DEF Texts
  <2> QED
    BY <2>3 DEF CutTexts
<1>8. ASSUME NEW i \in 1..Len(buf)
      PROVE  Fetched(Variable(i), came[i], buf[i])'
  <2>1. Fetched(Variable(i), came[i], buf[i])
    BY DEF FetchInv, FetchInvariant
  <2>2. Variable(i) \in Ints
    BY WrapType, IntsFacts DEF Variable, FetchInv, FetchInvariant
  <2>3. \A y \in 0..MaxInt : y \in Ints
    BY IntsFacts
  <2> QED
    BY <1>6, <1>7, <2>1, <2>2, <2>3 DEF Fetched
<1>9. ASSUME NEW r \in heard', HasNumber(r)
      PROVE  r.value = CannedNumber \/ \E y \in 0..MaxInt : r.value \in Texts(y)'
  <2>1. r.value = CannedNumber \/ \E y \in 0..MaxInt : r.value \in Texts(y)
    <3>1. CASE r \in heard
      BY <1>9, <3>1 DEF FetchInv, FetchInvariant
    <3>2. CASE r = answer'
      <4>1. judged \in Judgeable /\ wire = WriteTo(judged)
        BY DEF Handle, FetchInv, ExchangeInvariant
      <4>2. r = HandleAnswer(Understood(judged))
        BY <3>2, <4>1, WrittenIsUnderstood DEF Handle
      <4> QED
        BY <1>9, <4>1, <4>2, AnswerNumber
    <3> QED
      BY <3>1, <3>2
  <2>2. \A y \in 0..MaxInt : Texts(y) \subseteq Texts(y)'
    BY <1>7, IntsFacts
  <2> QED
    BY <2>1, <2>2
<1>10. FetchInvariant'
  BY <1>3, <1>4, <1>5, <1>6, <1>8, <1>9 DEF FetchInv, FetchInvariant
<1> QED
  BY <1>1, <1>10 DEF FetchInv

(* A stray comes from what was heard.                                         *)
LEMMA OverhearInv ==
  ASSUME FetchInv, Overhear
  PROVE  FetchInv'
<1> USE DEF Overhear
<1>1. /\ at' = "told" /\ how' = "stray"
      /\ UNCHANGED <<judged, data, table, pc, start, end, buf, rows, held, came>>
  OBVIOUS
<1>2. ExchangeInvariant'
  BY <1>1 DEF FetchInv, ExchangeInvariant
<1>3. Count' = Count /\ \A i : Variable(i)' = Variable(i)
  BY <1>1 DEF Count, Variable
<1>4. \A x : Texts(x)' = Texts(x)
  BY <1>1 DEF Texts
<1>5. \A x, c, n : Fetched(x, c, n)' = Fetched(x, c, n)
  BY <1>4 DEF Fetched, CutTexts
<1>6. ASSUME NEW r \in heard', HasNumber(r)
      PROVE  r.value = CannedNumber \/ \E y \in 0..MaxInt : r.value \in Texts(y)'
  <2>1. CASE r \in heard
    BY <1>4, <1>6, <2>1 DEF FetchInv, FetchInvariant
  <2>2. CASE r \notin heard
    <3>1. at = "wire" /\ r = HandleAnswer(ParseCommand(wire))
      BY <2>2
    <3>2. judged \in Judgeable /\ wire = WriteTo(judged)
      BY <3>1 DEF FetchInv, ExchangeInvariant
    <3>3. r = HandleAnswer(Understood(judged))
      BY <3>1, <3>2, WrittenIsUnderstood
    <3> QED
      BY <1>4, <1>6, <3>2, <3>3, AnswerNumber
  <2> QED
    BY <2>1, <2>2
<1>7. \E r \in heard' : answer' \in Cuts(r)
  <2>1. heard \subseteq heard'
    OBVIOUS
  <2> QED
    BY <2>1
<1>8. FetchInvariant'
  BY <1>1, <1>3, <1>5, <1>6, <1>7 DEF FetchInv, FetchInvariant
<1> QED
  BY <1>2, <1>8 DEF FetchInv

(* Steps of fetch that leave the exchange alone.                             *)
LEMMA NoHostInv ==
  ASSUME FetchInv, NoHost
  PROVE  FetchInv'
<1> USE DEF NoHost
<1>1. ExchangeInvariant'
  BY ExchangeStutter DEF FetchInv
<1>2. \A i : Variable(i)' = Variable(i)
  BY DEF Variable
<1>3. \A x : Texts(x)' = Texts(x)
  BY DEF Texts
<1>4. \A x, c, n : Fetched(x, c, n)' = Fetched(x, c, n)
  BY <1>3 DEF Fetched, CutTexts
<1>5. FetchInvariant'
  BY <1>2, <1>3, <1>4 DEF vars, FetchInv, FetchInvariant
<1> QED
  BY <1>1, <1>5 DEF FetchInv

LEMMA RunInv ==
  ASSUME FetchInv, NEW s \in Ints, NEW e \in Ints, Run(s, e)
  PROVE  FetchInv'
<1> USE DEF Run
<1>1. ExchangeInvariant'
  BY ExchangeStutter DEF FetchInv
<1>2. data' = data /\ data \in [Variables -> Number]
  BY DEF vars, FetchInv, ExchangeInvariant
<1>3. held' \in [Variables -> SUBSET Number] /\ \A x \in Variables : data'[x] \in held'[x]
  BY <1>2
<1>4. /\ start' = s /\ start' \in Ints /\ end' \in Ints
      /\ buf' = <<>> /\ came' = <<>> /\ heard' = {}
  BY DEF FetchInv, FetchInvariant
<1>5. Count' \in Int
  <2>1. end' - start' + 1 \in Int
    BY <1>4, IntsFacts
  <2>2. Wrap(end' - start' + 1) \in Int
    BY <2>1, WrapType, IntsFacts
  <2>3. Count' = Wrap(end' - start' + 1)
    BY DEF Count, Wrap
  <2> QED
    BY <2>2, <2>3
<1>6. pc' \in {"error", "ask"} /\ (pc' = "ask" => Count' > 0)
  BY <1>4, <1>5 DEF Count
<1>7. /\ Len(buf') = 0 /\ buf' \in Seq(Number \union {NaN})
      /\ Len(came') = 0 /\ came' \in Seq({"whole", "cut", "stray"})
  BY <1>4
<1>8. FetchInvariant'
  BY <1>3, <1>4, <1>5, <1>6, <1>7 DEF FetchInvariant
<1> QED
  BY <1>1, <1>8 DEF FetchInv

LEMMA AskInv ==
  ASSUME FetchInv, Ask
  PROVE  FetchInv'
<1> USE DEF Ask
<1> DEFINE v == Variable(Len(buf) + 1)
<1>1. v \in Ints
  BY WrapType, IntsFacts DEF Variable, FetchInv, FetchInvariant
<1>2. judged' = Query(Int64(v)) /\ judged' \in Judgeable
  BY <1>1, IntIsNumber DEF Judgeable, Queries
<1>3. ExchangeInvariant'
  BY <1>2 DEF FetchInv, ExchangeInvariant, IsWrite, Query
<1>4. Count' = Count /\ \A i : Variable(i)' = Variable(i)
  BY DEF Count, Variable
<1>5. \A x : Texts(x)' = Texts(x)
  BY DEF Texts
<1>6. \A x, c, n : Fetched(x, c, n)' = Fetched(x, c, n)
  BY <1>5 DEF Fetched, CutTexts
<1>7. FetchInvariant'
  BY <1>2, <1>4, <1>5, <1>6 DEF FetchInv, FetchInvariant
<1> QED
  BY <1>3, <1>7 DEF FetchInv

(* A text that a variable has is what parsing it and formatting it gives.     *)
LEMMA FormatOfParsed ==
  ASSUME held \in [Variables -> SUBSET Number], NEW x \in Ints, NEW u \in Texts(x)
  PROVE  Format(ParseNumber(u)) = u
<1>1. x \in Int
  BY IntsFacts
<1>2. CASE x > 0
  <2>1. x \in 0..MaxInt
    BY <1>1, <1>2, IntsFacts DEF Ints
  <2>2. PICK n \in held[Int64(x)] : u = Format(n)
    BY <1>1, <1>2 DEF Texts
  <2>3. n \in Number
    BY <2>1, VariableOf
  <2> QED
    BY <2>2, <2>3, FormatFacts
<1>3. CASE x = 0
  <2>1. u = NaN
    BY <1>3 DEF Texts
  <2> QED
    BY <2>1 DEF ParseNumber, Format
<1>4. CASE x < 0
  BY <1>1, <1>4, NoTexts
<1> QED
  BY <1>1, <1>2, <1>3, <1>4

(* The number that comes back is one the variable has, or as it arrived.      *)
LEMMA WholeOrCut ==
  ASSUME FetchInv, pc = "await", at = "told", how \in {"whole", "cut"},
         ParseResponse(judged, answer) # None
  PROVE  LET v == Variable(Len(buf) + 1) IN
           \E u \in Texts(v) : answer.value \in Beginnings(u)
                                /\ (how = "whole" => answer.value = u)
<1> DEFINE v == Variable(Len(buf) + 1)
<1> DEFINE x == Int64(v)
<1>1. v \in Ints /\ judged = Query(x)
  BY WrapType, IntsFacts DEF Variable, FetchInv, FetchInvariant
<1>2. x \in Number /\ x.whole = v /\ x.frac = 0 /\ v \in Int
  BY <1>1, IntIsNumber, IntsFacts
<1>3. HasNumber(answer)
  BY DEF ParseResponse
<1>4. /\ seen = Understood(judged)
      /\ how = "whole" => answer = HandleAnswer(seen)
      /\ how = "cut" => answer \in Cuts(HandleAnswer(seen))
  BY DEF FetchInv, ExchangeInvariant
<1>5. HasNumber(HandleAnswer(seen))
  BY <1>3, <1>4, CutNumber
<1>6. v >= 0
  <2>1. SUFFICES ASSUME v < 0 PROVE FALSE
    BY <1>2
  <2>2. seen = None
    BY <1>1, <1>2, <1>4, <2>1 DEF Understood, Query
  <2>3. HandleAnswer(seen) = [text |-> "BAD MESSAGE"]
    BY <2>2 DEF HandleAnswer
  <2>4. HandleAnswer(seen).text = "BAD MESSAGE"
    BY <2>3, TextOnly
  <2> QED
    BY <1>5, <2>4 DEF HasNumber
<1>7. v \in 0..MaxInt /\ x \in Variables /\ (x = Int64(0) <=> v = 0)
  <2>1. v \in 0..MaxInt
    BY <1>1, <1>6, IntsFacts DEF Ints
  <2> QED
    BY <2>1, VariableOf
<1> DEFINE u == IF x = Int64(0) THEN NaN ELSE Format(data[x])
<1>8. HandleAnswer(seen) = [text |-> "MACRO", value |-> u]
  BY <1>1, <1>4, <1>7, AnswerOfQuery
<1>9. data[x] \in held[x] /\ data[x] \in Number
  BY <1>7 DEF FetchInv, FetchInvariant, ExchangeInvariant
<1>10. u \in Texts(v)
  BY <1>2, <1>6, <1>7, <1>9 DEF Texts
<1>11. how = "cut" => answer.value \in Beginnings(u)
  BY <1>3, <1>4, <1>8, CutNumber
<1>12. u \in Beginnings(u)
  <2>1. CASE u = NaN
    BY <2>1 DEF Beginnings
  <2>2. CASE u # NaN
    <3>1. u \in Text
      BY <1>9, <2>2, FormatFacts
    <3>2. u.frac \in Seq(Digit) /\ Len(u.frac) \in Nat \ {0}
      <4>1. u.frac = DigitsOf[data[x].frac]
        BY <1>9, <2>2, FormatFacts
      <4> QED
        BY <1>9, <4>1, NumberFields, DigitsOfType
    <3>3. SubSeq(u.frac, 1, Len(u.frac)) = u.frac /\ Len(u.frac) \in 1..Len(u.frac)
      BY <3>2
    <3> HIDE DEF u
    <3>4. [u EXCEPT !.frac = SubSeq(@, 1, Len(u.frac))] = u
      BY <3>1, <3>3 DEF Text
    <3> QED
      BY <2>2, <3>3, <3>4 DEF Beginnings
  <2> QED
    BY <2>1, <2>2
<1> HIDE DEF u, v
<1>13. how = "whole" => answer.value = u
  BY <1>4, <1>8
<1> QED
  BY <1>10, <1>11, <1>12, <1>13 DEF v

LEMMA Stray ==
  ASSUME FetchInv, pc = "await", at = "told", how = "stray",
         ParseResponse(judged, answer) # None
  PROVE  \/ answer.value \in Beginnings(CannedNumber)
         \/ \E y \in 0..MaxInt : \E u \in Texts(y) : answer.value \in Beginnings(u)
<1>1. HasNumber(answer)
  BY DEF ParseResponse
<1>2. PICK r \in heard : answer \in Cuts(r)
  BY DEF FetchInv, FetchInvariant
<1>3. HasNumber(r) /\ answer.value \in Beginnings(r.value)
  BY <1>1, <1>2, CutNumber
<1>4. r.value = CannedNumber \/ \E y \in 0..MaxInt : r.value \in Texts(y)
  BY <1>2, <1>3 DEF FetchInv, FetchInvariant
<1> QED
  BY <1>3, <1>4

LEMMA CannedFacts ==
  CannedNumber \in Text /\ \A t \in Beginnings(CannedNumber) : t = CannedNumber
<1>1. 1 \in Digit
  BY BaseFacts DEF Digit
<1>2. <<1>> \in Seq(Digit) /\ <<>> \in Seq(Digit)
  BY <1>1
<1>3. CannedNumber \in Text
  BY <1>2 DEF CannedNumber, Text, Digit
<1>4. CannedNumber # NaN
  BY <1>3, NotNull
<1>5. CannedNumber.whole = <<1>> /\ CannedNumber.frac = <<>>
  BY DEF CannedNumber
<1>6. ASSUME NEW t \in Beginnings(CannedNumber)
      PROVE  t = CannedNumber
  <2>1. CASE \E i \in 1..Len(<<1>>) :
               t = [CannedNumber EXCEPT !.whole = SubSeq(<<1>>, 1, i), !.frac = <<>>]
    <3>1. PICK i \in 1..Len(<<1>>) :
                t = [CannedNumber EXCEPT !.whole = SubSeq(<<1>>, 1, i), !.frac = <<>>]
      BY <2>1
    <3>2. i = 1
      OBVIOUS
    <3>3. SubSeq(<<1>>, 1, 1) = <<1>>
      <4> DEFINE ds == <<1>>
      <4>1. ds \in Seq(Nat) /\ Len(ds) = 1
        OBVIOUS
      <4> HIDE DEF ds
      <4>2. SubSeq(ds, 1, Len(ds)) = ds
        BY <4>1
      <4> QED
        BY <4>1, <4>2 DEF ds
    <3> QED
      BY <3>1, <3>2, <3>3 DEF CannedNumber
  <2>2. ~\E i \in 1..Len(<<>>) : t = [CannedNumber EXCEPT !.frac = SubSeq(<<>>, 1, i)]
    OBVIOUS
  <2> QED
    BY <1>4, <1>5, <2>1, <2>2 DEF Beginnings
<1> QED
  BY <1>3, <1>6

LEMMA CollectFacts ==
  ASSUME FetchInv, pc = "await", at = "told", ParseResponse(judged, answer) # None
  PROVE  /\ ParseResponse(judged, answer) \in Number \union {NaN}
         /\ how \in {"whole", "cut", "stray"}
         /\ Fetched(Variable(Len(buf) + 1), how, ParseResponse(judged, answer))
<1> DEFINE n == ParseResponse(judged, answer)
<1> DEFINE v == Variable(Len(buf) + 1)
<1>1. n = ParseNumber(answer.value) /\ n # None
  BY DEF ParseResponse
<1>2. how \in {"whole", "cut", "stray"} /\ held \in [Variables -> SUBSET Number]
  BY DEF FetchInv, ExchangeInvariant, FetchInvariant
<1>3. v \in Ints /\ \A y \in 0..MaxInt : y \in Ints
  BY WrapType, IntsFacts DEF Variable, FetchInv, FetchInvariant
<1> HIDE DEF n, v
<1>4. CASE how = "stray"
  <2>1. CASE answer.value \in Beginnings(CannedNumber)
    <3>1. answer.value = CannedNumber /\ CannedNumber \in Text
      BY <2>1, CannedFacts
    <3>2. n \in Number \union {NaN} /\ Format(n) = Format(ParseNumber(CannedNumber))
      BY <1>1, <3>1, ParsedNumberType
    <3> QED
      BY <1>2, <1>4, <3>2 DEF Fetched, n
  <2>2. CASE \E y \in 0..MaxInt : \E u \in Texts(y) : answer.value \in Beginnings(u)
    <3>1. PICK y \in 0..MaxInt : \E u \in Texts(y) : answer.value \in Beginnings(u)
      BY <2>2
    <3>2. PICK u \in Texts(y) : answer.value \in Beginnings(u)
      BY <3>1
    <3>3. answer.value \in Text \/ answer.value = NaN
      BY <1>2, <1>3, <3>2, TextsType, BeginningsType
    <3>4. n \in Number \union {NaN}
      BY <1>1, <3>3, ParsedNumberType
    <3>5. Format(n) \in CutTexts(y)
      BY <1>1, <3>2 DEF CutTexts
    <3> QED
      BY <1>2, <1>4, <3>4, <3>5 DEF Fetched, n
  <2> QED
    BY <1>1, <1>4, <2>1, <2>2, Stray DEF n
<1>5. CASE how # "stray"
  <2>1. PICK u \in Texts(v) : /\ answer.value \in Beginnings(u)
                              /\ how = "whole" => answer.value = u
    BY <1>1, <1>2, <1>5, WholeOrCut DEF n, v
  <2>2. u \in Text \/ u = NaN
    BY <1>2, <1>3, TextsType
  <2>3. answer.value \in Text \/ answer.value = NaN
    BY <2>1, <2>2, BeginningsType
  <2>4. n \in Number \union {NaN}
    BY <1>1, <2>3, ParsedNumberType
  <2>5. Format(n) \in CutTexts(v)
    BY <1>1, <2>1 DEF CutTexts
  <2>6. how = "whole" => Format(n) = u
    BY <1>1, <1>3, <2>1, FormatOfParsed DEF FetchInv, FetchInvariant
  <2> QED
    BY <1>2, <1>5, <2>1, <2>4, <2>5, <2>6 DEF Fetched, n, v
<1> QED
  BY <1>4, <1>5

LEMMA CollectInv ==
  ASSUME FetchInv, Collect
  PROVE  FetchInv'
<1> USE DEF Collect
<1> DEFINE n == ParseResponse(judged, answer)
<1>1. ExchangeInvariant'
  BY ForgetInv DEF FetchInv, Answer
<1>2. Count' = Count /\ \A i : Variable(i)' = Variable(i)
  BY DEF Count, Variable
<1>3. \A x : Texts(x)' = Texts(x)
  BY DEF Texts
<1>4. \A x, c, m : Fetched(x, c, m)' = Fetched(x, c, m)
  BY <1>3 DEF Fetched, CutTexts
<1>5. data' = data /\ UNCHANGED <<start, end, rows, held, heard>>
  BY DEF Answer, Forget
<1>6. \A r \in heard' : HasNumber(r) =>
        r.value = CannedNumber \/ \E y \in 0..MaxInt : r.value \in Texts(y)'
  BY <1>3, <1>5 DEF FetchInv, FetchInvariant
<1>7. CASE n = None
  <2>1. pc' = "error" /\ buf' = buf /\ came' = came
    BY <1>7
  <2>2. FetchInvariant'
    BY <1>2, <1>4, <1>5, <1>6, <2>1 DEF FetchInv, FetchInvariant
  <2> QED
    BY <1>1, <2>2 DEF FetchInv
<1>8. CASE n # None
  <2>1. /\ n \in Number \union {NaN} /\ how \in {"whole", "cut", "stray"}
        /\ Fetched(Variable(Len(buf) + 1), how, n)
    BY <1>8, CollectFacts DEF Answer
  <2>2. /\ buf' = Append(buf, n) /\ came' = Append(came, how)
        /\ pc' = IF Len(buf') = Count THEN "write" ELSE "ask"
    BY <1>8
  <2> HIDE DEF n
  <2>3. /\ buf \in Seq(Number \union {NaN}) /\ Len(buf) \in Nat
        /\ came \in Seq({"whole", "cut", "stray"}) /\ Len(came) = Len(buf)
        /\ Len(buf) < Count /\ Count \in Int
    <3>1. Count \in Ints
      BY WrapType, IntsFacts DEF Count, FetchInv, FetchInvariant
    <3> QED
      BY <3>1, IntsFacts DEF FetchInv, FetchInvariant
  <2>4. /\ buf' \in Seq(Number \union {NaN})
        /\ Len(buf') = Len(buf) + 1
        /\ buf'[Len(buf) + 1] = n
        /\ \A i \in 1..Len(buf) : buf'[i] = buf[i]
    BY <2>1, <2>2, <2>3
  <2>5. /\ came' \in Seq({"whole", "cut", "stray"})
        /\ Len(came') = Len(buf) + 1
        /\ came'[Len(buf) + 1] = how
        /\ \A i \in 1..Len(buf) : came'[i] = came[i]
    BY <2>1, <2>2, <2>3
  <2>6. \A i \in 1..Len(buf') : Fetched(Variable(i), came'[i], buf'[i])
    <3>1. \A i \in 1..Len(buf') : i \in 1..Len(buf) \/ i = Len(buf) + 1
      BY <2>3, <2>4
    <3>2. \A i \in 1..Len(buf) : Fetched(Variable(i), came[i], buf[i])
      BY DEF FetchInv, FetchInvariant
    <3> QED
      BY <2>1, <2>4, <2>5, <3>1, <3>2
  <2>7. \A i \in 1..Len(buf') : Fetched(Variable(i), came[i], buf[i])'
    BY <1>2, <1>4, <2>6
  <2>8. Len(buf') = Count \/ Len(buf') < Count
    BY <2>3, <2>4
  <2>9. FetchInvariant'
    BY <1>2, <1>5, <1>6, <2>2, <2>4, <2>5, <2>7, <2>8 DEF FetchInv, FetchInvariant
  <2> QED
    BY <1>1, <2>9 DEF FetchInv
<1> QED
  BY <1>7, <1>8

LEMMA FetchFailsInv ==
  ASSUME FetchInv, FetchFails
  PROVE  FetchInv'
<1> USE DEF FetchFails
<1>1. ExchangeInvariant' /\ data' = data
  BY ForgetInv DEF FetchInv, TripFails, Forget
<1>2. \A i : Variable(i)' = Variable(i)
  BY DEF Variable
<1>3. \A x : Texts(x)' = Texts(x)
  BY DEF Texts
<1>4. \A x, c, n : Fetched(x, c, n)' = Fetched(x, c, n)
  BY <1>3 DEF Fetched, CutTexts
<1>5. FetchInvariant'
  BY <1>1, <1>2, <1>3, <1>4 DEF FetchInv, FetchInvariant
<1> QED
  BY <1>1, <1>5 DEF FetchInv

(* Writing the table, or failing to.                                         *)
LEMMA WriteInv ==
  ASSUME FetchInv, WriteTable \/ WritePanics \/ WriteFails
  PROVE  FetchInv'
<1> USE DEF WriteTable, WritePanics, WriteFails
<1>1. ExchangeInvariant'
  BY ExchangeStutter DEF FetchInv
<1>2. Count' = Count /\ \A i : Variable(i)' = Variable(i)
  BY DEF Count, Variable
<1>3. \A x : Texts(x)' = Texts(x)
  BY DEF Texts
<1>4. \A x, c, n : Fetched(x, c, n)' = Fetched(x, c, n)
  BY <1>3 DEF Fetched, CutTexts
<1>5. /\ data' = data /\ UNCHANGED <<start, end, buf, held, heard, came>>
      /\ pc' \in {"done", "panic", "error"}
  BY DEF vars
<1>6. pc = "write" /\ Len(buf) = Count /\ Count > 0
  BY DEF FetchInv, FetchInvariant
<1>7. pc' = "done" =>
        rows' = [i \in 1..Count' |-> [variable |-> Variable(i)', text |-> Format(buf'[i])]]
  BY <1>2
<1>8. FetchInvariant'
  BY <1>2, <1>3, <1>4, <1>5, <1>6, <1>7 DEF FetchInv, FetchInvariant
<1> QED
  BY <1>1, <1>8 DEF FetchInv

LEMMA FetchStutter ==
  ASSUME FetchInv, UNCHANGED allVars
  PROVE  FetchInv'
<1>1. ExchangeInvariant'
  BY ExchangeStutter DEF FetchInv, allVars
<1>2. UNCHANGED <<data, fetchVars>> /\ UNCHANGED <<at, judged, how, answer>>
  BY DEF allVars, vars
<1>3. pc = "await" => at \in {"wire", "reply", "told"}
  BY DEF FetchInv, FetchInvariant
<1> QED
  BY <1>1, <1>2, <1>3, FetchUnmoved

(* The invariant of the exchange and of fetch.                               *)
THEOREM InvariantCorrect == FetchSpec => []FetchInv
<1>1. FetchInv /\ [FetchNext]_allVars => FetchInv'
  BY ClientInv, HostInv, OverhearInv, NoHostInv, RunInv, AskInv, CollectInv, FetchFailsInv,
     WriteInv, FetchStutter DEF FetchNext
<1> QED
  BY <1>1, FetchInitInv, PTL DEF FetchSpec

-----------------------------------------------------------------------------
(* The properties.                                                           *)

(* The host executes what was judged: a command is written and parsed anew    *)
(* without becoming another one.                                              *)
THEOREM JudgedIsExecutedCorrect == FetchSpec => []JudgedIsExecuted
  BY InvariantCorrect, InvariantImpliesJudged, PTL DEF FetchInv

(* A query answers with the value of the last judged write to its variable,   *)
(* and a cut answer with what that value begins with.                         *)
THEOREM ReadsLastWriteCorrect == FetchSpec => []ReadsLastWrite
  BY InvariantCorrect, InvariantImpliesReads, PTL DEF FetchInv

(* The host understands every command that is safe.                           *)
THEOREM SafeIsAnsweredCorrect == FetchSpec => []SafeIsAnswered
  BY InvariantCorrect, InvariantImpliesSafe, PTL DEF FetchInv

(* Float64 and the text of a number agree, unless the logarithm of the        *)
(* fraction is rounded up; then Float64 is that of a zero before it.           *)
THEOREM FloatAgreesCorrect == FetchSpec => []FloatAgrees
  BY InvariantCorrect, InvariantImpliesFloat, PTL DEF FetchInv

(* What a client typed keeps its value on the way to the host, if it has no    *)
(* fraction, or one that does not begin with a zero, and then no sign that    *)
(* stands with a zero alone.                                                  *)
THEOREM FixedPointIfExactCorrect == FetchSpec => []FixedPointIfExact
  BY InvariantCorrect, InvariantImpliesExact, PTL DEF FetchInv

(* A range whose length wrapped around holds a variable below zero, for which *)
(* the host has no number, whole or cut; so a fetch that is done has fetched   *)
(* its range, or took a stray.                                               *)
LEMMA InvariantImpliesRows == FetchInv => RowsRight
<1> SUFFICES ASSUME FetchInv, pc = "done" PROVE RowsRight
  BY DEF RowsRight
<1> USE DEF FetchInv, FetchInvariant
<1>1. /\ start \in Ints /\ end \in Ints /\ Count > 0 /\ Len(buf) = Count /\ Len(came) = Count
      /\ rows = [i \in 1..Count |-> [variable |-> Variable(i), text |-> Format(buf[i])]]
      /\ came \in Seq({"whole", "cut", "stray"})
  OBVIOUS
<1>2. \A i \in 1..Count : Fetched(Variable(i), came[i], buf[i])
  OBVIOUS
<1>3. Count \in Nat /\ Len(rows) = Count
  BY <1>1
<1>4. \A i \in 1..Len(rows) : rows[i].variable = Variable(i) /\ rows[i].text = Format(buf[i])
  BY <1>1, <1>3
<1>5. ASSUME \A i \in 1..Len(came) : came[i] # "stray"
      PROVE  Count = end - start + 1 /\ \A i \in 1..Count : Variable(i) = start + i - 1
  <2>1. ASSUME NEW i \in 1..Count
        PROVE  Variable(i) # -MaxInt - 1
    <3>1. came[i] \in {"whole", "cut"}
      BY <1>1, <1>5
    <3>2. -MaxInt - 1 \in Int /\ -MaxInt - 1 < 0
      BY IntsFacts
    <3>3. Texts(-MaxInt - 1) = {} /\ CutTexts(-MaxInt - 1) = {}
      BY <3>2, NoTexts
    <3> QED
      BY <1>2, <3>1, <3>3 DEF Fetched
  <2> QED
    BY <1>1, <2>1, RangeFacts
<1>6. \A i \in 1..Len(rows) : Fetched(rows[i].variable, came[i], buf[i])
  BY <1>2, <1>3, <1>4
<1>7. ASSUME NEW i \in 1..Len(rows)
      PROVE  LET x == rows[i].variable IN
               /\ came[i] = "whole" => rows[i].text \in Texts(x)
               /\ came[i] = "cut" => rows[i].text \in CutTexts(x)
               /\ came[i] = "stray" =>
                    \/ \E y \in 0..MaxInt : rows[i].text \in CutTexts(y)
                    \/ rows[i].text = Format(ParseNumber(CannedNumber))
  BY <1>4, <1>6 DEF Fetched
<1>8. Len(rows) = Len(came)
  BY <1>1, <1>3
<1>9. (\A i \in 1..Len(came) : came[i] # "stray") =>
        /\ Len(rows) = end - start + 1
        /\ \A i \in 1..Len(rows) : rows[i].variable = start + i - 1
  BY <1>3, <1>4, <1>5
<1> QED
  BY <1>7, <1>8, <1>9 DEF RowsRight

(* A fetch that succeeds printed one row for each variable it was asked for,  *)
(* with a value the variable had meanwhile or what a cut line left of it;      *)
(* after a stray, each row is right for the way it arrived.                   *)
THEOREM RowsRightCorrect == FetchSpec => []RowsRight
  BY InvariantCorrect, InvariantImpliesRows, PTL
=============================================================================
