---------------------------- MODULE Counts_proofs ----------------------------
(***************************************************************************)
(* Proofs about sums of counts: how the parts of a batch make it up.       *)
(***************************************************************************)
EXTENDS Counts, FunctionTheorems, FiniteSetTheorems, TLAPS

LEMMA UnitsMember ==
  ASSUME NEW S, NEW f \in [S -> Nat]
  PROVE  \A x : x \in Units(f) <=> \E i \in S : \E j \in 1 .. f[i] : x = <<i, j>>
<1>1. Units(f) = UNION {{i} \X (1 .. f[i]) : i \in S}
  BY DEF Units
<1> QED BY <1>1

\* Division with remainder, as the place of m - 1 in rows of n.
LEMMA DivMod ==
  ASSUME NEW m \in Nat, NEW n \in Nat \ {0}
  PROVE  /\ m \div n \in Nat /\ m % n \in 0 .. n - 1
         /\ m = (m \div n) * n + (m % n)
  OBVIOUS

LEMMA Rows ==
  ASSUME NEW n \in Nat \ {0}, NEW i \in 0 .. n - 1, NEW k \in 0 .. n - 1,
         NEW j \in Nat, NEW l \in Nat
  PROVE  /\ j < l => j * n + i < l * n + k
         /\ j * n + i = l * n + k => i = k /\ j = l
<1>1. ASSUME NEW a \in Nat, NEW b \in Nat, NEW c \in 0 .. n - 1, NEW d \in 0 .. n - 1, a < b
      PROVE  a * n + c < b * n + d
  <2>1. PICK e \in Nat : b = a + 1 + e
    <3>1. b - a - 1 \in Nat /\ b = a + 1 + (b - a - 1)
      BY <1>1
    <3> QED BY <3>1
  <2>2. b * n = a * n + n + e * n
    BY <2>1
  <2>3. e * n \in Nat
    OBVIOUS
  <2> QED BY <2>2, <2>3
<1>2. j < l => j * n + i < l * n + k
  BY <1>1
<1>3. l < j => l * n + k < j * n + i
  BY <1>1
<1>4. j * n \in Nat /\ l * n \in Nat
  OBVIOUS
<1> QED BY <1>2, <1>3, <1>4

LEMMA ModSmall ==
  ASSUME NEW n \in Nat \ {0}, NEW m \in 0 .. n - 1
  PROVE  m % n = m
<1>1. PICK q \in Nat, r \in 0 .. n - 1 : m % n = r /\ m = q * n + r
  <2>1. m \in Nat
    OBVIOUS
  <2>2. m \div n \in Nat /\ m % n \in 0 .. n - 1 /\ m = (m \div n) * n + (m % n)
    BY <2>1, DivMod
  <2> QED BY <2>2
<1>2. 0 * n + m = q * n + r
  BY <1>1
<1>3. 0 * n + m = q * n + r => m = r /\ 0 = q
  BY Rows
<1> QED BY <1>1, <1>2, <1>3

LEMMA ModStep ==
  ASSUME NEW m \in Nat, NEW n \in Nat \ {0}
  PROVE  (m + 1) % n = IF m % n = n - 1 THEN 0 ELSE (m % n) + 1
<1>1. PICK q \in Nat, r \in 0 .. n - 1 : m % n = r /\ m = q * n + r
  BY DivMod
<1>2. PICK p \in Nat, s \in 0 .. n - 1 : (m + 1) % n = s /\ m + 1 = p * n + s
  <2> DEFINE k == m + 1
  <2>1. k \in Nat
    OBVIOUS
  <2> HIDE DEF k
  <2>2. k \div n \in Nat /\ k % n \in 0 .. n - 1 /\ k = (k \div n) * n + (k % n)
    BY <2>1, DivMod
  <2>3. \E p \in Nat, s \in 0 .. n - 1 : k % n = s /\ k = p * n + s
    BY <2>2
  <2> QED BY <2>3 DEF k
<1>3. CASE r = n - 1
  <2>1. (q + 1) * n = q * n + n /\ q + 1 \in Nat
    OBVIOUS
  <2>2. (q + 1) * n + 0 = p * n + s
    BY <1>1, <1>2, <1>3, <2>1
  <2>3. (q + 1) * n + 0 = p * n + s => 0 = s /\ q + 1 = p
    BY <2>1, Rows
  <2> QED BY <1>1, <1>2, <1>3, <2>2, <2>3
<1>4. CASE r # n - 1
  <2>1. r + 1 \in 0 .. n - 1
    BY <1>4
  <2>2. q * n + (r + 1) = p * n + s
    BY <1>1, <1>2
  <2>3. q * n + (r + 1) = p * n + s => r + 1 = s /\ q = p
    BY <2>1, Rows
  <2> QED BY <1>1, <1>2, <1>4, <2>2, <2>3
<1> QED BY <1>3, <1>4

(***************************************************************************)
(* The shares of n parties make up the batch: written in rows of n, number *)
(* m of the batch is unit m \div n of party m % n.                         *)
(***************************************************************************)
LEMMA ShareBound ==
  ASSUME NEW batch \in Nat, NEW n \in Nat \ {0}, NEW i \in 0 .. n - 1, NEW j \in Nat
  PROVE  j < batch \div n + (IF i < batch % n THEN 1 ELSE 0) <=> j * n + i < batch
<1> DEFINE q == batch \div n
           m == batch % n
<1>1. q \in Nat /\ m \in 0 .. n - 1 /\ batch = q * n + m
  BY DivMod
<1> HIDE DEF q, m
<1>2. j < q => j * n + i < q * n + m
  BY <1>1, Rows
<1>3. q < j => q * n + m < j * n + i
  BY <1>1, Rows
<1>4. j = q => (j * n + i < q * n + m <=> i < m)
  BY <1>1
<1>5. q * n \in Nat /\ j * n \in Nat
  BY <1>1
<1>6. j < q + (IF i < m THEN 1 ELSE 0) <=> j * n + i < batch
  <2>1. CASE j < q
    BY <1>1, <1>2, <1>5, <2>1
  <2>2. CASE q < j
    BY <1>1, <1>3, <1>5, <2>2
  <2>3. CASE j = q
    BY <1>1, <1>4, <1>5, <2>3
  <2> QED BY <1>1, <2>1, <2>2, <2>3
<1> QED BY <1>6 DEF q, m

LEMMA IntervalSize ==
  ASSUME NEW n \in Nat
  PROVE  IsFiniteSet(0 .. n - 1) /\ Cardinality(0 .. n - 1) = n
  BY FS_Interval

\* A numbering of what is counted: number m is unit which[m], from 0 on, at who[m].
Numbering(S, count, Numbers, who, which) ==
  /\ who \in [Numbers -> S] /\ which \in [Numbers -> Nat]
  /\ \A m \in Numbers : which[m] < count[who[m]]
  /\ \A m, k \in Numbers : who[m] = who[k] /\ which[m] = which[k] => m = k
  /\ \A i \in S, j \in Nat : j < count[i] => \E m \in Numbers : who[m] = i /\ which[m] = j

LEMMA NumberedUnits ==
  ASSUME NEW S, NEW count \in [S -> Nat], NEW Numbers, IsFiniteSet(Numbers),
         NEW who, NEW which, Numbering(S, count, Numbers, who, which)
  PROVE  IsFiniteSet(Units(count)) /\ Total(count) = Cardinality(Numbers)
<1> DEFINE F == [m \in Numbers |-> <<who[m], which[m] + 1>>]
<1>1. ASSUME NEW m \in Numbers
      PROVE  <<who[m], which[m] + 1>> \in Units(count)
  <2>1. who[m] \in S /\ which[m] + 1 \in 1 .. count[who[m]]
    BY DEF Numbering
  <2> QED BY <2>1, UnitsMember
<1>2. F \in [Numbers -> Units(count)]
  BY <1>1
<1>3. ASSUME NEW m \in Numbers, NEW k \in Numbers, F[m] = F[k]
      PROVE  m = k
  <2>1. who[m] = who[k] /\ which[m] + 1 = which[k] + 1
    BY <1>3
  <2> QED BY <2>1 DEF Numbering
<1>4. ASSUME NEW x \in Units(count)
      PROVE  \E m \in Numbers : F[m] = x
  <2>1. PICK i \in S : \E j \in 1 .. count[i] : x = <<i, j>>
    BY <1>4, UnitsMember
  <2>2. PICK j \in 1 .. count[i] : x = <<i, j>>
    BY <2>1
  <2>3. j - 1 \in Nat /\ j - 1 < count[i] /\ (j - 1) + 1 = j
    OBVIOUS
  <2>4. PICK m \in Numbers : who[m] = i /\ which[m] = j - 1
    BY <2>3 DEF Numbering
  <2>5. F[m] = <<i, j>>
    BY <2>3, <2>4
  <2> QED BY <2>2, <2>5
<1> HIDE DEF F
<1>5. F \in Bijection(Numbers, Units(count))
  BY <1>2, <1>3, <1>4, Fun_IsBij
<1> QED BY <1>5, FS_Bijection DEF Total, ExistsBijection

LEMMA RowsAndColumns ==
  ASSUME NEW n \in Nat \ {0}
  PROVE  \E row \in [Nat -> Nat], col \in [Nat -> 0 .. n - 1] :
           \A m \in Nat : m = row[m] * n + col[m]
<1> DEFINE row == [m \in Nat |-> m \div n]
           col == [m \in Nat |-> m % n]
<1>1. \A m \in Nat : row[m] \in Nat /\ col[m] \in 0 .. n - 1 /\ m = row[m] * n + col[m]
  BY DivMod
<1>2. row \in [Nat -> Nat] /\ col \in [Nat -> 0 .. n - 1]
  BY <1>1
<1> HIDE DEF row, col
<1> QED BY <1>1, <1>2

\* The shares of a batch divided among n parties, numbered from 0 on.
Shares(batch, n) ==
  [i \in 0 .. n - 1 |-> batch \div n + (IF i < batch % n THEN 1 ELSE 0)]

LEMMA SharesNumbered ==
  ASSUME NEW batch \in Nat, NEW n \in Nat \ {0}
  PROVE  \E who, which : Numbering(0 .. n - 1, Shares(batch, n), 0 .. batch - 1, who, which)
<1>1. PICK row \in [Nat -> Nat], col \in [Nat -> 0 .. n - 1] :
        \A m \in Nat : m = row[m] * n + col[m]
  BY RowsAndColumns
<1> DEFINE f == Shares(batch, n)
<1> HIDE DEF f
<1>2. ASSUME NEW i \in 0 .. n - 1, NEW j \in Nat
      PROVE  j < f[i] <=> j * n + i < batch
  <2>1. j < batch \div n + (IF i < batch % n THEN 1 ELSE 0) <=> j * n + i < batch
    BY ShareBound
  <2> QED BY <2>1 DEF f, Shares
<1> DEFINE Batch == 0 .. batch - 1
           who == [m \in Batch |-> col[m]]
           which == [m \in Batch |-> row[m]]
<1>3. who \in [Batch -> 0 .. n - 1] /\ which \in [Batch -> Nat]
  OBVIOUS
<1>4. ASSUME NEW m \in Batch
      PROVE  which[m] < f[who[m]]
  <2>1. row[m] * n + col[m] < batch /\ row[m] \in Nat /\ col[m] \in 0 .. n - 1
    BY <1>1
  <2> QED BY <1>2, <2>1
<1>5. ASSUME NEW m \in Batch, NEW k \in Batch, who[m] = who[k], which[m] = which[k]
      PROVE  m = k
  <2>1. col[m] = col[k] /\ row[m] = row[k]
    BY <1>5
  <2>2. m = row[m] * n + col[m] /\ k = row[k] * n + col[k]
    BY <1>1
  <2> QED BY <2>1, <2>2
<1>6. ASSUME NEW c \in 0 .. n - 1, NEW j \in Nat, j < f[c]
      PROVE  \E m \in Batch : who[m] = c /\ which[m] = j
  <2>1. j * n + c < batch /\ j * n + c \in Nat
    <3>1. j * n + c < batch
      BY <1>2, <1>6
    <3>2. j * n \in Nat
      OBVIOUS
    <3> QED BY <3>1, <3>2
  <2>2. PICK m \in Batch : m = j * n + c
    BY <2>1
  <2>3. row[m] * n + col[m] = j * n + c /\ row[m] \in Nat /\ col[m] \in 0 .. n - 1
    BY <1>1, <2>2
  <2>4. col[m] = c /\ row[m] = j
    <3>1. PICK r \in Nat, k \in 0 .. n - 1 : row[m] = r /\ col[m] = k
      BY <2>3
    <3>2. r * n + k = j * n + c
      BY <2>3, <3>1
    <3>3. k = c /\ r = j
      <4>1. r * n + k = j * n + c => k = c /\ r = j
        BY Rows
      <4> QED BY <3>2, <4>1
    <3> QED BY <3>1, <3>3
  <2> QED BY <2>4
<1> HIDE DEF who, which
<1>7. Numbering(0 .. n - 1, Shares(batch, n), Batch, who, which)
  BY <1>3, <1>4, <1>5, <1>6 DEF Numbering, f
<1> QED BY <1>7

LEMMA SharesType ==
  ASSUME NEW batch \in Nat, NEW n \in Nat \ {0}
  PROVE  Shares(batch, n) \in [0 .. n - 1 -> Nat]
<1>1. PICK q \in Nat, m \in Nat : q = batch \div n /\ m = batch % n
  <2>1. batch \div n \in Nat /\ batch % n \in Nat
    BY DivMod
  <2> QED BY <2>1
<1>2. Shares(batch, n) = [i \in 0 .. n - 1 |-> q + (IF i < m THEN 1 ELSE 0)]
  BY <1>1 DEF Shares
<1> QED BY <1>2

LEMMA SharesMakeTotal ==
  ASSUME NEW batch \in Nat, NEW n \in Nat \ {0}
  PROVE  IsFiniteSet(Units(Shares(batch, n))) /\ Total(Shares(batch, n)) = batch
<1>1. /\ Shares(batch, n) \in [0 .. n - 1 -> Nat]
      /\ IsFiniteSet(0 .. batch - 1) /\ Cardinality(0 .. batch - 1) = batch
  BY SharesType, IntervalSize
<1>2. PICK who, which : Numbering(0 .. n - 1, Shares(batch, n), 0 .. batch - 1, who, which)
  BY SharesNumbered
<1> QED BY <1>1, <1>2, NumberedUnits, Zenon

\* The same for parties numbered from 1 on.
LEMMA ShiftedNumbering ==
  ASSUME NEW n \in Nat, NEW f \in [0 .. n - 1 -> Nat], NEW g \in [1 .. n -> Nat],
         \A i \in 1 .. n : g[i] = f[i - 1],
         NEW Numbers, NEW who \in [Numbers -> 0 .. n - 1], NEW which,
         Numbering(0 .. n - 1, f, Numbers, who, which)
  PROVE  Numbering(1 .. n, g, Numbers, [m \in Numbers |-> who[m] + 1], which)
<1>1. ASSUME NEW m \in Numbers
      PROVE  who[m] + 1 \in 1 .. n /\ which[m] < g[who[m] + 1]
  <2>1. who[m] + 1 \in 1 .. n /\ g[who[m] + 1] = f[who[m]]
    OBVIOUS
  <2>2. which[m] < f[who[m]]
    BY DEF Numbering
  <2> QED BY <2>1, <2>2
<1>2. \A m, k \in Numbers : who[m] + 1 = who[k] + 1 /\ which[m] = which[k] => m = k
  BY DEF Numbering
<1>3. ASSUME NEW i \in 1 .. n, NEW j \in Nat, j < g[i]
      PROVE  \E m \in Numbers : who[m] + 1 = i /\ which[m] = j
  <2>1. i - 1 \in 0 .. n - 1 /\ g[i] = f[i - 1] /\ (i - 1) + 1 = i
    OBVIOUS
  <2>2. PICK m \in Numbers : who[m] = i - 1 /\ which[m] = j
    BY <1>3, <2>1 DEF Numbering
  <2> QED BY <2>1, <2>2
<1> QED BY <1>1, <1>2, <1>3 DEF Numbering

LEMMA ShiftedTotal ==
  ASSUME NEW batch \in Nat, NEW n \in Nat \ {0}, NEW share \in [1 .. n -> Nat],
         \A i \in 1 .. n : share[i] = Shares(batch, n)[i - 1]
  PROVE  IsFiniteSet(Units(share)) /\ Total(share) = batch
<1>1. PICK who, which : Numbering(0 .. n - 1, Shares(batch, n), 0 .. batch - 1, who, which)
  BY SharesNumbered
<1>2. who \in [0 .. batch - 1 -> 0 .. n - 1]
  BY <1>1 DEF Numbering
<1>3. \E to : Numbering(1 .. n, share, 0 .. batch - 1, to, which)
  BY <1>1, <1>2, SharesType, ShiftedNumbering
<1> QED BY <1>3, NumberedUnits, IntervalSize

\* Counts that are at most those of another and add up to the same are the same.
LEMMA SameTotal ==
  ASSUME NEW S, NEW f \in [S -> Nat], NEW g \in [S -> Nat],
         \A i \in S : f[i] <= g[i], IsFiniteSet(Units(g)), Total(f) = Total(g)
  PROVE  f = g
<1>1. Units(f) \in SUBSET Units(g)
  <2>1. ASSUME NEW x \in Units(f) PROVE x \in Units(g)
    <3>1. PICK i \in S, j \in Nat : j \in 1 .. f[i] /\ x = <<i, j>>
      BY UnitsMember
    <3>2. j \in 1 .. g[i]
      BY <3>1
    <3> QED BY <3>1, <3>2, UnitsMember
  <2> QED BY <2>1
<1>2. Units(f) = Units(g)
  BY <1>1, FS_Subset DEF Total
<1>3. ASSUME NEW i \in S, f[i] < g[i] PROVE FALSE
  <2>1. g[i] \in 1 .. g[i]
    BY <1>3
  <2>2. <<i, g[i]>> \in Units(f)
    BY <1>2, <2>1, UnitsMember
  <2>3. PICK k \in S, j \in Nat : j \in 1 .. f[k] /\ <<i, g[i]>> = <<k, j>>
    BY <2>2, UnitsMember
  <2> QED BY <1>3, <2>3
<1>4. \A i \in S : f[i] = g[i]
  BY <1>3
<1> QED BY <1>4
=============================================================================
