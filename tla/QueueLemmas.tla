----------------------------- MODULE QueueLemmas -----------------------------
(***************************************************************************)
(* What several of the proofs need: the arithmetic of ring buffers (which  *)
(* cursors share a slot), the queues of consecutive numbers that the items *)
(* of a benchmark are, and sums over threads.                              *)
(***************************************************************************)
EXTENDS Integers, Sequences, Sums, FiniteSetTheorems, TLAPS

(* Division with remainder, as facts the provers can use.                  *)
LEMMA DivMod ==
  ASSUME NEW S \in Nat \ {0}, NEW a \in Nat
  PROVE  /\ a = S * (a \div S) + (a % S)
         /\ a % S \in 0 .. S - 1
         /\ a \div S \in Nat
OBVIOUS

(* A larger quotient is larger by at least one whole lap.                  *)
LEMMA Laps ==
  ASSUME NEW S \in Nat \ {0}, NEW q \in Int, NEW p \in Int, q < p
  PROVE  S * q + S <= S * p
<1>1. S * (p - q) >= S
  OBVIOUS
<1> QED
  BY <1>1

(* The first lap.                                                          *)
LEMMA SmallMod ==
  ASSUME NEW S \in Nat \ {0}, NEW a \in Nat, a < S
  PROVE  a % S = a
<1> DEFINE q == a \div S
<1>1. a = S * q + (a % S) /\ a % S \in 0 .. S - 1 /\ q \in Nat
  BY DivMod
<1> HIDE DEF q
<1>2. CASE q = 0
  BY <1>1, <1>2
<1>3. CASE 0 < q
  <2>1. S * 0 + S <= S * q
    BY <1>1, <1>3, Laps
  <2> QED
    BY <1>1, <2>1
<1> QED
  BY <1>1, <1>2, <1>3

(* Two different cursors less than a lap apart have different slots.       *)
LEMMA DifferentSlots ==
  ASSUME NEW S \in Nat \ {0}, NEW a \in Nat, NEW b \in Nat, a < b, b - a < S
  PROVE  a % S # b % S
<1> DEFINE q == a \div S
           p == b \div S
<1>1. q \in Nat /\ p \in Nat
  BY DivMod
<1>2. a = S * q + (a % S) /\ b = S * p + (b % S)
  BY DivMod
<1>3. a % S \in Nat /\ b % S \in Nat
  BY DivMod
<1>4. SUFFICES ASSUME a % S = b % S PROVE FALSE
  OBVIOUS
<1> HIDE DEF q, p
<1>5. CASE q < p
  <2>1. S * q + S <= S * p
    BY Laps, <1>1, <1>5
  <2> QED
    BY <2>1, <1>1, <1>2, <1>3, <1>4
<1>6. CASE p = q
  BY <1>1, <1>2, <1>3, <1>4, <1>6
<1>7. CASE p < q
  <2>1. S * p + S <= S * q
    BY Laps, <1>1, <1>7
  <2> QED
    BY <2>1, <1>1, <1>2, <1>3, <1>4
<1> QED
  BY <1>1, <1>5, <1>6, <1>7

(* Two cursors one lap apart have the same slot.                           *)
LEMMA SameSlot ==
  ASSUME NEW S \in Nat \ {0}, NEW a \in Nat
  PROVE  (a + S) % S = a % S
<1> DEFINE q == a \div S
           p == (a + S) \div S
<1>1. q \in Nat /\ p \in Nat /\ a + S \in Nat
  BY DivMod
<1>2. a = S * q + (a % S) /\ a + S = S * p + ((a + S) % S)
  BY <1>1, DivMod
<1>3. a % S \in 0 .. S - 1 /\ (a + S) % S \in 0 .. S - 1
  BY <1>1, DivMod
<1>4. S * (q + 1) = S * q + S
  OBVIOUS
<1> HIDE DEF q, p
<1>5. CASE p < q + 1
  <2>1. S * p + S <= S * (q + 1)
    BY Laps, <1>1, <1>5
  <2> QED
    BY <2>1, <1>1, <1>2, <1>3, <1>4
<1>6. CASE p = q + 1
  BY <1>1, <1>2, <1>3, <1>4, <1>6
<1>7. CASE q + 1 < p
  <2>1. S * (q + 1) + S <= S * p
    BY Laps, <1>1, <1>7
  <2> QED
    BY <2>1, <1>1, <1>2, <1>3, <1>4
<1> QED
  BY <1>1, <1>5, <1>6, <1>7

(* Head and tail of a run of consecutive numbers.                          *)
LEMMA Consecutive ==
  ASSUME NEW h \in Int, NEW k \in Nat, k >= 1, NEW q, q = [i \in 1 .. k |-> h + i]
  PROVE  q # << >> /\ Head(q) = h + 1 /\ Tail(q) = [i \in 1 .. k - 1 |-> h + 1 + i]
<1>1. q \in Seq(Int) /\ Len(q) = k
  OBVIOUS
<1>2. q # << >>
  BY <1>1
<1>3. Head(q) = q[1] /\ q[1] = h + 1
  BY <1>1, <1>2
<1>4. Tail(q) = [i \in 1 .. Len(q) - 1 |-> q[i + 1]]
  BY <1>1, <1>2
<1>5. \A i \in 1 .. k - 1 : q[i + 1] = h + 1 + i
  OBVIOUS
<1>6. 1 .. Len(q) - 1 = 1 .. k - 1
  BY <1>1
<1>7. [i \in 1 .. k - 1 |-> q[i + 1]] = [i \in 1 .. k - 1 |-> h + 1 + i]
  BY <1>5
<1> QED
  BY <1>2, <1>3, <1>4, <1>6, <1>7

(* A run of consecutive numbers grows at its end.                          *)
LEMMA ConsecutiveAppend ==
  ASSUME NEW h \in Int, NEW k \in Nat
  PROVE  Append([i \in 1 .. k |-> h + i], h + (k + 1)) = [i \in 1 .. k + 1 |-> h + i]
OBVIOUS

-----------------------------------------------------------------------------
LEMMA PairsFinite ==
  ASSUME NEW S, IsFiniteSet(S), NEW f \in [S -> Nat]
  PROVE  IsFiniteSet(PairsOf(f)) /\ Total(f) \in Nat
<1> DEFINE Own(s) == {s} \X (1 .. f[s])
           F == {Own(s) : s \in S}
           g == [s \in S |-> Own(s)]
<1>1. IsFiniteSet(F)
  <2>1. g \in Surjection(S, F)
    BY DEF Surjection
  <2> QED
    BY <2>1, FS_Surjection
<1>2. ASSUME NEW s \in S PROVE IsFiniteSet(Own(s))
  <2>1. f[s] \in Nat
    OBVIOUS
  <2>2. IsFiniteSet(1 .. f[s])
    BY <2>1, FS_Interval
  <2>3. IsFiniteSet({s})
    BY FS_Singleton
  <2> QED
    BY <2>2, <2>3, FS_Product
<1>3. \A T \in F : IsFiniteSet(T)
  BY <1>2
<1>4. PairsOf(f) = UNION F
  BY DEF PairsOf
<1> HIDE DEF F
<1>5. IsFiniteSet(PairsOf(f))
  BY <1>1, <1>3, <1>4, FS_UNION
<1> QED
  BY <1>5, FS_CardinalityType DEF Total

LEMMA TotalMonotone ==
  ASSUME NEW S, IsFiniteSet(S), NEW f \in [S -> Nat], NEW g \in [S -> Nat],
         \A c \in S : f[c] <= g[c]
  PROVE  Total(f) <= Total(g)
<1>1. PairsOf(f) \subseteq PairsOf(g)
  BY DEF PairsOf
<1>2. IsFiniteSet(PairsOf(g))
  BY PairsFinite
<1> QED
  BY <1>1, <1>2, FS_Subset DEF Total

LEMMA TotalChange ==
  ASSUME NEW S, IsFiniteSet(S), NEW f \in [S -> Nat], NEW g \in [S -> Nat], NEW c \in S,
         \A d \in S \ {c} : f[d] = g[d]
  PROVE  Total(g) = Total(f) + g[c] - f[c]
<1> DEFINE Rest == {x \in PairsOf(f) : x[1] # c}
<1>1. IsFiniteSet(Rest) /\ Cardinality(Rest) \in Nat
  <2>1. Rest \subseteq PairsOf(f) /\ IsFiniteSet(PairsOf(f))
    BY PairsFinite
  <2> QED
    BY <2>1, FS_Subset, FS_CardinalityType
<1>2. ASSUME NEW h \in [S -> Nat], \A d \in S \ {c} : f[d] = h[d]
      PROVE  Total(h) = Cardinality(Rest) + h[c]
  <2> DEFINE Own == {c} \X (1 .. h[c])
  <2>1. h[c] \in Nat
    OBVIOUS
  <2>2. IsFiniteSet(Own) /\ Cardinality(Own) = h[c]
    <3>1. IsFiniteSet(1 .. h[c]) /\ Cardinality(1 .. h[c]) = h[c]
      BY <2>1, FS_Interval
    <3>2. IsFiniteSet({c}) /\ Cardinality({c}) = 1
      BY FS_Singleton
    <3>3. IsFiniteSet(Own) /\ Cardinality(Own) = Cardinality({c}) * Cardinality(1 .. h[c])
      BY <3>1, <3>2, FS_Product
    <3>4. 1 * h[c] = h[c]
      BY <2>1
    <3> QED
      BY <3>1, <3>2, <3>3, <3>4
  <2>3. Rest \cap Own = {}
    OBVIOUS
  <2>4. PairsOf(h) = Rest \cup Own
    <3>1. ASSUME NEW x \in PairsOf(h) PROVE x \in Rest \cup Own
      BY <1>2, <3>1 DEF PairsOf
    <3>2. ASSUME NEW x \in Rest PROVE x \in PairsOf(h)
      BY <1>2 DEF PairsOf
    <3>3. ASSUME NEW x \in Own PROVE x \in PairsOf(h)
      BY DEF PairsOf
    <3> QED
      BY <3>1, <3>2, <3>3
  <2> HIDE DEF Own, Rest
  <2>5. Cardinality(Rest \cup Own) = Cardinality(Rest) + Cardinality(Own) - Cardinality({})
    BY <1>1, <2>2, <2>3, FS_Union
  <2> QED
    BY <1>1, <2>1, <2>2, <2>4, <2>5, FS_EmptySet DEF Total
<1>3. Total(f) = Cardinality(Rest) + f[c] /\ Total(g) = Cardinality(Rest) + g[c]
  BY <1>2
<1>4. f[c] \in Nat /\ g[c] \in Nat
  OBVIOUS
<1> HIDE DEF Rest
<1> QED
  BY <1>1, <1>3, <1>4

LEMMA TotalAtLeast ==
  ASSUME NEW S, IsFiniteSet(S), NEW f \in [S -> Nat], NEW c \in S
  PROVE  f[c] <= Total(f)
<1> DEFINE g == [f EXCEPT ![c] = 0]
<1>1. g \in [S -> Nat] /\ g[c] = 0 /\ \A d \in S \ {c} : f[d] = g[d]
  OBVIOUS
<1> HIDE DEF g
<1>2. Total(g) = Total(f) + g[c] - f[c]
  BY <1>1, TotalChange
<1>3. Total(g) \in Nat /\ Total(f) \in Nat /\ f[c] \in Nat
  BY <1>1, PairsFinite
<1> QED
  BY <1>1, <1>2, <1>3

LEMMA TotalOfZeros ==
  ASSUME NEW f, \A c \in DOMAIN f : f[c] = 0
  PROVE  Total(f) = 0
<1>1. PairsOf(f) = {}
  BY DEF PairsOf
<1> QED
  BY <1>1, FS_EmptySet DEF Total

-----------------------------------------------------------------------------
(* Integers, sequences and sets.                                           *)

(* Division with remainder, also of negative numbers.                      *)
LEMMA DivModInt ==
  ASSUME NEW S \in Nat \ {0}, NEW a \in Int
  PROVE  /\ a = S * (a \div S) + (a % S)
         /\ a % S \in 0 .. S - 1
         /\ a \div S \in Int
OBVIOUS

(* ... which is the only one of its kind.                                  *)
LEMMA Quotient ==
  ASSUME NEW S \in Nat \ {0}, NEW a \in Int, NEW q \in Int, NEW r \in 0 .. S - 1, a = S * q + r
  PROVE  a \div S = q /\ a % S = r
<1> DEFINE p == a \div S
           m == a % S
<1>1. a = S * p + m /\ m \in 0 .. S - 1 /\ p \in Int
  BY DivModInt
<1> HIDE DEF p, m
<1>2. CASE p < q
  <2>1. S * p + S <= S * q
    BY <1>1, <1>2, Laps
  <2> QED
    BY <1>1, <2>1
<1>3. CASE q < p
  <2>1. S * q + S <= S * p
    BY <1>1, <1>3, Laps
  <2> QED
    BY <1>1, <2>1
<1>4. p = q /\ m = r
  BY <1>1, <1>2, <1>3
<1> QED
  BY <1>4 DEF p, m

(* Remainders of sums.                                                     *)
LEMMA ModShift ==
  ASSUME NEW S \in Nat \ {0}, NEW a \in Int, NEW b \in Int
  PROVE  ((a % S) + b) % S = (a + b) % S
<1> DEFINE p == a \div S
           m == a % S
           t == (m + b) \div S
           n == (m + b) % S
<1>1. a = S * p + m /\ m \in 0 .. S - 1 /\ p \in Int
  BY DivModInt
<1> HIDE DEF p, m
<1>2. m + b = S * t + n /\ n \in 0 .. S - 1 /\ t \in Int
  <2>1. m + b \in Int
    BY <1>1
  <2> QED
    BY <2>1, DivModInt
<1> HIDE DEF t, n
<1>3. a + b = S * (p + t) + n
  <2>1. S * (p + t) = S * p + S * t
    BY <1>1, <1>2
  <2> QED
    BY <1>1, <1>2, <2>1
<1>4. (a + b) % S = n
  <2>1. p + t \in Int /\ a + b \in Int
    BY <1>1, <1>2
  <2> QED
    BY <1>2, <1>3, <2>1, Quotient
<1> QED
  BY <1>4 DEF n, m

(* The same as SameSlot and DifferentSlots, of integers.                   *)
LEMMA SameSlotInt ==
  ASSUME NEW S \in Nat \ {0}, NEW a \in Int
  PROVE  (a - S) % S = a % S
<1> DEFINE p == a \div S
           m == a % S
<1>1. a = S * p + m /\ m \in 0 .. S - 1 /\ p \in Int
  BY DivModInt
<1> HIDE DEF p, m
<1>2. a - S = S * (p - 1) + m
  <2>1. S * (p - 1) = S * p - S
    BY <1>1
  <2> QED
    BY <1>1, <2>1
<1>3. (a - S) % S = m
  BY <1>1, <1>2, Quotient
<1> QED
  BY <1>3 DEF m

LEMMA DifferentSlotsInt ==
  ASSUME NEW S \in Nat \ {0}, NEW a \in Int, NEW b \in Int, a < b, b - a < S
  PROVE  a % S # b % S
<1> DEFINE q == a \div S
           p == b \div S
           m == a % S
           n == b % S
<1>1. a = S * q + m /\ m \in 0 .. S - 1 /\ q \in Int
  BY DivModInt
<1>2. b = S * p + n /\ n \in 0 .. S - 1 /\ p \in Int
  BY DivModInt
<1> HIDE DEF q, p, m, n
<1>3. CASE q < p
  <2>1. S * q + S <= S * p
    BY Laps, <1>1, <1>2, <1>3
  <2> QED
    BY <2>1, <1>1, <1>2
<1>4. CASE p < q
  <2>1. S * p + S <= S * q
    BY Laps, <1>1, <1>2, <1>4
  <2> QED
    BY <2>1, <1>1, <1>2
<1>5. m # n
  BY <1>1, <1>2, <1>3, <1>4
<1> QED
  BY <1>5 DEF m, n

(* A function on 1 .. m, after a sequence.                                 *)
LEMMA AppendedEntries ==
  ASSUME NEW S, NEW a \in Seq(S), NEW m \in Nat, NEW z \in [1 .. m -> S]
  PROVE  /\ z \in Seq(S) /\ Len(z) = m /\ a \o z \in Seq(S) /\ Len(a \o z) = Len(a) + m
         /\ \A e \in 1 .. Len(a) : (a \o z)[e] = a[e]
         /\ \A e \in 1 .. Len(a \o z) :
              e \notin 1 .. Len(a) => e - Len(a) \in 1 .. m /\ (a \o z)[e] = z[e - Len(a)]
<1>1. z \in Seq(S) /\ Len(z) = m
  OBVIOUS
<1> QED
  BY <1>1

(* Sets with a one-to-one map onto each other have the same size.          *)
LEMMA SameSize ==
  ASSUME NEW S, NEW T, IsFiniteSet(S), NEW f \in [S -> T],
         \A x, y \in S : f[x] = f[y] => x = y, \A z \in T : \E x \in S : f[x] = z
  PROVE  IsFiniteSet(T) /\ Cardinality(T) = Cardinality(S)
<1>1. f \in Bijection(S, T)
  BY DEF Bijection, Injection, IsInjective, Surjection
<1>2. ExistsBijection(S, T)
  BY <1>1 DEF ExistsBijection
<1> QED
  BY <1>2, FS_Bijection

(* The sizes of disjoint sets add up.                                      *)
LEMMA ApartSize ==
  ASSUME NEW S, NEW T, IsFiniteSet(S), IsFiniteSet(T), S \cap T = {}
  PROVE  IsFiniteSet(S \cup T) /\ Cardinality(S \cup T) = Cardinality(S) + Cardinality(T)
<1>1. Cardinality(S) \in Nat /\ Cardinality(T) \in Nat /\ Cardinality(S \cap T) = 0
  BY FS_CardinalityType, FS_EmptySet
<1>2. /\ IsFiniteSet(S \cup T)
      /\ Cardinality(S \cup T) = Cardinality(S) + Cardinality(T) - Cardinality(S \cap T)
  BY FS_Union
<1>3. PICK m \in Nat, n \in Nat : m = Cardinality(S) /\ n = Cardinality(T)
  BY <1>1
<1>4. m + n - 0 = m + n
  OBVIOUS
<1> QED
  BY <1>1, <1>2, <1>3, <1>4

=============================================================================
