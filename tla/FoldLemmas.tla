------------------------------ MODULE FoldLemmas ------------------------------
(***************************************************************************)
(* What the proofs need to know of natural numbers, and of the sums that   *)
(* the folds of the community modules compute.  Induction is over a set of *)
(* numbers, which a first-order prover can be given.                       *)
(***************************************************************************)
EXTENDS Filters, Integers, Sequences, SequencesExt, FiniteSets,
        FiniteSetTheorems, SequenceTheorems, WellFoundedInduction, TLAPS

(* A set of numbers has a least one, and so ...                             *)
LEMMA LeastNumber ==
  ASSUME NEW I \in SUBSET Nat, I # {}
  PROVE  \E m \in I : \A i \in I : m <= i
<1> DEFINE R == OpToRel(<, Nat)
<1>1. IsWellFoundedOn(R, Nat)
  BY NatLessThanWellFounded
<1>2. \A i, j \in Nat : i < j => <<i, j>> \in R
  BY DEF OpToRel
<1> HIDE DEF R
<1>3. PICK m \in I : \A i \in I : ~ (<<i, m>> \in R)
  BY <1>1, WFMin
<1>4. ASSUME NEW i \in I PROVE m <= i
  <2>1. i \in Nat /\ m \in Nat
    OBVIOUS
  <2>2. ~ (i < m)
    BY <1>2, <1>3, <2>1, Zenon
  <2> QED BY <2>1, <2>2
<1> QED BY <1>4

(* ... one that holds 0, and with each number the next, holds them all.     *)
LEMMA NumbersByInduction ==
  ASSUME NEW I \in SUBSET Nat, 0 \in I, \A n \in I : n + 1 \in I
  PROVE  I = Nat
<1> SUFFICES ASSUME Nat \ I # {} PROVE FALSE
  OBVIOUS
<1>1. PICK m \in Nat \ I : \A i \in Nat \ I : m <= i
  BY LeastNumber
<1>2. m # 0
  OBVIOUS
<1>3. m - 1 \in Nat /\ ~ (m <= m - 1)
  BY <1>2
<1>4. m - 1 \in I
  BY <1>1, <1>3
<1>5. (m - 1) + 1 = m
  OBVIOUS
<1> QED BY <1>4, <1>5
(* Counting to an interval.                                                 *)
LEMMA CountGoesOn ==
  ASSUME NEW c \in Nat, NEW m \in Nat \ {0}
  PROVE  /\ c % m \in 0 .. m - 1
         /\ (c + 1) % m = 0 \/ (c + 1) % m = (c % m) + 1
<1> DEFINE q == c \div m
           r == c % m
           q2 == (c + 1) \div m
           r2 == (c + 1) % m
<1>1. r \in 0 .. m - 1 /\ q \in Int /\ c = m * q + r
  OBVIOUS
<1>2. r2 \in 0 .. m - 1 /\ q2 \in Int /\ c + 1 = m * q2 + r2
  OBVIOUS
<1> HIDE DEF q, r, q2, r2
<1> DEFINE k == q2 - q
<1>3. k \in Int /\ m * k = r + 1 - r2
  BY <1>1, <1>2
<1>4. r2 = 0 \/ r2 = r + 1
  <2>1. CASE k = 0
    BY <1>1, <1>2, <1>3, <2>1
  <2>2. CASE k >= 1
    <3>1. m * k >= m
      BY <1>3, <2>2
    <3> QED BY <1>1, <1>2, <1>3, <3>1
  <2>3. CASE k <= -1
    <3>1. m * k <= -m
      BY <1>3, <2>3
    <3> QED BY <1>1, <1>2, <1>3, <3>1
  <2> QED BY <1>3, <2>1, <2>2, <2>3
<1> QED BY <1>1, <1>4 DEF r, r2
-----------------------------------------------------------------------------
(* The sums of a sequence over the sets of its indices, the last index      *)
(* first, as FoldLeft computes them.                                        *)
AddsUp(it, s, n) ==
  it = [t \in SUBSET (1 .. n) |-> IF t = {} THEN 0 ELSE it[t \ {Max(t)}] + s[Max(t)]]

(* The sums of a sequence over the sets of its places.                      *)
Sums(s) ==
  CHOOSE it : it = [t \in SUBSET DOMAIN s |-> IF t = {} THEN 0 ELSE it[t \ {Max(t)}] + s[Max(t)]]

(* The sum of the first k.                                                  *)
SumUpto(s, k) == Sums(s)[1 .. k]

(* They extend by one place, ...                                            *)
LEMMA SumsExtend ==
  ASSUME NEW s, NEW n \in Nat, NEW g, AddsUp(g, s, n)
  PROVE  \E h : AddsUp(h, s, n + 1)
<1> DEFINE h == [t \in SUBSET (1 .. n + 1) |->
                   IF n + 1 \in t THEN g[t \ {n + 1}] + s[n + 1] ELSE g[t]]
<1>1. ASSUME NEW t \in SUBSET (1 .. n + 1)
      PROVE  h[t] = IF t = {} THEN 0 ELSE h[t \ {Max(t)}] + s[Max(t)]
  <2>1. CASE n + 1 \in t
    <3>1. Max(t) = n + 1
      <4>1. n + 1 \in t /\ \A y \in t : n + 1 >= y
        BY <2>1
      <4>2. \A x \in t : (\A y \in t : x >= y) => x = n + 1
        BY <2>1
      <4> QED BY <4>1, <4>2 DEF Max
    <3>2. t \ {n + 1} \in SUBSET (1 .. n + 1) /\ n + 1 \notin t \ {n + 1}
      OBVIOUS
    <3>3. h[t \ {n + 1}] = g[t \ {n + 1}]
      BY <3>2
    <3>4. h[t] = g[t \ {n + 1}] + s[n + 1]
      BY <2>1
    <3> QED BY <2>1, <3>1, <3>3, <3>4
  <2>2. CASE n + 1 \notin t
    <3>1. t \in SUBSET (1 .. n)
      <4>1. \A x \in t : x \in 1 .. n + 1 /\ x # n + 1
        BY <2>2
      <4>2. \A x \in 1 .. n + 1 : x # n + 1 => x \in 1 .. n
        OBVIOUS
      <4> QED BY <4>1, <4>2
    <3>2. h[t] = g[t]
      BY <2>2
    <3>3. g[t] = IF t = {} THEN 0 ELSE g[t \ {Max(t)}] + s[Max(t)]
      BY <3>1 DEF AddsUp
    <3>4. t \ {Max(t)} \in SUBSET (1 .. n + 1) /\ n + 1 \notin t \ {Max(t)}
      BY <2>2
    <3>5. h[t \ {Max(t)}] = g[t \ {Max(t)}]
      BY <3>4
    <3> QED BY <3>2, <3>3, <3>5
  <2> QED BY <2>1, <2>2
<1>2. h = [t \in SUBSET (1 .. n + 1) |-> h[t]]
  OBVIOUS
<1> HIDE DEF h
<1>3. AddsUp(h, s, n + 1)
  BY <1>1, <1>2 DEF AddsUp
<1> QED BY <1>3

(* ... so that they exist, by induction on the length ...                   *)
LEMMA SumsExist ==
  ASSUME NEW s, NEW n \in Nat
  PROVE  \E it : AddsUp(it, s, n)
<1> DEFINE I == {m \in Nat : \E it : AddsUp(it, s, m)}
<1>1. 0 \in I
  <2> DEFINE g == [t \in SUBSET (1 .. 0) |-> 0]
  <2>1. SUBSET (1 .. 0) = {{}}
    OBVIOUS
  <2>2. AddsUp(g, s, 0)
    BY <2>1 DEF AddsUp
  <2> QED BY <2>2
<1>2. \A m \in I : m + 1 \in I
  BY SumsExtend
<1> HIDE DEF I
<1>3. I = Nat
  <2>1. I \in SUBSET Nat
    BY DEF I
  <2> QED BY <1>1, <1>2, <2>1, NumbersByInduction
<1> QED BY <1>3 DEF I

(* ... and are what their definition says.                                  *)
LEMMA SumsAddUp ==
  ASSUME NEW s, NEW n \in Nat, DOMAIN s = 1 .. n
  PROVE  AddsUp(Sums(s), s, n)
<1>1. PICK f : AddsUp(f, s, n)
  BY SumsExist
<1>2. f = [t \in SUBSET DOMAIN s |-> IF t = {} THEN 0 ELSE f[t \ {Max(t)}] + s[Max(t)]]
  BY <1>1, Zenon DEF AddsUp
<1>3. \E it : it = [t \in SUBSET DOMAIN s |-> IF t = {} THEN 0 ELSE it[t \ {Max(t)}] + s[Max(t)]]
  BY <1>2, Zenon
<1>4. Sums(s) = [t \in SUBSET DOMAIN s |->
                   IF t = {} THEN 0 ELSE Sums(s)[t \ {Max(t)}] + s[Max(t)]]
  BY <1>3, Zenon DEF Sums
<1> QED BY <1>4, Zenon DEF AddsUp

(* The running sum goes from index to index.                                *)
LEMMA SumUptoNext ==
  ASSUME NEW s, NEW n \in Nat, DOMAIN s = 1 .. n
  PROVE  /\ SumUpto(s, 0) = 0
         /\ \A k \in 0 .. n - 1 : SumUpto(s, k + 1) = SumUpto(s, k) + s[k + 1]
<1>1. \A t \in SUBSET (1 .. n) :
        Sums(s)[t] = IF t = {} THEN 0 ELSE Sums(s)[t \ {Max(t)}] + s[Max(t)]
  BY SumsAddUp DEF AddsUp
<1>2. 1 .. 0 = {}
  OBVIOUS
<1>3. SumUpto(s, 0) = 0
  BY <1>1, <1>2 DEF SumUpto
<1>4. ASSUME NEW k \in 0 .. n - 1 PROVE SumUpto(s, k + 1) = SumUpto(s, k) + s[k + 1]
  <2>1. Max(1 .. k + 1) = k + 1
    <3>1. k + 1 \in 1 .. k + 1 /\ \A y \in 1 .. k + 1 : k + 1 >= y
      OBVIOUS
    <3>2. \A x \in 1 .. k + 1 : (\A y \in 1 .. k + 1 : x >= y) => x = k + 1
      OBVIOUS
    <3> QED BY <3>1, <3>2 DEF Max
  <2>2. (1 .. k + 1) \ {k + 1} = 1 .. k
    OBVIOUS
  <2>3. 1 .. k + 1 \in SUBSET (1 .. n) /\ 1 .. k + 1 # {}
    <3>1. \A x \in 1 .. k + 1 : x \in 1 .. n
      OBVIOUS
    <3>2. k + 1 \in 1 .. k + 1
      OBVIOUS
    <3> QED BY <3>1, <3>2
  <2> QED BY <1>1, <2>1, <2>2, <2>3 DEF SumUpto
<1> QED BY <1>3, <1>4

(* The running sum of numbers is a number.                                  *)
LEMMA SumUptoType ==
  ASSUME NEW s \in Seq(Nat)
  PROVE  \A k \in 0 .. Len(s) : SumUpto(s, k) \in Nat
<1> DEFINE n == Len(s)
           I == {k \in Nat : k <= n => SumUpto(s, k) \in Nat}
<1>1. n \in Nat /\ DOMAIN s = 1 .. n /\ \A k \in 1 .. n : s[k] \in Nat
  BY LenProperties
<1> HIDE DEF n
<1>2. 0 \in I
  BY <1>1, SumUptoNext
<1>3. ASSUME NEW k \in I PROVE k + 1 \in I
  <2> SUFFICES ASSUME k + 1 <= n PROVE SumUpto(s, k + 1) \in Nat
    OBVIOUS
  <2>1. k \in 0 .. n - 1 /\ k + 1 \in 1 .. n /\ k <= n
    BY <1>1
  <2>2. SumUpto(s, k) \in Nat
    BY <2>1
  <2>3. SumUpto(s, k + 1) = SumUpto(s, k) + s[k + 1] /\ s[k + 1] \in Nat
    BY <1>1, <2>1, SumUptoNext
  <2> QED BY <2>2, <2>3
<1> HIDE DEF I
<1>4. I = Nat
  <2>1. I \in SUBSET Nat
    BY DEF I
  <2> QED BY <1>2, <1>3, <2>1, NumbersByInduction
<1> QED BY <1>1, <1>4 DEF I, n

(* A stretch of s that is t adds what t adds.                               *)
LEMMA SumUptoStretch ==
  ASSUME NEW s \in Seq(Nat), NEW t \in Seq(Nat), NEW a \in Nat, NEW m \in Nat,
         a + m <= Len(s), m <= Len(t), \A k \in 1 .. m : s[a + k] = t[k]
  PROVE  SumUpto(s, a + m) = SumUpto(s, a) + SumUpto(t, m)
<1> DEFINE I == {k \in Nat : k <= m => SumUpto(s, a + k) = SumUpto(s, a) + SumUpto(t, k)}
<1>1. /\ Len(s) \in Nat /\ DOMAIN s = 1 .. Len(s) /\ \A k \in 1 .. Len(s) : s[k] \in Nat
      /\ Len(t) \in Nat /\ DOMAIN t = 1 .. Len(t) /\ \A k \in 1 .. Len(t) : t[k] \in Nat
  BY LenProperties
<1>2. /\ \A k \in 0 .. Len(s) : SumUpto(s, k) \in Nat
      /\ \A k \in 0 .. Len(t) : SumUpto(t, k) \in Nat
  BY SumUptoType
<1>3. 0 \in I
  <2>1. SumUpto(t, 0) = 0 /\ a + 0 = a /\ SumUpto(s, a) \in Nat
    BY <1>1, <1>2, SumUptoNext
  <2> QED BY <2>1
<1>4. ASSUME NEW k \in I PROVE k + 1 \in I
  <2> SUFFICES ASSUME k + 1 <= m
               PROVE  SumUpto(s, a + (k + 1)) = SumUpto(s, a) + SumUpto(t, k + 1)
    OBVIOUS
  <2>1. /\ k <= m /\ a + k \in 0 .. Len(s) - 1 /\ k \in 0 .. Len(t) - 1
        /\ a + (k + 1) = (a + k) + 1 /\ k + 1 \in 1 .. m
        /\ (a + k) + 1 \in 1 .. Len(s) /\ k + 1 \in 1 .. Len(t)
        /\ a \in 0 .. Len(s) /\ a + k \in 0 .. Len(s) /\ k \in 0 .. Len(t)
    BY <1>1
  <2>2. SumUpto(s, a + k) = SumUpto(s, a) + SumUpto(t, k)
    BY <2>1
  <2>3. SumUpto(s, (a + k) + 1) = SumUpto(s, a + k) + s[(a + k) + 1]
    BY <1>1, <2>1, SumUptoNext
  <2>4. SumUpto(t, k + 1) = SumUpto(t, k) + t[k + 1]
    BY <1>1, <2>1, SumUptoNext
  <2>5. s[(a + k) + 1] = t[k + 1] /\ t[k + 1] \in Nat
    BY <1>1, <2>1
  <2>6. SumUpto(s, a) \in Nat /\ SumUpto(t, k) \in Nat
    BY <1>2, <2>1
  <2> DEFINE x == SumUpto(s, a)
             y == SumUpto(t, k)
             z == t[k + 1]
  <2>7. SumUpto(s, a + (k + 1)) = (x + y) + z /\ SumUpto(t, k + 1) = y + z
    BY <2>1, <2>2, <2>3, <2>4, <2>5
  <2>8. x \in Nat /\ y \in Nat /\ z \in Nat
    BY <2>5, <2>6
  <2> HIDE DEF x, y, z
  <2>9. (x + y) + z = x + (y + z)
    BY <2>8
  <2> QED BY <2>7, <2>9 DEF x
<1> HIDE DEF I
<1>5. I = Nat
  <2>1. I \in SUBSET Nat
    BY DEF I
  <2> QED BY <1>3, <1>4, <2>1, NumbersByInduction
<1> QED BY <1>5 DEF I

(* What adds nothing is zero throughout.                                    *)
LEMMA SumUptoGrows ==
  ASSUME NEW s \in Seq(Nat), NEW j \in 0 .. Len(s), NEW k \in j .. Len(s)
  PROVE  /\ SumUpto(s, j) <= SumUpto(s, k)
         /\ SumUpto(s, j) = SumUpto(s, k) => \A i \in j + 1 .. k : s[i] = 0
         /\ (\A i \in j + 1 .. k : s[i] = 0) => SumUpto(s, j) = SumUpto(s, k)
<1> DEFINE P(m) == /\ SumUpto(s, j) <= SumUpto(s, j + m)
                   /\ SumUpto(s, j) = SumUpto(s, j + m) => \A i \in j + 1 .. j + m : s[i] = 0
                   /\ (\A i \in j + 1 .. j + m : s[i] = 0) => SumUpto(s, j) = SumUpto(s, j + m)
           I == {m \in Nat : j + m <= Len(s) => P(m)}
<1>1. /\ Len(s) \in Nat /\ DOMAIN s = 1 .. Len(s) /\ \A i \in 1 .. Len(s) : s[i] \in Nat
  BY LenProperties
<1>2. \A i \in 0 .. Len(s) : SumUpto(s, i) \in Nat
  BY SumUptoType
<1>3. 0 \in I
  <2>1. j + 0 = j /\ SumUpto(s, j) \in Nat
    BY <1>2
  <2>2. \A i \in j + 1 .. j : FALSE
    OBVIOUS
  <2> QED BY <2>1, <2>2
<1>4. ASSUME NEW m \in I PROVE m + 1 \in I
  <2> SUFFICES ASSUME j + (m + 1) <= Len(s) PROVE P(m + 1)
    OBVIOUS
  <2>1. /\ j + m \in 0 .. Len(s) - 1 /\ j + (m + 1) = (j + m) + 1 /\ j + m \in 0 .. Len(s)
        /\ (j + m) + 1 \in 1 .. Len(s) /\ j \in Nat /\ j + m <= Len(s)
    BY <1>1
  <2>2. P(m)
    BY <2>1
  <2>3. SumUpto(s, (j + m) + 1) = SumUpto(s, j + m) + s[(j + m) + 1]
    BY <1>1, <2>1, SumUptoNext
  <2>4. SumUpto(s, j) \in Nat /\ SumUpto(s, j + m) \in Nat /\ s[(j + m) + 1] \in Nat
    BY <1>1, <1>2, <2>1
  <2>5. \A i \in j + 1 .. (j + m) + 1 : i \in j + 1 .. j + m \/ i = (j + m) + 1
    OBVIOUS
  <2>6. (j + m) + 1 \in j + 1 .. (j + m) + 1 /\ \A i \in j + 1 .. j + m : i \in j + 1 .. (j + m) + 1
    OBVIOUS
  <2> DEFINE x == SumUpto(s, j)
             y == SumUpto(s, j + m)
             z == s[(j + m) + 1]
  <2>7. x <= y + z
    <3>1. x \in Nat /\ y \in Nat /\ z \in Nat /\ x <= y
      BY <2>2, <2>4
    <3> HIDE DEF x, y, z
    <3> QED BY <3>1
  <2>8. x = y + z => x = y /\ z = 0
    <3>1. x \in Nat /\ y \in Nat /\ z \in Nat /\ x <= y
      BY <2>2, <2>4
    <3> HIDE DEF x, y, z
    <3> QED BY <3>1
  <2>9. x = y + z => \A i \in j + 1 .. (j + m) + 1 : s[i] = 0
    BY <2>2, <2>5, <2>8
  <2>10. (\A i \in j + 1 .. (j + m) + 1 : s[i] = 0) => x = y + z
    <3>1. (\A i \in j + 1 .. (j + m) + 1 : s[i] = 0) => x = y /\ z = 0
      BY <2>2, <2>6
    <3>2. y \in Nat
      BY <2>4
    <3> HIDE DEF x, y, z
    <3> QED BY <3>1, <3>2
  <2> QED BY <2>1, <2>3, <2>7, <2>9, <2>10
<1> HIDE DEF I
<1>5. I = Nat
  <2>1. I \in SUBSET Nat
    BY DEF I
  <2> QED BY <1>3, <1>4, <2>1, NumbersByInduction
<1>6. k - j \in Nat /\ j + (k - j) = k /\ k <= Len(s)
  BY <1>1
<1>7. P(k - j)
  BY <1>5, <1>6 DEF I
<1> QED BY <1>6, <1>7
-----------------------------------------------------------------------------
(* The sum of w over a set, one picked element after the other, as          *)
(* MapThenFoldSet computes it.                                              *)
Picked(s) == CHOOSE x \in s : TRUE

(* Its step, the function that follows it, and the sum of a set.            *)
StepSum(it, w, s) == IF s = {} THEN 0 ELSE w[Picked(s)] + it[s \ {Picked(s)}]

(* All sums of a weight over the subsets of S, ...                          *)
AreSums(it, w, S) == it = [s \in SUBSET S |-> StepSum(it, w, s)]

(* ... as a function, ...                                                   *)
SetSums(w, S) ==
  CHOOSE it : it = [s \in SUBSET S |-> IF s = {} THEN 0 ELSE w[Picked(s)] + it[s \ {Picked(s)}]]

(* ... and the sum over S itself.                                           *)
SetSum(w, S) == SetSums(w, S)[S]

(* What is picked is in the set, and without it there is one less.          *)
LEMMA OneLess ==
  ASSUME NEW s, IsFiniteSet(s), s # {}
  PROVE  /\ Picked(s) \in s
         /\ IsFiniteSet(s \ {Picked(s)})
         /\ Cardinality(s) \in Nat \ {0}
         /\ Cardinality(s \ {Picked(s)}) = Cardinality(s) - 1
<1>1. Picked(s) \in s
  BY Zenon DEF Picked
<1>2. /\ IsFiniteSet(s \ {Picked(s)})
      /\ Cardinality(s \ {Picked(s)}) = Cardinality(s) - 1
  BY <1>1, FS_RemoveElement
<1>3. Cardinality(s) \in Nat /\ Cardinality(s) # 0
  BY FS_CardinalityType, FS_EmptySet
<1> QED BY <1>1, <1>2, <1>3

(* The sums over the subsets of a finite set exist ...                      *)
LEMMA SetSumsExist ==
  ASSUME NEW S, IsFiniteSet(S), NEW w
  PROVE  \E it : AreSums(it, w, S)
<1> DEFINE Upto(n, g) == \A s \in SUBSET S : Cardinality(s) <= n => g[s] = StepSum(g, w, s)
           I == {n \in Nat : \E g : Upto(n, g)}
<1>1. \A s \in SUBSET S : IsFiniteSet(s)
  BY FS_Subset
<1>2. 0 \in I
  <2> DEFINE g == [s \in SUBSET S |-> 0]
  <2>1. ASSUME NEW s \in SUBSET S, s # {} PROVE ~ (Cardinality(s) <= 0)
    <3>1. Cardinality(s) \in Nat \ {0}
      BY <1>1, <2>1, OneLess
    <3> QED BY <3>1
  <2>2. Upto(0, g)
    BY <2>1 DEF StepSum
  <2> QED BY <2>2
<1>3. ASSUME NEW n \in I PROVE n + 1 \in I
  <2>1. PICK g : Upto(n, g)
    OBVIOUS
  <2> DEFINE h == [s \in SUBSET S |-> StepSum(g, w, s)]
  <2>2. \A s \in SUBSET S : Cardinality(s) <= n => h[s] = g[s]
    BY <2>1
  <2>3. ASSUME NEW s \in SUBSET S, Cardinality(s) <= n + 1
        PROVE  h[s] = StepSum(h, w, s)
    <3>1. CASE s = {}
      BY <3>1 DEF StepSum
    <3>2. CASE s # {}
      <4> DEFINE rest == s \ {Picked(s)}
      <4>1. Cardinality(rest) <= n
        <5>1. Cardinality(s) \in Nat /\ Cardinality(rest) = Cardinality(s) - 1
          BY <1>1, <3>2, OneLess
        <5> HIDE DEF rest
        <5> QED BY <2>3, <5>1
      <4>2. rest \in SUBSET S
        OBVIOUS
      <4>3. h[rest] = g[rest]
        BY <2>2, <4>1, <4>2
      <4>4. h[s] = w[Picked(s)] + g[rest]
        BY <3>2 DEF StepSum
      <4> HIDE DEF h
      <4> QED BY <3>2, <4>3, <4>4 DEF StepSum
    <3> QED BY <3>1, <3>2
  <2> HIDE DEF h
  <2>4. Upto(n + 1, h)
    BY <2>3
  <2> QED BY <2>4
<1> HIDE DEF I
<1>4. I = Nat
  <2>1. I \in SUBSET Nat
    BY DEF I
  <2> QED BY <1>2, <1>3, <2>1, NumbersByInduction
<1>5. Cardinality(S) \in I
  BY <1>4, FS_CardinalityType
<1>6. PICK g : Upto(Cardinality(S), g)
  BY <1>5 DEF I
<1>7. \A s \in SUBSET S : Cardinality(s) <= Cardinality(S)
  BY FS_Subset
<1>8. \A s \in SUBSET S : g[s] = StepSum(g, w, s)
  BY <1>6, <1>7
<1> DEFINE h == [s \in SUBSET S |-> g[s]]
<1>9. ASSUME NEW s \in SUBSET S PROVE h[s] = StepSum(h, w, s)
  <2>1. h[s] = g[s] /\ h[s \ {Picked(s)}] = g[s \ {Picked(s)}]
    OBVIOUS
  <2> HIDE DEF h
  <2> QED BY <1>8, <2>1 DEF StepSum
<1>10. h = [s \in SUBSET S |-> h[s]]
  OBVIOUS
<1> HIDE DEF h
<1>11. AreSums(h, w, S)
  BY <1>9, <1>10 DEF AreSums
<1> QED BY <1>11

(* ... and are what the definition says.                                    *)
LEMMA SetSumsStep ==
  ASSUME NEW S, IsFiniteSet(S), NEW w
  PROVE  \A s \in SUBSET S : SetSums(w, S)[s] = StepSum(SetSums(w, S), w, s)
<1>0. PICK f : AreSums(f, w, S)
  BY SetSumsExist
<1>1. \E it : it = [s \in SUBSET S |-> IF s = {} THEN 0 ELSE w[Picked(s)] + it[s \ {Picked(s)}]]
  BY <1>0, Zenon DEF AreSums, StepSum
<1>2. SetSums(w, S) = [s \in SUBSET S |->
         IF s = {} THEN 0 ELSE w[Picked(s)] + SetSums(w, S)[s \ {Picked(s)}]]
  BY <1>1, Zenon DEF SetSums
<1> QED BY <1>2, Zenon DEF StepSum

(* Sums agree where the values do, whatever larger set they are taken in.   *)
LEMMA SetSumsAgree ==
  ASSUME NEW R, IsFiniteSet(R), NEW S, IsFiniteSet(S), NEW v, NEW w,
         NEW T, T \subseteq R, T \subseteq S, \A x \in T : v[x] = w[x]
  PROVE  SetSums(v, R)[T] = SetSums(w, S)[T]
<1> DEFINE Same(s) == SetSums(v, R)[s] = SetSums(w, S)[s]
           I == {n \in Nat : \A s \in SUBSET T : Cardinality(s) = n => Same(s)}
<1>1. \A s \in SUBSET T : /\ IsFiniteSet(s)
                          /\ SetSums(v, R)[s] = StepSum(SetSums(v, R), v, s)
                          /\ SetSums(w, S)[s] = StepSum(SetSums(w, S), w, s)
  <2>1. \A s \in SUBSET T : s \in SUBSET R /\ s \in SUBSET S
    OBVIOUS
  <2>2. \A s \in SUBSET R : IsFiniteSet(s)
    BY FS_Subset
  <2> QED BY <2>1, <2>2, SetSumsStep
<1>2. ASSUME NEW s \in SUBSET T, s = {} PROVE Same(s)
  BY <1>1, <1>2 DEF StepSum
<1>3. 0 \in I
  BY <1>1, <1>2, OneLess
<1>4. ASSUME NEW n \in I PROVE n + 1 \in I
  <2> SUFFICES ASSUME NEW s \in SUBSET T, Cardinality(s) = n + 1 PROVE Same(s)
    OBVIOUS
  <2>1. CASE s # {}
    <3> DEFINE p == Picked(s)
               rest == s \ {p}
    <3>1. p \in T /\ rest \in SUBSET T /\ Cardinality(rest) = (n + 1) - 1
      BY <1>1, <2>1, OneLess
    <3>2. Cardinality(rest) = n
      BY <3>1
    <3>3. Same(rest)
      BY <3>1, <3>2
    <3>4. SetSums(v, R)[s] = v[p] + SetSums(v, R)[rest] /\ SetSums(w, S)[s] = w[p] + SetSums(w, S)[rest]
      BY <1>1, <2>1 DEF StepSum
    <3> QED BY <3>1, <3>3, <3>4
  <2> QED BY <1>2, <2>1
<1> HIDE DEF I
<1>5. I = Nat
  <2>1. I \in SUBSET Nat
    BY DEF I
  <2> QED BY <1>3, <1>4, <2>1, NumbersByInduction
<1>6. Cardinality(T) \in I /\ T \in SUBSET T
  BY <1>1, <1>5, FS_CardinalityType
<1> QED BY <1>6 DEF I

(* Sums of numbers are numbers, and any element may be picked.              *)
LEMMA AnyPick ==
  ASSUME NEW S, IsFiniteSet(S), NEW w, \A x \in S : w[x] \in Nat
  PROVE  \A s \in SUBSET S :
           /\ SetSums(w, S)[s] \in Nat
           /\ \A x \in s : SetSums(w, S)[s] = w[x] + SetSums(w, S)[s \ {x}]
<1> DEFINE f == SetSums(w, S)
           Good(s) == f[s] \in Nat /\ \A x \in s : f[s] = w[x] + f[s \ {x}]
           I == {n \in Nat : \A s \in SUBSET S : Cardinality(s) <= n => Good(s)}
<1>1. \A s \in SUBSET S : IsFiniteSet(s) /\ f[s] = StepSum(f, w, s)
  BY FS_Subset, SetSumsStep
<1> HIDE DEF f
<1>2. ASSUME NEW s \in SUBSET S, s = {} PROVE Good(s)
  <2>1. f[s] = 0
    BY <1>1, <1>2 DEF StepSum
  <2> QED BY <1>2, <2>1
<1>3. 0 \in I
  <2>1. ASSUME NEW s \in SUBSET S, s # {} PROVE ~ (Cardinality(s) <= 0)
    <3>1. Cardinality(s) \in Nat \ {0}
      BY <1>1, <2>1, OneLess
    <3> QED BY <3>1
  <2> QED BY <1>2, <2>1
<1>4. ASSUME NEW n \in I PROVE n + 1 \in I
  <2> SUFFICES ASSUME NEW s \in SUBSET S, Cardinality(s) <= n + 1 PROVE Good(s)
    OBVIOUS
  <2>1. CASE s # {}
    <3> DEFINE p == Picked(s)
               rest == s \ {p}
    <3>1. /\ p \in s /\ rest \in SUBSET S /\ IsFiniteSet(rest) /\ Cardinality(s) \in Nat
          /\ Cardinality(rest) = Cardinality(s) - 1
      BY <1>1, <2>1, OneLess
    <3>2. Cardinality(rest) <= n
      <4> HIDE DEF rest
      <4> QED BY <3>1
    <3>3. Good(rest)
      BY <3>1, <3>2
    <3>4. f[s] = w[p] + f[rest] /\ w[p] \in Nat /\ f[rest] \in Nat
      BY <1>1, <2>1, <3>1, <3>3 DEF StepSum
    <3>5. ASSUME NEW x \in s PROVE f[s] = w[x] + f[s \ {x}]
      <4>1. CASE x = p
        BY <3>4, <4>1
      <4>2. CASE x # p
        <5> DEFINE less == s \ {x}
                   both == less \ {p}
        <5>1. /\ x \in rest /\ p \in less /\ both = rest \ {x} /\ less \in SUBSET S
              /\ both \in SUBSET S
          BY <3>1, <4>2
        <5>2. f[rest] = w[x] + f[both]
          BY <3>3, <5>1
        <5>3. Cardinality(less) <= n
          <6>1. Cardinality(less) = Cardinality(s) - 1
            BY <1>1, FS_RemoveElement
          <6> HIDE DEF less
          <6> QED BY <3>1, <6>1
        <5>4. f[less] = w[p] + f[both] /\ f[less] \in Nat
          BY <5>1, <5>3
        <5>5. Cardinality(both) <= n
          <6>1. Cardinality(both) = Cardinality(rest) - 1
            <7>1. Cardinality(rest \ {x}) = Cardinality(rest) - 1
              BY <3>1, <5>1, FS_RemoveElement
            <7> QED BY <5>1, <7>1
          <6>2. Cardinality(rest) \in Nat
            BY <3>1, FS_CardinalityType
          <6> HIDE DEF both, rest
          <6> QED BY <3>2, <6>1, <6>2
        <5>6. f[both] \in Nat /\ w[x] \in Nat /\ w[p] \in Nat
          BY <3>1, <5>1, <5>5
        <5> HIDE DEF less, both, rest, p
        <5>7. w[p] + (w[x] + f[both]) = w[x] + (w[p] + f[both])
          BY <5>6
        <5> QED BY <3>4, <5>2, <5>4, <5>7 DEF less
      <4> QED BY <4>1, <4>2
    <3> HIDE DEF rest, p
    <3>6. f[s] \in Nat
      BY <3>4
    <3> QED BY <3>5, <3>6
  <2> QED BY <1>2, <2>1
<1> HIDE DEF I
<1>5. I = Nat
  <2>1. I \in SUBSET Nat
    BY DEF I
  <2> QED BY <1>3, <1>4, <2>1, NumbersByInduction
<1>6. ASSUME NEW s \in SUBSET S PROVE Good(s)
  <2>1. Cardinality(s) \in I /\ Cardinality(s) <= Cardinality(s)
    BY <1>1, <1>5, FS_CardinalityType
  <2> QED BY <2>1 DEF I
<1> QED BY <1>6 DEF f

(* A sum depends on the values in its set, ...                              *)
LEMMA SetSumSame ==
  ASSUME NEW S, IsFiniteSet(S), NEW v, NEW w, \A x \in S : v[x] = w[x]
  PROVE  SetSum(v, S) = SetSum(w, S)
BY SetSumsAgree DEF SetSum

(* ... is a number, ...                                                     *)
LEMMA SetSumType ==
  ASSUME NEW S, IsFiniteSet(S), NEW w, \A x \in S : w[x] \in Nat
  PROVE  SetSum(w, S) \in Nat
BY AnyPick DEF SetSum

(* The sum of nothing is nothing, ...                                       *)
LEMMA SetSumOfNothing ==
  ASSUME NEW w
  PROVE  SetSum(w, {}) = 0
<1>1. IsFiniteSet({}) /\ {} \in SUBSET {}
  BY FS_EmptySet
<1> QED BY <1>1, SetSumsStep DEF SetSum, StepSum

(* ... is that of any of its elements and of the rest, ...                  *)
LEMMA SetSumWithout ==
  ASSUME NEW T, IsFiniteSet(T), NEW w, \A y \in T : w[y] \in Nat,
         NEW x \in T, NEW S, S = T \ {x}
  PROVE  SetSum(w, T) = w[x] + SetSum(w, S)
<1>1. T \in SUBSET T
  OBVIOUS
<1>2. SetSums(w, T)[T] = w[x] + SetSums(w, T)[S]
  BY <1>1, AnyPick
<1>3. IsFiniteSet(S) /\ S \subseteq T
  BY FS_Subset
<1>4. SetSums(w, T)[S] = SetSums(w, S)[S]
  BY <1>3, SetSumsAgree
<1> QED BY <1>2, <1>4 DEF SetSum

(* ... and grows by the value of what is added to the set.                  *)
LEMMA SetSumAdds ==
  ASSUME NEW S, IsFiniteSet(S), NEW x, x \notin S, NEW w,
         \A y \in S \cup {x} : w[y] \in Nat
  PROVE  SetSum(w, S \cup {x}) = w[x] + SetSum(w, S)
<1> DEFINE T == S \cup {x}
<1>1. IsFiniteSet(T)
  BY FS_AddElement
<1>2. x \in T /\ S = T \ {x} /\ \A y \in T : w[y] \in Nat
  OBVIOUS
<1> HIDE DEF T
<1>3. SetSum(w, T) = w[x] + SetSum(w, S)
  BY <1>1, <1>2, SetSumWithout
<1> QED BY <1>3 DEF T
(* A sum of zeros is zero.                                                  *)
LEMMA SetSumOfZeros ==
  ASSUME NEW T, IsFiniteSet(T), NEW w, \A x \in T : w[x] = 0
  PROVE  SetSum(w, T) = 0
<1> DEFINE I == {n \in Nat : \A S \in SUBSET T : Cardinality(S) = n => SetSum(w, S) = 0}
<1>1. \A S \in SUBSET T : IsFiniteSet(S) /\ Cardinality(S) \in Nat
  BY FS_Subset, FS_CardinalityType
<1>2. 0 \in I
  <2>1. ASSUME NEW S \in SUBSET T, Cardinality(S) = 0 PROVE SetSum(w, S) = 0
    <3>1. S = {}
      BY <1>1, <2>1, FS_EmptySet
    <3> QED  BY <3>1, SetSumOfNothing
  <2> QED  BY <2>1
<1>3. ASSUME NEW n \in I PROVE n + 1 \in I
  <2>1. ASSUME NEW S \in SUBSET T, Cardinality(S) = n + 1 PROVE SetSum(w, S) = 0
    <3>1. n \in Nat /\ n + 1 # 0
      OBVIOUS
    <3>2. S # {}
      BY <2>1, <3>1, FS_EmptySet
    <3>3. PICK x \in S : TRUE
      BY <3>2
    <3>4. IsFiniteSet(S) /\ Cardinality(S \ {x}) = Cardinality(S) - 1
      BY <1>1, <3>3, FS_RemoveElement
    <3>5. Cardinality(S \ {x}) = n /\ S \ {x} \in SUBSET T
      BY <2>1, <3>1, <3>4
    <3>6. SetSum(w, S \ {x}) = 0
      BY <3>5
    <3>7. \A y \in S : w[y] \in Nat
      OBVIOUS
    <3>8. SetSum(w, S) = w[x] + SetSum(w, S \ {x})
      BY <3>3, <3>4, <3>7, SetSumWithout
    <3> QED  BY <3>3, <3>6, <3>8
  <2> QED  BY <2>1
<1>4. I = Nat
  <2>1. I \in SUBSET Nat
    OBVIOUS
  <2> HIDE DEF I
  <2> QED  BY <1>2, <1>3, <2>1, NumbersByInduction
<1>5. T \in SUBSET T /\ Cardinality(T) \in I
  BY <1>1, <1>4
<1> QED  BY <1>5
-----------------------------------------------------------------------------
(* A filter kept by kept: what stays of the first i elements.               *)
AreKept(kept, s, S, n) ==
  kept = [i \in 0 .. n |-> IF i = 0 THEN <<>>
                           ELSE IF s[i] \in S THEN Append(kept[i - 1], s[i]) ELSE kept[i - 1]]

(* What a filter keeps of the first i, for every i: there is such a         *)
(* function, by induction on n, ...                                         *)
LEMMA KeptExist ==
  ASSUME NEW s, NEW S, NEW n \in Nat
  PROVE  \E kept : AreKept(kept, s, S, n)
<1> DEFINE I == {m \in Nat : \E kept : AreKept(kept, s, S, m)}
<1>1. 0 \in I
  <2> DEFINE g == [i \in 0 .. 0 |-> <<>>]
  <2>1. \A i \in 0 .. 0 : i = 0
    OBVIOUS
  <2>2. AreKept(g, s, S, 0)
    BY <2>1 DEF AreKept
  <2> QED BY <2>2
<1>2. ASSUME NEW m \in I PROVE m + 1 \in I
  <2>1. PICK g : AreKept(g, s, S, m)
    OBVIOUS
  <2> DEFINE h == [i \in 0 .. m + 1 |->
                     IF i = m + 1 THEN IF s[m + 1] \in S THEN Append(g[m], s[m + 1]) ELSE g[m]
                     ELSE g[i]]
  <2>2. \A i \in 0 .. m : i \in 0 .. m + 1 /\ h[i] = g[i]
    OBVIOUS
  <2>3. \A i \in 0 .. m + 1 : i \in 0 .. m \/ i = m + 1
    OBVIOUS
  <2>4. \A i \in 0 .. m : i = 0 \/ i - 1 \in 0 .. m
    OBVIOUS
  <2>5. m + 1 # 0 /\ (m + 1) - 1 = m /\ m \in 0 .. m /\ m + 1 \in 0 .. m + 1
    OBVIOUS
  <2>6. h[m + 1] = IF s[m + 1] \in S THEN Append(h[m], s[m + 1]) ELSE h[m]
    BY <2>2, <2>5
  <2>7. h = [i \in 0 .. m + 1 |-> h[i]]
    OBVIOUS
  <2> HIDE DEF h
  <2>8. ASSUME NEW i \in 0 .. m + 1
        PROVE  h[i] = IF i = 0 THEN <<>>
                      ELSE IF s[i] \in S THEN Append(h[i - 1], s[i]) ELSE h[i - 1]
    <3>1. CASE i \in 0 .. m
      <4>1. g[i] = IF i = 0 THEN <<>>
                   ELSE IF s[i] \in S THEN Append(g[i - 1], s[i]) ELSE g[i - 1]
        BY <2>1, <3>1 DEF AreKept
      <4>2. h[i] = g[i] /\ (i # 0 => h[i - 1] = g[i - 1])
        BY <2>2, <2>4, <3>1
      <4> QED BY <4>1, <4>2
    <3>2. CASE i = m + 1
      BY <2>5, <2>6, <3>2
    <3> QED BY <2>3, <3>1, <3>2
  <2>9. AreKept(h, s, S, m + 1)
    BY <2>7, <2>8 DEF AreKept
  <2> QED BY <2>9
<1> HIDE DEF I
<1>3. I = Nat
  <2>1. I \in SUBSET Nat
    BY DEF I
  <2> QED BY <1>1, <1>2, <2>1, NumbersByInduction
<1> QED BY <1>3 DEF I

(* ... it is the one in the definition of Filter, ...                       *)
Kept(s, S) ==
  CHOOSE kept : kept = [i \in 0 .. Len(s) |->
    IF i = 0 THEN <<>> ELSE IF s[i] \in S THEN Append(kept[i - 1], s[i]) ELSE kept[i - 1]]

(* ... whose last value is what Filter leaves.                              *)
LEMMA FilterIsKept ==
  ASSUME NEW s, NEW S
  PROVE  Filter(s, S) = Kept(s, S)[Len(s)]
BY Zenon DEF Filter, Kept

(* It does what its definition says.                                        *)
LEMMA KeptStep ==
  ASSUME NEW s, NEW S, Len(s) \in Nat
  PROVE  /\ Kept(s, S)[0] = <<>>
         /\ \A i \in 1 .. Len(s) :
              Kept(s, S)[i] = IF s[i] \in S THEN Append(Kept(s, S)[i - 1], s[i])
                              ELSE Kept(s, S)[i - 1]
<1>1. PICK f : AreKept(f, s, S, Len(s))
  BY KeptExist
<1>2. \E kept : kept = [i \in 0 .. Len(s) |->
    IF i = 0 THEN <<>> ELSE IF s[i] \in S THEN Append(kept[i - 1], s[i]) ELSE kept[i - 1]]
  BY <1>1, Zenon DEF AreKept
<1>3. Kept(s, S) = [i \in 0 .. Len(s) |->
    IF i = 0 THEN <<>> ELSE IF s[i] \in S THEN Append(Kept(s, S)[i - 1], s[i])
                       ELSE Kept(s, S)[i - 1]]
  BY <1>2, Zenon DEF Kept
<1>4. 0 \in 0 .. Len(s) /\ \A i \in 1 .. Len(s) : i \in 0 .. Len(s) /\ i # 0
  OBVIOUS
<1> QED BY <1>3, <1>4

(* What is kept of the beginning depends on nothing else.                   *)
LEMMA KeptAlike ==
  ASSUME NEW s, NEW t, NEW S, Len(s) \in Nat, Len(t) \in Nat, NEW n \in Nat,
         n <= Len(s), n <= Len(t), \A i \in 1 .. n : s[i] = t[i]
  PROVE  Kept(s, S)[n] = Kept(t, S)[n]
<1> DEFINE I == {m \in Nat : m <= n => Kept(s, S)[m] = Kept(t, S)[m]}
<1>1. 0 \in I
  BY KeptStep
<1>2. ASSUME NEW m \in I PROVE m + 1 \in I
  <2> SUFFICES ASSUME m + 1 <= n PROVE Kept(s, S)[m + 1] = Kept(t, S)[m + 1]
    OBVIOUS
  <2>1. m <= n /\ m + 1 \in 1 .. n /\ m + 1 \in 1 .. Len(s) /\ m + 1 \in 1 .. Len(t)
        /\ (m + 1) - 1 = m
    OBVIOUS
  <2>2. Kept(s, S)[m] = Kept(t, S)[m] /\ s[m + 1] = t[m + 1]
    BY <2>1
  <2>3. Kept(s, S)[m + 1] = IF s[m + 1] \in S THEN Append(Kept(s, S)[m], s[m + 1])
                            ELSE Kept(s, S)[m]
    BY <2>1, KeptStep
  <2>4. Kept(t, S)[m + 1] = IF t[m + 1] \in S THEN Append(Kept(t, S)[m], t[m + 1])
                            ELSE Kept(t, S)[m]
    BY <2>1, KeptStep
  <2> QED BY <2>2, <2>3, <2>4
<1> HIDE DEF I
<1>3. I = Nat
  <2>1. I \in SUBSET Nat
    BY DEF I
  <2> QED BY <1>1, <1>2, <2>1, NumbersByInduction
<1> QED BY <1>3 DEF I

(* A filter, element by element.                                            *)
LEMMA FilterOfNothing ==
  ASSUME NEW S
  PROVE  Filter(<<>>, S) = <<>>
BY FilterIsKept, KeptStep

(* What a filter keeps of a single element.                                 *)
LEMMA KeptOfOne ==
  ASSUME NEW T, NEW s \in Seq(T), Len(s) = 1, NEW S
  PROVE  Kept(s, S)[1] = IF s[1] \in S THEN <<s[1]>> ELSE <<>>
<1>1. Len(s) \in Nat /\ 1 \in 1 .. Len(s) /\ 1 - 1 = 0
  OBVIOUS
<1>2. /\ Kept(s, S)[0] = <<>>
      /\ Kept(s, S)[1] = IF s[1] \in S THEN Append(Kept(s, S)[1 - 1], s[1]) ELSE Kept(s, S)[1 - 1]
  BY <1>1, KeptStep
<1>3. Append(<<>>, s[1]) = <<s[1]>>
  OBVIOUS
<1> QED BY <1>1, <1>2, <1>3

(* A filter takes what is appended or leaves it.                            *)
LEMMA FilterAppend ==
  ASSUME NEW T, NEW s \in Seq(T), NEW x \in T, NEW S
  PROVE  Filter(Append(s, x), S) = IF x \in S THEN Append(Filter(s, S), x) ELSE Filter(s, S)
<1> DEFINE t == Append(s, x)
           n == Len(s)
<1>1. /\ Len(t) = n + 1 /\ n \in Nat /\ t[n + 1] = x /\ \A i \in 1 .. n : t[i] = s[i]
  BY AppendProperties, LenProperties
<1> HIDE DEF t
<1>2. Kept(t, S)[n] = Kept(s, S)[n]
  BY <1>1, KeptAlike
<1>3. n + 1 \in 1 .. Len(t) /\ (n + 1) - 1 = n /\ Len(t) \in Nat
  BY <1>1
<1> HIDE DEF n
<1>4. Kept(t, S)[n + 1] = IF t[n + 1] \in S THEN Append(Kept(t, S)[n], t[n + 1]) ELSE Kept(t, S)[n]
  BY <1>3, KeptStep
<1>5. Filter(t, S) = Kept(t, S)[n + 1] /\ Filter(s, S) = Kept(s, S)[n]
  BY <1>1, FilterIsKept DEF n
<1> QED BY <1>1, <1>2, <1>4, <1>5 DEF t

(* Sequences are built by appending.                                        *)
LEMMA LastAppended ==
  ASSUME NEW T, NEW s \in Seq(T), NEW n \in Nat, Len(s) = n + 1
  PROVE  \E t \in Seq(T), x \in T : s = Append(t, x) /\ Len(t) = n
<1> DEFINE t == [i \in 1 .. n |-> s[i]]
<1>1. t \in Seq(T) /\ Len(t) = n
  <2>1. \A i \in 1 .. n : s[i] \in T
    BY LenProperties
  <2> QED BY <2>1
<1>2. s[n + 1] \in T
  BY LenProperties
<1>3. s = Append(t, s[n + 1])
  <2>1. /\ Append(t, s[n + 1]) \in Seq(T) /\ Len(Append(t, s[n + 1])) = n + 1
        /\ Append(t, s[n + 1])[n + 1] = s[n + 1]
        /\ \A i \in 1 .. n : Append(t, s[n + 1])[i] = t[i]
    BY <1>1, <1>2, AppendProperties
  <2>2. \A i \in 1 .. n + 1 : Append(t, s[n + 1])[i] = s[i]
    <3>1. \A i \in 1 .. n + 1 : i \in 1 .. n \/ i = n + 1
      OBVIOUS
    <3> QED BY <2>1, <3>1
  <2> HIDE DEF t
  <2> QED BY <2>1, <2>2, SeqEqual
<1> QED BY <1>1, <1>2, <1>3

(* The elements of a sequence.                                              *)
LEMMA ToSetOfNothing == ToSet(<<>>) = {}
BY DEF ToSet

(* The elements of a sequence that grows.                                   *)
LEMMA ToSetAppend ==
  ASSUME NEW T, NEW s \in Seq(T), NEW x \in T
  PROVE  ToSet(Append(s, x)) = ToSet(s) \cup {x}
<1> DEFINE n == Len(s)
           t == Append(s, x)
<1>1. /\ n \in Nat /\ DOMAIN s = 1 .. n /\ DOMAIN t = 1 .. n + 1
      /\ t[n + 1] = x /\ \A i \in 1 .. n : t[i] = s[i]
  BY AppendProperties, LenProperties
<1> HIDE DEF n, t
<1>2. \A i \in 1 .. n + 1 : i \in 1 .. n \/ i = n + 1
  BY <1>1
<1>3. n + 1 \in 1 .. n + 1 /\ \A i \in 1 .. n : i \in 1 .. n + 1
  BY <1>1
<1>4. \A y : y \in ToSet(t) <=> y \in ToSet(s) \cup {x}
  BY <1>1, <1>2, <1>3 DEF ToSet
<1>5. ToSet(t) = ToSet(s) \cup {x}
  BY <1>4, Zenon
<1> QED BY <1>5 DEF t

(* The elements are of the type of the sequence.                            *)
LEMMA ToSetType ==
  ASSUME NEW T, NEW s \in Seq(T)
  PROVE  ToSet(s) \subseteq T /\ \A i \in 1 .. Len(s) : s[i] \in ToSet(s)
BY LenProperties DEF ToSet

(* No element twice, when one more is appended that was not there.          *)
LEMMA InjectiveAppend ==
  ASSUME NEW T, NEW s \in Seq(T), NEW x \in T
  PROVE  IsInjective(Append(s, x)) <=> IsInjective(s) /\ x \notin ToSet(s)
<1> DEFINE n == Len(s)
           t == Append(s, x)
<1>1. /\ n \in Nat /\ DOMAIN s = 1 .. n /\ DOMAIN t = 1 .. n + 1
      /\ t[n + 1] = x /\ \A i \in 1 .. n : t[i] = s[i]
  BY AppendProperties, LenProperties
<1> HIDE DEF n, t
<1>2. \A i \in 1 .. n + 1 : i \in 1 .. n \/ i = n + 1
  BY <1>1
<1>3. n + 1 \in 1 .. n + 1 /\ \A i \in 1 .. n : i \in 1 .. n + 1 /\ i # n + 1
  BY <1>1
<1>4. ASSUME IsInjective(t) PROVE IsInjective(s) /\ x \notin ToSet(s)
  BY <1>1, <1>3, <1>4 DEF IsInjective, ToSet
<1>5. ASSUME IsInjective(s), x \notin ToSet(s) PROVE IsInjective(t)
  BY <1>1, <1>2, <1>3, <1>5 DEF IsInjective, ToSet
<1> QED BY <1>4, <1>5 DEF t

(* What a filter leaves.                                                    *)
LEMMA FilterFacts ==
  ASSUME NEW T, NEW s \in Seq(T), NEW S
  PROVE  /\ Filter(s, S) \in Seq(T)
         /\ Len(Filter(s, S)) <= Len(s)
         /\ ToSet(Filter(s, S)) = ToSet(s) \cap S
         /\ IsInjective(s) => IsInjective(Filter(s, S))
<1> DEFINE P(t) == /\ Filter(t, S) \in Seq(T)
                   /\ Len(Filter(t, S)) <= Len(t)
                   /\ ToSet(Filter(t, S)) = ToSet(t) \cap S
                   /\ IsInjective(t) => IsInjective(Filter(t, S))
           I == {n \in Nat : \A t \in Seq(T) : Len(t) = n => P(t)}
<1>1. 0 \in I
  <2> SUFFICES ASSUME NEW t \in Seq(T), Len(t) = 0 PROVE P(t)
    OBVIOUS
  <2>1. t = <<>>
    BY EmptySeq
  <2>2. <<>> \in Seq(T) /\ Filter(t, S) = <<>>
    BY <2>1, FilterOfNothing, EmptySeq
  <2>3. Len(t) <= Len(t)
    BY <2>1
  <2> QED BY <2>1, <2>2, <2>3, ToSetOfNothing
<1>2. ASSUME NEW n \in I PROVE n + 1 \in I
  <2> SUFFICES ASSUME NEW t \in Seq(T), Len(t) = n + 1 PROVE P(t)
    OBVIOUS
  <2>1. PICK u \in Seq(T), x \in T : t = Append(u, x) /\ Len(u) = n
    BY LastAppended
  <2>2. P(u)
    BY <2>1
  <2>3. Filter(t, S) = IF x \in S THEN Append(Filter(u, S), x) ELSE Filter(u, S)
    BY <2>1, FilterAppend
  <2>4. ToSet(t) = ToSet(u) \cup {x} /\ (IsInjective(t) => IsInjective(u) /\ x \notin ToSet(u))
    BY <2>1, ToSetAppend, InjectiveAppend
  <2>5. Len(Filter(u, S)) \in Nat /\ Len(Filter(u, S)) <= n
    BY <2>1, <2>2, LenProperties
  <2>6. CASE x \notin S
    <3>1. Filter(t, S) = Filter(u, S)
      BY <2>3, <2>6
    <3>2. Len(Filter(u, S)) <= n + 1
      BY <2>5
    <3> QED BY <2>2, <2>4, <2>6, <3>1, <3>2
  <2>7. CASE x \in S
    <3> DEFINE f == Filter(u, S)
    <3>1. Filter(t, S) = Append(f, x)
      BY <2>3, <2>7
    <3>2. f \in Seq(T) /\ ToSet(f) = ToSet(u) \cap S /\ (IsInjective(u) => IsInjective(f))
          /\ Len(f) \in Nat /\ Len(f) <= n
      BY <2>2, <2>5
    <3> HIDE DEF f
    <3>3. Append(f, x) \in Seq(T) /\ Len(Append(f, x)) = Len(f) + 1
      BY <3>2, AppendProperties
    <3>4. ToSet(Append(f, x)) = ToSet(f) \cup {x}
          /\ (IsInjective(Append(f, x)) <=> IsInjective(f) /\ x \notin ToSet(f))
      BY <3>2, ToSetAppend, InjectiveAppend
    <3>5. Len(Append(f, x)) <= n + 1
      BY <3>2, <3>3
    <3>6. ToSet(f) \cup {x} = ToSet(t) \cap S
      BY <2>4, <2>7, <3>2
    <3>7. IsInjective(t) => IsInjective(Append(f, x))
      BY <2>4, <3>2, <3>4
    <3> QED BY <3>1, <3>3, <3>4, <3>5, <3>6, <3>7
  <2> QED BY <2>6, <2>7
<1> HIDE DEF I
<1>3. I = Nat
  <2>1. I \in SUBSET Nat
    BY DEF I
  <2> QED BY <1>1, <1>2, <2>1, NumbersByInduction
<1>4. Len(s) \in I
  BY <1>3, LenProperties
<1> QED BY <1>4 DEF I

(* Two filters, one after the other.                                        *)
LEMMA FilterTwice ==
  ASSUME NEW T, NEW s \in Seq(T), NEW A, NEW B, NEW C,
         \A x \in T : x \in C <=> x \in A /\ x \in B
  PROVE  Filter(Filter(s, A), B) = Filter(s, C)
<1> DEFINE P(t) == Filter(Filter(t, A), B) = Filter(t, C)
           I == {n \in Nat : \A t \in Seq(T) : Len(t) = n => P(t)}
<1>1. 0 \in I
  <2> SUFFICES ASSUME NEW t \in Seq(T), Len(t) = 0 PROVE P(t)
    OBVIOUS
  <2>1. t = <<>>
    BY EmptySeq
  <2> QED BY <2>1, FilterOfNothing
<1>2. ASSUME NEW n \in I PROVE n + 1 \in I
  <2> SUFFICES ASSUME NEW t \in Seq(T), Len(t) = n + 1 PROVE P(t)
    OBVIOUS
  <2>1. PICK u \in Seq(T), x \in T : t = Append(u, x) /\ Len(u) = n
    BY LastAppended
  <2>2. P(u) /\ Filter(u, A) \in Seq(T)
    BY <2>1, FilterFacts
  <2>3. /\ Filter(t, A) = IF x \in A THEN Append(Filter(u, A), x) ELSE Filter(u, A)
        /\ Filter(t, C) =
             IF x \in C THEN Append(Filter(u, C), x) ELSE Filter(u, C)
    BY <2>1, FilterAppend
  <2>4. Filter(Append(Filter(u, A), x), B) =
          IF x \in B THEN Append(Filter(Filter(u, A), B), x) ELSE Filter(Filter(u, A), B)
    BY <2>2, FilterAppend, SMTT(40)
  <2>5. x \in C <=> x \in A /\ x \in B
    OBVIOUS
  <2>6. CASE x \in A
    <3>1. Filter(Filter(t, A), B) = Filter(Append(Filter(u, A), x), B)
      BY <2>3, <2>6
    <3> QED BY <2>2, <2>3, <2>4, <2>5, <2>6, <3>1
  <2>7. CASE x \notin A
    <3>1. Filter(Filter(t, A), B) = Filter(Filter(u, A), B)
      BY <2>3, <2>7
    <3> QED BY <2>2, <2>3, <2>5, <2>7, <3>1
  <2> QED BY <2>6, <2>7
<1> HIDE DEF I
<1>3. I = Nat
  <2>1. I \in SUBSET Nat
    BY DEF I
  <2> QED BY <1>1, <1>2, <2>1, NumbersByInduction
<1>4. Len(s) \in I
  BY <1>3, LenProperties
<1> QED BY <1>4 DEF I

(* Filters that tell the elements of s apart alike.                         *)
LEMMA FilterAlike ==
  ASSUME NEW T, NEW s \in Seq(T), NEW A, NEW B, ToSet(s) \cap A = ToSet(s) \cap B
  PROVE  Filter(s, A) = Filter(s, B)
<1> DEFINE P(t) == ToSet(t) \cap A = ToSet(t) \cap B => Filter(t, A) = Filter(t, B)
           I == {n \in Nat : \A t \in Seq(T) : Len(t) = n => P(t)}
<1>1. 0 \in I
  <2> SUFFICES ASSUME NEW t \in Seq(T), Len(t) = 0 PROVE P(t)
    OBVIOUS
  <2>1. t = <<>>
    BY EmptySeq
  <2> QED BY <2>1, FilterOfNothing
<1>2. ASSUME NEW n \in I PROVE n + 1 \in I
  <2> SUFFICES ASSUME NEW t \in Seq(T), Len(t) = n + 1, ToSet(t) \cap A = ToSet(t) \cap B
               PROVE  Filter(t, A) = Filter(t, B)
    OBVIOUS
  <2>1. PICK u \in Seq(T), x \in T : t = Append(u, x) /\ Len(u) = n
    BY LastAppended
  <2>2. ToSet(t) = ToSet(u) \cup {x}
    BY <2>1, ToSetAppend
  <2>3. ToSet(u) \cap A = ToSet(u) \cap B /\ (x \in A <=> x \in B)
    BY <2>2
  <2>4. Filter(u, A) = Filter(u, B)
    BY <2>1, <2>3
  <2>5. /\ Filter(t, A) = IF x \in A THEN Append(Filter(u, A), x) ELSE Filter(u, A)
        /\ Filter(t, B) = IF x \in B THEN Append(Filter(u, B), x) ELSE Filter(u, B)
    BY <2>1, FilterAppend
  <2> QED BY <2>3, <2>4, <2>5
<1> HIDE DEF I
<1>3. I = Nat
  <2>1. I \in SUBSET Nat
    BY DEF I
  <2> QED BY <1>1, <1>2, <2>1, NumbersByInduction
<1>4. Len(s) \in I
  BY <1>3, LenProperties
<1> QED BY <1>4 DEF I

(* A sequence without repetitions is as long as its set is large.           *)
LEMMA InjectiveLen ==
  ASSUME NEW T, NEW s \in Seq(T), IsInjective(s)
  PROVE  IsFiniteSet(ToSet(s)) /\ Cardinality(ToSet(s)) = Len(s)
<1> DEFINE P(t) == IsInjective(t) => IsFiniteSet(ToSet(t)) /\ Cardinality(ToSet(t)) = Len(t)
           I == {n \in Nat : \A t \in Seq(T) : Len(t) = n => P(t)}
<1>1. 0 \in I
  <2> SUFFICES ASSUME NEW t \in Seq(T), Len(t) = 0 PROVE P(t)
    OBVIOUS
  <2>1. t = <<>>
    BY EmptySeq
  <2> QED BY <2>1, ToSetOfNothing, FS_EmptySet
<1>2. ASSUME NEW n \in I PROVE n + 1 \in I
  <2> SUFFICES ASSUME NEW t \in Seq(T), Len(t) = n + 1, IsInjective(t)
               PROVE  IsFiniteSet(ToSet(t)) /\ Cardinality(ToSet(t)) = n + 1
    OBVIOUS
  <2>1. PICK u \in Seq(T), x \in T : t = Append(u, x) /\ Len(u) = n
    BY LastAppended
  <2>2. ToSet(t) = ToSet(u) \cup {x} /\ IsInjective(u) /\ x \notin ToSet(u)
    BY <2>1, ToSetAppend, InjectiveAppend
  <2>3. IsFiniteSet(ToSet(u)) /\ Cardinality(ToSet(u)) = n
    BY <2>1, <2>2
  <2>4. IsFiniteSet(ToSet(u) \cup {x}) /\ Cardinality(ToSet(u) \cup {x}) = Cardinality(ToSet(u)) + 1
    BY <2>2, <2>3, FS_AddElement
  <2> QED BY <2>2, <2>3, <2>4
<1> HIDE DEF I
<1>3. I = Nat
  <2>1. I \in SUBSET Nat
    BY DEF I
  <2> QED BY <1>1, <1>2, <2>1, NumbersByInduction
<1>4. Len(s) \in I
  BY <1>3, LenProperties
<1> QED BY <1>4 DEF I

(* One element less.                                                        *)
LEMMA WithoutFacts ==
  ASSUME NEW T, NEW s \in Seq(T), NEW x
  PROVE  /\ Without(s, x) \in Seq(T)
         /\ ToSet(Without(s, x)) = ToSet(s) \ {x}
         /\ IsInjective(s) => IsInjective(Without(s, x))
<1>1. {s[i] : i \in 1 .. Len(s)} = ToSet(s)
  BY LenProperties DEF ToSet
<1>2. Without(s, x) = Filter(s, ToSet(s) \ {x})
  BY <1>1 DEF Without
<1> QED BY <1>2, FilterFacts

(* A filter keeps no more than one that keeps more, ...                     *)
LEMMA FilterShorter ==
  ASSUME NEW T, NEW s \in Seq(T), NEW A, NEW B, \A x \in T : x \in A => x \in B
  PROVE  Len(Filter(s, A)) <= Len(Filter(s, B))
<1>1. Filter(Filter(s, B), A) = Filter(s, A)
  <2>1. \A x \in T : x \in A <=> x \in B /\ x \in A
    OBVIOUS
  <2> QED BY <2>1, FilterTwice
<1>2. Filter(s, B) \in Seq(T)
  BY FilterFacts
<1> QED BY <1>1, <1>2, FilterFacts

(* ... and no more than two that between them keep the same.                *)
LEMMA FilterShared ==
  ASSUME NEW T, NEW s \in Seq(T), NEW A, NEW B, NEW C,
         \A x \in T : x \in C => x \in A \/ x \in B
  PROVE  Len(Filter(s, C)) <= Len(Filter(s, A)) + Len(Filter(s, B))
<1> DEFINE P(t) == Len(Filter(t, C)) <= Len(Filter(t, A)) + Len(Filter(t, B))
           I == {n \in Nat : \A t \in Seq(T) : Len(t) = n => P(t)}
<1>1. 0 \in I
  <2> SUFFICES ASSUME NEW t \in Seq(T), Len(t) = 0 PROVE P(t)
    OBVIOUS
  <2>1. t = <<>>
    BY EmptySeq
  <2>2. Len(Filter(t, A)) = 0 /\ Len(Filter(t, B)) = 0 /\ Len(Filter(t, C)) = 0
    BY <2>1, FilterOfNothing
  <2> QED BY <2>2
<1>2. ASSUME NEW n \in I PROVE n + 1 \in I
  <2> SUFFICES ASSUME NEW t \in Seq(T), Len(t) = n + 1 PROVE P(t)
    OBVIOUS
  <2>1. PICK u \in Seq(T), x \in T : t = Append(u, x) /\ Len(u) = n
    BY LastAppended
  <2>2. P(u)
    BY <2>1
  <2>3. /\ Filter(t, A) = IF x \in A THEN Append(Filter(u, A), x) ELSE Filter(u, A)
        /\ Filter(t, B) = IF x \in B THEN Append(Filter(u, B), x) ELSE Filter(u, B)
        /\ Filter(t, C) = IF x \in C THEN Append(Filter(u, C), x) ELSE Filter(u, C)
    BY <2>1, FilterAppend
  <2> DEFINE a == Filter(u, A)  b == Filter(u, B)  c == Filter(u, C)
  <2>4. a \in Seq(T) /\ b \in Seq(T) /\ c \in Seq(T)
    BY FilterFacts
  <2> HIDE DEF a, b, c
  <2>5. /\ Len(a) \in Nat /\ Len(b) \in Nat /\ Len(c) \in Nat
        /\ Len(Append(a, x)) = Len(a) + 1 /\ Len(Append(b, x)) = Len(b) + 1
        /\ Len(Append(c, x)) = Len(c) + 1
    BY <2>4, AppendProperties, LenProperties
  <2>6. Len(c) <= Len(a) + Len(b)
    BY <2>2 DEF a, b, c
  <2>7. Len(Filter(t, A)) = (IF x \in A THEN Len(a) + 1 ELSE Len(a))
        /\ Len(Filter(t, B)) = (IF x \in B THEN Len(b) + 1 ELSE Len(b))
        /\ Len(Filter(t, C)) = (IF x \in C THEN Len(c) + 1 ELSE Len(c))
    BY <2>3, <2>5 DEF a, b, c
  <2>8. x \in C => x \in A \/ x \in B
    OBVIOUS
  <2>9. /\ Len(Filter(t, A)) \in Nat /\ Len(Filter(t, B)) \in Nat
        /\ Len(Filter(t, A)) >= Len(a) /\ Len(Filter(t, B)) >= Len(b)
    BY <2>5, <2>7
  <2> DEFINE la == Len(Filter(t, A))  lb == Len(Filter(t, B))  lc == Len(Filter(t, C))
  <2>10. CASE x \notin C
    <3>1. lc = Len(c)
      BY <2>7, <2>10
    <3> HIDE DEF la, lb, lc
    <3>2. lc <= la + lb
      BY <2>5, <2>6, <2>9, <3>1 DEF la, lb
    <3> QED BY <3>2 DEF la, lb, lc
  <2>11. CASE x \in C
    <3>1. lc = Len(c) + 1
      BY <2>7, <2>11
    <3>2. la = Len(a) + 1 \/ lb = Len(b) + 1
      BY <2>7, <2>8, <2>11
    <3>3. la \in Nat /\ lb \in Nat /\ la >= Len(a) /\ lb >= Len(b)
      BY <2>9
    <3> HIDE DEF la, lb, lc
    <3>4. lc <= la + lb
      BY <2>5, <2>6, <3>1, <3>2, <3>3
    <3> QED BY <3>4 DEF la, lb, lc
  <2> QED BY <2>10, <2>11
<1> HIDE DEF I
<1>3. I = Nat
  <2>1. I \in SUBSET Nat
    BY DEF I
  <2> QED BY <1>1, <1>2, <2>1, NumbersByInduction
<1>4. Len(s) \in I
  BY <1>3, LenProperties
<1> QED BY <1>4 DEF I

(* A filter that takes none of the elements leaves nothing.                 *)
LEMMA FilterNone ==
  ASSUME NEW T, NEW s \in Seq(T), NEW A, \A x \in ToSet(s) : x \notin A
  PROVE  Filter(s, A) = <<>>
<1>1. Filter(s, A) \in Seq(T) /\ ToSet(Filter(s, A)) = {}
  BY FilterFacts
<1> DEFINE f == Filter(s, A)
<1> HIDE DEF f
<1>2. \A t \in Seq(T) : ToSet(t) = {} => t = <<>>
  <2> SUFFICES ASSUME NEW t \in Seq(T), t # <<>> PROVE ToSet(t) # {}
    OBVIOUS
  <2>1. Len(t) \in Nat \ {0}
    BY EmptySeq, LenProperties
  <2>2. t[1] \in ToSet(t)
    BY <2>1 DEF ToSet
  <2> QED BY <2>2
<1> QED BY <1>1, <1>2

(* A filter that takes all of the elements leaves the sequence.             *)
LEMMA FilterAll ==
  ASSUME NEW T, NEW s \in Seq(T), NEW A, \A x \in ToSet(s) : x \in A
  PROVE  Filter(s, A) = s
<1> DEFINE P(t) == (\A x \in ToSet(t) : x \in A) => Filter(t, A) = t
           I == {n \in Nat : \A t \in Seq(T) : Len(t) = n => P(t)}
<1>1. 0 \in I
  <2> SUFFICES ASSUME NEW t \in Seq(T), Len(t) = 0 PROVE P(t)
    OBVIOUS
  <2>1. t = <<>>
    BY EmptySeq
  <2> QED BY <2>1, FilterOfNothing
<1>2. ASSUME NEW n \in I PROVE n + 1 \in I
  <2> SUFFICES ASSUME NEW t \in Seq(T), Len(t) = n + 1, \A x \in ToSet(t) : x \in A
               PROVE  Filter(t, A) = t
    OBVIOUS
  <2>1. PICK u \in Seq(T), x \in T : t = Append(u, x) /\ Len(u) = n
    BY LastAppended, ZenonT(60)
  <2>2. ToSet(t) = ToSet(u) \cup {x}
    BY <2>1, ToSetAppend
  <2>3. Filter(u, A) = u
    BY <2>1, <2>2
  <2> QED BY <2>1, <2>2, <2>3, FilterAppend
<1> HIDE DEF I
<1>3. I = Nat
  <2>1. I \in SUBSET Nat
    BY DEF I
  <2> QED BY <1>1, <1>2, <2>1, NumbersByInduction
<1>4. Len(s) \in I
  BY <1>3, LenProperties
<1> QED BY <1>4 DEF I

(* Appending to what is put together.                                       *)
LEMMA ConcatAppend ==
  ASSUME NEW T, NEW s \in Seq(T), NEW t \in Seq(T), NEW x \in T
  PROVE  s \o Append(t, x) = Append(s \o t, x)
OBVIOUS

(* What a filter leaves of two sequences one after the other.               *)
LEMMA FilterConcat ==
  ASSUME NEW T, NEW s \in Seq(T), NEW r \in Seq(T), NEW A
  PROVE  Filter(s \o r, A) = Filter(s, A) \o Filter(r, A)
<1> DEFINE P(t) == Filter(s \o t, A) = Filter(s, A) \o Filter(t, A)
           I == {n \in Nat : \A t \in Seq(T) : Len(t) = n => P(t)}
<1>0. Filter(s, A) \in Seq(T)
  BY FilterFacts
<1>1. 0 \in I
  <2> SUFFICES ASSUME NEW t \in Seq(T), Len(t) = 0 PROVE P(t)
    OBVIOUS
  <2>1. t = <<>>
    BY EmptySeq
  <2>2. s \o <<>> = s
    OBVIOUS
  <2>3. Filter(s, A) \o <<>> = Filter(s, A)
    BY <1>0
  <2> QED BY <2>1, <2>2, <2>3, FilterOfNothing
<1>2. ASSUME NEW n \in I PROVE n + 1 \in I
  <2> SUFFICES ASSUME NEW t \in Seq(T), Len(t) = n + 1 PROVE P(t)
    OBVIOUS
  <2>1. PICK u \in Seq(T), x \in T : t = Append(u, x) /\ Len(u) = n
    BY LastAppended
  <2>2. P(u)
    BY <2>1
  <2>3. s \o t = Append(s \o u, x) /\ s \o u \in Seq(T)
    BY <2>1
  <2>4. Filter(t, A) = IF x \in A THEN Append(Filter(u, A), x) ELSE Filter(u, A)
    BY <2>1, FilterAppend
  <2> DEFINE f == Filter(s, A)  g == Filter(u, A)  w == s \o u
  <2>7. Filter(s \o t, A) = IF x \in A THEN Append(Filter(w, A), x) ELSE Filter(w, A)
    <3>1. w \in Seq(T) /\ s \o t = Append(w, x)
      BY <2>3
    <3> HIDE DEF w
    <3> QED BY <2>1, <3>1, FilterAppend
  <2>5. f \in Seq(T) /\ g \in Seq(T)
    BY FilterFacts
  <2> HIDE DEF f, g
  <2>6. f \o Append(g, x) = Append(f \o g, x)
    BY <2>1, <2>5, ConcatAppend
  <2>8. Filter(w, A) = f \o g
    BY <2>2 DEF f, g
  <2> HIDE DEF w
  <2>9. CASE x \in A
    BY <2>4, <2>6, <2>7, <2>8, <2>9 DEF f, g
  <2>10. CASE x \notin A
    BY <2>4, <2>7, <2>8, <2>10 DEF f, g
  <2> QED BY <2>9, <2>10
<1> HIDE DEF I
<1>3. I = Nat
  <2>1. I \in SUBSET Nat
    BY DEF I
  <2> QED BY <1>1, <1>2, <2>1, NumbersByInduction
<1>4. Len(r) \in I
  BY <1>3, LenProperties
<1> QED BY <1>4 DEF I

(* A sequence with all its elements of low before the others.               *)
LowFirst(s, low) == \A i, j \in 1 .. Len(s) : i < j /\ s[j] \in low => s[i] \in low

(* It falls into the ones and the others.                                   *)
LEMMA LowFirstSplits ==
  ASSUME NEW T, NEW s \in Seq(T), NEW low, LowFirst(s, low)
  PROVE  Filter(s, low) \o Filter(s, T \ low) = s
<1> DEFINE high == T \ low
           P(t) == LowFirst(t, low) => Filter(t, low) \o Filter(t, high) = t
           I == {n \in Nat : \A t \in Seq(T) : Len(t) = n => P(t)}
<1> HIDE DEF high
<1>1. 0 \in I
  <2> SUFFICES ASSUME NEW t \in Seq(T), Len(t) = 0 PROVE P(t)
    OBVIOUS
  <2>1. t = <<>>
    BY EmptySeq
  <2>2. Filter(t, low) = <<>> /\ Filter(t, high) = <<>>
    BY <2>1, FilterOfNothing
  <2> QED BY <2>1, <2>2
<1>2. ASSUME NEW n \in I PROVE n + 1 \in I
  <2> SUFFICES ASSUME NEW t \in Seq(T), Len(t) = n + 1, LowFirst(t, low)
               PROVE  Filter(t, low) \o Filter(t, high) = t
    OBVIOUS
  <2>1. PICK u \in Seq(T), x \in T : t = Append(u, x) /\ Len(u) = n
    BY LastAppended, ZenonT(60)
  <2>2. t[n + 1] = x /\ \A i \in 1 .. n : t[i] = u[i]
    BY <2>1
  <2>3. LowFirst(u, low) /\ (x \in low => \A i \in 1 .. n : u[i] \in low)
    BY <2>1, <2>2, SMTT(40) DEF LowFirst
  <2> DEFINE f == Filter(u, low)  g == Filter(u, high)
  <2>4. f \o g = u
    BY <2>1, <2>3
  <2>5. f \in Seq(T) /\ g \in Seq(T)
    BY FilterFacts
  <2>6. /\ Filter(t, low) = IF x \in low THEN Append(f, x) ELSE f
        /\ Filter(t, high) = IF x \in high THEN Append(g, x) ELSE g
    BY <2>1, FilterAppend
  <2>7. CASE x \notin low
    <3>0. x \in high
      BY <2>7 DEF high
    <3> HIDE DEF f, g
    <3>1. f \o Append(g, x) = Append(f \o g, x)
      BY <2>1, <2>5, ConcatAppend
    <3> QED BY <2>1, <2>4, <2>6, <2>7, <3>0, <3>1 DEF f, g
  <2>8. CASE x \in low
    <3>1. \A y \in ToSet(u) : y \in low
      BY <2>1, <2>3, <2>8 DEF ToSet
    <3>2. \A y \in ToSet(u) : y \in T /\ y \notin high
      BY <2>1, <3>1, ToSetType DEF high
    <3>3. f = u
      BY <2>1, <3>1, FilterAll
    <3>4. g = <<>>
      BY <2>1, <3>2, FilterNone
    <3>5. Append(u, x) \o <<>> = Append(u, x)
      BY <2>1
    <3>6. x \notin high
      BY <2>8 DEF high
    <3> QED BY <2>1, <2>6, <2>8, <3>3, <3>4, <3>5, <3>6
  <2> QED BY <2>7, <2>8
<1> HIDE DEF I
<1>3. I = Nat
  <2>1. I \in SUBSET Nat
    BY DEF I
  <2> QED BY <1>1, <1>2, <2>1, NumbersByInduction
<1>4. Len(s) \in I
  BY <1>3, LenProperties
<1> QED BY <1>4 DEF I, high
-----------------------------------------------------------------------------
(* What splice(p, 1) leaves of a sequence, ...                              *)
LEMMA SpliceFacts ==
  ASSUME NEW S, NEW s \in Seq(S), NEW p \in DOMAIN s
  PROVE  /\ RemoveAt(s, p) \in Seq(S)
         /\ Len(RemoveAt(s, p)) = Len(s) - 1
         /\ \A k \in 1..(Len(s) - 1) :
               RemoveAt(s, p)[k] = IF k < p THEN s[k] ELSE s[k + 1]
<1> DEFINE a == SubSeq(s, 1, p - 1)
           b == SubSeq(s, p + 1, Len(s))
<1>1. p \in 1..Len(s) /\ Len(s) \in Nat /\ \A k \in 1..Len(s) : s[k] \in S
  OBVIOUS
<1> HIDE DEF a, b
<1>2. /\ a \in Seq(S) /\ Len(a) = p - 1
      /\ \A k \in 1..(p - 1) : a[k] = s[k]
  <2>1. /\ a \in Seq(S)
        /\ Len(a) = IF 1 <= p - 1 THEN p - 1 - 1 + 1 ELSE 0
        /\ \A k \in 1..(p - 1 - 1 + 1) : a[k] = s[1 + k - 1]
    BY <1>1, SubSeqProperties DEF a
  <2> QED  BY <2>1, <1>1
<1>3. /\ b \in Seq(S) /\ Len(b) = Len(s) - p
      /\ \A k \in 1..(Len(s) - p) : b[k] = s[p + k]
  <2>1. /\ b \in Seq(S)
        /\ Len(b) = IF p + 1 <= Len(s) THEN Len(s) - (p + 1) + 1 ELSE 0
        /\ \A k \in 1..(Len(s) - (p + 1) + 1) : b[k] = s[p + 1 + k - 1]
    BY <1>1, SubSeqProperties DEF b
  <2> QED  BY <2>1, <1>1
<1> DEFINE r == RemoveAt(s, p)
<1>4. /\ r \in Seq(S)
      /\ Len(r) = Len(a) + Len(b)
      /\ \A i \in 1..(Len(a) + Len(b)) :
            r[i] = IF i <= Len(a) THEN a[i] ELSE b[i - Len(a)]
  BY <1>2, <1>3, ConcatProperties, Zenon DEF RemoveAt, a, b
<1> HIDE DEF r
<1>5. Len(r) = Len(s) - 1
  BY <1>1, <1>2, <1>3, <1>4
<1>6. ASSUME NEW k \in 1..(Len(s) - 1)
      PROVE  r[k] = IF k < p THEN s[k] ELSE s[k + 1]
  <2>1. r[k] = IF k <= p - 1 THEN a[k] ELSE b[k - (p - 1)]
    <3>1. Len(a) = p - 1 /\ Len(a) + Len(b) = Len(s) - 1
      BY <1>1, <1>2, <1>3
    <3>2. k \in 1..(Len(a) + Len(b))
      BY <3>1
    <3>3. r[k] = IF k <= Len(a) THEN a[k] ELSE b[k - Len(a)]
      BY <1>4, <3>2
    <3> QED BY <3>1, <3>3
  <2>2. k >= p => b[k - (p - 1)] = s[p + (k - (p - 1))]
    BY <1>1, <1>3
  <2>3. p + (k - (p - 1)) = k + 1 /\ (k <= p - 1 <=> k < p) /\ (k >= p <=> ~(k < p))
    BY <1>1
  <2>4. CASE k < p
    BY <2>1, <2>3, <2>4, <1>1, <1>2
  <2>5. CASE k >= p
    <3>1. r[k] = s[p + (k - (p - 1))]
      BY <2>1, <2>2, <2>3, <2>5
    <3> QED  BY <3>1, <2>3, <2>5
  <2> QED  BY <2>3, <2>4, <2>5
<1> QED  BY <1>4, <1>5, <1>6 DEF r

(* ... which has no repetitions if the sequence had none.                   *)
LEMMA SpliceKeepsInjective ==
  ASSUME NEW S, NEW s \in Seq(S), NEW p \in DOMAIN s, IsInjective(s)
  PROVE  IsInjective(RemoveAt(s, p))
<1>1. p \in 1..Len(s) /\ Len(s) \in Nat /\ DOMAIN s = 1..Len(s)
  OBVIOUS
<1> DEFINE r == RemoveAt(s, p)
<1>2. /\ r \in Seq(S) /\ Len(r) = Len(s) - 1
      /\ \A k \in 1..(Len(s) - 1) : r[k] = IF k < p THEN s[k] ELSE s[k + 1]
  BY SpliceFacts, Zenon
<1> HIDE DEF r
<1>3. ASSUME NEW i \in 1..(Len(s) - 1), NEW j \in 1..(Len(s) - 1), r[i] = r[j]
      PROVE  i = j
  <2> DEFINE old(k) == IF k < p THEN k ELSE k + 1
  <2>1. old(i) \in DOMAIN s /\ old(j) \in DOMAIN s
    BY <1>1
  <2>2. r[i] = s[old(i)] /\ r[j] = s[old(j)]
    BY <1>2
  <2>3. old(i) = old(j)
    BY <2>1, <2>2, <1>3 DEF IsInjective
  <2> QED  BY <2>3, <1>1
<1>4. IsInjective(r)
  BY <1>1, <1>2, <1>3 DEF IsInjective
<1> QED  BY <1>4 DEF r
-----------------------------------------------------------------------------
(* A flattened sequence, step by step: there is such a function, ...        *)
AreFlat(flat, s, n) ==
  flat = [i \in 1 .. n |-> IF i = 1 THEN s[i] ELSE flat[i - 1] \o s[i]]

(* ... by induction on n, ...                                               *)
LEMMA FlatExist ==
  ASSUME NEW s, NEW n \in Nat
  PROVE  \E flat : AreFlat(flat, s, n)
<1> DEFINE I == {m \in Nat : \E flat : AreFlat(flat, s, m)}
<1>1. 0 \in I
  <2> DEFINE g == [i \in 1 .. 0 |-> <<>>]
  <2>1. \A i \in 1 .. 0 : FALSE
    OBVIOUS
  <2>2. AreFlat(g, s, 0)
    BY <2>1 DEF AreFlat
  <2> QED BY <2>2
<1>2. ASSUME NEW m \in I PROVE m + 1 \in I
  <2>1. PICK g : AreFlat(g, s, m)
    OBVIOUS
  <2> DEFINE h == [i \in 1 .. m + 1 |->
                     IF i = m + 1 THEN IF m = 0 THEN s[1] ELSE g[m] \o s[m + 1]
                     ELSE g[i]]
  <2>2. \A i \in 1 .. m : i \in 1 .. m + 1 /\ h[i] = g[i]
    OBVIOUS
  <2>3. \A i \in 1 .. m + 1 : i \in 1 .. m \/ i = m + 1
    OBVIOUS
  <2>4. \A i \in 1 .. m : i = 1 \/ i - 1 \in 1 .. m
    OBVIOUS
  <2>5. /\ (m + 1) - 1 = m /\ m + 1 \in 1 .. m + 1 /\ (m + 1 = 1 <=> m = 0)
        /\ m # 0 => m \in 1 .. m
    OBVIOUS
  <2>6. h[m + 1] = IF m + 1 = 1 THEN s[m + 1] ELSE h[m] \o s[m + 1]
    BY <2>2, <2>5
  <2>7. h = [i \in 1 .. m + 1 |-> h[i]]
    OBVIOUS
  <2> HIDE DEF h
  <2>8. ASSUME NEW i \in 1 .. m + 1
        PROVE  h[i] = IF i = 1 THEN s[i] ELSE h[i - 1] \o s[i]
    <3>1. CASE i \in 1 .. m
      <4>1. g[i] = IF i = 1 THEN s[i] ELSE g[i - 1] \o s[i]
        BY <2>1, <3>1 DEF AreFlat
      <4>2. h[i] = g[i] /\ (i # 1 => h[i - 1] = g[i - 1])
        BY <2>2, <2>4, <3>1
      <4> QED BY <4>1, <4>2
    <3>2. CASE i = m + 1
      BY <2>5, <2>6, <3>2
    <3> QED BY <2>3, <3>1, <3>2
  <2>9. AreFlat(h, s, m + 1)
    BY <2>7, <2>8 DEF AreFlat
  <2> QED BY <2>9
<1> HIDE DEF I
<1>3. I = Nat
  <2>1. I \in SUBSET Nat
    BY DEF I
  <2> QED BY <1>1, <1>2, <2>1, NumbersByInduction
<1> QED BY <1>3 DEF I

(* ... it is the one in the definition of FlattenSeq, ...                   *)
Flat(s) ==
  CHOOSE flat : flat = [i \in 1 .. Len(s) |-> IF i = 1 THEN s[i] ELSE flat[i - 1] \o s[i]]

(* A sequence that is not empty is flattened by it.                         *)
LEMMA FlattenIsFlat ==
  ASSUME NEW s, Len(s) # 0
  PROVE  FlattenSeq(s) = Flat(s)[Len(s)]
BY Zenon DEF FlattenSeq, Flat

(* ... and does what its definition says.                                   *)
LEMMA FlatStep ==
  ASSUME NEW s, Len(s) \in Nat
  PROVE  \A i \in 1 .. Len(s) : Flat(s)[i] = IF i = 1 THEN s[i] ELSE Flat(s)[i - 1] \o s[i]
<1>1. PICK f : AreFlat(f, s, Len(s))
  BY FlatExist
<1>2. \E flat : flat = [i \in 1 .. Len(s) |-> IF i = 1 THEN s[i] ELSE flat[i - 1] \o s[i]]
  BY <1>1, Zenon DEF AreFlat
<1>3. Flat(s) = [i \in 1 .. Len(s) |-> IF i = 1 THEN s[i] ELSE Flat(s)[i - 1] \o s[i]]
  BY <1>2, Zenon DEF Flat
<1> QED BY <1>3

(* Sequences that begin alike are flattened alike so far.                   *)
LEMMA FlatAlike ==
  ASSUME NEW s, NEW t, NEW n \in Nat, Len(s) \in Nat, Len(t) \in Nat, n <= Len(s), n <= Len(t),
         \A i \in 1 .. n : s[i] = t[i]
  PROVE  \A i \in 1 .. n : Flat(s)[i] = Flat(t)[i]
<1> DEFINE f == Flat(s)
           g == Flat(t)
           I == {m \in Nat : m \in 1 .. n => f[m] = g[m]}
<1>1. \A i \in 1 .. n : f[i] = (IF i = 1 THEN s[i] ELSE f[i - 1] \o s[i])
  BY FlatStep
<1>2. \A i \in 1 .. n : g[i] = (IF i = 1 THEN t[i] ELSE g[i - 1] \o t[i])
  BY FlatStep
<1> HIDE DEF f, g
<1>3. 0 \in I
  OBVIOUS
<1>4. ASSUME NEW m \in I PROVE m + 1 \in I
  <2>1. ASSUME m + 1 \in 1 .. n PROVE f[m + 1] = g[m + 1]
    <3>1. (m + 1) - 1 = m /\ (m + 1 # 1 => m \in 1 .. n) /\ m \in Nat
      BY <2>1
    <3>2. m + 1 # 1 => f[m] = g[m]
      BY <3>1
    <3> QED BY <1>1, <1>2, <2>1, <3>1, <3>2
  <2> QED BY <2>1
<1>5. I = Nat
  <2>1. I \in SUBSET Nat
    OBVIOUS
  <2> HIDE DEF I
  <2> QED BY <1>3, <1>4, <2>1, NumbersByInduction
<1> QED BY <1>5 DEF f, g

(* One sequence more goes behind.                                           *)
LEMMA FlattenAppend ==
  ASSUME NEW T, NEW s \in Seq(Seq(T)), NEW x \in Seq(T), FlattenSeq(s) \in Seq(T)
  PROVE  FlattenSeq(Append(s, x)) = FlattenSeq(s) \o x
<1> DEFINE a == Append(s, x)
           n == Len(s)
<1>1. /\ Len(a) = n + 1 /\ n \in Nat /\ a[n + 1] = x /\ \A i \in 1 .. n : a[i] = s[i]
  BY AppendProperties, LenProperties
<1> HIDE DEF a
<1>2. /\ Len(a) \in Nat /\ Len(a) # 0 /\ n + 1 \in 1 .. Len(a) /\ (n + 1) - 1 = n /\ (n + 1 = 1 <=> n = 0)
      /\ n <= Len(a) /\ n <= n
  BY <1>1
<1>3. FlattenSeq(a) = Flat(a)[n + 1]
  BY <1>1, <1>2, FlattenIsFlat
<1>4. Flat(a)[n + 1] = IF n + 1 = 1 THEN a[n + 1] ELSE Flat(a)[(n + 1) - 1] \o a[n + 1]
  BY <1>2, FlatStep
<1>5. CASE n = 0
  <2>1. s = <<>>
    BY <1>5, EmptySeq
  <2>2. FlattenSeq(s) = <<>>
    BY <1>5, <2>1, Zenon DEF FlattenSeq
  <2>3. <<>> \o x = x
    BY ConcatEmptySeq
  <2> QED BY <1>1, <1>2, <1>3, <1>4, <1>5, <2>2, <2>3 DEF a
<1>6. CASE n # 0
  <2>1. n \in 1 .. n
    BY <1>1, <1>6
  <2>2. Flat(a)[n] = Flat(s)[n]
    BY <1>1, <1>2, <2>1, FlatAlike
  <2>3. FlattenSeq(s) = Flat(s)[n]
    BY <1>6, FlattenIsFlat
  <2> QED BY <1>1, <1>2, <1>3, <1>4, <1>6, <2>2, <2>3 DEF a
<1> QED BY <1>5, <1>6

(* So what a flattened sequence holds is of its elements' type.             *)
LEMMA FlattenType ==
  ASSUME NEW T, NEW s \in Seq(Seq(T))
  PROVE  FlattenSeq(s) \in Seq(T)
<1> DEFINE I == {n \in Nat : \A t \in Seq(Seq(T)) : Len(t) = n => FlattenSeq(t) \in Seq(T)}
<1>1. 0 \in I
  <2>1. ASSUME NEW t \in Seq(Seq(T)), Len(t) = 0 PROVE FlattenSeq(t) \in Seq(T)
    <3>1. t = <<>> /\ t \in Seq(T)
      BY <2>1, EmptySeq
    <3>2. FlattenSeq(t) = t
      BY <2>1, Zenon DEF FlattenSeq
    <3> QED BY <3>1, <3>2
  <2> QED BY <2>1
<1>2. ASSUME NEW n \in I PROVE n + 1 \in I
  <2>1. ASSUME NEW t \in Seq(Seq(T)), Len(t) = n + 1 PROVE FlattenSeq(t) \in Seq(T)
    <3>1. n \in Nat
      OBVIOUS
    <3>2. PICK u \in Seq(Seq(T)), x \in Seq(T) : t = Append(u, x) /\ Len(u) = n
      BY <2>1, <3>1, LastAppended
    <3>3. FlattenSeq(u) \in Seq(T)
      BY <3>2
    <3>4. FlattenSeq(t) = FlattenSeq(u) \o x
      BY <3>2, <3>3, FlattenAppend
    <3> QED BY <3>3, <3>4, ConcatProperties
  <2> QED BY <2>1
<1>3. I = Nat
  <2>1. I \in SUBSET Nat
    OBVIOUS
  <2> HIDE DEF I
  <2> QED BY <1>1, <1>2, <2>1, NumbersByInduction
<1>4. Len(s) \in Nat
  BY LenProperties
<1> QED BY <1>3, <1>4
-----------------------------------------------------------------------------
(* What is appended comes last.                                             *)
LEMMA AppendedLast ==
  ASSUME NEW T, NEW s \in Seq(T), NEW x \in T
  PROVE  /\ Append(s, x)[Len(s) + 1] = x
         /\ \A k \in 1 .. Len(s) : Append(s, x)[k] = s[k]
BY AppendProperties, LenProperties

(* A reversed sequence.                                                     *)
LEMMA ReverseFacts ==
  ASSUME NEW T, NEW s \in Seq(T)
  PROVE  /\ Reverse(s) \in Seq(T) /\ Len(Reverse(s)) = Len(s)
         /\ \A i \in 1 .. Len(s) : Reverse(s)[i] = s[(Len(s) - i) + 1]
<1> DEFINE r == Reverse(s)
           l == Len(s)
<1>1. r = [i \in 1 .. l |-> s[(l - i) + 1]]
  BY DEF Reverse
<1> HIDE DEF r
<1>2. l \in Nat /\ \A i \in 1 .. l : (l - i) + 1 \in 1 .. l
  BY LenProperties
<1>3. r \in [1 .. l -> T]
  BY <1>1, <1>2
<1>4. r \in Seq(T) /\ DOMAIN r = 1 .. l
  <2> HIDE DEF l
  <2> QED BY <1>2, <1>3
<1>5. Len(r) = l
  BY <1>2, <1>4, LenProperties
<1> QED BY <1>1, <1>4, <1>5 DEF r
=============================================================================
