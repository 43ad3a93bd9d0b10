--------------------------- MODULE OperatorProofs --------------------------
(* Lemmas about operators that several modules use: Ranking orders a finite *)
(* set, so that every element has a place, and its own; what is picked from *)
(* a sequence; multiples of a number; sums, and walks along a sequence.     *)
EXTENDS Ranking, Iteration, SequencesExt, FiniteSetTheorems, SequenceTheorems, TLAPS

LEMMA BelowIsFinite ==
    ASSUME NEW S, NEW R, NEW x \in S, IsFiniteSet(S), StrictTotalOrder(S, R)
    PROVE  /\ IsFiniteSet(Below(S, R, x))
           /\ Cardinality(Below(S, R, x)) \in Nat
           /\ Rank(S, R, x) \in 1 .. Cardinality(S)
<1>1. Below(S, R, x) \in SUBSET (S \ {x})
  BY DEF Below, StrictTotalOrder
<1>2. IsFiniteSet(S \ {x}) /\ Cardinality(S \ {x}) = Cardinality(S) - 1
  BY FS_RemoveElement
<1>3. /\ IsFiniteSet(Below(S, R, x))
      /\ Cardinality(Below(S, R, x)) <= Cardinality(S \ {x})
  BY <1>1, <1>2, FS_Subset
<1>4. Cardinality(Below(S, R, x)) \in Nat /\ Cardinality(S) \in Nat
  BY <1>3, FS_CardinalityType
<1> QED
  BY <1>2, <1>3, <1>4 DEF Rank

(* What is below x is below everything above x, and so is x.                *)
LEMMA RankGrows ==
    ASSUME NEW S, NEW R, NEW x \in S, NEW y \in S,
           IsFiniteSet(S), StrictTotalOrder(S, R), <<x, y>> \in R
    PROVE  Rank(S, R, x) < Rank(S, R, y)
<1>1. Below(S, R, x) \in SUBSET Below(S, R, y)
  BY DEF Below, StrictTotalOrder
<1>2. Below(S, R, x) # Below(S, R, y)
  BY DEF Below, StrictTotalOrder
<1>3. /\ IsFiniteSet(Below(S, R, y))
      /\ Cardinality(Below(S, R, x)) \in Nat
      /\ Cardinality(Below(S, R, y)) \in Nat
  BY BelowIsFinite
<1>4. Cardinality(Below(S, R, x)) < Cardinality(Below(S, R, y))
  BY <1>1, <1>2, <1>3, FS_Subset
<1> QED
  BY <1>3, <1>4 DEF Rank

LEMMA RankIsUnique ==
    ASSUME NEW S, NEW R, NEW x \in S, NEW y \in S,
           IsFiniteSet(S), StrictTotalOrder(S, R), Rank(S, R, x) = Rank(S, R, y)
    PROVE  x = y
<1>1. Rank(S, R, x) \in Int
  BY BelowIsFinite, FS_CardinalityType
<1>2. <<x, y>> \notin R /\ <<y, x>> \notin R
  BY <1>1, RankGrows
<1> QED
  BY <1>2 DEF StrictTotalOrder

LEMMA RankIsTaken ==
    ASSUME NEW S, NEW R, IsFiniteSet(S), StrictTotalOrder(S, R),
           NEW k \in 1 .. Cardinality(S)
    PROVE  \E x \in S : Rank(S, R, x) = k
<1> DEFINE places == 1 .. Cardinality(S)
           rank == [x \in S |-> Rank(S, R, x)]
<1>1. Cardinality(S) \in Nat
  BY FS_CardinalityType
<1>2. IsFiniteSet(places) /\ Cardinality(places) = Cardinality(S)
  BY <1>1, FS_Interval
<1>3. rank \in Injection(S, places)
  <2>1. rank \in [S -> places]
    BY BelowIsFinite
  <2>2. IsInjective(rank)
    BY RankIsUnique DEF IsInjective
  <2> QED
    BY <2>1, <2>2 DEF Injection
<1>4. rank \in Surjection(S, places)
  <2> HIDE DEF rank, places
  <2> QED
    BY <1>2, <1>3, FS_Injection
<1>5. \E x \in S : rank[x] = k
  BY <1>4 DEF Surjection
<1> QED
  BY <1>5

----------------------------------------------------------------------------
(* Ranked lists every element of the set once.                              *)
LEMMA RankedIsListing ==
    ASSUME NEW S, NEW R, IsFiniteSet(S), StrictTotalOrder(S, R)
    PROVE  /\ Ranked(S, R) \in [1 .. Cardinality(S) -> S]
           /\ \A x \in S : /\ Rank(S, R, x) \in 1 .. Cardinality(S)
                           /\ Ranked(S, R)[Rank(S, R, x)] = x
<1>1. ASSUME NEW k \in 1 .. Cardinality(S)
      PROVE  Ranked(S, R)[k] \in S /\ Rank(S, R, Ranked(S, R)[k]) = k
  BY <1>1, RankIsTaken DEF Ranked
<1>2. ASSUME NEW x \in S
      PROVE  /\ Rank(S, R, x) \in 1 .. Cardinality(S)
             /\ Ranked(S, R)[Rank(S, R, x)] = x
  <2>1. Rank(S, R, x) \in 1 .. Cardinality(S)
    BY BelowIsFinite
  <2> QED
    BY <1>1, <2>1, RankIsUnique
<1>3. Ranked(S, R) = [k \in 1 .. Cardinality(S) |-> Ranked(S, R)[k]]
  BY DEF Ranked
<1> QED
  BY <1>1, <1>2, <1>3

(* No element is listed twice. *)
LEMMA RankedIsInjective ==
    ASSUME NEW S, NEW R, IsFiniteSet(S), StrictTotalOrder(S, R),
           NEW i \in 1 .. Cardinality(S), NEW j \in 1 .. Cardinality(S),
           Ranked(S, R)[i] = Ranked(S, R)[j]
    PROVE  i = j
<1>1. Rank(S, R, Ranked(S, R)[i]) = i /\ Rank(S, R, Ranked(S, R)[j]) = j
  BY RankIsTaken DEF Ranked
<1> QED
  BY <1>1

(* The listing follows the order. *)
LEMMA RankedIsOrdered ==
    ASSUME NEW S, NEW R, IsFiniteSet(S), StrictTotalOrder(S, R),
           NEW i \in 1 .. Cardinality(S), NEW j \in 1 .. Cardinality(S), i < j
    PROVE  <<Ranked(S, R)[i], Ranked(S, R)[j]>> \in R
<1> DEFINE x == Ranked(S, R)[i]
           y == Ranked(S, R)[j]
<1>1. x \in S /\ Rank(S, R, x) = i
  BY RankIsTaken DEF Ranked
<1>2. y \in S /\ Rank(S, R, y) = j
  BY RankIsTaken DEF Ranked
<1>3. i \in Int /\ j \in Int
  OBVIOUS
<1> HIDE DEF x, y
<1>4. x # y
  BY <1>1, <1>2, <1>3
<1>5. <<y, x>> \notin R
  BY <1>1, <1>2, <1>3, RankGrows
<1>6. <<x, y>> \in R
  BY <1>1, <1>2, <1>4, <1>5 DEF StrictTotalOrder
<1> QED
  BY <1>6 DEF x, y

LEMMA SmallerIsTotal ==
    ASSUME NEW S \in SUBSET Int
    PROVE  StrictTotalOrder(S, Smaller(S))
BY DEF StrictTotalOrder, Smaller

(* The first of a finite set of numbers is its least.                       *)
LEMMA LeastExists ==
    ASSUME NEW S \in SUBSET Int, IsFiniteSet(S), S # {}
    PROVE  \E x \in S : \A y \in S : x <= y
<1> DEFINE R == Smaller(S)
<1>1. StrictTotalOrder(S, R)
  BY SmallerIsTotal
<1>2. Cardinality(S) \in Nat /\ Cardinality(S) # 0
  BY FS_CardinalityType, FS_EmptySet
<1>3. PICK x \in S : Rank(S, R, x) = 1
  <2> HIDE DEF R
  <2> QED
    BY <1>1, <1>2, RankIsTaken
<1>4. Below(S, R, x) = {}
  <2>1. IsFiniteSet(Below(S, R, x)) /\ Cardinality(Below(S, R, x)) \in Nat
    BY <1>1, BelowIsFinite
  <2>2. Cardinality(Below(S, R, x)) = 0
    BY <1>3, <2>1 DEF Rank
  <2> QED
    BY <2>1, <2>2, FS_EmptySet
<1>5. ASSUME NEW y \in S PROVE x <= y
  <2>1. <<y, x>> \notin Smaller(S)
    BY <1>4 DEF Below
  <2>2. ~(y < x)
    BY <2>1 DEF Smaller
  <2> QED
    BY <2>2
<1> QED
  BY <1>5

(* So has a set of places a first: what induction up to b rests on.         *)
LEMMA LeastOfInterval ==
    ASSUME NEW a \in Int, NEW b \in Int, NEW S \in SUBSET (a .. b), S # {}
    PROVE  \E x \in S : \A y \in S : x <= y
<1>1. IsFiniteSet(a .. b) /\ a .. b \subseteq Int
  BY FS_Interval
<1>2. S \in SUBSET Int /\ IsFiniteSet(S)
  BY <1>1, FS_Subset
<1> QED
  BY <1>2, LeastExists

(* What is picked from a sequence is of it. *)
LEMMA PickedIsFrom ==
    ASSUME NEW X, NEW s \in Seq(X), NEW places \in SUBSET (DOMAIN s)
    PROVE  Picked(s, places) \in Seq(X) /\ ToSet(Picked(s, places)) \subseteq ToSet(s)
<1> DEFINE N == Cardinality(places)
           place == Ranked(places, Smaller(places))
<1>1. /\ Len(s) \in Nat /\ DOMAIN s = 1 .. Len(s)
      /\ \A i \in DOMAIN s : s[i] \in X
  OBVIOUS
<1>2. IsFiniteSet(places) /\ places \in SUBSET Int
  <2>1. places \in SUBSET (1 .. Len(s)) /\ 1 .. Len(s) \subseteq Int
    BY <1>1
  <2>2. IsFiniteSet(1 .. Len(s))
    BY <1>1, FS_Interval
  <2> QED
    BY <2>1, <2>2, FS_Subset
<1>3. N \in Nat /\ place \in [1 .. N -> places]
  BY <1>2, FS_CardinalityType, SmallerIsTotal, RankedIsListing
<1>4. Picked(s, places) = [k \in 1 .. N |-> s[place[k]]]
  BY DEF Picked
<1> HIDE DEF N, place
<1>5. \A k \in 1 .. N : place[k] \in DOMAIN s
  BY <1>3
<1>6. Picked(s, places) \in [1 .. N -> X]
  BY <1>1, <1>4, <1>5
<1>7. \A k \in 1 .. N : Picked(s, places)[k] \in ToSet(s)
  BY <1>4, <1>5 DEF ToSet
<1>8. DOMAIN Picked(s, places) = 1 .. N
  BY <1>4
<1> QED
  BY <1>3, <1>6, <1>7, <1>8 DEF ToSet

----------------------------------------------------------------------------
(* Multiples. *)
LEMMA Monotone ==
    ASSUME NEW a \in Nat, NEW b \in Nat, NEW d \in Nat, a < b
    PROVE  a * d + d <= b * d
<1>1. PICK e \in Nat : b = a + 1 + e
  <2>1. b - a - 1 \in Nat /\ b = a + 1 + (b - a - 1)
    OBVIOUS
  <2> QED
    BY <2>1
<1>2. e * d \in Nat
  OBVIOUS
<1>3. (a + 1 + e) * d = a * d + d + e * d
  OBVIOUS
<1> QED
  BY <1>1, <1>2, <1>3

LEMMA WeaklyMonotone ==
    ASSUME NEW a \in Nat, NEW b \in Nat, NEW d \in Nat, a <= b
    PROVE  a * d <= b * d
<1>1. a = b \/ a < b
  OBVIOUS
<1>2. a * d \in Nat /\ b * d \in Nat
  OBVIOUS
<1> QED
  BY <1>1, <1>2, Monotone

LEMMA Division ==
    ASSUME NEW n \in Nat, NEW d \in Nat \ {0}
    PROVE  /\ n \div d \in Nat /\ n % d \in 0 .. d - 1
           /\ n = (n \div d) * d + (n % d)
OBVIOUS
LEMMA DivisionGrows ==
    ASSUME NEW a \in Nat, NEW b \in Nat, NEW d \in Nat \ {0}, a <= b
    PROVE  a \div d <= b \div d
<1>1. PICK p \in Nat : p = a \div d /\ p * d <= a
  <2>1. a \div d \in Nat /\ (a \div d) * d <= a
    BY Division
  <2> QED
    BY <2>1
<1>2. PICK q \in Nat : q = b \div d /\ b < q * d + d
  <2>1. b \div d \in Nat /\ b < (b \div d) * d + d
    BY Division
  <2> QED
    BY <2>1
<1>3. CASE q < p
  <2>1. q * d + d <= p * d /\ q * d \in Nat /\ p * d \in Nat
    BY <1>3, Monotone
  <2> QED
    BY <2>1, <1>1, <1>2
<1> QED
  BY <1>1, <1>2, <1>3

----------------------------------------------------------------------------
(* Sums. The function in SumOf exists: a least length without one would be  *)
(* longer than 0, and extend the one of a shorter length.                   *)
Sums(f, n, values) ==
    f = [k \in 0 .. n |-> IF k = 0 THEN 0 ELSE f[k - 1] + values[k]]

LEMMA SumsExist ==
    ASSUME NEW values, NEW N \in Nat
    PROVE  \E f : Sums(f, N, values)
<1> DEFINE bad == {n \in 0 .. N : ~\E f : Sums(f, n, values)}
<1>1. SUFFICES ASSUME bad # {} PROVE FALSE
  <2>1. N \in 0 .. N
    OBVIOUS
  <2> QED
    BY <1>1, <2>1
<1>2. PICK n \in bad : \A m \in bad : n <= m
  <2>1. bad \in SUBSET (0 .. N) /\ 0 \in Int /\ N \in Int
    OBVIOUS
  <2> HIDE DEF bad
  <2> QED
    BY <1>1, <2>1, LeastOfInterval
<1>3. n # 0
  <2>1. Sums([k \in 0 .. 0 |-> 0], 0, values)
    BY DEF Sums
  <2> QED
    BY <2>1
<1>4. n - 1 \in 0 .. N /\ n \in 1 .. N /\ n - 1 \notin bad
  BY <1>2, <1>3
<1>5. PICK f : Sums(f, n - 1, values)
  BY <1>4
<1> DEFINE g == [k \in 0 .. n |-> IF k = n THEN f[n - 1] + values[n] ELSE f[k]]
<1>6. ASSUME NEW k \in 0 .. n
      PROVE  g[k] = IF k = 0 THEN 0 ELSE g[k - 1] + values[k]
  <2>1. CASE k = n
    <3>1. k - 1 \in 0 .. n /\ k - 1 # n
      BY <1>4, <2>1
    <3>2. g[k] = f[n - 1] + values[n] /\ g[k - 1] = f[n - 1]
      BY <2>1, <3>1
    <3> HIDE DEF g
    <3> QED
      BY <1>3, <2>1, <3>2
  <2>2. CASE k # n
    <3>1. k \in 0 .. n - 1 /\ g[k] = f[k]
      BY <1>4, <2>2
    <3>2. f[k] = IF k = 0 THEN 0 ELSE f[k - 1] + values[k]
      BY <1>5, <3>1 DEF Sums
    <3>3. k # 0 => g[k - 1] = f[k - 1]
      BY <1>4, <3>1
    <3> HIDE DEF g
    <3> QED
      BY <3>1, <3>2, <3>3
  <2> QED
    BY <2>1, <2>2
<1>7. Sums(g, n, values)
  <2>1. g = [k \in 0 .. n |-> g[k]]
    OBVIOUS
  <2> HIDE DEF g
  <2> QED
    BY <1>6, <2>1, Zenon DEF Sums
<1> HIDE DEF g
<1> QED
  BY <1>2, <1>7

LEMMA SumIsLast ==
    ASSUME NEW values, Len(values) \in Nat
    PROVE  \E f : Sums(f, Len(values), values) /\ SumOf(values) = f[Len(values)]
<1> DEFINE f == CHOOSE f : Sums(f, Len(values), values)
<1>1. Sums(f, Len(values), values)
  BY SumsExist
<1>2. f = CHOOSE upTo : upTo = [k \in 0 .. Len(values) |->
              IF k = 0 THEN 0 ELSE upTo[k - 1] + values[k]]
  BY Zenon DEF Sums
<1>3. SumOf(values) = f[Len(values)]
  BY <1>2, Zenon DEF SumOf
<1> HIDE DEF f
<1> QED
  BY <1>1, <1>3

(* What is smaller place by place is smaller summed up.                     *)
LEMMA SumsCompare ==
    ASSUME NEW N \in Nat, NEW a \in [1 .. N -> Nat], NEW b \in [1 .. N -> Nat],
           \A k \in 1 .. N : a[k] <= b[k]
    PROVE  SumOf(a) <= SumOf(b)
<1>1. Len(a) = N /\ Len(b) = N
  OBVIOUS
<1>2. PICK f : Sums(f, N, a) /\ SumOf(a) = f[N]
  BY <1>1, SumIsLast
<1>3. PICK g : Sums(g, N, b) /\ SumOf(b) = g[N]
  BY <1>1, SumIsLast
<1> DEFINE bad == {n \in 0 .. N : ~(f[n] \in Nat /\ g[n] \in Nat /\ f[n] <= g[n])}
<1>4. bad = {}
  <2> SUFFICES ASSUME bad # {} PROVE FALSE
    OBVIOUS
  <2>1. PICK n \in bad : \A m \in bad : n <= m
    <3>1. bad \in SUBSET (0 .. N) /\ 0 \in Int /\ N \in Int
      OBVIOUS
    <3> HIDE DEF bad
    <3> QED
      BY <3>1, LeastOfInterval
  <2>2. /\ n \in 0 .. N
        /\ f[n] = IF n = 0 THEN 0 ELSE f[n - 1] + a[n]
        /\ g[n] = IF n = 0 THEN 0 ELSE g[n - 1] + b[n]
    BY <1>2, <1>3 DEF Sums
  <2>3. n # 0
    BY <2>2
  <2>4. n - 1 \in 0 .. N /\ n \in 1 .. N /\ n - 1 \notin bad
    BY <2>1, <2>2, <2>3
  <2>5. f[n - 1] \in Nat /\ g[n - 1] \in Nat /\ f[n - 1] <= g[n - 1]
    BY <2>4
  <2>6. a[n] \in Nat /\ b[n] \in Nat /\ a[n] <= b[n]
    BY <2>4
  <2>7. f[n] = f[n - 1] + a[n] /\ g[n] = g[n - 1] + b[n]
    BY <2>2, <2>3
  <2> QED
    BY ONLY <2>5, <2>6, <2>7
<1>5. N \in 0 .. N
  OBVIOUS
<1> QED
  BY <1>2, <1>3, <1>4, <1>5

(* Induction up to N, for a set of numbers: the provers cannot instantiate  *)
(* a predicate.                                                             *)
LEMMA UpTo ==
    ASSUME NEW N \in Nat, NEW S, 0 \in S, \A k \in 1 .. N : k - 1 \in S => k \in S
    PROVE  0 .. N \subseteq S
<1> DEFINE bad == {n \in 0 .. N : n \notin S}
<1>1. SUFFICES ASSUME bad # {} PROVE FALSE
  OBVIOUS
<1>2. PICK n \in bad : \A m \in bad : n <= m
  <2>1. bad \in SUBSET (0 .. N) /\ 0 \in Int /\ N \in Int
    OBVIOUS
  <2> HIDE DEF bad
  <2> QED
    BY <1>1, <2>1, LeastOfInterval
<1>3. n \in 1 .. N /\ n - 1 \in 0 .. N /\ n - 1 \notin bad
  BY <1>2
<1> QED
  BY <1>2, <1>3

LEMMA SumIsNat ==
    ASSUME NEW N \in Nat, NEW a \in [1 .. N -> Nat]
    PROVE  SumOf(a) \in Nat
<1>1. Len(a) = N
  OBVIOUS
<1>2. PICK f : Sums(f, N, a) /\ SumOf(a) = f[N]
  BY <1>1, SumIsLast
<1> DEFINE S == {n \in 0 .. N : f[n] \in Nat}
<1>3. 0 \in S
  BY <1>2 DEF Sums
<1>4. ASSUME NEW n \in 1 .. N, n - 1 \in S PROVE n \in S
  BY <1>2, <1>4 DEF Sums
<1>5. 0 .. N \subseteq S
  <2> HIDE DEF S
  <2> QED
    BY <1>3, <1>4, UpTo
<1> QED
  BY <1>2, <1>5

(* A sum is not less than one of its terms. *)
LEMMA SumHasTerm ==
    ASSUME NEW N \in Nat, NEW a \in [1 .. N -> Nat], NEW t \in 1 .. N
    PROVE  a[t] <= SumOf(a)
<1>1. Len(a) = N
  OBVIOUS
<1>2. PICK f : Sums(f, N, a) /\ SumOf(a) = f[N]
  BY <1>1, SumIsLast
<1> DEFINE S == {n \in 0 .. N : f[n] \in Nat /\ (t <= n => a[t] <= f[n])}
<1>3. 0 \in S
  BY <1>2 DEF Sums
<1>4. ASSUME NEW n \in 1 .. N, n - 1 \in S PROVE n \in S
  <2>1. f[n] = f[n - 1] + a[n] /\ f[n - 1] \in Nat /\ a[n] \in Nat /\ a[t] \in Nat
    BY <1>2, <1>4 DEF Sums
  <2>2. t <= n - 1 => a[t] <= f[n - 1]
    BY <1>4
  <2>3. t = n \/ t <= n - 1 \/ ~(t <= n)
    OBVIOUS
  <2> QED
    BY <2>1, <2>2, <2>3
<1>5. 0 .. N \subseteq S
  <2> HIDE DEF S
  <2> QED
    BY <1>3, <1>4, UpTo
<1> QED
  BY <1>2, <1>5

(* A sum of sums, place by place. *)
LEMMA SumsAdd ==
    ASSUME NEW N \in Nat, NEW a \in [1 .. N -> Nat], NEW b \in [1 .. N -> Nat],
           NEW c \in [1 .. N -> Nat], \A k \in 1 .. N : c[k] = a[k] + b[k]
    PROVE  SumOf(c) = SumOf(a) + SumOf(b)
<1>1. Len(a) = N /\ Len(b) = N /\ Len(c) = N
  OBVIOUS
<1>2. PICK f : Sums(f, N, a) /\ SumOf(a) = f[N]
  BY <1>1, SumIsLast
<1>3. PICK g : Sums(g, N, b) /\ SumOf(b) = g[N]
  BY <1>1, SumIsLast
<1>4. PICK h : Sums(h, N, c) /\ SumOf(c) = h[N]
  BY <1>1, SumIsLast
<1> DEFINE S == {n \in 0 .. N : f[n] \in Nat /\ g[n] \in Nat /\ h[n] = f[n] + g[n]}
<1>5. 0 \in S
  BY <1>2, <1>3, <1>4 DEF Sums
<1>6. ASSUME NEW n \in 1 .. N, n - 1 \in S PROVE n \in S
  <2>1. n \in 0 .. N /\ n # 0
    OBVIOUS
  <2>2. f[n] = f[n - 1] + a[n]
    BY <1>2, <2>1 DEF Sums
  <2>3. g[n] = g[n - 1] + b[n]
    BY <1>3, <2>1 DEF Sums
  <2>4. h[n] = h[n - 1] + c[n]
    BY <1>4, <2>1 DEF Sums
  <2>5. f[n - 1] \in Nat /\ g[n - 1] \in Nat /\ h[n - 1] = f[n - 1] + g[n - 1]
    BY <1>6
  <2>6. a[n] \in Nat /\ b[n] \in Nat /\ c[n] = a[n] + b[n]
    OBVIOUS
  <2>7. PICK x \in Nat, y \in Nat : f[n - 1] = x /\ g[n - 1] = y /\ h[n - 1] = x + y
    BY <2>5
  <2>8. PICK p \in Nat, q \in Nat : a[n] = p /\ b[n] = q /\ c[n] = p + q
    BY <2>6
  <2>9. f[n] = x + p /\ g[n] = y + q /\ h[n] = (x + y) + (p + q)
    BY <2>2, <2>3, <2>4, <2>7, <2>8
  <2>10. f[n] \in Nat /\ g[n] \in Nat /\ h[n] = f[n] + g[n]
    BY ONLY <2>9, x \in Nat, y \in Nat, p \in Nat, q \in Nat
  <2> QED
    BY <2>1, <2>10
<1>7. 0 .. N \subseteq S
  <2> HIDE DEF S
  <2> QED
    BY <1>5, <1>6, UpTo
<1> QED
  BY <1>2, <1>3, <1>4, <1>7

(* The sum of a sequence followed by another. *)
LEMMA SumsJoin ==
    ASSUME NEW N \in Nat, NEW M \in Nat,
           NEW a \in [1 .. N -> Nat], NEW b \in [1 .. M -> Nat],
           NEW c \in [1 .. (N + M) -> Nat],
           \A k \in 1 .. N : c[k] = a[k], \A k \in 1 .. M : c[N + k] = b[k]
    PROVE  SumOf(c) = SumOf(a) + SumOf(b)
<1>1. Len(a) = N /\ Len(b) = M /\ Len(c) = N + M /\ N + M \in Nat
  OBVIOUS
<1>2. PICK f : Sums(f, N, a) /\ SumOf(a) = f[N]
  BY <1>1, SumIsLast
<1>3. PICK g : Sums(g, M, b) /\ SumOf(b) = g[M]
  BY <1>1, SumIsLast
<1>4. PICK h : Sums(h, N + M, c) /\ SumOf(c) = h[N + M]
  BY <1>1, SumIsLast
<1> DEFINE S == {n \in 0 .. N : f[n] \in Nat /\ h[n] = f[n]}
           T == {n \in 0 .. M : g[n] \in Nat /\ h[N + n] = f[N] + g[n]}
<1>5. 0 \in S
  BY <1>2, <1>4 DEF Sums
<1>6. ASSUME NEW n \in 1 .. N, n - 1 \in S PROVE n \in S
  <2>1. f[n] = f[n - 1] + a[n] /\ h[n] = h[n - 1] + c[n]
    BY <1>2, <1>4 DEF Sums
  <2>2. f[n - 1] \in Nat /\ h[n - 1] = f[n - 1]
    BY <1>6
  <2>3. a[n] \in Nat /\ c[n] = a[n]
    OBVIOUS
  <2> QED
    BY <2>1, <2>2, <2>3
<1>7. 0 .. N \subseteq S
  <2> HIDE DEF S
  <2> QED
    BY <1>5, <1>6, UpTo
<1>8. h[N] = f[N] /\ f[N] \in Nat
  BY <1>7
<1>9. 0 \in T
  BY <1>3, <1>8 DEF Sums
<1>10. ASSUME NEW n \in 1 .. M, n - 1 \in T PROVE n \in T
  <2>1. N + n \in 1 .. N + M /\ (N + n) - 1 = N + (n - 1)
    OBVIOUS
  <2>2. g[n] = g[n - 1] + b[n] /\ h[N + n] = h[N + (n - 1)] + c[N + n]
    BY <1>3, <1>4, <2>1 DEF Sums
  <2>3. g[n - 1] \in Nat /\ h[N + (n - 1)] = f[N] + g[n - 1]
    BY <1>10
  <2>4. b[n] \in Nat /\ c[N + n] = b[n]
    OBVIOUS
  <2>5. g[n] \in Nat /\ h[N + n] = f[N] + g[n]
    <3>1. PICK x \in Nat, y \in Nat, z \in Nat : x = f[N] /\ y = g[n - 1] /\ z = b[n]
      BY <1>8, <2>3, <2>4
    <3>2. g[n] = y + z /\ h[N + n] = (x + y) + z
      BY <2>2, <2>3, <2>4, <3>1, Zenon
    <3>3. (x + y) + z = x + (y + z) /\ y + z \in Nat
      OBVIOUS
    <3>4. g[n] \in Nat
      BY <3>2, <3>3, Zenon
    <3>5. h[N + n] = f[N] + g[n]
      BY <3>1, <3>2, <3>3, Zenon
    <3> QED
      BY <3>4, <3>5
  <2>6. n \in 0 .. M
    OBVIOUS
  <2> QED
    BY <2>5, <2>6
<1>11. 0 .. M \subseteq T
  <2> HIDE DEF T
  <2> QED
    BY <1>9, <1>10, UpTo
<1> QED
  BY <1>2, <1>3, <1>4, <1>11

LEMMA SumOfNothing == SumOf(<<>>) = 0
<1>1. Len(<<>>) = 0
  OBVIOUS
<1>2. PICK f : Sums(f, 0, <<>>) /\ SumOf(<<>>) = f[0]
  BY <1>1, SumIsLast
<1> QED
  BY <1>2 DEF Sums

----------------------------------------------------------------------------
(* Walks. The function in Walk exists, as the one in SumOf does.            *)
Walks(f, n, start, moves) ==
    f = [k \in 0 .. n |-> IF k = 0 THEN start ELSE moves[k][f[k - 1]]]

LEMMA WalksExist ==
    ASSUME NEW start, NEW moves, NEW N \in Nat
    PROVE  \E f : Walks(f, N, start, moves)
<1> DEFINE S == {n \in 0 .. N : \E f : Walks(f, n, start, moves)}
<1>1. 0 \in S
  <2>1. Walks([k \in 0 .. 0 |-> start], 0, start, moves)
    BY DEF Walks
  <2> QED
    BY <2>1
<1>2. ASSUME NEW n \in 1 .. N, n - 1 \in S PROVE n \in S
  <2>1. PICK f : Walks(f, n - 1, start, moves)
    BY <1>2
  <2> DEFINE g == [k \in 0 .. n |-> IF k = n THEN moves[n][f[n - 1]] ELSE f[k]]
  <2>2. ASSUME NEW k \in 0 .. n
        PROVE  g[k] = IF k = 0 THEN start ELSE moves[k][g[k - 1]]
    <3>1. CASE k = n
      <4>1. k - 1 \in 0 .. n /\ k - 1 # n
        BY <3>1
      <4>2. g[k] = moves[n][f[n - 1]] /\ g[k - 1] = f[n - 1]
        BY <3>1, <4>1
      <4> HIDE DEF g
      <4> QED
        BY <3>1, <4>2
    <3>2. CASE k # n
      <4>1. k \in 0 .. n - 1 /\ g[k] = f[k]
        BY <3>2
      <4>2. f[k] = IF k = 0 THEN start ELSE moves[k][f[k - 1]]
        BY <2>1, <4>1 DEF Walks
      <4>3. k # 0 => g[k - 1] = f[k - 1]
        BY <4>1
      <4> HIDE DEF g
      <4> QED
        BY <4>1, <4>2, <4>3
    <3> QED
      BY <3>1, <3>2
  <2>3. Walks(g, n, start, moves)
    <3>1. g = [k \in 0 .. n |-> g[k]]
      OBVIOUS
    <3> HIDE DEF g
    <3> QED
      BY <2>2, <3>1, Zenon DEF Walks
  <2> HIDE DEF g
  <2> QED
    BY <2>3
<1>3. 0 .. N \subseteq S
  <2> HIDE DEF S
  <2> QED
    BY <1>1, <1>2, UpTo
<1> QED
  BY <1>3

(* A walk takes its moves one by one, and stays where they lead.            *)
LEMMA WalkMoves ==
    ASSUME NEW S, NEW start \in S, NEW moves, NEW N \in Nat, Len(moves) = N,
           \A k \in 1 .. N : \A x \in S : moves[k][x] \in S
    PROVE  /\ Walk(start, moves)[0] = start
           /\ \A k \in 0 .. N : Walk(start, moves)[k] \in S
           /\ \A k \in 1 .. N :
                  Walk(start, moves)[k] = moves[k][Walk(start, moves)[k - 1]]
<1> DEFINE f == CHOOSE f : Walks(f, N, start, moves)
<1>1. Walks(f, N, start, moves)
  BY WalksExist
<1>2. f = CHOOSE at : at = [k \in 0 .. Len(moves) |->
              IF k = 0 THEN start ELSE moves[k][at[k - 1]]]
  BY Zenon DEF Walks
<1>3. Walk(start, moves) = f
  BY <1>2, Zenon DEF Walk
<1> HIDE DEF f
<1>4. f[0] = start /\ \A k \in 1 .. N : f[k] = moves[k][f[k - 1]]
  BY <1>1 DEF Walks
<1> DEFINE T == {n \in 0 .. N : f[n] \in S}
<1>5. 0 \in T
  BY <1>4
<1>6. ASSUME NEW n \in 1 .. N, n - 1 \in T PROVE n \in T
  BY <1>4, <1>6
<1>7. 0 .. N \subseteq T
  <2> HIDE DEF T
  <2> QED
    BY <1>5, <1>6, UpTo
<1> QED
  BY <1>3, <1>4, <1>7

LEMMA WalkNowhere ==
    ASSUME NEW start, NEW moves, Len(moves) = 0
    PROVE  Walk(start, moves)[0] = start
<1> DEFINE S == {start}
<1>1. start \in S /\ Len(moves) = 0 /\ 0 \in Nat
  OBVIOUS
<1>2. \A k \in 1 .. 0 : \A x \in S : moves[k][x] \in S
  OBVIOUS
<1> HIDE DEF S
<1> QED
  BY <1>1, <1>2, WalkMoves

(* A walk that goes on as another ended takes the last move from there.     *)
LEMMA WalkGoesOn ==
    ASSUME NEW S, NEW start \in S, NEW N \in Nat, NEW a, NEW b,
           Len(a) = N, Len(b) = N + 1, \A k \in 1 .. N : b[k] = a[k],
           \A k \in 1 .. N + 1 : \A x \in S : b[k][x] \in S
    PROVE  /\ Walk(start, a)[N] \in S
           /\ Walk(start, b)[N + 1] = b[N + 1][Walk(start, a)[N]]
<1>1. N + 1 \in Nat /\ N \in 0 .. N /\ N + 1 \in 1 .. N + 1 /\ (N + 1) - 1 = N
      /\ N + 1 \in 0 .. N + 1
  OBVIOUS
<1>2. \A k \in 1 .. N : \A x \in S : a[k][x] \in S
  <2>1. \A k \in 1 .. N : k \in 1 .. N + 1
    OBVIOUS
  <2> QED
    BY <2>1
<1> DEFINE f == Walk(start, a)
           h == Walk(start, b)
<1>3. f[0] = start /\ f[N] \in S /\ \A k \in 1 .. N : f[k] = a[k][f[k - 1]]
  BY <1>1, <1>2, WalkMoves
<1>4. /\ h[0] = start /\ h[N + 1] = b[N + 1][h[N]]
      /\ \A k \in 1 .. N : h[k] = b[k][h[k - 1]]
  <2>1. PICK M \in Nat : M = N + 1 /\ Len(b) = M
    BY <1>1
  <2>2. \A k \in 1 .. M : \A x \in S : b[k][x] \in S
    BY <2>1
  <2>3. h[0] = start /\ \A k \in 1 .. M : h[k] = b[k][h[k - 1]]
    BY <2>1, <2>2, WalkMoves
  <2>4. \A k \in 1 .. N : k \in 1 .. M
    BY <2>1
  <2> HIDE DEF h
  <2> QED
    BY <1>1, <2>1, <2>3, <2>4
<1> HIDE DEF f, h
<1> DEFINE T == {n \in 0 .. N : h[n] = f[n]}
<1>5. 0 \in T
  BY <1>3, <1>4
<1>6. ASSUME NEW n \in 1 .. N, n - 1 \in T PROVE n \in T
  BY <1>3, <1>4, <1>6
<1>7. 0 .. N \subseteq T
  <2> HIDE DEF T
  <2> QED
    BY <1>5, <1>6, UpTo
<1>8. h[N] = f[N]
  BY <1>1, <1>7
<1> QED
  BY <1>3, <1>4, <1>8 DEF f, h

----------------------------------------------------------------------------
LEMMA GreatestExists ==
    ASSUME NEW S \in SUBSET Int, IsFiniteSet(S), S # {}
    PROVE  \E x \in S : \A y \in S : y <= x
<1> DEFINE R == {pair \in S \X S : pair[1] > pair[2]}
<1>1. StrictTotalOrder(S, R)
  BY DEF StrictTotalOrder
<1>2. Cardinality(S) \in Nat /\ Cardinality(S) # 0
  BY FS_CardinalityType, FS_EmptySet
<1>3. PICK x \in S : Rank(S, R, x) = 1
  <2> HIDE DEF R
  <2> QED
    BY <1>1, <1>2, RankIsTaken
<1>4. Below(S, R, x) = {}
  <2>1. IsFiniteSet(Below(S, R, x)) /\ Cardinality(Below(S, R, x)) \in Nat
    BY <1>1, BelowIsFinite
  <2>2. Cardinality(Below(S, R, x)) = 0
    BY <1>3, <2>1 DEF Rank
  <2> QED
    BY <2>1, <2>2, FS_EmptySet
<1>5. ASSUME NEW y \in S PROVE y <= x
  <2>1. <<y, x>> \notin R
    <3> HIDE DEF R
    <3> QED
      BY <1>4 DEF Below
  <2>2. ~(y > x)
    BY <2>1
  <2> QED
    BY <2>2
<1> QED
  BY <1>5

Distinct(s) == \A i, j \in DOMAIN s : s[i] = s[j] => i = j

(* What is picked is what stands at the places, and as distinct as that.    *)
LEMMA PickedIs ==
    ASSUME NEW X, NEW s \in Seq(X), NEW places \in SUBSET (DOMAIN s)
    PROVE  /\ Picked(s, places) \in Seq(X)
           /\ ToSet(Picked(s, places)) = {s[i] : i \in places}
           /\ Distinct(s) => Distinct(Picked(s, places))
           /\ (\A i, j \in places : s[i] = s[j] => i = j) => Distinct(Picked(s, places))
<1> DEFINE N == Cardinality(places)
           R == Smaller(places)
           place == Ranked(places, R)
<1>1. IsFiniteSet(places) /\ places \in SUBSET Int
  <2>1. Len(s) \in Nat /\ DOMAIN s = 1 .. Len(s)
    OBVIOUS
  <2>2. places \in SUBSET (1 .. Len(s)) /\ 1 .. Len(s) \subseteq Int
    BY <2>1
  <2>3. IsFiniteSet(1 .. Len(s))
    BY <2>1, FS_Interval
  <2> QED
    BY <2>2, <2>3, FS_Subset
<1>2. StrictTotalOrder(places, R)
  BY <1>1, SmallerIsTotal
<1>3. N \in Nat /\ place \in [1 .. N -> places]
  BY <1>1, <1>2, FS_CardinalityType, RankedIsListing
<1>4. \A x \in places : \E k \in 1 .. N : place[k] = x
  BY <1>1, <1>2, RankedIsListing
<1>5. \A i, j \in 1 .. N : place[i] = place[j] => i = j
  BY <1>1, <1>2, RankedIsInjective
<1>6. Picked(s, places) = [k \in 1 .. N |-> s[place[k]]]
  BY DEF Picked
<1> HIDE DEF N, R, place
<1>7. DOMAIN Picked(s, places) = 1 .. N
  BY <1>6
<1>8. Picked(s, places) \in Seq(X)
  BY PickedIsFrom
<1>9. ToSet(Picked(s, places)) = {s[i] : i \in places}
  <2>1. ToSet(Picked(s, places)) = {s[place[k]] : k \in 1 .. N}
    BY <1>6, <1>7 DEF ToSet
  <2> QED
    BY <1>3, <1>4, <2>1
<1>10. ASSUME \A i, j \in places : s[i] = s[j] => i = j
       PROVE  Distinct(Picked(s, places))
  BY <1>3, <1>5, <1>6, <1>7, <1>10 DEF Distinct
<1>11. Distinct(s) => \A i, j \in places : s[i] = s[j] => i = j
  BY DEF Distinct
<1> QED
  BY <1>8, <1>9, <1>10, <1>11
----------------------------------------------------------------------------
(* Sequences are flattened one by one: the same argument as for sums shows  *)
(* that function to exist.                                                  *)
Joined(f, n, seqs) ==
    f = [k \in 1 .. n |-> IF k = 1 THEN seqs[k] ELSE f[k - 1] \o seqs[k]]

LEMMA JoinedExists ==
    ASSUME NEW N \in Nat \ {0}, NEW seqs
    PROVE  \E f : Joined(f, N, seqs)
<1> DEFINE bad == {n \in 1 .. N : ~\E f : Joined(f, n, seqs)}
<1>1. bad \in SUBSET (1 .. N) /\ 1 \in Int /\ N \in Int
  OBVIOUS
<1>2. SUFFICES ASSUME bad # {} PROVE FALSE
  <2>1. N \in 1 .. N
    OBVIOUS
  <2> QED
    BY <1>2, <2>1
<1>3. PICK n \in bad : \A m \in bad : n <= m
  <2> HIDE DEF bad
  <2> QED
    BY <1>1, <1>2, LeastOfInterval
<1>4. n # 1
  <2> DEFINE one == [k \in 1 .. 1 |-> seqs[1]]
  <2>1. Joined(one, 1, seqs)
    BY DEF Joined
  <2> HIDE DEF one
  <2> QED
    BY <2>1
<1>5. n - 1 \in 1 .. N /\ n \in 2 .. N /\ n - 1 \notin bad
  <2>1. n \in 1 .. N /\ ~(n <= n - 1)
    OBVIOUS
  <2> HIDE DEF bad
  <2> QED
    BY <1>3, <1>4, <2>1
<1>6. PICK f : Joined(f, n - 1, seqs)
  BY <1>5
<1> DEFINE g == [k \in 1 .. n |-> IF k = n THEN f[n - 1] \o seqs[n] ELSE f[k]]
<1>7. ASSUME NEW k \in 1 .. n
      PROVE  g[k] = IF k = 1 THEN seqs[k] ELSE g[k - 1] \o seqs[k]
  <2>1. CASE k = n
    <3>1. g[k] = f[n - 1] \o seqs[n] /\ g[k - 1] = f[n - 1]
      <4>1. k \in 1 .. n /\ k - 1 \in 1 .. n /\ k - 1 # n /\ k - 1 = n - 1
        BY <1>5, <2>1
      <4> QED
        BY <2>1, <4>1
    <3> HIDE DEF g
    <3> QED
      BY <1>4, <2>1, <3>1
  <2>2. CASE k # n
    <3>1. k \in 1 .. n - 1 /\ g[k] = f[k]
      BY <1>5, <2>2
    <3>2. f[k] = IF k = 1 THEN seqs[k] ELSE f[k - 1] \o seqs[k]
      BY <1>6, <3>1 DEF Joined
    <3>3. k # 1 => g[k - 1] = f[k - 1]
      BY <1>5, <3>1
    <3> HIDE DEF g
    <3> QED
      BY <3>1, <3>2, <3>3
  <2> QED
    BY <2>1, <2>2
<1>8. Joined(g, n, seqs)
  <2>1. g = [k \in 1 .. n |-> g[k]]
    OBVIOUS
  <2> HIDE DEF g
  <2> QED
    BY <1>7, <2>1, Zenon DEF Joined
<1> HIDE DEF g
<1> QED
  BY <1>3, <1>8

LEMMA JoinedIsSeq ==
    ASSUME NEW S, NEW N \in Nat \ {0}, NEW seqs \in [1 .. N -> Seq(S)],
           NEW f, Joined(f, N, seqs)
    PROVE  f[N] \in Seq(S)
<1> DEFINE bad == {n \in 1 .. N : f[n] \notin Seq(S)}
<1>1. bad \in SUBSET (1 .. N) /\ 1 \in Int /\ N \in Int
  OBVIOUS
<1>2. SUFFICES ASSUME bad # {} PROVE FALSE
  BY <1>2
<1>3. PICK n \in bad : \A m \in bad : n <= m
  <2> HIDE DEF bad
  <2> QED
    BY <1>1, <1>2, LeastOfInterval
<1>4. n \in 1 .. N /\ f[n] = IF n = 1 THEN seqs[n] ELSE f[n - 1] \o seqs[n]
  BY DEF Joined
<1>5. n # 1
  BY <1>4
<1>6. n - 1 \in 1 .. N /\ ~(n <= n - 1)
  BY <1>4, <1>5
<1>7. f[n - 1] \in Seq(S)
  BY <1>3, <1>6
<1>8. f[n] \in Seq(S)
  BY <1>4, <1>5, <1>7, ConcatProperties
<1> QED
  BY <1>8

LEMMA IntervalIsSeq ==
    ASSUME NEW S, NEW N \in Nat, NEW s \in [1 .. N -> S]
    PROVE  s \in Seq(S) /\ DOMAIN s = 1 .. N
OBVIOUS

LEMMA FlattenIsSeq ==
    ASSUME NEW S, NEW N \in Nat, NEW seqs \in [1 .. N -> Seq(S)]
    PROVE  FlattenSeq(seqs) \in Seq(S)
<1>1. Len(seqs) = N
  OBVIOUS
<1>2. CASE N = 0
  <2>1. FlattenSeq(seqs) = seqs
    BY <1>1, <1>2, Zenon DEF FlattenSeq
  <2>2. seqs \in [1 .. N -> S]
    BY <1>2
  <2> QED
    BY <2>1, <2>2
<1>3. CASE N # 0
  <2> DEFINE f == CHOOSE f : Joined(f, Len(seqs), seqs)
  <2>1. \E g : Joined(g, Len(seqs), seqs)
    BY <1>1, <1>3, JoinedExists
  <2>2. Joined(f, N, seqs)
    BY <1>1, <2>1
  <2>3. f = CHOOSE flatten : flatten = [i \in 1 .. Len(seqs) |->
                IF i = 1 THEN seqs[i] ELSE flatten[i - 1] \o seqs[i]]
    BY Zenon DEF Joined
  <2>4. FlattenSeq(seqs) = f[N]
    BY <1>1, <1>3, <2>3, Zenon DEF FlattenSeq
  <2> HIDE DEF f
  <2>5. f[N] \in Seq(S)
    BY <1>3, <2>2, JoinedIsSeq
  <2> QED
    BY <2>4, <2>5
<1> QED
  BY <1>2, <1>3

LEMMA FlattenIs ==
    ASSUME NEW N \in Nat \ {0}, NEW seqs, Len(seqs) = N
    PROVE  \E f : Joined(f, N, seqs) /\ FlattenSeq(seqs) = f[N]
<1> DEFINE f == CHOOSE f : Joined(f, Len(seqs), seqs)
<1>1. Joined(f, N, seqs)
  <2>1. \E g : Joined(g, Len(seqs), seqs)
    BY JoinedExists
  <2> QED
    BY <2>1
<1>2. f = CHOOSE flatten : flatten = [i \in 1 .. Len(seqs) |->
              IF i = 1 THEN seqs[i] ELSE flatten[i - 1] \o seqs[i]]
  BY Zenon DEF Joined
<1>3. FlattenSeq(seqs) = f[N]
  <2>1. Len(seqs) # 0
    OBVIOUS
  <2> QED
    BY <1>2, <2>1, Zenon DEF FlattenSeq
<1> HIDE DEF f
<1> QED
  BY <1>1, <1>3

(* The first n of a sequence. *)
FirstOnes(s, n) == [k \in 1 .. n |-> s[k]]

LEMMA FlattenNothing ==
    ASSUME NEW s, Len(s) = 0
    PROVE  FlattenSeq(s) = s
BY Zenon DEF FlattenSeq

LEMMA JoinedAt ==
    ASSUME NEW n, NEW seqs, NEW f, Joined(f, n, seqs), NEW k \in 1 .. n
    PROVE  f[k] = IF k = 1 THEN seqs[k] ELSE f[k - 1] \o seqs[k]
BY Zenon DEF Joined

(* What was joined so far does not depend on what follows.                  *)
LEMMA JoinedAgree ==
    ASSUME NEW N \in Nat \ {0}, NEW s, NEW f, Joined(f, N, s),
           NEW t, NEW g, Joined(g, N + 1, t), \A k \in 1 .. N : s[k] = t[k]
    PROVE  f[N] = g[N]
<1> DEFINE S == {n \in 0 .. N : n = 0 \/ f[n] = g[n]}
<1>1. 0 \in S
  OBVIOUS
<1>2. ASSUME NEW k \in 1 .. N, k - 1 \in S PROVE k \in S
  <2>1. f[k] = IF k = 1 THEN s[k] ELSE f[k - 1] \o s[k]
    BY JoinedAt
  <2>2. g[k] = IF k = 1 THEN t[k] ELSE g[k - 1] \o t[k]
    <3>1. k \in 1 .. N + 1
      OBVIOUS
    <3> QED
      BY <3>1, JoinedAt
  <2>3. k = 1 \/ f[k - 1] = g[k - 1]
    BY <1>2
  <2>4. s[k] = t[k]
    OBVIOUS
  <2>5. f[k] = g[k]
    BY <2>1, <2>2, <2>3, <2>4, Zenon
  <2> QED
    BY <2>5
<1>3. N \in 0 .. N
  OBVIOUS
<1>4. 0 .. N \subseteq S
  <2> HIDE DEF S
  <2> QED
    BY <1>1, <1>2, UpTo
<1> QED
  BY <1>3, <1>4

LEMMA FlattenLonger ==
    ASSUME NEW S, NEW N \in Nat, NEW s \in [1 .. (N + 1) -> Seq(S)]
    PROVE  FlattenSeq(s) = FlattenSeq(FirstOnes(s, N)) \o s[N + 1]
<1> DEFINE r == FirstOnes(s, N)
<1>1. Len(s) = N + 1 /\ N + 1 \in Nat \ {0} /\ s[N + 1] \in Seq(S)
  OBVIOUS
<1>2. PICK g : Joined(g, N + 1, s) /\ FlattenSeq(s) = g[N + 1]
  BY <1>1, FlattenIs
<1>3. g[N + 1] = IF N + 1 = 1 THEN s[N + 1] ELSE g[(N + 1) - 1] \o s[N + 1]
  <2>1. N + 1 \in 1 .. N + 1
    OBVIOUS
  <2> QED
    BY <1>2, <2>1, JoinedAt
<1>4. r \in [1 .. N -> Seq(S)] /\ Len(r) = N
  BY DEF FirstOnes
<1>5. CASE N = 0
  <2>1. FlattenSeq(r) = r /\ r = <<>>
    BY <1>4, <1>5, FlattenNothing
  <2>2. <<>> \o s[N + 1] = s[N + 1]
    BY <1>1
  <2> QED
    BY <1>2, <1>3, <1>5, <2>1, <2>2
<1>6. CASE N # 0
  <2>1. PICK f : Joined(f, N, r) /\ FlattenSeq(r) = f[N]
    BY <1>4, <1>6, FlattenIs
  <2>2. \A k \in 1 .. N : r[k] = s[k]
    BY DEF FirstOnes
  <2> HIDE DEF r
  <2>3. f[N] = g[N]
    BY <1>2, <1>6, <2>1, <2>2, JoinedAgree
  <2>4. N + 1 # 1 /\ (N + 1) - 1 = N
    BY <1>6
  <2>5. FlattenSeq(s) = g[N] \o s[N + 1]
    BY <1>2, <1>3, <2>4
  <2> QED
    BY <2>1, <2>3, <2>5 DEF r
<1> QED
  BY <1>5, <1>6

(* The loop that flattens, turn by turn. *)
LEMMA FlattenUpTo ==
    ASSUME NEW S, NEW N \in Nat, NEW s \in [1 .. N -> Seq(S)]
    PROVE  /\ FlattenSeq(FirstOnes(s, 0)) = <<>>
           /\ FirstOnes(s, N) = s
           /\ \A n \in 0 .. N : FlattenSeq(FirstOnes(s, n)) \in Seq(S)
           /\ \A n \in 1 .. N :
                  FlattenSeq(FirstOnes(s, n)) = FlattenSeq(FirstOnes(s, n - 1)) \o s[n]
<1>1. FlattenSeq(FirstOnes(s, 0)) = <<>>
  <2>1. FirstOnes(s, 0) = <<>> /\ Len(<<>>) = 0
    BY DEF FirstOnes
  <2> QED
    BY <2>1, FlattenNothing
<1>2. FirstOnes(s, N) = s
  BY DEF FirstOnes
<1>3. ASSUME NEW n \in 0 .. N PROVE FlattenSeq(FirstOnes(s, n)) \in Seq(S)
  <2>1. n \in Nat /\ FirstOnes(s, n) \in [1 .. n -> Seq(S)]
    BY DEF FirstOnes
  <2> QED
    BY <2>1, FlattenIsSeq
<1>4. ASSUME NEW n \in 1 .. N
      PROVE  FlattenSeq(FirstOnes(s, n)) = FlattenSeq(FirstOnes(s, n - 1)) \o s[n]
  <2> DEFINE t == FirstOnes(s, n)
  <2>1. PICK m \in Nat : n = m + 1
    <3>1. n - 1 \in Nat /\ n = (n - 1) + 1
      OBVIOUS
    <3> QED
      BY <3>1
  <2>2. t \in [1 .. (m + 1) -> Seq(S)] /\ t[m + 1] = s[n]
    BY <2>1 DEF FirstOnes
  <2>3. FirstOnes(t, m) = FirstOnes(s, n - 1)
    BY <2>1 DEF FirstOnes
  <2> HIDE DEF t
  <2>4. FlattenSeq(t) = FlattenSeq(FirstOnes(t, m)) \o t[m + 1]
    BY <2>2, FlattenLonger
  <2> QED
    BY <2>2, <2>3, <2>4 DEF t
<1> QED
  BY <1>1, <1>2, <1>3, <1>4

(* The same, as one fact. *)
GrowsBy(s, N, S) ==
    /\ FlattenSeq(FirstOnes(s, 0)) = <<>>
    /\ FirstOnes(s, N) = s
    /\ \A n \in 0 .. N : FlattenSeq(FirstOnes(s, n)) \in Seq(S)
    /\ \A n \in 1 .. N :
           FlattenSeq(FirstOnes(s, n)) = FlattenSeq(FirstOnes(s, n - 1)) \o s[n]

LEMMA FlattenGrows ==
    ASSUME NEW S, NEW N \in Nat, NEW s \in [1 .. N -> Seq(S)]
    PROVE  GrowsBy(s, N, S)
BY FlattenUpTo DEF GrowsBy

(* The sequence c is s, of n elements, and then t, of m.                    *)
IsJoin(c, s, n, t, m, X) ==
    /\ c \in [1 .. (n + m) -> X]
    /\ \A k \in 1 .. n : c[k] = s[k]
    /\ \A k \in 1 .. m : c[n + k] = t[k]

LEMMA JoinIs ==
    ASSUME NEW X, NEW N \in Nat, NEW M \in Nat,
           NEW s \in [1 .. N -> X], NEW t \in [1 .. M -> X]
    PROVE  IsJoin(s \o t, s, N, t, M, X)
<1>1. s \in Seq(X) /\ t \in Seq(X) /\ Len(s) = N /\ Len(t) = M
  OBVIOUS
<1>2. s \o t \in Seq(X) /\ Len(s \o t) = N + M
  BY <1>1
<1>3. s \o t \in [1 .. (N + M) -> X]
  BY <1>2, LenProperties
<1>4. \A k \in 1 .. N : (s \o t)[k] = s[k]
  BY <1>1
<1>5. \A k \in 1 .. M : (s \o t)[N + k] = t[k]
  BY <1>1
<1> QED
  BY <1>3, <1>4, <1>5 DEF IsJoin

LEMMA FlattenJoin ==
    ASSUME NEW S, NEW N \in Nat, NEW M \in Nat,
           NEW a \in [1 .. N -> Seq(S)], NEW b \in [1 .. M -> Seq(S)]
    PROVE  FlattenSeq(a \o b) = FlattenSeq(a) \o FlattenSeq(b)
<1> DEFINE c == a \o b
<1>9. /\ c \in [1 .. (N + M) -> Seq(S)]
      /\ \A k \in 1 .. N : c[k] = a[k]
      /\ \A k \in 1 .. M : c[N + k] = b[k]
  <2>1. IsJoin(a \o b, a, N, b, M, Seq(S))
    BY JoinIs, Zenon
  <2> QED
    BY <2>1, Zenon DEF IsJoin
<1> HIDE DEF c
<1> DEFINE flat(n) == FlattenSeq(FirstOnes(b, n))
           T == {n \in 0 .. M : FlattenSeq(FirstOnes(c, N + n)) = FlattenSeq(a) \o flat(n)}
<1>1. /\ flat(0) = <<>> /\ FirstOnes(b, M) = b
      /\ \A n \in 0 .. M : flat(n) \in Seq(S)
      /\ \A n \in 1 .. M : flat(n) = flat(n - 1) \o b[n]
  BY <1>9, FlattenUpTo
<1>2. /\ FirstOnes(c, N + M) = c
      /\ \A n \in 1 .. N + M :
             FlattenSeq(FirstOnes(c, n)) = FlattenSeq(FirstOnes(c, n - 1)) \o c[n]
  <2>1. N + M \in Nat
    OBVIOUS
  <2> QED
    BY <1>9, <2>1, FlattenUpTo
<1>3. FlattenSeq(a) \in Seq(S)
  BY <1>9, FlattenIsSeq
<1> HIDE DEF flat
<1>4. 0 \in T
  <2>1. FirstOnes(c, N + 0) = a
    BY <1>9 DEF FirstOnes
  <2> QED
    BY <1>1, <1>3, <2>1, ConcatEmptySeq
<1>5. ASSUME NEW n \in 1 .. M, n - 1 \in T PROVE n \in T
  <2>1. N + n \in 1 .. N + M /\ (N + n) - 1 = N + (n - 1) /\ n \in 0 .. M /\ n - 1 \in 0 .. M
    OBVIOUS
  <2>2. FlattenSeq(FirstOnes(c, N + n)) = FlattenSeq(FirstOnes(c, N + (n - 1))) \o b[n]
    BY <1>2, <1>9, <2>1
  <2>3. FlattenSeq(FirstOnes(c, N + (n - 1))) = FlattenSeq(a) \o flat(n - 1)
    BY <1>5
  <2>4. (FlattenSeq(a) \o flat(n - 1)) \o b[n] = FlattenSeq(a) \o (flat(n - 1) \o b[n])
    <3>1. flat(n - 1) \in Seq(S) /\ b[n] \in Seq(S)
      BY <1>1, <1>9, <2>1
    <3> QED
      BY <1>3, <3>1, ConcatAssociative
  <2>5. flat(n) = flat(n - 1) \o b[n]
    BY <1>1
  <2> QED
    BY <2>1, <2>2, <2>3, <2>4, <2>5
<1>6. M \in 0 .. M
  OBVIOUS
<1>7. 0 .. M \subseteq T
  <2> HIDE DEF T
  <2> QED
    BY <1>4, <1>5, UpTo
<1>8. FlattenSeq(FirstOnes(c, N + M)) = FlattenSeq(a) \o flat(M)
  BY <1>6, <1>7
<1> QED
  BY <1>1, <1>2, <1>8 DEF flat, c

(* Nothing to flatten in any of them. *)
LEMMA FlattenNone ==
    ASSUME NEW N \in Nat, NEW s \in [1 .. N -> {<<>>}]
    PROVE  FlattenSeq(s) = <<>>
<1> DEFINE T == {n \in 0 .. N : FlattenSeq(FirstOnes(s, n)) = <<>>}
<1>1. <<>> \in Seq({}) /\ <<>> \o <<>> = <<>>
  BY EmptySeq, ConcatEmptySeq
<1>2. s \in [1 .. N -> Seq({})] /\ \A n \in 1 .. N : s[n] = <<>>
  BY <1>1
<1>3. /\ FlattenSeq(FirstOnes(s, 0)) = <<>> /\ FirstOnes(s, N) = s
      /\ \A n \in 1 .. N :
             FlattenSeq(FirstOnes(s, n)) = FlattenSeq(FirstOnes(s, n - 1)) \o s[n]
  BY <1>2, FlattenUpTo
<1>4. 0 \in T
  BY <1>3
<1>5. ASSUME NEW n \in 1 .. N, n - 1 \in T PROVE n \in T
  <2>1. n \in 0 .. N /\ FlattenSeq(FirstOnes(s, n - 1)) = <<>>
    BY <1>5
  <2> QED
    BY <1>1, <1>2, <1>3, <2>1
<1>6. N \in 0 .. N
  OBVIOUS
<1>7. 0 .. N \subseteq T
  <2> HIDE DEF T
  <2> QED
    BY <1>4, <1>5, UpTo
<1> QED
  BY <1>3, <1>6, <1>7

LEMMA FlattenSingles ==
    ASSUME NEW S, NEW N \in Nat, NEW s \in [1 .. N -> S]
    PROVE  FlattenSeq([k \in 1 .. N |-> <<s[k]>>]) = s
<1> DEFINE one == [k \in 1 .. N |-> <<s[k]>>]
           T == {n \in 0 .. N : FlattenSeq(FirstOnes(one, n)) = FirstOnes(s, n)}
<1>1. one \in [1 .. N -> Seq(S)] /\ \A n \in 1 .. N : one[n] = <<s[n]>>
  OBVIOUS
<1> HIDE DEF one
<1>2. /\ FlattenSeq(FirstOnes(one, 0)) = <<>> /\ FirstOnes(one, N) = one
      /\ \A n \in 1 .. N :
             FlattenSeq(FirstOnes(one, n)) = FlattenSeq(FirstOnes(one, n - 1)) \o one[n]
  BY <1>1, FlattenUpTo
<1>3. 0 \in T
  BY <1>2 DEF FirstOnes
<1>4. ASSUME NEW n \in 1 .. N, n - 1 \in T PROVE n \in T
  <2>1. n \in 0 .. N /\ FlattenSeq(FirstOnes(one, n - 1)) = FirstOnes(s, n - 1)
    BY <1>4
  <2>2. FirstOnes(s, n) = FirstOnes(s, n - 1) \o <<s[n]>>
    <3>1. PICK m \in Nat : n = m + 1 /\ m = n - 1
      <4>1. n - 1 \in Nat /\ n = (n - 1) + 1
        OBVIOUS
      <4> QED
        BY <4>1
    <3>2. FirstOnes(s, m + 1) \in Seq(S) /\ FirstOnes(s, m) \in Seq(S) /\ <<s[m + 1]>> \in Seq(S)
      BY <3>1 DEF FirstOnes
    <3>3. Len(FirstOnes(s, m)) = m /\ Len(FirstOnes(s, m + 1)) = m + 1
      BY <3>1 DEF FirstOnes
    <3> DEFINE u == FirstOnes(s, m) \o <<s[m + 1]>>
    <3>4. /\ u \in Seq(S) /\ Len(u) = m + 1
          /\ \A i \in 1 .. m + 1 : u[i] = IF i <= m THEN FirstOnes(s, m)[i] ELSE s[m + 1]
      BY <3>2, <3>3, ConcatProperties
    <3> HIDE DEF u
    <3>5. \A i \in 1 .. m + 1 : u[i] = FirstOnes(s, m + 1)[i]
      BY <3>4 DEF FirstOnes
    <3>6. u = FirstOnes(s, m + 1)
      BY <3>2, <3>3, <3>4, <3>5, SeqEqual
    <3> QED
      BY <3>1, <3>6 DEF u
  <2> QED
    BY <1>1, <1>2, <2>1, <2>2
<1>5. N \in 0 .. N
  OBVIOUS
<1>6. 0 .. N \subseteq T
  <2> HIDE DEF T
  <2> QED
    BY <1>3, <1>4, UpTo
<1>7. FirstOnes(s, N) = s
  BY DEF FirstOnes
<1> QED
  BY <1>2, <1>5, <1>6, <1>7 DEF one

----------------------------------------------------------------------------
(* What m makes of each element of a sequence, in one sequence.             *)
FlatMap(m, s) == FlattenSeq([k \in DOMAIN s |-> m[s[k]]])

LEMMA FlatMapIsSeq ==
    ASSUME NEW R, NEW S, NEW m \in [R -> Seq(S)], NEW s \in Seq(R)
    PROVE  FlatMap(m, s) \in Seq(S)
<1>1. Len(s) \in Nat /\ DOMAIN s = 1 .. Len(s)
  OBVIOUS
<1>2. [k \in DOMAIN s |-> m[s[k]]] \in [1 .. Len(s) -> Seq(S)]
  BY <1>1
<1> QED
  BY <1>1, <1>2, FlattenIsSeq DEF FlatMap

LEMMA FlatMapNothing ==
    ASSUME NEW m
    PROVE  FlatMap(m, <<>>) = <<>>
<1>1. [k \in DOMAIN <<>> |-> m[<<>>[k]]] \in [1 .. 0 -> {<<>>}]
  OBVIOUS
<1> QED
  BY <1>1, FlattenNone DEF FlatMap

LEMMA FlatMapOne ==
    ASSUME NEW R, NEW S, NEW m \in [R -> Seq(S)], NEW x \in R
    PROVE  FlatMap(m, <<x>>) = m[x]
<1> DEFINE s == [k \in DOMAIN <<x>> |-> m[<<x>>[k]]]
<1>1. s \in [1 .. (0 + 1) -> Seq(S)] /\ s[0 + 1] = m[x]
  OBVIOUS
<1>2. FirstOnes(s, 0) \in [1 .. 0 -> {<<>>}]
  BY DEF FirstOnes
<1> HIDE DEF s
<1>3. FlattenSeq(FirstOnes(s, 0)) = <<>>
  BY <1>2, FlattenNone
<1>4. FlattenSeq(s) = <<>> \o m[x]
  BY <1>1, <1>3, FlattenLonger
<1>5. <<>> \o m[x] = m[x]
  BY ConcatEmptySeq
<1> QED
  BY <1>4, <1>5 DEF FlatMap, s

(* It is the same one after the other. *)
Splits(m, s, t) == FlatMap(m, s \o t) = FlatMap(m, s) \o FlatMap(m, t)

LEMMA FlatMapJoin ==
    ASSUME NEW R, NEW S, NEW m \in [R -> Seq(S)], NEW s \in Seq(R), NEW t \in Seq(R)
    PROVE  Splits(m, s, t)
<1> DEFINE a == [k \in DOMAIN s |-> m[s[k]]]
           b == [k \in DOMAIN t |-> m[t[k]]]
           c == [k \in DOMAIN (s \o t) |-> m[(s \o t)[k]]]
<1>1. PICK N \in Nat, M \in Nat : N = Len(s) /\ M = Len(t)
  OBVIOUS
<1>2. DOMAIN s = 1 .. N /\ DOMAIN t = 1 .. M
  BY <1>1
<1>3. /\ s \o t \in Seq(R) /\ DOMAIN (s \o t) = 1 .. (N + M)
      /\ \A k \in 1 .. N : (s \o t)[k] = s[k]
      /\ \A k \in 1 .. M : (s \o t)[N + k] = t[k]
  BY <1>1
<1>4. a \in [1 .. N -> Seq(S)] /\ \A k \in 1 .. N : a[k] = m[s[k]]
  BY <1>2
<1>5. b \in [1 .. M -> Seq(S)] /\ \A k \in 1 .. M : b[k] = m[t[k]]
  BY <1>2
<1>6. /\ c \in [1 .. (N + M) -> Seq(S)]
      /\ \A k \in 1 .. N + M : c[k] = m[(s \o t)[k]]
  <2>1. \A k \in 1 .. (N + M) : (s \o t)[k] \in R
    BY <1>3
  <2> QED
    BY <1>3, <2>1
<1>7. a \in [1 .. N -> Seq(S)] /\ b \in [1 .. M -> Seq(S)]
  BY <1>4, <1>5
<1> HIDE DEF a, b, c
<1>8. /\ a \o b \in [1 .. (N + M) -> Seq(S)]
      /\ \A k \in 1 .. N : (a \o b)[k] = a[k]
      /\ \A k \in 1 .. M : (a \o b)[N + k] = b[k]
  <2>1. IsJoin(a \o b, a, N, b, M, Seq(S))
    BY <1>7, JoinIs, Zenon
  <2> QED
    BY <2>1, Zenon DEF IsJoin
<1>9. ASSUME NEW k \in 1 .. (N + M) PROVE c[k] = (a \o b)[k]
  <2>1. CASE k <= N
    <3>1. k \in 1 .. N /\ (a \o b)[k] = a[k]
      BY <1>8, <2>1
    <3>2. c[k] = m[(s \o t)[k]]
      BY <1>6, Zenon
    <3>3. (s \o t)[k] = s[k]
      BY <1>3, <3>1, Zenon
    <3>4. a[k] = m[s[k]]
      BY <1>4, <3>1, Zenon
    <3> QED
      BY <3>1, <3>2, <3>3, <3>4, Zenon
  <2>2. CASE k > N
    <3>1. PICK i \in 1 .. M : k = N + i
      <4>1. k - N \in 1 .. M /\ k = N + (k - N)
        BY <2>2
      <4> QED
        BY <4>1
    <3>2. (a \o b)[N + i] = b[i]
      BY <1>8
    <3>3. c[k] = m[(s \o t)[k]]
      BY <1>6, Zenon
    <3>4. (s \o t)[N + i] = t[i] /\ b[i] = m[t[i]]
      BY <1>3, <1>5, Zenon
    <3> QED
      BY <3>1, <3>2, <3>3, <3>4, Zenon
  <2>3. N \in Nat /\ M \in Nat /\ k \in Int
    OBVIOUS
  <2>4. k <= N \/ k > N
    BY <2>3
  <2> QED
    BY <2>1, <2>2, <2>4, Zenon
<1>10. c = a \o b
  <2>1. PICK X, d : X = Seq(S) /\ d = a \o b
    OBVIOUS
  <2>2. c \in [1 .. (N + M) -> X] /\ d \in [1 .. (N + M) -> X]
    BY <1>6, <1>8, <2>1
  <2>3. \A k \in 1 .. (N + M) : c[k] = d[k]
    BY <1>9, <2>1
  <2>4. c = d
    BY <2>2, <2>3
  <2> QED
    BY <2>1, <2>4
<1>11. FlattenSeq(a \o b) = FlattenSeq(a) \o FlattenSeq(b)
  <2>1. \A x \in [1 .. N -> Seq(S)], y \in [1 .. M -> Seq(S)] :
            FlattenSeq(x \o y) = FlattenSeq(x) \o FlattenSeq(y)
    BY FlattenJoin
  <2> QED
    BY <1>7, <2>1, Zenon
<1> QED
  BY <1>10, <1>11 DEF FlatMap, Splits, a, b, c

(* It is the same before and after f is flattened. *)
Passes(m, f, g) == FlatMap(m, FlattenSeq(f)) = FlattenSeq(g)

LEMMA FlatMapFlatten ==
    ASSUME NEW R, NEW S, NEW m \in [R -> Seq(S)], NEW f \in Seq(Seq(R)),
           NEW g, g = [k \in DOMAIN f |-> FlatMap(m, f[k])]
    PROVE  Passes(m, f, g)
<1>0. PICK N \in Nat : N = Len(f) /\ DOMAIN f = 1 .. N /\ f \in [1 .. N -> Seq(R)]
  OBVIOUS
<1> DEFINE T == {n \in 0 .. N : FlatMap(m, FlattenSeq(FirstOnes(f, n))) = FlattenSeq(FirstOnes(g, n))}
<1>1. g \in [1 .. N -> Seq(S)]
  BY <1>0, FlatMapIsSeq
<1>2. \A n \in 1 .. N : g[n] = FlatMap(m, f[n])
  BY <1>0
<1>3. /\ FlattenSeq(FirstOnes(f, 0)) = <<>> /\ FirstOnes(f, N) = f
      /\ \A n \in 0 .. N : FlattenSeq(FirstOnes(f, n)) \in Seq(R)
      /\ \A n \in 1 .. N :
             FlattenSeq(FirstOnes(f, n)) = FlattenSeq(FirstOnes(f, n - 1)) \o f[n]
  BY <1>0, FlattenUpTo
<1>4. /\ FlattenSeq(FirstOnes(g, 0)) = <<>> /\ FirstOnes(g, N) = g
      /\ \A n \in 1 .. N :
             FlattenSeq(FirstOnes(g, n)) = FlattenSeq(FirstOnes(g, n - 1)) \o g[n]
  BY <1>1, FlattenUpTo
<1>5. 0 \in T
  BY <1>3, <1>4, FlatMapNothing
<1>6. ASSUME NEW n \in 1 .. N, n - 1 \in T PROVE n \in T
  <2> DEFINE x == FlattenSeq(FirstOnes(f, n - 1))
  <2>1. n \in 0 .. N /\ n - 1 \in 0 .. N
    OBVIOUS
  <2>2. x \in Seq(R) /\ f[n] \in Seq(R) /\ FlattenSeq(FirstOnes(f, n)) = x \o f[n]
    BY <1>0, <1>3, <2>1
  <2>3. FlatMap(m, x) = FlattenSeq(FirstOnes(g, n - 1))
    BY <1>6
  <2> HIDE DEF x
  <2>4. FlatMap(m, x \o f[n]) = FlatMap(m, x) \o FlatMap(m, f[n])
    <3>1. Splits(m, x, f[n])
      BY <2>2, FlatMapJoin, Zenon
    <3> QED
      BY <3>1 DEF Splits
  <2> QED
    BY <1>2, <1>4, <2>1, <2>2, <2>3, <2>4
<1>7. N \in 0 .. N
  OBVIOUS
<1>8. 0 .. N \subseteq T
  <2> HIDE DEF T
  <2> QED
    BY <1>5, <1>6, UpTo
<1>9. FlatMap(m, FlattenSeq(FirstOnes(f, N))) = FlattenSeq(FirstOnes(g, N))
  BY <1>7, <1>8
<1> QED
  BY <1>3, <1>4, <1>9 DEF Passes

LEMMA FlatMapQuiet ==
    ASSUME NEW m, NEW R, NEW s \in Seq(R), \A k \in DOMAIN s : m[s[k]] = <<>>
    PROVE  FlatMap(m, s) = <<>>
<1>1. Len(s) \in Nat /\ DOMAIN s = 1 .. Len(s)
  OBVIOUS
<1>2. [k \in DOMAIN s |-> m[s[k]]] \in [1 .. Len(s) -> {<<>>}]
  BY <1>1
<1> QED
  BY <1>1, <1>2, FlattenNone DEF FlatMap

(* Flattened twice, from the inside or from the outside. *)
LEMMA FlattenTwice ==
    ASSUME NEW S, NEW f \in Seq(Seq(Seq(S))),
           NEW g, g = [k \in DOMAIN f |-> FlattenSeq(f[k])]
    PROVE  FlattenSeq(FlattenSeq(f)) = FlattenSeq(g)
<1> DEFINE m == [s \in Seq(S) |-> s]
<1>1. ASSUME NEW t \in Seq(Seq(S)) PROVE FlatMap(m, t) = FlattenSeq(t)
  <2>1. Len(t) \in Nat /\ DOMAIN t = 1 .. Len(t) /\ t \in [1 .. Len(t) -> Seq(S)]
    OBVIOUS
  <2>2. [k \in DOMAIN t |-> m[t[k]]] = t
    BY <2>1
  <2> QED
    BY <2>2 DEF FlatMap
<1>2. m \in [Seq(S) -> Seq(S)]
  OBVIOUS
<1> HIDE DEF m
<1>3. g = [k \in DOMAIN f |-> FlatMap(m, f[k])]
  <2>1. \A k \in DOMAIN f : f[k] \in Seq(Seq(S))
    OBVIOUS
  <2> QED
    BY <1>1, <2>1
<1>4. FlatMap(m, FlattenSeq(f)) = FlattenSeq(g)
  <2>1. Passes(m, f, g)
    BY <1>2, <1>3, FlatMapFlatten
  <2> QED
    BY <2>1 DEF Passes
<1>5. FlattenSeq(f) \in Seq(Seq(S))
  <2>1. Len(f) \in Nat /\ f \in [1 .. Len(f) -> Seq(Seq(S))]
    OBVIOUS
  <2> QED
    BY <2>1, FlattenIsSeq
<1> QED
  BY <1>1, <1>4, <1>5


(* The sequence s is as long as P, and it has the row of each k in P where  *)
(* k stands in P.                                                           *)
HasAt(s, i, r) == i \in DOMAIN s /\ s[i] = r

HasAll(s, P, row) ==
    /\ Len(s) = Cardinality(P) /\ IsFiniteSet(P)
    /\ \A k \in P : HasAt(s, Cardinality(P \intersect (1 .. k)), row[k])

(* Some elements, in a sequence each. *)
LEMMA FlattenSome ==
    ASSUME NEW S, NEW N \in Nat, NEW row \in [1 .. N -> S], NEW P \in SUBSET (1 .. N),
           NEW f, f = [k \in 1 .. N |-> IF k \in P THEN <<row[k]>> ELSE <<>>]
    PROVE  HasAll(FlattenSeq(f), P, row)
<1> DEFINE upTo(n) == P \intersect (1 .. n)
           flat(n) == FlattenSeq(FirstOnes(f, n))
           T == {n \in 0 .. N :
                    /\ Len(flat(n)) = Cardinality(upTo(n)) /\ IsFiniteSet(upTo(n))
                    /\ \A k \in upTo(n) : HasAt(flat(n), Cardinality(upTo(k)), row[k])}
<1>1. f \in [1 .. N -> Seq(S)]
  <2>1. \A k \in 1 .. N : <<row[k]>> \in Seq(S)
    OBVIOUS
  <2> QED
    BY <2>1, EmptySeq, Zenon
<1>2. \A k \in 1 .. N : f[k] = IF k \in P THEN <<row[k]>> ELSE <<>>
  BY Zenon
<1>3. /\ flat(0) = <<>> /\ FirstOnes(f, N) = f
      /\ \A n \in 0 .. N : flat(n) \in Seq(S)
      /\ \A n \in 1 .. N : flat(n) = flat(n - 1) \o f[n]
  <2>1. \A g \in [1 .. N -> Seq(S)] :
            /\ FlattenSeq(FirstOnes(g, 0)) = <<>> /\ FirstOnes(g, N) = g
            /\ \A n \in 0 .. N : FlattenSeq(FirstOnes(g, n)) \in Seq(S)
            /\ \A n \in 1 .. N :
                   FlattenSeq(FirstOnes(g, n)) = FlattenSeq(FirstOnes(g, n - 1)) \o g[n]
    BY FlattenUpTo
  <2> QED
    BY <1>1, <2>1, Zenon
<1>4. upTo(0) = {} /\ upTo(N) = P
  <2>1. 1 .. 0 = {}
    OBVIOUS
  <2> QED
    BY <2>1, Zenon
<1>5. ASSUME NEW n \in 1 .. N
      PROVE  /\ n \in P => upTo(n) = upTo(n - 1) \union {n} /\ n \notin upTo(n - 1)
             /\ n \notin P => upTo(n) = upTo(n - 1)
  OBVIOUS
<1> HIDE DEF flat, upTo
<1>6. 0 \in T
  <2>1. Cardinality({}) = 0 /\ IsFiniteSet({}) /\ Len(<<>>) = 0 /\ 0 \in 0 .. N
    BY FS_EmptySet
  <2> QED
    BY <1>3, <1>4, <2>1, Zenon
<1>7. ASSUME NEW n \in 1 .. N, n - 1 \in T PROVE n \in T
  <2>1. n \in 0 .. N /\ n - 1 \in 0 .. N
    OBVIOUS
  <2>2. PICK s \in Seq(S) : s = flat(n - 1)
    BY <1>3, <2>1, Zenon
  <2>3. PICK m \in Nat : m = Len(s) /\ DOMAIN s = 1 .. m
    BY <2>2, LenProperties
  <2>4. /\ m = Cardinality(upTo(n - 1)) /\ IsFiniteSet(upTo(n - 1))
        /\ \A k \in upTo(n - 1) : HasAt(s, Cardinality(upTo(k)), row[k])
    BY <1>7, <2>2, <2>3, Zenon
  <2>5. flat(n) = s \o f[n]
    BY <1>3, <2>2, Zenon
  <2>6. CASE n \notin P
    <3>1. upTo(n) = upTo(n - 1) /\ f[n] = <<>>
      BY <1>2, <1>5, <2>6, Zenon
    <3>2. flat(n) = s
      BY <2>2, <2>5, <3>1, ConcatEmptySeq
    <3> QED
      BY <2>1, <2>3, <2>4, <3>1, <3>2, Zenon
  <2>7. CASE n \in P
    <3>1. /\ upTo(n) = upTo(n - 1) \union {n} /\ n \notin upTo(n - 1)
          /\ f[n] = <<row[n]>> /\ row[n] \in S
      BY <1>2, <1>5, <2>7, Zenon
    <3>2. PICK r \in S : r = row[n]
      BY <3>1
    <3> DEFINE t == s \o <<r>>
    <3>3. t \in Seq(S) /\ Len(t) = m + 1
      BY <2>3
    <3>4. (\A i \in 1 .. m : t[i] = s[i]) /\ t[m + 1] = r
      BY <2>3
    <3> HIDE DEF t
    <3>5. DOMAIN t = 1 .. m + 1 /\ m + 1 \in 1 .. m + 1 /\ \A i \in 1 .. m : i \in 1 .. m + 1
      BY <3>3, LenProperties
    <3>6. flat(n) = t
      BY <2>5, <3>1, <3>2, Zenon DEF t
    <3>7. IsFiniteSet(upTo(n)) /\ Cardinality(upTo(n)) = m + 1
      BY <2>4, <3>1, FS_AddElement
    <3>8. ASSUME NEW k \in upTo(n) PROVE HasAt(t, Cardinality(upTo(k)), row[k])
      <4>1. CASE k = n
        BY <3>2, <3>4, <3>5, <3>7, <4>1, Zenon DEF HasAt
      <4>2. CASE k # n
        <5>1. HasAt(s, Cardinality(upTo(k)), row[k])
          BY <2>4, <3>1, <4>2, Zenon
        <5> QED
          BY <2>3, <3>4, <3>5, <5>1, Zenon DEF HasAt
      <4> QED
        BY <4>1, <4>2, Zenon
    <3> QED
      BY <2>1, <3>3, <3>6, <3>7, <3>8, Zenon
  <2> QED
    BY <2>6, <2>7, Zenon
<1>8. N \in 0 .. N
  OBVIOUS
<1> HIDE DEF T
<1>9. 0 .. N \subseteq T
  BY <1>6, <1>7, UpTo
<1>10. N \in T
  BY <1>8, <1>9, Zenon
<1> USE DEF T
<1> QED
  BY <1>3, <1>4, <1>10, Zenon DEF flat, HasAll, upTo
============================================================================
