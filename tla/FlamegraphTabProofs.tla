------------------------ MODULE FlamegraphTabProofs ------------------------
(* Proofs about FlamegraphTab for any profiles, names and screen: first the *)
(* weights and the nodes, then building, merging and sorting, the layout,   *)
(* the walks of cursor and zoom, and the actions one by one.                *)
EXTENDS FlamegraphTab, OperatorProofs

Sample == [stack: Seq(Names) \ {<<>>}, value: Nat \ {0}]

LEMMA SampleParts ==
    ASSUME NEW r \in Seq(Sample), NEW k \in DOMAIN r
    PROVE  /\ r[k].stack \in Seq(Names) /\ r[k].stack # <<>>
           /\ r[k].value \in Nat /\ r[k].value > 0
<1>1. r[k] \in Sample
  OBVIOUS
<1> QED
  BY <1>1 DEF Sample

----------------------------------------------------------------------------
(* What samples weigh together. *)
LEMMA WeighIsNat ==
    ASSUME NEW r \in Seq(Sample), NEW A
    PROVE  Weigh(r, A) \in Nat
<1> DEFINE a == [k \in DOMAIN r |-> IF k \in A THEN r[k].value ELSE 0]
<1>1. Len(r) \in Nat /\ DOMAIN r = 1 .. Len(r)
  OBVIOUS
<1>2. a \in [1 .. Len(r) -> Nat]
  BY <1>1, SampleParts
<1> HIDE DEF a
<1>3. SumOf(a) \in Nat
  BY <1>1, <1>2, SumIsNat
<1> QED
  BY <1>3 DEF Weigh, a

LEMMA WeighGrows ==
    ASSUME NEW r \in Seq(Sample), NEW A, NEW B, A \cap DOMAIN r \subseteq B
    PROVE  Weigh(r, A) <= Weigh(r, B)
<1> DEFINE a == [k \in DOMAIN r |-> IF k \in A THEN r[k].value ELSE 0]
           b == [k \in DOMAIN r |-> IF k \in B THEN r[k].value ELSE 0]
<1>1. Len(r) \in Nat /\ DOMAIN r = 1 .. Len(r)
  OBVIOUS
<1>2. a \in [1 .. Len(r) -> Nat] /\ b \in [1 .. Len(r) -> Nat]
  BY <1>1, SampleParts
<1>3. \A k \in 1 .. Len(r) : a[k] <= b[k]
  BY <1>1, SampleParts
<1> HIDE DEF a, b
<1>4. SumOf(a) <= SumOf(b)
  BY <1>1, <1>2, <1>3, SumsCompare
<1> QED
  BY <1>4 DEF Weigh, a, b

LEMMA WeighUnion ==
    ASSUME NEW r \in Seq(Sample), NEW A, NEW B, A \cap B = {}
    PROVE  Weigh(r, A \union B) = Weigh(r, A) + Weigh(r, B)
<1> DEFINE a == [k \in DOMAIN r |-> IF k \in A THEN r[k].value ELSE 0]
           b == [k \in DOMAIN r |-> IF k \in B THEN r[k].value ELSE 0]
           c == [k \in DOMAIN r |-> IF k \in A \union B THEN r[k].value ELSE 0]
<1>1. Len(r) \in Nat /\ DOMAIN r = 1 .. Len(r)
  OBVIOUS
<1>2. /\ a \in [1 .. Len(r) -> Nat] /\ b \in [1 .. Len(r) -> Nat]
      /\ c \in [1 .. Len(r) -> Nat]
  BY <1>1, SampleParts
<1>3. \A k \in 1 .. Len(r) : c[k] = a[k] + b[k]
  BY <1>1, SampleParts
<1> HIDE DEF a, b, c
<1>4. SumOf(c) = SumOf(a) + SumOf(b)
  <2>1. PICK N \in Nat : N = Len(r)
    BY <1>1
  <2>2. /\ a \in [1 .. N -> Nat] /\ b \in [1 .. N -> Nat] /\ c \in [1 .. N -> Nat]
        /\ \A k \in 1 .. N : c[k] = a[k] + b[k]
    BY <1>2, <1>3, <2>1
  <2> QED
    BY ONLY <2>2, SumsAdd, Zenon
<1> QED
  BY <1>4 DEF Weigh, a, b, c

(* Samples that arrive later weigh on their own. *)
LEMMA WeighJoined ==
    ASSUME NEW r \in Seq(Sample), NEW t \in Seq(Sample), NEW A, NEW B, NEW C,
           \A k \in DOMAIN r : k \in C <=> k \in A,
           \A k \in DOMAIN t : Len(r) + k \in C <=> k \in B
    PROVE  Weigh(r \o t, C) = Weigh(r, A) + Weigh(t, B)
<1> DEFINE a == [k \in DOMAIN r |-> IF k \in A THEN r[k].value ELSE 0]
           b == [k \in DOMAIN t |-> IF k \in B THEN t[k].value ELSE 0]
           c == [k \in DOMAIN (r \o t) |-> IF k \in C THEN (r \o t)[k].value ELSE 0]
<1>1. /\ Len(r) \in Nat /\ DOMAIN r = 1 .. Len(r)
      /\ Len(t) \in Nat /\ DOMAIN t = 1 .. Len(t)
      /\ r \o t \in Seq(Sample) /\ DOMAIN (r \o t) = 1 .. (Len(r) + Len(t))
      /\ \A k \in 1 .. Len(r) : (r \o t)[k] = r[k]
      /\ \A k \in 1 .. Len(t) : (r \o t)[Len(r) + k] = t[k]
  OBVIOUS
<1>2. /\ a \in [1 .. Len(r) -> Nat] /\ b \in [1 .. Len(t) -> Nat]
      /\ c \in [1 .. (Len(r) + Len(t)) -> Nat]
  BY <1>1, SampleParts
<1>3. \A k \in 1 .. Len(r) : c[k] = a[k]
  BY <1>1
<1>4. \A k \in 1 .. Len(t) : c[Len(r) + k] = b[k]
  BY <1>1
<1> HIDE DEF a, b, c
<1>5. SumOf(c) = SumOf(a) + SumOf(b)
  BY <1>1, <1>2, <1>3, <1>4, SumsJoin
<1> QED
  BY <1>5, Zenon DEF Weigh, a, b, c

LEMMA WeighNothing ==
    ASSUME NEW r \in Seq(Sample), NEW A, A \cap DOMAIN r = {}
    PROVE  Weigh(r, A) = 0
<1>1. A \cap {} = {}
  OBVIOUS
<1>2. Weigh(r, A \union {}) = Weigh(r, A) + Weigh(r, {})
  BY <1>1, WeighUnion
<1>3. A \union {} = A
  OBVIOUS
<1>4. Weigh(r, A) \in Nat /\ Weigh(r, {}) \in Nat /\ Weigh(r, A) <= Weigh(r, {})
  BY WeighIsNat, WeighGrows
<1>5. Weigh(r, {} \union {}) = Weigh(r, {}) + Weigh(r, {}) /\ {} \union {} = {}
  BY WeighUnion
<1> QED
  BY <1>3, <1>4, <1>5

LEMMA WeighSample ==
    ASSUME NEW r \in Seq(Sample), NEW A, NEW k \in DOMAIN r, k \in A
    PROVE  r[k].value <= Weigh(r, A)
<1> DEFINE a == [j \in DOMAIN r |-> IF j \in A THEN r[j].value ELSE 0]
<1>1. Len(r) \in Nat /\ DOMAIN r = 1 .. Len(r)
  OBVIOUS
<1>2. a \in [1 .. Len(r) -> Nat] /\ a[k] = r[k].value
  BY <1>1, SampleParts
<1> HIDE DEF a
<1>3. a[k] <= SumOf(a)
  BY <1>1, <1>2, SumHasTerm
<1> QED
  BY <1>2, <1>3 DEF Weigh, a

(* One sample. *)
LEMMA WeighOne ==
    ASSUME NEW s \in Sample, NEW A
    PROVE  Weigh(<<s>>, A) = IF 1 \in A THEN s.value ELSE 0
<1> DEFINE a == [k \in 1 .. 1 |-> IF k \in A THEN s.value ELSE 0]
<1>1. s.value \in Nat
  BY DEF Sample
<1>2. Weigh(<<s>>, A) = SumOf(a)
  <2>1. DOMAIN <<s>> = 1 .. 1 /\ <<s>>[1] = s
    OBVIOUS
  <2>2. [k \in DOMAIN <<s>> |-> IF k \in A THEN <<s>>[k].value ELSE 0] = a
    BY <2>1
  <2> HIDE DEF a
  <2> QED
    BY <2>2, Zenon DEF Weigh
<1>3. Len(a) = 1 /\ 1 \in Nat /\ a[1] = IF 1 \in A THEN s.value ELSE 0
  OBVIOUS
<1> HIDE DEF a
<1>4. PICK f : Sums(f, 1, a) /\ SumOf(a) = f[1]
  <2>1. \E f : Sums(f, Len(a), a) /\ SumOf(a) = f[Len(a)]
    BY <1>3, SumIsLast
  <2> QED
    BY <1>3, <2>1
<1>5. f[0] = 0 /\ f[1] = f[0] + a[1]
  BY <1>4 DEF Sums
<1> QED
  BY <1>1, <1>2, <1>3, <1>4, <1>5

----------------------------------------------------------------------------
(* Prefixes. *)
LEMMA PrefixPoints ==
    ASSUME NEW X, NEW p \in Seq(X), NEW s \in Seq(X)
    PROVE  IsPrefix(p, s) <=> Len(p) <= Len(s) /\ \A i \in 1 .. Len(p) : p[i] = s[i]
<1>1. CASE Len(p) <= Len(s)
  <2>1. /\ SubSeq(p, 1, Len(p)) = [i \in 1 .. Len(p) |-> p[i]]
        /\ SubSeq(s, 1, Len(p)) = [i \in 1 .. Len(p) |-> s[i]]
    BY <1>1
  <2> QED
    BY <1>1, <2>1 DEF IsPrefix
<1>2. CASE ~(Len(p) <= Len(s))
  BY <1>2 DEF IsPrefix
<1> QED
  BY <1>1, <1>2

LEMMA SameSeq ==
    ASSUME NEW X, NEW p \in Seq(X), NEW s \in Seq(X), Len(p) = Len(s),
           \A i \in 1 .. Len(p) : p[i] = s[i]
    PROVE  p = s
BY SeqEqual

LEMMA InPrefixes ==
    ASSUME NEW X, NEW s \in Seq(X), NEW p
    PROVE  p \in Prefixes(s) <=> p \in Seq(X) /\ IsPrefix(p, s)
<1>1. ASSUME NEW l \in 0 .. Len(s)
      PROVE  /\ SubSeq(s, 1, l) \in Seq(X) /\ Len(SubSeq(s, 1, l)) = l
             /\ \A i \in 1 .. l : SubSeq(s, 1, l)[i] = s[i]
  <2>1. l \in Nat /\ Len(s) \in Nat
    OBVIOUS
  <2>2. SubSeq(s, 1, l) = [i \in 1 .. l |-> s[i]]
    OBVIOUS
  <2>3. \A i \in 1 .. l : s[i] \in X
    OBVIOUS
  <2> QED
    BY <2>1, <2>2, <2>3
<1>2. ASSUME p \in Prefixes(s) PROVE p \in Seq(X) /\ IsPrefix(p, s)
  <2>1. PICK l \in 0 .. Len(s) : p = SubSeq(s, 1, l)
    BY <1>2 DEF Prefixes
  <2>2. /\ p \in Seq(X) /\ Len(p) = l /\ l <= Len(s)
        /\ \A i \in 1 .. Len(p) : p[i] = s[i]
    BY <1>1, <2>1
  <2> QED
    BY <2>2, PrefixPoints
<1>3. ASSUME p \in Seq(X), IsPrefix(p, s) PROVE p \in Prefixes(s)
  <2>1. Len(p) \in 0 .. Len(s) /\ \A i \in 1 .. Len(p) : p[i] = s[i]
    BY <1>3, PrefixPoints
  <2>2. p = SubSeq(s, 1, Len(p))
    BY <1>1, <1>3, <2>1, SameSeq
  <2> QED
    BY <2>1, <2>2 DEF Prefixes
<1> QED
  BY <1>2, <1>3

LEMMA AppendPoints ==
    ASSUME NEW X, NEW p \in Seq(X), NEW x \in X
    PROVE  /\ Append(p, x) \in Seq(X) /\ Len(Append(p, x)) = Len(p) + 1
           /\ Append(p, x)[Len(p) + 1] = x
           /\ \A i \in 1 .. Len(p) : Append(p, x)[i] = p[i]
           /\ Append(p, x) # <<>> /\ Append(p, x) # p
BY AppendProperties

(* A child of p begins s if p does and the name comes next. *)
LEMMA ChildIsPrefix ==
    ASSUME NEW X, NEW p \in Seq(X), NEW s \in Seq(X), NEW x \in X
    PROVE  IsPrefix(Append(p, x), s)
               <=> IsPrefix(p, s) /\ p # s /\ s[Len(p) + 1] = x
<1> DEFINE q == Append(p, x)
<1>1. /\ q \in Seq(X) /\ Len(q) = Len(p) + 1 /\ q[Len(p) + 1] = x
      /\ \A i \in 1 .. Len(p) : q[i] = p[i]
  BY AppendPoints
<1> HIDE DEF q
<1>2. Len(p) \in Nat /\ Len(s) \in Nat
  OBVIOUS
<1>3. IsPrefix(q, s) <=> Len(q) <= Len(s) /\ \A i \in 1 .. Len(q) : q[i] = s[i]
  BY <1>1, PrefixPoints
<1>4. IsPrefix(p, s) <=> Len(p) <= Len(s) /\ \A i \in 1 .. Len(p) : p[i] = s[i]
  BY PrefixPoints
<1>5. ASSUME IsPrefix(q, s) PROVE IsPrefix(p, s) /\ p # s /\ s[Len(p) + 1] = x
  BY <1>1, <1>2, <1>3, <1>4, <1>5
<1>6. ASSUME IsPrefix(p, s), p # s, s[Len(p) + 1] = x PROVE IsPrefix(q, s)
  <2>1. Len(p) # Len(s)
    BY <1>4, <1>6, SameSeq
  <2>2. Len(q) <= Len(s)
    BY <1>1, <1>2, <1>4, <1>6, <2>1
  <2>3. ASSUME NEW i \in 1 .. Len(q) PROVE q[i] = s[i]
    <3>1. i = Len(p) + 1 \/ i \in 1 .. Len(p)
      BY <1>1, <1>2
    <3> QED
      BY <1>1, <1>4, <1>6, <3>1
  <2> QED
    BY <1>3, <2>2, <2>3
<1> QED
  BY <1>5, <1>6 DEF q

LEMMA PrefixItself ==
    ASSUME NEW X, NEW s \in Seq(X)
    PROVE  IsPrefix(<<>>, s) /\ IsPrefix(s, s)
<1>1. <<>> \in Seq(X) /\ Len(<<>>) = 0 /\ Len(s) \in Nat
  OBVIOUS
<1>2. Len(s) <= Len(s) /\ \A i \in 1 .. Len(s) : s[i] = s[i]
  BY <1>1
<1>3. IsPrefix(s, s)
  BY <1>2, PrefixPoints
<1>4. IsPrefix(<<>>, s)
  <2>1. PICK e \in Seq(X) : e = <<>> /\ Len(e) = 0
    BY <1>1
  <2>2. Len(e) <= Len(s) /\ \A i \in 1 .. Len(e) : e[i] = s[i]
    BY <1>1, <2>1
  <2> QED
    BY <2>1, <2>2, PrefixPoints
<1> QED
  BY <1>3, <1>4

LEMMA PrefixesAreFinite ==
    ASSUME NEW X, NEW s \in Seq(X)
    PROVE  IsFiniteSet(Prefixes(s))
<1>1. IsFiniteSet(0 .. Len(s))
  BY FS_Interval
<1> DEFINE first == [l \in 0 .. Len(s) |-> SubSeq(s, 1, l)]
<1>2. first \in Surjection(0 .. Len(s), Prefixes(s))
  BY DEF Surjection, Prefixes
<1> QED
  BY <1>1, <1>2, FS_Surjection

----------------------------------------------------------------------------
(* One node: its children's names are distinct, and indexed at their place. *)
Indices == UNION {[S -> Nat] : S \in SUBSET Names}

Node == [total: Nat, self: Nat, names: Seq(Names), index: Indices]

Indexed(node) ==
    /\ Distinct(node.names)
    /\ DOMAIN node.index = ToSet(node.names)
    /\ \A i \in DOMAIN node.names : node.index[node.names[i]] = i

LEMMA PlaceIs ==
    ASSUME NEW s, Distinct(s), NEW i \in DOMAIN s
    PROVE  PlaceOf(s, s[i]) = i
BY DEF PlaceOf, Distinct

LEMMA PushedIsIndexed ==
    ASSUME NEW node \in Node, Indexed(node), NEW fresh \in Seq(Names), Distinct(fresh),
           \A i \in DOMAIN fresh : ~HasChild(node, fresh[i])
    PROVE  LET new == PushChildren(node, fresh)
           IN /\ new \in Node /\ Indexed(new)
              /\ new.total = node.total /\ new.self = node.self
              /\ ToSet(new.names) = ToSet(node.names) \union ToSet(fresh)
<1> DEFINE new == PushChildren(node, fresh)
           old == node.names
           both == old \o fresh
<1>1. /\ old \in Seq(Names) /\ both \in Seq(Names)
      /\ Len(old) \in Nat /\ DOMAIN old = 1 .. Len(old)
      /\ Len(fresh) \in Nat /\ DOMAIN fresh = 1 .. Len(fresh)
      /\ DOMAIN both = 1 .. (Len(old) + Len(fresh))
      /\ \A i \in DOMAIN old : both[i] = old[i]
      /\ \A i \in DOMAIN fresh : both[Len(old) + i] = fresh[i]
  BY DEF Node
<1>2. \A i \in DOMAIN both : i \in DOMAIN old \/ i - Len(old) \in DOMAIN fresh
  BY <1>1
<1>3. DOMAIN node.index = ToSet(old)
  BY DEF Indexed
<1>4. \A i \in DOMAIN old, j \in DOMAIN fresh : old[i] # fresh[j]
  BY <1>3 DEF HasChild, ToSet
<1>5. Distinct(both)
  <2> SUFFICES ASSUME NEW i \in DOMAIN both, NEW j \in DOMAIN both, both[i] = both[j]
               PROVE  i = j
    BY DEF Distinct
  <2> HIDE DEF both, old
  <2>1. CASE i \in DOMAIN old /\ j \in DOMAIN old
    BY <1>1, <2>1 DEF Indexed, Distinct, old
  <2>2. CASE i \in DOMAIN old /\ j - Len(old) \in DOMAIN fresh
    <3>1. both[i] = old[i] /\ both[Len(old) + (j - Len(old))] = fresh[j - Len(old)]
      BY <1>1, <2>2
    <3>2. Len(old) + (j - Len(old)) = j
      BY <1>1
    <3> QED
      BY <1>4, <2>2, <3>1, <3>2
  <2>3. CASE j \in DOMAIN old /\ i - Len(old) \in DOMAIN fresh
    <3>1. both[j] = old[j] /\ both[Len(old) + (i - Len(old))] = fresh[i - Len(old)]
      BY <1>1, <2>3
    <3>2. Len(old) + (i - Len(old)) = i
      BY <1>1
    <3> QED
      BY <1>4, <2>3, <3>1, <3>2
  <2>4. CASE i - Len(old) \in DOMAIN fresh /\ j - Len(old) \in DOMAIN fresh
    <3>1. /\ both[Len(old) + (i - Len(old))] = fresh[i - Len(old)]
          /\ both[Len(old) + (j - Len(old))] = fresh[j - Len(old)]
      BY <1>1, <2>4
    <3>2. Len(old) + (i - Len(old)) = i /\ Len(old) + (j - Len(old)) = j
      BY <1>1
    <3>3. i - Len(old) = j - Len(old)
      BY <2>4, <3>1, <3>2 DEF Distinct
    <3> QED
      BY <1>1, <3>3
  <2> QED
    BY <1>2, <2>1, <2>2, <2>3, <2>4
<1>6. ToSet(both) = ToSet(old) \union ToSet(fresh)
  <2>1. ASSUME NEW x \in ToSet(both) PROVE x \in ToSet(old) \union ToSet(fresh)
    <3>1. PICK i \in DOMAIN both : x = both[i]
      BY DEF ToSet
    <3> HIDE DEF both, old
    <3>2. CASE i \in DOMAIN old
      BY <1>1, <3>1, <3>2 DEF ToSet
    <3>3. CASE i - Len(old) \in DOMAIN fresh
      <4>1. both[Len(old) + (i - Len(old))] = fresh[i - Len(old)]
        BY <1>1, <3>3
      <4>2. Len(old) + (i - Len(old)) = i
        BY <1>1
      <4> QED
        BY <3>1, <3>3, <4>1, <4>2 DEF ToSet
    <3> QED
      BY <1>2, <3>2, <3>3
  <2>2. ASSUME NEW i \in DOMAIN old PROVE old[i] \in ToSet(both)
    <3> HIDE DEF both, old
    <3>1. i \in DOMAIN both /\ both[i] = old[i]
      BY <1>1
    <3> QED
      BY <3>1 DEF ToSet
  <2>3. ASSUME NEW i \in DOMAIN fresh PROVE fresh[i] \in ToSet(both)
    <3> HIDE DEF both, old
    <3>1. Len(old) + i \in DOMAIN both /\ both[Len(old) + i] = fresh[i]
      BY <1>1
    <3> QED
      BY <3>1 DEF ToSet
  <2> QED
    BY <2>1, <2>2, <2>3 DEF ToSet
<1> DEFINE index == [name \in ToSet(old) \union ToSet(fresh) |->
                        IF HasChild(node, name) THEN node.index[name]
                        ELSE PlaceOf(both, name)]
<1>7. new = [node EXCEPT !.names = both, !.index = index]
  BY <1>3, Zenon DEF PushChildren
<1>8. /\ new.names = both /\ new.index = index
      /\ new.total = node.total /\ new.self = node.self
      /\ new = [total |-> node.total, self |-> node.self, names |-> both, index |-> index]
  <2> HIDE DEF index, both, new
  <2> QED
    BY <1>7 DEF Node
<1>9. ASSUME NEW i \in DOMAIN both PROVE index[both[i]] = i
  <2>1. both[i] \in ToSet(old) \union ToSet(fresh) /\ PlaceOf(both, both[i]) = i
    <3> HIDE DEF both
    <3> QED
      BY <1>5, <1>6, PlaceIs DEF ToSet
  <2>2. CASE HasChild(node, both[i])
    <3>1. PICK j \in DOMAIN old : both[i] = old[j]
      BY <1>3, <2>2 DEF HasChild, ToSet
    <3>2. j \in DOMAIN both /\ both[j] = old[j]
      BY <1>1
    <3>3. j = i
      <4> HIDE DEF both
      <4> QED
        BY <1>5, <3>1, <3>2 DEF Distinct
    <3>4. node.index[old[j]] = j
      BY DEF Indexed
    <3> HIDE DEF both, old
    <3> QED
      BY <2>1, <2>2, <3>1, <3>3, <3>4
  <2> QED
    BY <2>1, <2>2
<1> HIDE DEF both, old, new
<1>10. index \in Indices
  <2>1. \A x \in ToSet(both) : \E i \in DOMAIN both : x = both[i]
    BY DEF ToSet
  <2>2. \A x \in ToSet(both) : index[x] \in Nat /\ x \in Names
    <3> HIDE DEF index
    <3>1. \A i \in DOMAIN both : i \in Nat /\ both[i] \in Names
      BY <1>1
    <3> QED
      BY <1>9, <2>1, <3>1
  <2>3. index \in [ToSet(both) -> Nat] /\ ToSet(both) \in SUBSET Names
    BY <1>6, <2>2
  <2> HIDE DEF index
  <2> QED
    BY <2>3 DEF Indices
<1>11. DOMAIN index = ToSet(both)
  BY <1>6
<1> HIDE DEF index
<1>12. new \in Node
  BY <1>1, <1>8, <1>10 DEF Node
<1>13. Indexed(new)
  BY <1>5, <1>8, <1>9, <1>11 DEF Indexed
<1> QED
  BY <1>6, <1>8, <1>12, <1>13 DEF new, old

(* A node with more weight than another. *)
Heavier(new, node, total, self) ==
    new.total = node.total + total /\ new.self = node.self + self

(* add_stack and merge, at a node they come by. *)
LEMMA ExtendedIsIndexed ==
    ASSUME NEW node \in Node, Indexed(node), NEW total \in Nat, NEW self \in Nat,
           NEW s \in Seq(Names), Distinct(s)
    PROVE  LET new == Extended(node, total, self, s)
           IN /\ new \in Node /\ Indexed(new)
              /\ Heavier(new, node, total, self)
              /\ ToSet(new.names) = ToSet(node.names) \union ToSet(s)
<1> DEFINE places == {i \in DOMAIN s : ~HasChild(node, s[i])}
           fresh == Picked(s, places)
           heavier == [node EXCEPT !.total = @ + total, !.self = @ + self]
<1>1. /\ fresh \in Seq(Names) /\ ToSet(fresh) = {s[i] : i \in places}
      /\ Distinct(fresh)
  BY PickedIs
<1>2. /\ heavier \in Node
      /\ heavier.total = node.total + total /\ heavier.self = node.self + self
      /\ heavier.names = node.names /\ heavier.index = node.index
  <2>1. PICK a \in Nat, b \in Nat, c \in Seq(Names), d \in Indices :
            node = [total |-> a, self |-> b, names |-> c, index |-> d]
    BY DEF Node
  <2>2. heavier = [total |-> a + total, self |-> b + self, names |-> c, index |-> d]
    <3>1. /\ node.total = a /\ node.self = b
          /\ DOMAIN node = {"total", "self", "names", "index"}
          /\ node.names = c /\ node.index = d
      BY <2>1
    <3>2. /\ heavier.total = a + total /\ heavier.self = b + self
          /\ heavier.names = c /\ heavier.index = d
      BY <3>1
    <3>3. heavier = [x \in {"total", "self", "names", "index"} |-> heavier[x]]
      BY <3>1
    <3> HIDE DEF heavier
    <3> QED
      BY <3>2, <3>3
  <2>3. a + total \in Nat /\ b + self \in Nat
    OBVIOUS
  <2> HIDE DEF heavier
  <2> QED
    BY <2>1, <2>2, <2>3 DEF Node
<1>3. Extended(node, total, self, s) = PushChildren(heavier, fresh)
  BY DEF Extended
<1> HIDE DEF heavier, fresh
<1>4. Indexed(heavier)
  BY <1>2 DEF Indexed
<1>5. \A i \in DOMAIN fresh : ~HasChild(heavier, fresh[i])
  <2>1. \A i \in DOMAIN fresh : fresh[i] \in {s[j] : j \in places}
    BY <1>1 DEF ToSet
  <2> QED
    BY <1>2, <2>1 DEF HasChild
<1>6. ToSet(node.names) \union ToSet(fresh) = ToSet(node.names) \union ToSet(s)
  <2>1. \A i \in DOMAIN s : i \in places \/ s[i] \in ToSet(node.names)
    BY DEF HasChild, Indexed
  <2> QED
    BY <1>1, <2>1 DEF ToSet
<1>7. LET new == PushChildren(heavier, fresh)
      IN /\ new \in Node /\ Indexed(new)
         /\ new.total = heavier.total /\ new.self = heavier.self
         /\ ToSet(new.names) = ToSet(heavier.names) \union ToSet(fresh)
  BY <1>1, <1>2, <1>4, <1>5, PushedIsIndexed
<1> QED
  BY <1>2, <1>3, <1>6, <1>7 DEF Heavier

----------------------------------------------------------------------------
(* The tree: the nodes are closed under parents, and the names of a node    *)
(* are those of the children there are.                                     *)
TreeOK(g) ==
    /\ g = [p \in DOMAIN g |-> g[p]]
    /\ DOMAIN g \subseteq Seq(Names) /\ IsFiniteSet(DOMAIN g) /\ <<>> \in DOMAIN g
    /\ \A p \in DOMAIN g : g[p] \in Node /\ Indexed(g[p])
    /\ \A p \in Seq(Names), x \in Names :
           Append(p, x) \in DOMAIN g <=> p \in DOMAIN g /\ x \in ToSet(g[p].names)

NodeAt(g, p) == IF p \in DOMAIN g THEN g[p] ELSE NewNode

LEMMA NewNodeIsNode ==
    /\ NewNode \in Node /\ Indexed(NewNode) /\ ToSet(NewNode.names) = {}
    /\ NewNode.total = 0 /\ NewNode.self = 0 /\ NewNode.names = <<>>
<1>1. /\ NewNode.total = 0 /\ NewNode.self = 0
      /\ NewNode.names = <<>> /\ NewNode.index = <<>>
  BY DEF NewNode
<1>2. DOMAIN <<>> = {} /\ <<>> \in Seq(Names)
  OBVIOUS
<1>3. <<>> \in Indices
  <2>1. <<>> \in [{} -> Nat]
    OBVIOUS
  <2> QED
    BY <2>1 DEF Indices
<1>4. NewNode \in Node
  BY <1>2, <1>3 DEF Node, NewNode
<1>5. ToSet(<<>>) = {}
  BY <1>2 DEF ToSet
<1>6. Indexed(NewNode)
  BY <1>1, <1>2, <1>5 DEF Indexed, Distinct
<1> QED
  BY <1>1, <1>4, <1>5, <1>6

LEMMA NodeAtIsNode ==
    ASSUME NEW g, TreeOK(g), NEW p
    PROVE  NodeAt(g, p) \in Node /\ Indexed(NodeAt(g, p))
BY NewNodeIsNode DEF TreeOK, NodeAt

LEMMA RootIsTree == TreeOK(Root)
<1>1. DOMAIN Root = {<<>>} /\ Root[<<>>] = NewNode
  BY DEF Root
<1>2. <<>> \in Seq(Names) /\ IsFiniteSet({<<>>})
  <2>1. IsFiniteSet({<<>>})
    BY FS_Singleton
  <2> QED
    BY <2>1
<1>3. \A p \in Seq(Names), x \in Names : Append(p, x) # <<>>
  BY AppendPoints
<1>4. Root = [p \in DOMAIN Root |-> Root[p]]
  BY DEF Root
<1> QED
  BY <1>1, <1>2, <1>3, <1>4, NewNodeIsNode DEF TreeOK

(* The node at p after add_stack. *)
LEMMA StackAtNode ==
    ASSUME NEW g, TreeOK(g), NEW stack \in Seq(Names), NEW value \in Nat,
           NEW p \in DOMAIN g \union Prefixes(stack)
    PROVE  LET new == AddStack(g, stack, value)[p]
           IN /\ new \in Node /\ Indexed(new)
              /\ Heavier(new, NodeAt(g, p), IF IsPrefix(p, stack) THEN value ELSE 0,
                         IF p = stack THEN value ELSE 0)
              /\ ToSet(new.names) = ToSet(NodeAt(g, p).names) \union
                     {x \in Names : IsPrefix(p, stack) /\ p # stack
                                    /\ stack[Len(p) + 1] = x}
<1> DEFINE new == AddStack(g, stack, value)[p]
           old == NodeAt(g, p)
           own == IF p = stack THEN value ELSE 0
           next == IF p = stack THEN <<>> ELSE <<stack[Len(p) + 1]>>
<1>1. p \in Seq(Names) /\ (p \in Prefixes(stack) <=> IsPrefix(p, stack))
  BY InPrefixes DEF TreeOK
<1>2. new = IF p \notin Prefixes(stack) THEN g[p] ELSE Extended(old, value, own, next)
  BY DEF AddStack, NodeAt
<1>3. old \in Node /\ Indexed(old) /\ own \in Nat
  BY NodeAtIsNode
<1> HIDE DEF new, old
<1>4. old.total \in Nat /\ old.self \in Nat
  BY <1>3 DEF Node
<1>5. CASE p \notin Prefixes(stack)
  <2>1. p \in DOMAIN g /\ old = g[p] /\ p # stack
    BY <1>1, <1>5, PrefixItself DEF old, NodeAt
  <2> QED
    BY <1>1, <1>2, <1>3, <1>4, <1>5, <2>1 DEF new, old, Heavier
<1>6. CASE p \in Prefixes(stack)
  <2>1. Len(p) \in Nat /\ Len(stack) \in Nat /\ Len(p) <= Len(stack)
    BY <1>1, <1>6, PrefixPoints
  <2>2. p # stack => Len(p) + 1 \in 1 .. Len(stack)
    <3>1. Len(p) = Len(stack) => p = stack
      BY <1>1, <1>6, PrefixPoints, SameSeq
    <3> QED
      BY <2>1, <3>1
  <2>3. p # stack => stack[Len(p) + 1] \in Names
    BY <2>2
  <2>4. /\ next \in Seq(Names) /\ Distinct(next)
        /\ ToSet(next) = {x \in Names : p # stack /\ stack[Len(p) + 1] = x}
    <3>1. CASE p = stack
      BY <3>1 DEF Distinct, ToSet
    <3>2. CASE p # stack
      <4>1. PICK x \in Names : stack[Len(p) + 1] = x
        BY <2>3, <3>2
      <4>2. next = <<x>> /\ <<x>> \in Seq(Names) /\ DOMAIN <<x>> = {1} /\ <<x>>[1] = x
        BY <3>2, <4>1
      <4> HIDE DEF next
      <4>3. ToSet(next) = {x} /\ Distinct(next)
        BY <4>2 DEF ToSet, Distinct
      <4> QED
        BY <3>2, <4>1, <4>2, <4>3
    <3> QED
      BY <3>1, <3>2
  <2> HIDE DEF next, own
  <2>5. new = Extended(old, value, own, next)
    BY <1>2, <1>6
  <2>6. LET n == Extended(old, value, own, next)
        IN /\ n \in Node /\ Indexed(n) /\ Heavier(n, old, value, own)
           /\ ToSet(n.names) = ToSet(old.names) \union ToSet(next)
    <3>1. PICK a \in Node, u \in Nat, s \in Seq(Names) : a = old /\ u = own /\ s = next
      BY <1>3, <2>4
    <3>2. Indexed(a) /\ Distinct(s)
      BY <1>3, <2>4, <3>1
    <3>3. LET n == Extended(a, value, u, s)
          IN /\ n \in Node /\ Indexed(n) /\ Heavier(n, a, value, u)
             /\ ToSet(n.names) = ToSet(a.names) \union ToSet(s)
      BY <3>2, ExtendedIsIndexed
    <3> QED
      BY <3>1, <3>3
  <2> QED
    BY <1>1, <1>6, <2>4, <2>5, <2>6 DEF new, old, own
<1> QED
  BY <1>5, <1>6

LEMMA StackKeepsTree ==
    ASSUME NEW g, TreeOK(g), NEW stack \in Seq(Names), NEW value \in Nat
    PROVE  /\ TreeOK(AddStack(g, stack, value))
           /\ DOMAIN AddStack(g, stack, value) = DOMAIN g \union Prefixes(stack)
<1> DEFINE h == AddStack(g, stack, value)
<1>1. DOMAIN h = DOMAIN g \union Prefixes(stack) /\ h = [p \in DOMAIN h |-> h[p]]
  BY DEF AddStack
<1> HIDE DEF h
<1>2. /\ DOMAIN h \subseteq Seq(Names) /\ IsFiniteSet(DOMAIN h) /\ <<>> \in DOMAIN h
  <2>1. IsFiniteSet(Prefixes(stack)) /\ IsFiniteSet(DOMAIN g)
    BY PrefixesAreFinite DEF TreeOK
  <2>2. IsFiniteSet(DOMAIN g \union Prefixes(stack))
    BY <2>1, FS_Union
  <2>3. \A p \in Prefixes(stack) : p \in Seq(Names)
    BY InPrefixes
  <2> QED
    BY <1>1, <2>2, <2>3 DEF TreeOK
<1>3. \A p \in DOMAIN h : h[p] \in Node /\ Indexed(h[p])
  BY <1>1, StackAtNode DEF h
<1>4. ASSUME NEW p \in Seq(Names), NEW x \in Names
      PROVE  Append(p, x) \in DOMAIN h <=> p \in DOMAIN h /\ x \in ToSet(h[p].names)
  <2>1. Append(p, x) \in Seq(Names)
    BY AppendPoints
  <2>2. Append(p, x) \in Prefixes(stack)
            <=> IsPrefix(p, stack) /\ p # stack /\ stack[Len(p) + 1] = x
    <3>1. Append(p, x) \in Prefixes(stack) <=> IsPrefix(Append(p, x), stack)
      BY <2>1, InPrefixes
    <3> QED
      BY <3>1, ChildIsPrefix
  <2>3. Append(p, x) \in DOMAIN g <=> p \in DOMAIN g /\ x \in ToSet(g[p].names)
    BY DEF TreeOK
  <2>4. p \in Prefixes(stack) <=> IsPrefix(p, stack)
    BY InPrefixes
  <2>5. x \in ToSet(NodeAt(g, p).names) <=> p \in DOMAIN g /\ x \in ToSet(g[p].names)
    BY NewNodeIsNode DEF NodeAt
  <2>6. p \in DOMAIN h =>
            (x \in ToSet(h[p].names) <=>
                \/ x \in ToSet(NodeAt(g, p).names)
                \/ IsPrefix(p, stack) /\ p # stack /\ stack[Len(p) + 1] = x)
    BY <1>1, StackAtNode DEF h
  <2> QED
    BY <1>1, <2>2, <2>3, <2>4, <2>5, <2>6
<1>5. TreeOK(h)
  BY <1>1, <1>2, <1>3, <1>4 DEF TreeOK
<1> QED
  BY <1>1, <1>5 DEF h

(* A merge, and the node at p after it. *)
LEMMA MergeAtNode ==
    ASSUME NEW g, TreeOK(g), NEW h, TreeOK(h), NEW p \in DOMAIN g \union DOMAIN h
    PROVE  LET new == MergeNode(g, h)[p]
           IN /\ new \in Node /\ Indexed(new)
              /\ Heavier(new, NodeAt(g, p), NodeAt(h, p).total, NodeAt(h, p).self)
              /\ ToSet(new.names) = ToSet(NodeAt(g, p).names) \union
                                    ToSet(NodeAt(h, p).names)
<1> DEFINE new == MergeNode(g, h)[p]
           a == NodeAt(g, p)
           b == NodeAt(h, p)
<1>1. a \in Node /\ Indexed(a) /\ b \in Node /\ Indexed(b)
  BY NodeAtIsNode
<1>2. new = IF p \notin DOMAIN h THEN a
            ELSE IF p \notin DOMAIN g THEN b ELSE Merged(a, b)
  BY DEF MergeNode, NodeAt
<1>3. (p \notin DOMAIN h => b = NewNode) /\ (p \notin DOMAIN g => a = NewNode)
  BY DEF NodeAt
<1> HIDE DEF new, a, b
<1>4. /\ a.total \in Nat /\ a.self \in Nat /\ b.total \in Nat /\ b.self \in Nat
      /\ b.names \in Seq(Names) /\ Distinct(b.names)
  BY <1>1 DEF Node, Indexed
<1>5. CASE p \notin DOMAIN h
  BY <1>1, <1>2, <1>3, <1>4, <1>5, NewNodeIsNode DEF new, a, b, Heavier
<1>6. CASE p \in DOMAIN h /\ p \notin DOMAIN g
  BY <1>1, <1>2, <1>3, <1>4, <1>6, NewNodeIsNode DEF new, a, b, Heavier
<1>7. CASE p \in DOMAIN h /\ p \in DOMAIN g
  <2>1. new = Extended(a, b.total, b.self, b.names)
    BY <1>2, <1>7 DEF Merged
  <2>2. LET n == Extended(a, b.total, b.self, b.names)
        IN /\ n \in Node /\ Indexed(n) /\ Heavier(n, a, b.total, b.self)
           /\ ToSet(n.names) = ToSet(a.names) \union ToSet(b.names)
    <3>1. PICK c \in Node, t \in Nat, u \in Nat, s \in Seq(Names) :
              c = a /\ t = b.total /\ u = b.self /\ s = b.names
      BY <1>1, <1>4
    <3>2. Indexed(c) /\ Distinct(s)
      BY <1>1, <1>4, <3>1
    <3>3. LET n == Extended(c, t, u, s)
          IN /\ n \in Node /\ Indexed(n) /\ Heavier(n, c, t, u)
             /\ ToSet(n.names) = ToSet(c.names) \union ToSet(s)
      BY <3>2, ExtendedIsIndexed
    <3> QED
      BY <3>1, <3>3
  <2> QED
    BY <2>1, <2>2 DEF new, a, b
<1> QED
  BY <1>5, <1>6, <1>7

LEMMA MergeKeepsTree ==
    ASSUME NEW g, TreeOK(g), NEW h, TreeOK(h)
    PROVE  /\ TreeOK(MergeNode(g, h))
           /\ DOMAIN MergeNode(g, h) = DOMAIN g \union DOMAIN h
<1> DEFINE m == MergeNode(g, h)
<1>1. DOMAIN m = DOMAIN g \union DOMAIN h /\ m = [p \in DOMAIN m |-> m[p]]
  BY DEF MergeNode
<1> HIDE DEF m
<1>2. /\ DOMAIN m \subseteq Seq(Names) /\ IsFiniteSet(DOMAIN m) /\ <<>> \in DOMAIN m
  <2>1. IsFiniteSet(DOMAIN g \union DOMAIN h)
    BY FS_Union DEF TreeOK
  <2> QED
    BY <1>1, <2>1 DEF TreeOK
<1>3. \A p \in DOMAIN m : m[p] \in Node /\ Indexed(m[p])
  BY <1>1, MergeAtNode DEF m
<1>4. ASSUME NEW p \in Seq(Names), NEW x \in Names
      PROVE  Append(p, x) \in DOMAIN m <=> p \in DOMAIN m /\ x \in ToSet(m[p].names)
  <2>1. Append(p, x) \in DOMAIN g <=> p \in DOMAIN g /\ x \in ToSet(g[p].names)
    BY DEF TreeOK
  <2>2. Append(p, x) \in DOMAIN h <=> p \in DOMAIN h /\ x \in ToSet(h[p].names)
    BY DEF TreeOK
  <2>3. x \in ToSet(NodeAt(g, p).names) <=> p \in DOMAIN g /\ x \in ToSet(g[p].names)
    BY NewNodeIsNode DEF NodeAt
  <2>4. x \in ToSet(NodeAt(h, p).names) <=> p \in DOMAIN h /\ x \in ToSet(h[p].names)
    BY NewNodeIsNode DEF NodeAt
  <2>5. p \in DOMAIN m =>
            (x \in ToSet(m[p].names) <=> x \in ToSet(NodeAt(g, p).names)
                                         \/ x \in ToSet(NodeAt(h, p).names))
    <3>1. ASSUME p \in DOMAIN g \union DOMAIN h
          PROVE  ToSet(MergeNode(g, h)[p].names)
                     = ToSet(NodeAt(g, p).names) \union ToSet(NodeAt(h, p).names)
      BY <3>1, MergeAtNode
    <3> QED
      BY <1>1, <3>1 DEF m
  <2> QED
    BY <1>1, <2>1, <2>2, <2>3, <2>4, <2>5
<1>5. TreeOK(m)
  BY <1>1, <1>2, <1>3, <1>4 DEF TreeOK
<1> QED
  BY <1>1, <1>5 DEF m

----------------------------------------------------------------------------
(* A tree weighs what the samples r weigh that have come to it.             *)
Stacks(r) == {<<>>} \union UNION {Prefixes(r[k].stack) : k \in DOMAIN r}

Weighed(g, r) ==
    /\ DOMAIN g = Stacks(r)
    /\ \A p \in Seq(Names) :
           /\ NodeAt(g, p).total = Weigh(r, Through(r, p))
           /\ NodeAt(g, p).self = Weigh(r, EndingAt(r, p))

LEMMA JoinedPlaces ==
    ASSUME NEW r \in Seq(Sample), NEW t \in Seq(Sample)
    PROVE  /\ r \o t \in Seq(Sample)
           /\ Len(r) \in Nat /\ DOMAIN r = 1 .. Len(r)
           /\ Len(t) \in Nat /\ DOMAIN t = 1 .. Len(t)
           /\ DOMAIN (r \o t) = 1 .. (Len(r) + Len(t))
           /\ \A k \in DOMAIN r : k \in DOMAIN (r \o t) /\ (r \o t)[k] = r[k]
           /\ \A k \in DOMAIN t : /\ Len(r) + k \in DOMAIN (r \o t)
                                  /\ (r \o t)[Len(r) + k] = t[k]
           /\ \A k \in DOMAIN (r \o t) :
                  k \in DOMAIN r \/ \E j \in DOMAIN t : k = Len(r) + j
<1>1. /\ r \o t \in Seq(Sample)
      /\ Len(r) \in Nat /\ DOMAIN r = 1 .. Len(r)
      /\ Len(t) \in Nat /\ DOMAIN t = 1 .. Len(t)
      /\ DOMAIN (r \o t) = 1 .. (Len(r) + Len(t))
      /\ \A k \in DOMAIN r : k \in DOMAIN (r \o t) /\ (r \o t)[k] = r[k]
      /\ \A k \in DOMAIN t : /\ Len(r) + k \in DOMAIN (r \o t)
                             /\ (r \o t)[Len(r) + k] = t[k]
  OBVIOUS
<1>2. ASSUME NEW k \in DOMAIN (r \o t), k \notin DOMAIN r
      PROVE  \E j \in DOMAIN t : k = Len(r) + j
  <2>1. k - Len(r) \in DOMAIN t /\ k = Len(r) + (k - Len(r))
    BY <1>1, <1>2
  <2> QED
    BY <2>1
<1> QED
  BY <1>1, <1>2

LEMMA StacksJoined ==
    ASSUME NEW r \in Seq(Sample), NEW t \in Seq(Sample)
    PROVE  Stacks(r \o t) = Stacks(r) \union Stacks(t)
<1> DEFINE b == r \o t
<1>1. /\ \A k \in DOMAIN r : k \in DOMAIN b /\ b[k] = r[k]
      /\ \A k \in DOMAIN t : Len(r) + k \in DOMAIN b /\ b[Len(r) + k] = t[k]
      /\ \A k \in DOMAIN b : k \in DOMAIN r \/ \E j \in DOMAIN t : k = Len(r) + j
  BY JoinedPlaces
<1> HIDE DEF b
<1>2. ASSUME NEW p
      PROVE  (\E k \in DOMAIN b : p \in Prefixes(b[k].stack))
                 <=> \/ \E k \in DOMAIN r : p \in Prefixes(r[k].stack)
                     \/ \E k \in DOMAIN t : p \in Prefixes(t[k].stack)
  BY <1>1
<1>3. \A s, p : p \in Stacks(s) <=> \/ p = <<>>
                                    \/ \E k \in DOMAIN s : p \in Prefixes(s[k].stack)
  BY DEF Stacks
<1>4. \A p : p \in Stacks(b) <=> p \in Stacks(r) \union Stacks(t)
  BY <1>2, <1>3
<1> QED
  BY <1>4 DEF b

LEMMA WeightsJoined ==
    ASSUME NEW r \in Seq(Sample), NEW t \in Seq(Sample), NEW p
    PROVE  /\ Weigh(r \o t, Through(r \o t, p))
                  = Weigh(r, Through(r, p)) + Weigh(t, Through(t, p))
           /\ Weigh(r \o t, EndingAt(r \o t, p))
                  = Weigh(r, EndingAt(r, p)) + Weigh(t, EndingAt(t, p))
<1>1. \A k \in DOMAIN r : /\ k \in Through(r \o t, p) <=> k \in Through(r, p)
                          /\ k \in EndingAt(r \o t, p) <=> k \in EndingAt(r, p)
  BY JoinedPlaces DEF Through, EndingAt
<1>2. \A k \in DOMAIN t : /\ Len(r) + k \in Through(r \o t, p) <=> k \in Through(t, p)
                          /\ Len(r) + k \in EndingAt(r \o t, p) <=> k \in EndingAt(t, p)
  BY JoinedPlaces DEF Through, EndingAt
<1> QED
  BY <1>1, <1>2, WeighJoined

LEMMA OneSample ==
    ASSUME NEW s \in Sample, NEW p \in Seq(Names)
    PROVE  /\ <<s>> \in Seq(Sample)
           /\ Stacks(<<s>>) = Prefixes(s.stack)
           /\ Weigh(<<s>>, Through(<<s>>, p)) = IF IsPrefix(p, s.stack) THEN s.value ELSE 0
           /\ Weigh(<<s>>, EndingAt(<<s>>, p)) = IF p = s.stack THEN s.value ELSE 0
<1>1. <<s>> \in Seq(Sample) /\ DOMAIN <<s>> = {1} /\ <<s>>[1] = s
  OBVIOUS
<1>2. s.stack \in Seq(Names)
  BY DEF Sample
<1>3. <<>> \in Prefixes(s.stack)
  <2>1. <<>> \in Seq(Names) /\ IsPrefix(<<>>, s.stack)
    BY <1>2, PrefixItself
  <2> QED
    BY <1>2, <2>1, InPrefixes
<1>4. Stacks(<<s>>) = Prefixes(s.stack)
  BY <1>1, <1>3 DEF Stacks
<1>5. /\ 1 \in Through(<<s>>, p) <=> IsPrefix(p, s.stack)
      /\ 1 \in EndingAt(<<s>>, p) <=> s.stack = p
  BY <1>1 DEF Through, EndingAt
<1> QED
  BY <1>1, <1>4, <1>5, WeighOne

LEMMA NothingIsWeighed == <<>> \in Seq(Sample) /\ Weighed(Root, <<>>)
<1>1. <<>> \in Seq(Sample) /\ DOMAIN <<>> = {}
  OBVIOUS
<1>2. DOMAIN Root = Stacks(<<>>)
  BY <1>1 DEF Root, Stacks
<1>3. ASSUME NEW p \in Seq(Names)
      PROVE  /\ NodeAt(Root, p).total = 0 /\ NodeAt(Root, p).self = 0
             /\ Weigh(<<>>, Through(<<>>, p)) = 0
             /\ Weigh(<<>>, EndingAt(<<>>, p)) = 0
  <2>1. NodeAt(Root, p) = NewNode
    BY DEF NodeAt, Root
  <2>2. PICK e \in Seq(Sample) : e = <<>> /\ DOMAIN e = {}
    BY <1>1
  <2>3. Weigh(e, Through(e, p)) = 0 /\ Weigh(e, EndingAt(e, p)) = 0
    BY <2>2, WeighNothing
  <2> QED
    BY <2>1, <2>2, <2>3, NewNodeIsNode
<1> QED
  BY <1>1, <1>2, <1>3 DEF Weighed

LEMMA StackIsWeighed ==
    ASSUME NEW g, TreeOK(g), NEW r \in Seq(Sample), Weighed(g, r), NEW s \in Sample
    PROVE  Weighed(AddStack(g, s.stack, s.value), r \o <<s>>)
<1> DEFINE h == AddStack(g, s.stack, s.value)
<1>1. s.stack \in Seq(Names) /\ s.value \in Nat /\ <<s>> \in Seq(Sample)
  BY DEF Sample
<1>2. DOMAIN h = DOMAIN g \union Prefixes(s.stack)
  BY <1>1, StackKeepsTree
<1> HIDE DEF h
<1>3. DOMAIN h = Stacks(r \o <<s>>)
  <2>1. Stacks(<<s>>) = Prefixes(s.stack)
    <3>1. <<>> \in Seq(Names)
      OBVIOUS
    <3> QED
      BY <3>1, OneSample
  <2> QED
    BY <1>1, <1>2, <2>1, StacksJoined DEF Weighed
<1>4. ASSUME NEW p \in Seq(Names)
      PROVE  /\ NodeAt(h, p).total = Weigh(r \o <<s>>, Through(r \o <<s>>, p))
             /\ NodeAt(h, p).self = Weigh(r \o <<s>>, EndingAt(r \o <<s>>, p))
  <2>1. Heavier(NodeAt(h, p), NodeAt(g, p), IF IsPrefix(p, s.stack) THEN s.value ELSE 0,
                IF p = s.stack THEN s.value ELSE 0)
    <3>1. CASE p \in DOMAIN h
      <4>1. PICK stack \in Seq(Names), value \in Nat : stack = s.stack /\ value = s.value
        BY <1>1
      <4>2. p \in DOMAIN g \union Prefixes(stack)
        BY <1>2, <3>1, <4>1
      <4>3. Heavier(AddStack(g, stack, value)[p], NodeAt(g, p),
                    IF IsPrefix(p, stack) THEN value ELSE 0,
                    IF p = stack THEN value ELSE 0)
        BY <4>2, StackAtNode
      <4> QED
        BY <3>1, <4>1, <4>3 DEF h, NodeAt
    <3>2. CASE p \notin DOMAIN h
      <4>1. p \notin DOMAIN g /\ ~IsPrefix(p, s.stack) /\ p # s.stack
        BY <1>1, <1>2, <3>2, InPrefixes, PrefixItself
      <4> QED
        BY <3>2, <4>1, NewNodeIsNode DEF NodeAt, Heavier
    <3> QED
      BY <3>1, <3>2
  <2>2. /\ NodeAt(g, p).total = Weigh(r, Through(r, p))
        /\ NodeAt(g, p).self = Weigh(r, EndingAt(r, p))
    BY DEF Weighed
  <2>3. /\ Weigh(r \o <<s>>, Through(r \o <<s>>, p))
               = Weigh(r, Through(r, p)) + Weigh(<<s>>, Through(<<s>>, p))
        /\ Weigh(r \o <<s>>, EndingAt(r \o <<s>>, p))
               = Weigh(r, EndingAt(r, p)) + Weigh(<<s>>, EndingAt(<<s>>, p))
    <3>1. PICK t \in Seq(Sample) : t = <<s>>
      BY <1>1
    <3> QED
      BY <3>1, WeightsJoined
  <2>4. /\ Weigh(<<s>>, Through(<<s>>, p)) = IF IsPrefix(p, s.stack) THEN s.value ELSE 0
        /\ Weigh(<<s>>, EndingAt(<<s>>, p)) = IF p = s.stack THEN s.value ELSE 0
    BY OneSample
  <2> QED
    BY <2>1, <2>2, <2>3, <2>4 DEF Heavier
<1> QED
  BY <1>3, <1>4 DEF Weighed, h

LEMMA MergeIsWeighed ==
    ASSUME NEW g, TreeOK(g), NEW r \in Seq(Sample), Weighed(g, r),
           NEW h, TreeOK(h), NEW t \in Seq(Sample), Weighed(h, t)
    PROVE  Weighed(MergeNode(g, h), r \o t)
<1> DEFINE m == MergeNode(g, h)
<1>1. DOMAIN m = DOMAIN g \union DOMAIN h
  BY MergeKeepsTree
<1>2. DOMAIN m = Stacks(r \o t)
  BY <1>1, StacksJoined DEF Weighed
<1> HIDE DEF m
<1>3. ASSUME NEW p \in Seq(Names)
      PROVE  /\ NodeAt(m, p).total = Weigh(r \o t, Through(r \o t, p))
             /\ NodeAt(m, p).self = Weigh(r \o t, EndingAt(r \o t, p))
  <2>1. Heavier(NodeAt(m, p), NodeAt(g, p), NodeAt(h, p).total, NodeAt(h, p).self)
    <3>1. CASE p \in DOMAIN m
      <4>1. p \in DOMAIN g \union DOMAIN h
        BY <1>1, <3>1
      <4>2. Heavier(MergeNode(g, h)[p], NodeAt(g, p), NodeAt(h, p).total, NodeAt(h, p).self)
        BY <4>1, MergeAtNode
      <4> QED
        BY <3>1, <4>2 DEF m, NodeAt
    <3>2. CASE p \notin DOMAIN m
      BY <1>1, <3>2, NewNodeIsNode DEF NodeAt, Heavier
    <3> QED
      BY <3>1, <3>2
  <2>2. /\ NodeAt(g, p).total = Weigh(r, Through(r, p))
        /\ NodeAt(g, p).self = Weigh(r, EndingAt(r, p))
        /\ NodeAt(h, p).total = Weigh(t, Through(t, p))
        /\ NodeAt(h, p).self = Weigh(t, EndingAt(t, p))
    BY DEF Weighed
  <2> QED
    BY <2>1, <2>2, WeightsJoined DEF Heavier
<1> QED
  BY <1>2, <1>3 DEF Weighed, m

----------------------------------------------------------------------------
(* sort_recursive: the same nodes, each with its children in the new order. *)
Sorted(g) ==
    \A p \in DOMAIN g : \A i, j \in DOMAIN g[p].names :
        i < j => g[Append(p, g[p].names[i])].total >= g[Append(p, g[p].names[j])].total

LEMMA ChildIsThere ==
    ASSUME NEW g, TreeOK(g), NEW p \in DOMAIN g, NEW i \in DOMAIN g[p].names
    PROVE  /\ p \in Seq(Names) /\ g[p].names[i] \in Names
           /\ Append(p, g[p].names[i]) \in DOMAIN g
           /\ g[Append(p, g[p].names[i])].total \in Nat
<1>1. p \in Seq(Names) /\ g[p] \in Node
  BY DEF TreeOK
<1>2. g[p].names \in Seq(Names)
  BY <1>1 DEF Node
<1>3. g[p].names[i] \in Names /\ g[p].names[i] \in ToSet(g[p].names)
  BY <1>2 DEF ToSet
<1>4. Append(p, g[p].names[i]) \in DOMAIN g
  BY <1>1, <1>3 DEF TreeOK
<1>5. g[Append(p, g[p].names[i])] \in Node
  BY <1>4 DEF TreeOK
<1> QED
  BY <1>1, <1>3, <1>4, <1>5 DEF Node

LEMMA HeaviestIsTotal ==
    ASSUME NEW g, TreeOK(g), NEW p \in DOMAIN g
    PROVE  /\ IsFiniteSet(DOMAIN g[p].names)
           /\ Cardinality(DOMAIN g[p].names) = Len(g[p].names)
           /\ Len(g[p].names) \in Nat /\ DOMAIN g[p].names = 1 .. Len(g[p].names)
           /\ StrictTotalOrder(DOMAIN g[p].names, Heaviest(g, p))
<1> DEFINE kids == DOMAIN g[p].names
           weight == [i \in kids |-> g[Append(p, g[p].names[i])].total]
<1>1. Len(g[p].names) \in Nat /\ kids = 1 .. Len(g[p].names)
  <2>1. g[p].names \in Seq(Names)
    BY DEF TreeOK, Node
  <2> QED
    BY <2>1
<1>2. \A i \in kids : weight[i] \in Nat
  BY ChildIsThere
<1>3. Heaviest(g, p) = {pair \in kids \X kids :
                            \/ weight[pair[1]] > weight[pair[2]]
                            \/ weight[pair[1]] = weight[pair[2]] /\ pair[1] < pair[2]}
  BY DEF Heaviest
<1>4. IsFiniteSet(kids) /\ Cardinality(kids) = Len(g[p].names)
  <2>1. PICK n \in Nat : n = Len(g[p].names) /\ kids = 1 .. n
    BY <1>1
  <2> HIDE DEF kids
  <2> QED
    BY <2>1, FS_Interval
<1> HIDE DEF kids, weight
<1>5. \A i, j \in kids : <<i, j>> \in Heaviest(g, p) <=>
          weight[i] > weight[j] \/ (weight[i] = weight[j] /\ i < j)
  BY <1>3
<1>6. Heaviest(g, p) \subseteq kids \X kids
  BY <1>3
<1>7. \A i \in kids : i \in Int
  BY <1>1
<1>8. StrictTotalOrder(kids, Heaviest(g, p))
  <2>1. \A i \in kids : <<i, i>> \notin Heaviest(g, p)
    BY <1>2, <1>5, <1>7
  <2>2. \A i, j \in kids : i # j => <<i, j>> \in Heaviest(g, p) \/ <<j, i>> \in Heaviest(g, p)
    BY <1>2, <1>5, <1>7
  <2>3. ASSUME NEW i \in kids, NEW j \in kids, NEW k \in kids,
               <<i, j>> \in Heaviest(g, p), <<j, k>> \in Heaviest(g, p)
        PROVE  <<i, k>> \in Heaviest(g, p)
    BY <1>2, <1>5, <1>7, <2>3
  <2> QED
    BY <1>6, <2>1, <2>2, <2>3 DEF StrictTotalOrder
<1> QED
  BY <1>1, <1>4, <1>8 DEF kids

(* The node at p after the sort: child k is child order[k] of before.       *)
LEMMA SortAtNode ==
    ASSUME NEW g, TreeOK(g), NEW p \in DOMAIN g
    PROVE  LET new == SortRecursive(g)[p]
               order == Ranked(DOMAIN g[p].names, Heaviest(g, p))
           IN /\ new \in Node /\ Indexed(new)
              /\ new.total = g[p].total /\ new.self = g[p].self
              /\ ToSet(new.names) = ToSet(g[p].names)
              /\ DOMAIN new.names = DOMAIN g[p].names
              /\ \A k \in DOMAIN new.names : new.names[k] = g[p].names[order[k]]
<1> DEFINE node == g[p]
           kids == DOMAIN node.names
           order == Ranked(kids, Heaviest(g, p))
           names == [k \in kids |-> node.names[order[k]]]
           index == [name \in ToSet(names) |-> PlaceOf(names, name)]
           new == SortRecursive(g)[p]
<1>1. PICK a \in Nat, b \in Nat, c \in Seq(Names), d \in Indices :
          node = [total |-> a, self |-> b, names |-> c, index |-> d]
  BY DEF TreeOK, Node
<1>2. node.total = a /\ node.self = b /\ node.names = c /\ node.index = d /\ kids = DOMAIN c
  BY <1>1
<1>3. /\ IsFiniteSet(kids) /\ Cardinality(kids) = Len(c)
      /\ Len(c) \in Nat /\ kids = 1 .. Len(c) /\ StrictTotalOrder(kids, Heaviest(g, p))
  BY <1>2, HeaviestIsTotal
<1>4. /\ order \in [kids -> kids]
      /\ \A x \in kids : \E k \in kids : order[k] = x
      /\ \A j, k \in kids : order[j] = order[k] => j = k
  <2>1. PICK S, R : S = kids /\ R = Heaviest(g, p)
    OBVIOUS
  <2>2. IsFiniteSet(S) /\ StrictTotalOrder(S, R) /\ S = 1 .. Cardinality(S)
    BY <1>3, <2>1
  <2>3. /\ Ranked(S, R) \in [S -> S]
        /\ \A x \in S : \E k \in S : Ranked(S, R)[k] = x
        /\ \A j, k \in S : Ranked(S, R)[j] = Ranked(S, R)[k] => j = k
    <3>1. PICK n : n = Cardinality(S) /\ S = 1 .. n
      BY <2>2
    <3>2. /\ Ranked(S, R) \in [1 .. n -> S]
          /\ \A x \in S : Rank(S, R, x) \in 1 .. n /\ Ranked(S, R)[Rank(S, R, x)] = x
      BY <2>2, <3>1, RankedIsListing
    <3>3. \A j, k \in 1 .. n : Ranked(S, R)[j] = Ranked(S, R)[k] => j = k
      BY <2>2, <3>1, RankedIsInjective
    <3> QED
      BY <3>1, <3>2, <3>3
  <2> QED
    BY <2>1, <2>3
<1>5. Distinct(c)
  BY <1>2 DEF TreeOK, Indexed
<1>6. new = [[node EXCEPT !.names = names] EXCEPT !.index = index]
  <2> DEFINE sorted == [node EXCEPT !.names = names]
  <2>1. new = [sorted EXCEPT !.index = RebuildIndex(sorted)]
    BY DEF SortRecursive
  <2>2. sorted.names = names
    BY <1>1
  <2> QED
    BY <2>1, <2>2 DEF RebuildIndex
<1> HIDE DEF order, new
<1>7. names \in [1 .. Len(c) -> Names]
  BY <1>2, <1>3, <1>4
<1>8. names \in Seq(Names) /\ DOMAIN names = kids
  BY <1>3, <1>7
<1>9. Distinct(names)
  BY <1>2, <1>4, <1>5 DEF Distinct
<1>10. ToSet(names) = ToSet(c)
  BY <1>2, <1>4 DEF ToSet
<1> HIDE DEF names
<1>11. \A k \in DOMAIN names : index[names[k]] = k
  BY <1>9, PlaceIs DEF ToSet
<1>12. index \in Indices
  <2>1. \A x \in ToSet(names) : \E k \in DOMAIN names : x = names[k]
    BY DEF ToSet
  <2>2. \A k \in DOMAIN names : k \in Nat /\ names[k] \in Names
    BY <1>8
  <2>3. \A x \in ToSet(names) : index[x] \in Nat /\ x \in Names
    <3> HIDE DEF index
    <3> QED
      BY <1>11, <2>1, <2>2
  <2>4. index \in [ToSet(names) -> Nat] /\ ToSet(names) \in SUBSET Names
    BY <2>3
  <2> HIDE DEF index
  <2> QED
    BY <2>4 DEF Indices
<1>13. DOMAIN index = ToSet(names)
  OBVIOUS
<1> HIDE DEF index
<1>14. new = [total |-> a, self |-> b, names |-> names, index |-> index]
  <2>1. /\ new.total = a /\ new.self = b /\ new.names = names /\ new.index = index
        /\ DOMAIN new = {"total", "self", "names", "index"}
    <3>1. DOMAIN node = {"total", "self", "names", "index"}
      BY <1>1
    <3> HIDE DEF node
    <3> QED
      BY <1>2, <1>6, <3>1
  <2>2. new = [x \in {"total", "self", "names", "index"} |-> new[x]]
    <3>1. DOMAIN node = {"total", "self", "names", "index"}
      BY <1>1
    <3> HIDE DEF node
    <3> QED
      BY <1>6, <3>1
  <2> QED
    BY <2>1, <2>2
<1>15. new.total = a /\ new.self = b /\ new.names = names /\ new.index = index
  BY <1>14
<1>16. new \in Node
  BY <1>8, <1>12, <1>14 DEF Node
<1>17. Indexed(new)
  BY <1>9, <1>11, <1>13, <1>15 DEF Indexed
<1>18. \A k \in DOMAIN names : names[k] = node.names[order[k]]
  BY DEF names
<1> QED
  BY <1>2, <1>8, <1>10, <1>15, <1>16, <1>17, <1>18 DEF new, order

LEMMA SortKeepsTree ==
    ASSUME NEW g, TreeOK(g), NEW r \in Seq(Sample), Weighed(g, r)
    PROVE  LET h == SortRecursive(g) IN TreeOK(h) /\ Weighed(h, r) /\ Sorted(h)
<1> DEFINE h == SortRecursive(g)
<1>1. DOMAIN h = DOMAIN g /\ h = [p \in DOMAIN h |-> h[p]]
  BY DEF SortRecursive
<1>2. \A p \in DOMAIN g : /\ h[p] \in Node /\ Indexed(h[p])
                          /\ h[p].total = g[p].total /\ h[p].self = g[p].self
                          /\ ToSet(h[p].names) = ToSet(g[p].names)
  BY SortAtNode
<1>3. ASSUME NEW p \in DOMAIN g, NEW i \in DOMAIN h[p].names, NEW j \in DOMAIN h[p].names,
             i < j
      PROVE  h[Append(p, h[p].names[i])].total >= h[Append(p, h[p].names[j])].total
  <2> DEFINE kids == DOMAIN g[p].names
             order == Ranked(kids, Heaviest(g, p))
  <2>1. /\ IsFiniteSet(kids) /\ Cardinality(kids) = Len(g[p].names)
        /\ kids = 1 .. Len(g[p].names) /\ StrictTotalOrder(kids, Heaviest(g, p))
    BY HeaviestIsTotal
  <2>2. /\ DOMAIN h[p].names = kids
        /\ h[p].names[i] = g[p].names[order[i]] /\ h[p].names[j] = g[p].names[order[j]]
    BY SortAtNode
  <2> HIDE DEF h
  <2>3. <<order[i], order[j]>> \in Heaviest(g, p)
    BY <1>3, <2>1, <2>2, RankedIsOrdered
  <2>4. PICK a \in kids, b \in kids : a = order[i] /\ b = order[j]
    <3>1. order \in [1 .. Cardinality(kids) -> kids]
      BY <2>1, RankedIsListing
    <3> QED
      BY <2>1, <2>2, <3>1
  <2> HIDE DEF order
  <2>5. /\ Append(p, g[p].names[a]) \in DOMAIN g /\ Append(p, g[p].names[b]) \in DOMAIN g
        /\ g[Append(p, g[p].names[a])].total \in Nat
        /\ g[Append(p, g[p].names[b])].total \in Nat
    BY <2>4, ChildIsThere
  <2>6. g[Append(p, g[p].names[a])].total >= g[Append(p, g[p].names[b])].total
    BY <2>3, <2>4, <2>5 DEF Heaviest
  <2>7. /\ h[Append(p, g[p].names[a])].total = g[Append(p, g[p].names[a])].total
        /\ h[Append(p, g[p].names[b])].total = g[Append(p, g[p].names[b])].total
    BY <1>2, <2>5
  <2> QED
    BY <2>2, <2>4, <2>6, <2>7
<1> HIDE DEF h
<1>4. TreeOK(h)
  BY <1>1, <1>2 DEF TreeOK
<1>5. Weighed(h, r)
  BY <1>1, <1>2 DEF Weighed, NodeAt
<1>6. Sorted(h)
  BY <1>1, <1>3 DEF Sorted
<1> QED
  BY <1>4, <1>5, <1>6 DEF h

----------------------------------------------------------------------------
(* process_export. The function in GraphOf exists, as the one in SumOf does. *)
Built(f, n, samp) ==
    f = [k \in 0 .. n |-> IF k = 0 THEN Root
                          ELSE AddStack(f[k - 1], samp[k].stack, samp[k].value)]

LEMMA BuiltExists ==
    ASSUME NEW samp, NEW N \in Nat
    PROVE  \E f : Built(f, N, samp)
<1> DEFINE S == {n \in 0 .. N : \E f : Built(f, n, samp)}
<1>1. 0 \in S
  <2>1. Built([k \in 0 .. 0 |-> Root], 0, samp)
    BY DEF Built
  <2> QED
    BY <2>1
<1>2. ASSUME NEW n \in 1 .. N, n - 1 \in S PROVE n \in S
  <2>1. PICK f : Built(f, n - 1, samp)
    BY <1>2
  <2> DEFINE last == AddStack(f[n - 1], samp[n].stack, samp[n].value)
             g == [k \in 0 .. n |-> IF k = n THEN last ELSE f[k]]
  <2>2. ASSUME NEW k \in 0 .. n
        PROVE  g[k] = IF k = 0 THEN Root
                      ELSE AddStack(g[k - 1], samp[k].stack, samp[k].value)
    <3>1. CASE k = n
      <4>1. k - 1 \in 0 .. n /\ k - 1 # n
        BY <3>1
      <4> HIDE DEF last
      <4>2. g[k] = last /\ g[k - 1] = f[n - 1]
        BY <3>1, <4>1
      <4> HIDE DEF g
      <4> QED
        BY <3>1, <4>2 DEF last
    <3>2. CASE k # n
      <4> HIDE DEF last
      <4>1. k \in 0 .. n - 1 /\ g[k] = f[k]
        BY <3>2
      <4>2. f[k] = IF k = 0 THEN Root
                   ELSE AddStack(f[k - 1], samp[k].stack, samp[k].value)
        BY <2>1, <4>1 DEF Built
      <4>3. k # 0 => g[k - 1] = f[k - 1]
        BY <4>1
      <4> HIDE DEF g
      <4> QED
        BY <4>1, <4>2, <4>3
    <3> QED
      BY <3>1, <3>2
  <2>3. Built(g, n, samp)
    <3>1. g = [k \in 0 .. n |-> g[k]]
      OBVIOUS
    <3> HIDE DEF g
    <3> QED
      BY <2>2, <3>1, Zenon DEF Built
  <2> HIDE DEF g
  <2> QED
    BY <2>3
<1>3. 0 .. N \subseteq S
  <2> HIDE DEF S
  <2> QED
    BY <1>1, <1>2, UpTo
<1> QED
  BY <1>3

LEMMA GraphIsLast ==
    ASSUME NEW samp, Len(samp) \in Nat
    PROVE  \E f : Built(f, Len(samp), samp) /\ GraphOf(samp) = f[Len(samp)]
<1> DEFINE f == CHOOSE f : Built(f, Len(samp), samp)
<1>1. Built(f, Len(samp), samp)
  BY BuiltExists
<1>2. f = CHOOSE built : built = [k \in 0 .. Len(samp) |->
              IF k = 0 THEN Root
              ELSE AddStack(built[k - 1], samp[k].stack, samp[k].value)]
  BY Zenon DEF Built
<1>3. GraphOf(samp) = f[Len(samp)]
  BY <1>2, Zenon DEF GraphOf
<1> HIDE DEF f
<1> QED
  BY <1>1, <1>3

LEMMA LongerPrefix ==
    ASSUME NEW r \in Seq(Sample), NEW n \in 1 .. Len(r)
    PROVE  /\ SubSeq(r, 1, n - 1) \in Seq(Sample) /\ r[n] \in Sample
           /\ SubSeq(r, 1, n) = SubSeq(r, 1, n - 1) \o <<r[n]>>
<1>1. PICK m \in Nat : m = n - 1 /\ m + 1 = n /\ m \in 0 .. Len(r)
  OBVIOUS
<1>2. /\ SubSeq(r, 1, m) \in Seq(Sample) /\ Len(SubSeq(r, 1, m)) = m
      /\ \A i \in 1 .. m : SubSeq(r, 1, m)[i] = r[i]
  BY <1>1
<1>3. /\ SubSeq(r, 1, n) \in Seq(Sample) /\ Len(SubSeq(r, 1, n)) = n
      /\ \A i \in 1 .. n : SubSeq(r, 1, n)[i] = r[i]
  OBVIOUS
<1>4. PICK q \in Seq(Sample) : q = SubSeq(r, 1, m)
  BY <1>2
<1>5. /\ q \o <<r[n]>> \in Seq(Sample) /\ Len(q \o <<r[n]>>) = m + 1
      /\ \A i \in 1 .. m : (q \o <<r[n]>>)[i] = q[i]
      /\ (q \o <<r[n]>>)[m + 1] = r[n]
  BY <1>2, <1>4
<1>6. \A i \in 1 .. n : SubSeq(r, 1, n)[i] = (q \o <<r[n]>>)[i]
  BY <1>1, <1>2, <1>3, <1>4, <1>5
<1>7. SubSeq(r, 1, n) = q \o <<r[n]>>
  <2>1. PICK a \in Seq(Sample), b \in Seq(Sample) :
            a = SubSeq(r, 1, n) /\ b = q \o <<r[n]>>
    BY <1>3, <1>5
  <2>2. Len(a) = Len(b) /\ \A i \in 1 .. Len(a) : a[i] = b[i]
    BY <1>1, <1>3, <1>5, <1>6, <2>1
  <2> QED
    BY <2>1, <2>2, SameSeq
<1> QED
  BY <1>1, <1>2, <1>4, <1>7

LEMMA GraphIsWeighed ==
    ASSUME NEW e \in Seq(Sample)
    PROVE  TreeOK(GraphOf(e)) /\ Weighed(GraphOf(e), e)
<1>1. Len(e) \in Nat
  OBVIOUS
<1>2. PICK f : Built(f, Len(e), e) /\ GraphOf(e) = f[Len(e)]
  BY <1>1, GraphIsLast
<1> DEFINE S == {n \in 0 .. Len(e) : TreeOK(f[n]) /\ Weighed(f[n], SubSeq(e, 1, n))}
<1>3. 0 \in S
  <2>1. f[0] = Root /\ SubSeq(e, 1, 0) = <<>>
    BY <1>1, <1>2 DEF Built
  <2>2. TreeOK(f[0]) /\ Weighed(f[0], SubSeq(e, 1, 0))
    BY <2>1, RootIsTree, NothingIsWeighed, Zenon
  <2> QED
    BY <1>1, <2>2
<1>4. ASSUME NEW n \in 1 .. Len(e), n - 1 \in S PROVE n \in S
  <2>1. f[n] = AddStack(f[n - 1], e[n].stack, e[n].value)
    BY <1>2 DEF Built
  <2> DEFINE g == f[n - 1]
  <2>2. PICK r \in Seq(Sample), s \in Sample :
            /\ r = SubSeq(e, 1, n - 1) /\ s = e[n]
            /\ SubSeq(e, 1, n) = r \o <<s>>
    <3>1. /\ SubSeq(e, 1, n - 1) \in Seq(Sample) /\ e[n] \in Sample
          /\ SubSeq(e, 1, n) = SubSeq(e, 1, n - 1) \o <<e[n]>>
      BY LongerPrefix
    <3> QED
      BY <3>1, Zenon
  <2>3. TreeOK(g) /\ Weighed(g, r)
    BY <1>4, <2>2
  <2>4. s.stack \in Seq(Names) /\ s.value \in Nat
    BY DEF Sample
  <2>5. TreeOK(AddStack(g, s.stack, s.value)) /\ Weighed(AddStack(g, s.stack, s.value), r \o <<s>>)
    BY <2>3, <2>4, StackKeepsTree, StackIsWeighed
  <2>6. f[n] = AddStack(g, s.stack, s.value)
    BY <2>1, <2>2, Zenon
  <2>7. TreeOK(f[n]) /\ Weighed(f[n], SubSeq(e, 1, n))
    BY <2>2, <2>5, <2>6, Zenon
  <2>8. n \in 0 .. Len(e)
    OBVIOUS
  <2> QED
    BY <2>7, <2>8, Zenon
<1>5. 0 .. Len(e) \subseteq S
  <2> HIDE DEF S
  <2> QED
    BY <1>1, <1>3, <1>4, UpTo
<1>6. SubSeq(e, 1, Len(e)) = e
  OBVIOUS
<1>7. Len(e) \in S
  <2>1. Len(e) \in 0 .. Len(e)
    BY <1>1
  <2> HIDE DEF S
  <2> QED
    BY <1>5, <2>1
<1>8. TreeOK(f[Len(e)]) /\ Weighed(f[Len(e)], SubSeq(e, 1, Len(e)))
  BY <1>7, Zenon
<1> QED
  BY <1>2, <1>6, <1>8, Zenon

(* The whole of an export, and of the tab. *)
LEMMA WholeWeight ==
    ASSUME NEW e \in Seq(Sample)
    PROVE  WeightOf(e) = Weigh(e, Through(e, <<>>)) /\ WeightOf(e) \in Nat
<1>1. \A k \in DOMAIN e : k \in Through(e, <<>>)
  BY SampleParts, PrefixItself DEF Through
<1>2. [k \in DOMAIN e |-> e[k].value]
          = [k \in DOMAIN e |-> IF k \in Through(e, <<>>) THEN e[k].value ELSE 0]
  BY <1>1
<1>3. WeightOf(e) = Weigh(e, Through(e, <<>>))
  BY <1>2, Zenon DEF WeightOf, Weigh
<1> QED
  BY <1>3, WeighIsNat

----------------------------------------------------------------------------
(* The nodes on the way to a node. *)
LEMMA FirstPart ==
    ASSUME NEW X, NEW p \in Seq(X), NEW n \in 0 .. Len(p)
    PROVE  /\ n \in Nat /\ Len(p) \in Nat
           /\ SubSeq(p, 1, n) \in Seq(X) /\ Len(SubSeq(p, 1, n)) = n
           /\ \A i \in 1 .. n : SubSeq(p, 1, n)[i] = p[i]
           /\ IsPrefix(SubSeq(p, 1, n), p)
           /\ \A q \in Seq(X) : IsPrefix(q, p) /\ Len(q) = n => q = SubSeq(p, 1, n)
<1>1. n \in Nat /\ Len(p) \in Nat /\ n <= Len(p)
  OBVIOUS
<1>2. /\ SubSeq(p, 1, n) \in Seq(X) /\ Len(SubSeq(p, 1, n)) = n
      /\ \A i \in 1 .. n : SubSeq(p, 1, n)[i] = p[i]
  <2>1. SubSeq(p, 1, n) = [i \in 1 .. n |-> p[i]]
    OBVIOUS
  <2>2. \A i \in 1 .. n : p[i] \in X
    OBVIOUS
  <2> QED
    BY <1>1, <2>1, <2>2
<1>3. PICK s \in Seq(X) : s = SubSeq(p, 1, n)
  BY <1>2
<1>4. Len(s) = n /\ \A i \in 1 .. n : s[i] = p[i]
  BY <1>2, <1>3
<1>5. IsPrefix(s, p)
  BY <1>1, <1>4, PrefixPoints
<1>6. ASSUME NEW q \in Seq(X), IsPrefix(q, p), Len(q) = n PROVE q = s
  <2>1. \A i \in 1 .. Len(q) : q[i] = p[i]
    BY <1>6, PrefixPoints
  <2> QED
    BY <1>4, <1>6, <2>1, SameSeq
<1> QED
  BY <1>1, <1>2, <1>3, <1>5, <1>6

LEMMA NextPart ==
    ASSUME NEW X, NEW p \in Seq(X), NEW n \in 1 .. Len(p)
    PROVE  /\ SubSeq(p, 1, n) = Append(SubSeq(p, 1, n - 1), p[n])
           /\ SubSeq(p, 1, n - 1) \in Seq(X) /\ p[n] \in X
<1>1. PICK m \in 0 .. Len(p) : m = n - 1 /\ m + 1 = n
  OBVIOUS
<1>2. PICK a \in Seq(X) : a = SubSeq(p, 1, m)
  BY FirstPart
<1>3. Len(a) = m /\ \A i \in 1 .. m : a[i] = p[i]
  BY <1>2, FirstPart
<1>4. PICK x \in X : x = p[n]
  OBVIOUS
<1>5. PICK b \in Seq(X) : b = Append(a, x)
  BY AppendPoints
<1>6. Len(b) = m + 1 /\ b[m + 1] = x /\ \A i \in 1 .. m : b[i] = p[i]
  BY <1>3, <1>5, AppendPoints
<1>7. PICK c \in Seq(X) : c = SubSeq(p, 1, n) /\ Len(c) = n /\ \A i \in 1 .. n : c[i] = p[i]
  <2>1. n \in 0 .. Len(p)
    OBVIOUS
  <2>2. /\ SubSeq(p, 1, n) \in Seq(X) /\ Len(SubSeq(p, 1, n)) = n
        /\ \A i \in 1 .. n : SubSeq(p, 1, n)[i] = p[i]
    BY <2>1, FirstPart
  <2> QED
    BY <2>2
<1>8. \A i \in 1 .. Len(c) : c[i] = b[i]
  BY <1>1, <1>4, <1>6, <1>7
<1>9. c = b
  BY <1>1, <1>6, <1>7, <1>8, SameSeq
<1> QED
  BY <1>1, <1>2, <1>4, <1>5, <1>7, <1>9

(* The way to a node is made of nodes. *)
LEMMA PartsAreNodes ==
    ASSUME NEW g, TreeOK(g), NEW p \in DOMAIN g, NEW n \in 0 .. Len(p)
    PROVE  SubSeq(p, 1, n) \in DOMAIN g
<1>1. p \in Seq(Names)
  BY DEF TreeOK
<1>2. Len(p) \in Nat
  BY <1>1
<1> DEFINE S == {j \in 0 .. Len(p) : SubSeq(p, 1, Len(p) - j) \in DOMAIN g}
<1>3. 0 \in S
  <2>1. SubSeq(p, 1, Len(p)) = p /\ Len(p) - 0 = Len(p)
    BY <1>1
  <2>2. SubSeq(p, 1, Len(p) - 0) \in DOMAIN g
    BY <2>1
  <2> QED
    BY <1>2, <2>2
<1>4. ASSUME NEW j \in 1 .. Len(p), j - 1 \in S PROVE j \in S
  <2>1. PICK m \in 1 .. Len(p) : m = Len(p) - (j - 1) /\ Len(p) - j = m - 1
    <3>1. /\ Len(p) - (j - 1) \in 1 .. Len(p)
          /\ Len(p) - j = (Len(p) - (j - 1)) - 1
      BY <1>2
    <3> QED
      BY <3>1
  <2>2. SubSeq(p, 1, m) \in DOMAIN g
    BY <1>4, <2>1
  <2>3. /\ SubSeq(p, 1, m) = Append(SubSeq(p, 1, m - 1), p[m])
        /\ SubSeq(p, 1, m - 1) \in Seq(Names) /\ p[m] \in Names
    BY <1>1, NextPart
  <2>4. SubSeq(p, 1, m - 1) \in DOMAIN g
    BY <2>2, <2>3 DEF TreeOK
  <2> QED
    BY <2>1, <2>4
<1>5. 0 .. Len(p) \subseteq S
  <2> HIDE DEF S
  <2> QED
    BY <1>2, <1>3, <1>4, UpTo
<1>6. PICK j \in 0 .. Len(p) : j = Len(p) - n /\ Len(p) - j = n
  <2>1. Len(p) - n \in 0 .. Len(p) /\ Len(p) - (Len(p) - n) = n
    BY <1>2
  <2> QED
    BY <2>1
<1> QED
  BY <1>5, <1>6

(* A child by its name. *)
LEMMA ChildOfName ==
    ASSUME NEW g, TreeOK(g), NEW p \in DOMAIN g, NEW x \in Names
    PROVE  /\ HasChild(g[p], x) <=> Append(p, x) \in DOMAIN g
           /\ HasChild(g[p], x) => ChildByName(g[p], x) = x
<1>1. p \in Seq(Names) /\ Indexed(g[p])
  BY DEF TreeOK
<1>2. HasChild(g[p], x) <=> x \in ToSet(g[p].names)
  BY <1>1 DEF HasChild, Indexed
<1>3. x \in ToSet(g[p].names) => ChildByName(g[p], x) = x
  BY <1>1 DEF ChildByName, Indexed, ToSet
<1> QED
  BY <1>1, <1>2, <1>3 DEF TreeOK

(* get_zoom_node: names that lead to a node lead there. *)
LEMMA ZoomIsFound ==
    ASSUME NEW g, TreeOK(g), NEW p \in DOMAIN g
    PROVE  GetZoomNode(g, p) = p
<1> DEFINE moves == [k \in DOMAIN p |-> [q \in DOMAIN g |->
                        IF HasChild(g[q], p[k])
                        THEN Append(q, ChildByName(g[q], p[k])) ELSE q]]
           at == Walk(<<>>, moves)
<1>1. p \in Seq(Names) /\ <<>> \in DOMAIN g
  BY DEF TreeOK
<1>2. Len(p) \in Nat /\ DOMAIN p = 1 .. Len(p) /\ \A k \in 1 .. Len(p) : p[k] \in Names
  BY <1>1
<1>3. Len(moves) = Len(p)
  BY <1>2
<1>4. ASSUME NEW k \in 1 .. Len(p), NEW q \in DOMAIN g
      PROVE  moves[k][q] = IF Append(q, p[k]) \in DOMAIN g THEN Append(q, p[k]) ELSE q
  BY <1>2, ChildOfName
<1> HIDE DEF moves
<1>5. \A k \in 1 .. Len(p), q \in DOMAIN g : moves[k][q] \in DOMAIN g
  BY <1>4
<1>6. at[0] = <<>> /\ \A k \in 1 .. Len(p) : at[k] = moves[k][at[k - 1]]
  <2>1. PICK e \in DOMAIN g, N \in Nat, M \in {moves}, D \in {DOMAIN g} :
            e = <<>> /\ N = Len(p) /\ M = moves /\ D = DOMAIN g
    BY <1>1, <1>2
  <2>2. e \in D /\ Len(M) = N /\ \A k \in 1 .. N : \A q \in D : M[k][q] \in D
    BY <1>3, <1>5, <2>1
  <2>3. /\ Walk(e, M)[0] = e
        /\ \A k \in 1 .. N : Walk(e, M)[k] = M[k][Walk(e, M)[k - 1]]
    BY <2>2, WalkMoves
  <2> QED
    BY <2>1, <2>3
<1> HIDE DEF at
<1> DEFINE S == {k \in 0 .. Len(p) : at[k] = SubSeq(p, 1, k)}
<1>7. 0 \in S
  <2>1. SubSeq(p, 1, 0) = <<>>
    BY <1>1
  <2>2. at[0] = SubSeq(p, 1, 0)
    BY <1>6, <2>1, Zenon
  <2> QED
    BY <1>2, <2>2
<1>8. ASSUME NEW k \in 1 .. Len(p), k - 1 \in S PROVE k \in S
  <2>1. /\ SubSeq(p, 1, k) = Append(SubSeq(p, 1, k - 1), p[k])
        /\ SubSeq(p, 1, k - 1) \in DOMAIN g /\ SubSeq(p, 1, k) \in DOMAIN g
    BY <1>1, <1>2, NextPart, PartsAreNodes
  <2>2. at[k] = moves[k][SubSeq(p, 1, k - 1)]
    BY <1>6, <1>8
  <2>3. moves[k][SubSeq(p, 1, k - 1)] = SubSeq(p, 1, k)
    <3>1. PICK q \in DOMAIN g : q = SubSeq(p, 1, k - 1)
      BY <2>1
    <3> QED
      BY <1>4, <2>1, <3>1
  <2> QED
    BY <2>2, <2>3
<1>9. 0 .. Len(p) \subseteq S
  <2> HIDE DEF S
  <2> QED
    BY <1>2, <1>7, <1>8, UpTo
<1>10. SubSeq(p, 1, Len(p)) = p
  BY <1>1
<1>11. at[Len(p)] = p
  BY <1>2, <1>9, <1>10
<1> QED
  BY <1>11 DEF GetZoomNode, at, moves

----------------------------------------------------------------------------
(* get_node, step by step. *)
StepTo(g, p, i) ==
    IF i \in DOMAIN g[p].names THEN Append(p, g[p].names[i]) ELSE p

LEMMA StepsMove ==
    ASSUME NEW g, TreeOK(g), NEW from \in DOMAIN g, NEW path \in Seq(Nat)
    PROVE  /\ Len(path) \in Nat /\ DOMAIN path = 1 .. Len(path)
           /\ Steps(g, from, path)[0] = from
           /\ \A k \in 0 .. Len(path) : Steps(g, from, path)[k] \in DOMAIN g
           /\ \A k \in 1 .. Len(path) :
                  Steps(g, from, path)[k] = StepTo(g, Steps(g, from, path)[k - 1], path[k])
<1> DEFINE moves == [k \in DOMAIN path |-> [p \in DOMAIN g |->
                        IF path[k] \in DOMAIN g[p].names
                        THEN Append(p, g[p].names[path[k]]) ELSE p]]
<1>1. Len(path) \in Nat /\ DOMAIN path = 1 .. Len(path)
  OBVIOUS
<1>2. Len(moves) = Len(path)
  BY <1>1
<1>3. \A k \in 1 .. Len(path), p \in DOMAIN g : moves[k][p] = StepTo(g, p, path[k])
  BY <1>1 DEF StepTo
<1> HIDE DEF moves
<1>4. \A p \in DOMAIN g : \A i : StepTo(g, p, i) \in DOMAIN g
  BY ChildIsThere DEF StepTo
<1>5. Steps(g, from, path) = Walk(from, moves)
  BY DEF Steps, moves
<1>6. PICK N \in Nat, M \in {moves}, D \in {DOMAIN g} :
          N = Len(path) /\ M = moves /\ D = DOMAIN g
  BY <1>1
<1>7. from \in D /\ Len(M) = N /\ \A k \in 1 .. N : \A q \in D : M[k][q] \in D
  BY <1>2, <1>3, <1>4, <1>6
<1>8. /\ Walk(from, M)[0] = from
      /\ \A k \in 0 .. N : Walk(from, M)[k] \in D
      /\ \A k \in 1 .. N : Walk(from, M)[k] = M[k][Walk(from, M)[k - 1]]
  BY <1>7, WalkMoves
<1>9. \A k \in 1 .. N : k - 1 \in 0 .. N
  OBVIOUS
<1>10. \A k \in 1 .. N : Walk(from, M)[k] = StepTo(g, Walk(from, M)[k - 1], path[k])
  BY <1>3, <1>6, <1>8, <1>9
<1> QED
  BY <1>1, <1>5, <1>6, <1>8, <1>10

LEMMA PartOfAppend ==
    ASSUME NEW X, NEW p \in Seq(X), NEW x \in X, NEW n \in 0 .. Len(p)
    PROVE  SubSeq(Append(p, x), 1, n) = SubSeq(p, 1, n)
<1>1. PICK b \in Seq(X) : b = Append(p, x)
  BY AppendPoints
<1>2. Len(b) = Len(p) + 1 /\ \A i \in 1 .. Len(p) : b[i] = p[i]
  BY <1>1, AppendPoints
<1>3. PICK m \in 0 .. Len(b) : m = n
  BY <1>2
<1>4. PICK c \in Seq(X) : c = SubSeq(p, 1, n) /\ Len(c) = n /\ \A i \in 1 .. n : c[i] = p[i]
  <2>1. /\ SubSeq(p, 1, n) \in Seq(X) /\ Len(SubSeq(p, 1, n)) = n
        /\ \A i \in 1 .. n : SubSeq(p, 1, n)[i] = p[i]
    BY FirstPart
  <2> QED
    BY <2>1
<1>5. PICK d \in Seq(X) : d = SubSeq(b, 1, m) /\ Len(d) = m /\ \A i \in 1 .. m : d[i] = b[i]
  <2>1. /\ SubSeq(b, 1, m) \in Seq(X) /\ Len(SubSeq(b, 1, m)) = m
        /\ \A i \in 1 .. m : SubSeq(b, 1, m)[i] = b[i]
    BY FirstPart
  <2> QED
    BY <2>1
<1>6. c = d
  BY <1>2, <1>3, <1>4, <1>5, SameSeq
<1> QED
  BY <1>1, <1>3, <1>4, <1>5, <1>6

(* The steps that lead to a child each extend the node they start from.     *)
Leading(g, from, path, k, at) ==
    /\ \A j \in 0 .. k : /\ at[j] \in DOMAIN g /\ at[j] \in Seq(Names)
                         /\ Len(at[j]) = Len(from) + j
    /\ \A j \in 0 .. k : at[j] = SubSeq(at[k], 1, Len(from) + j)
    /\ \A j \in 1 .. k : /\ path[j] \in DOMAIN g[at[j - 1]].names
                         /\ at[j] = Append(at[j - 1], g[at[j - 1]].names[path[j]])
                         /\ at[k][Len(from) + j] = g[at[j - 1]].names[path[j]]
                         /\ Last(at[j]) = g[at[j - 1]].names[path[j]]
    /\ IsPrefix(from, at[k])

LEMMA LeadingSteps ==
    ASSUME NEW g, TreeOK(g), NEW from \in DOMAIN g, NEW path \in Seq(Nat),
           NEW k \in 0 .. Len(path), Leads(g, from, path, k)
    PROVE  Leading(g, from, path, k, Steps(g, from, path))
<1> DEFINE at == Steps(g, from, path)
<1>1. /\ Len(path) \in Nat /\ at[0] = from
      /\ \A j \in 0 .. Len(path) : at[j] \in DOMAIN g
      /\ \A j \in 1 .. Len(path) : at[j] = StepTo(g, at[j - 1], path[j])
  BY StepsMove
<1>2. k \in Nat /\ 0 .. k \subseteq 0 .. Len(path) /\ 1 .. k \subseteq 1 .. Len(path)
  BY <1>1
<1>3. \A j \in 1 .. k : path[j] \in DOMAIN g[at[j - 1]].names
  BY DEF Leads
<1> HIDE DEF at
<1>4. \A j \in 0 .. k : at[j] \in DOMAIN g /\ at[j] \in Seq(Names)
  BY <1>1, <1>2 DEF TreeOK
<1>5. ASSUME NEW j \in 1 .. k
      PROVE  /\ at[j] = Append(at[j - 1], g[at[j - 1]].names[path[j]])
             /\ g[at[j - 1]].names[path[j]] \in Names
             /\ Len(at[j]) = Len(at[j - 1]) + 1
             /\ at[j][Len(at[j - 1]) + 1] = g[at[j - 1]].names[path[j]]
             /\ Last(at[j]) = g[at[j - 1]].names[path[j]]
  <2>1. PICK p \in DOMAIN g : p = at[j - 1] /\ path[j] \in DOMAIN g[p].names
    <3>1. j - 1 \in 0 .. k
      OBVIOUS
    <3> QED
      BY <1>3, <1>4, <3>1
  <2> DEFINE i == path[j]
  <2>2. p \in Seq(Names) /\ g[p].names[i] \in Names
    BY <2>1, ChildIsThere
  <2>3. at[j] = Append(p, g[p].names[i])
    BY <1>1, <1>2, <2>1 DEF StepTo
  <2>4. PICK x \in Names : x = g[p].names[i]
    BY <2>2
  <2>5. /\ Len(Append(p, x)) = Len(p) + 1 /\ Append(p, x)[Len(p) + 1] = x
    BY <2>2, AppendPoints
  <2>6. Last(at[j]) = x
    BY <2>3, <2>4, <2>5 DEF Last
  <2> QED
    BY <2>1, <2>2, <2>3, <2>4, <2>5, <2>6
<1>6. Len(from) \in Nat /\ from \in Seq(Names)
  BY DEF TreeOK
<1> DEFINE S == {j \in 0 .. k : /\ Len(at[j]) = Len(from) + j
                                /\ \A i \in 0 .. j : at[i] = SubSeq(at[j], 1, Len(from) + i)}
<1>7. 0 \in S
  <2>1. at[0] = SubSeq(at[0], 1, Len(from) + 0) /\ Len(at[0]) = Len(from) + 0
    <3>1. SubSeq(from, 1, Len(from)) = from /\ Len(from) + 0 = Len(from)
      BY <1>6
    <3> QED
      BY <1>1, <3>1
  <2> QED
    BY <1>2, <2>1
<1>8. ASSUME NEW j \in 1 .. k, j - 1 \in S PROVE j \in S
  <2>1. /\ Len(at[j - 1]) = Len(from) + (j - 1)
        /\ \A i \in 0 .. j - 1 : at[i] = SubSeq(at[j - 1], 1, Len(from) + i)
    BY <1>8
  <2>2. Len(at[j]) = Len(from) + j
    BY <1>5, <1>6, <2>1
  <2>3. ASSUME NEW i \in 0 .. j - 1 PROVE at[i] = SubSeq(at[j], 1, Len(from) + i)
    <3>1. PICK p \in Seq(Names), x \in Names, n \in Nat :
              /\ p = at[j - 1] /\ x = g[p].names[path[j]] /\ n = Len(from) + i
              /\ n \in 0 .. Len(p)
      <4>1. at[j - 1] \in Seq(Names)
        BY <1>4
      <4>2. Len(from) + i \in 0 .. Len(at[j - 1])
        BY <1>6, <2>1
      <4>3. g[at[j - 1]].names[path[j]] \in Names
        BY <1>5
      <4> QED
        BY <4>1, <4>2, <4>3
    <3>2. SubSeq(Append(p, x), 1, n) = SubSeq(p, 1, n)
      BY <3>1, PartOfAppend
    <3>3. at[j] = Append(p, x)
      BY <1>5, <3>1
    <3> QED
      BY <2>1, <3>1, <3>2, <3>3
  <2>4. at[j] = SubSeq(at[j], 1, Len(from) + j)
    <3>1. at[j] \in Seq(Names)
      BY <1>4
    <3>2. SubSeq(at[j], 1, Len(at[j])) = at[j]
      BY <3>1
    <3> QED
      BY <2>2, <3>2
  <2>5. \A i \in 0 .. j : i = j \/ i \in 0 .. j - 1
    OBVIOUS
  <2> QED
    BY <2>2, <2>3, <2>4, <2>5
<1>9. 0 .. k \subseteq S
  <2> HIDE DEF S
  <2> QED
    BY <1>2, <1>7, <1>8, UpTo
<1>10. \A j \in 0 .. k : Len(at[j]) = Len(from) + j /\ at[j] = SubSeq(at[k], 1, Len(from) + j)
  <2>1. k \in S
    <3>1. k \in 0 .. k
      BY <1>2
    <3> HIDE DEF S
    <3> QED
      BY <1>9, <3>1
  <2> QED
    BY <1>9, <2>1
<1>11. PICK q \in Seq(Names) : q = at[k] /\ Len(q) = Len(from) + k
  BY <1>2, <1>4, <1>10
<1>12. ASSUME NEW j \in 1 .. k
       PROVE  at[k][Len(from) + j] = g[at[j - 1]].names[path[j]]
  <2>1. PICK n \in 0 .. Len(q) : n = Len(from) + j /\ n = Len(at[j - 1]) + 1
    <3>1. Len(from) + j \in 0 .. Len(q) /\ Len(from) + j = Len(at[j - 1]) + 1
      <4>1. j \in 0 .. k /\ j - 1 \in 0 .. k
        BY <1>2
      <4>2. Len(at[j - 1]) = Len(from) + (j - 1)
        BY <1>10, <4>1
      <4> QED
        BY <1>2, <1>6, <1>11, <4>2
    <3> QED
      BY <3>1
  <2>2. n \in 1 .. n
    BY <1>6, <2>1
  <2>3. SubSeq(q, 1, n)[n] = q[n]
    BY <2>2, FirstPart
  <2>4. at[j][n] = q[n]
    <3>1. at[j] = SubSeq(q, 1, n)
      <4>1. j \in 0 .. k
        BY <1>2
      <4> QED
        BY <1>10, <1>11, <2>1, <4>1
    <3> QED
      BY <2>3, <3>1
  <2> QED
    BY <1>5, <1>11, <2>1, <2>4
<1>13. IsPrefix(from, q)
  <2>1. PICK n \in 0 .. Len(q) : n = Len(from) + 0
    BY <1>2, <1>6, <1>11
  <2>2. IsPrefix(SubSeq(q, 1, n), q)
    BY FirstPart
  <2>3. at[0] = SubSeq(q, 1, n)
    BY <1>2, <1>10, <1>11, <2>1
  <2> QED
    BY <1>1, <2>2, <2>3
<1> QED
  BY <1>3, <1>4, <1>5, <1>10, <1>11, <1>12, <1>13 DEF at, Leading

(* Paths that begin alike take the same steps. *)
LEMMA SameSteps ==
    ASSUME NEW g, TreeOK(g), NEW from \in DOMAIN g, NEW path \in Seq(Nat),
           NEW other \in Seq(Nat), NEW k \in Nat, k <= Len(path), k <= Len(other),
           \A j \in 1 .. k : path[j] = other[j]
    PROVE  /\ \A j \in 0 .. k : Steps(g, from, path)[j] = Steps(g, from, other)[j]
           /\ Leads(g, from, path, k) <=> Leads(g, from, other, k)
<1> DEFINE S == {j \in 0 .. k : Steps(g, from, path)[j] = Steps(g, from, other)[j]}
<1>1. 0 \in S
  BY StepsMove
<1>2. ASSUME NEW j \in 1 .. k, j - 1 \in S PROVE j \in S
  <2>1. j \in 1 .. Len(path) /\ j \in 1 .. Len(other)
    BY StepsMove
  <2>2. /\ Steps(g, from, path)[j] = StepTo(g, Steps(g, from, path)[j - 1], path[j])
        /\ Steps(g, from, other)[j] = StepTo(g, Steps(g, from, other)[j - 1], other[j])
    BY <2>1, StepsMove
  <2> QED
    BY <1>2, <2>2
<1>3. 0 .. k \subseteq S
  <2> HIDE DEF S
  <2> QED
    BY <1>1, <1>2, UpTo
<1>4. \A j \in 1 .. k : j - 1 \in 0 .. k
  OBVIOUS
<1> QED
  BY <1>3, <1>4 DEF Leads

(* collect_path_names: the names of a path, from a node on, lead to a node. *)
LEMMA NamesLeadToNode ==
    ASSUME NEW g, TreeOK(g), NEW from \in DOMAIN g, NEW path \in Seq(Nat)
    PROVE  from \o CollectPathNames(g, from, path) \in DOMAIN g
<1> DEFINE taken == {k \in 0 .. Len(path) : Leads(g, from, path, k)}
           last == CHOOSE k \in taken : \A j \in taken : j <= k
           at == Steps(g, from, path)
           names == [k \in 1 .. last |-> Last(at[k])]
<1>1. Len(path) \in Nat
  OBVIOUS
<1>2. 0 \in taken /\ taken \in SUBSET (0 .. Len(path))
  BY <1>1 DEF Leads
<1>3. \E k \in taken : \A j \in taken : j <= k
  <2>1. IsFiniteSet(0 .. Len(path)) /\ 0 .. Len(path) \subseteq Int
    BY <1>1, FS_Interval
  <2>2. IsFiniteSet(taken) /\ taken \in SUBSET Int /\ taken # {}
    BY <1>2, <2>1, FS_Subset
  <2> HIDE DEF taken
  <2> QED
    BY <2>2, GreatestExists
<1>4. last \in taken
  <2> HIDE DEF taken
  <2> QED
    BY <1>3
<1>5. last \in 0 .. Len(path) /\ Leads(g, from, path, last)
  BY <1>4
<1> HIDE DEF last, at
<1>6. from \in Seq(Names) /\ Len(from) \in Nat
  BY DEF TreeOK
<1>7. /\ \A j \in 0 .. last : at[j] \in DOMAIN g /\ at[j] \in Seq(Names)
                              /\ Len(at[j]) = Len(from) + j
      /\ \A j \in 1 .. last : /\ at[last][Len(from) + j] = g[at[j - 1]].names[path[j]]
                              /\ Last(at[j]) = g[at[j - 1]].names[path[j]]
      /\ IsPrefix(from, at[last])
  <2>1. PICK k \in 0 .. Len(path) : k = last /\ Leads(g, from, path, k)
    BY <1>5
  <2>2. /\ \A j \in 0 .. k : /\ at[j] \in DOMAIN g /\ at[j] \in Seq(Names)
                            /\ Len(at[j]) = Len(from) + j
        /\ \A j \in 1 .. k : /\ at[k][Len(from) + j] = g[at[j - 1]].names[path[j]]
                            /\ Last(at[j]) = g[at[j - 1]].names[path[j]]
        /\ IsPrefix(from, at[k])
    <3>1. Leading(g, from, path, k, Steps(g, from, path))
      BY <2>1, LeadingSteps
    <3> QED
      BY <3>1, Zenon DEF at, Leading
  <2> QED
    BY <2>1, <2>2
<1>8. last \in Nat /\ last \in 0 .. last
  BY <1>1, <1>5
<1>9. PICK q \in Seq(Names) : q = at[last] /\ q \in DOMAIN g /\ Len(q) = Len(from) + last
  BY <1>7, <1>8
<1>10. \A j \in 1 .. last : Len(from) + j \in 1 .. Len(q) /\ q[Len(from) + j] = Last(at[j])
  BY <1>6, <1>7, <1>8, <1>9
<1>11. names \in Seq(Names) /\ Len(names) = last /\ \A j \in 1 .. last : names[j] = q[Len(from) + j]
  <2>1. \A j \in 1 .. last : names[j] = q[Len(from) + j] /\ q[Len(from) + j] \in Names
    BY <1>9, <1>10
  <2>2. names \in [1 .. last -> Names]
    BY <2>1
  <2> QED
    BY <1>8, <2>1, <2>2
<1>12. PICK s \in Seq(Names) : s = names
  BY <1>11
<1>13. /\ from \o s \in Seq(Names) /\ Len(from \o s) = Len(from) + Len(s)
       /\ \A i \in 1 .. Len(from) : (from \o s)[i] = from[i]
       /\ \A i \in 1 .. Len(s) : (from \o s)[Len(from) + i] = s[i]
  BY <1>6
<1> HIDE DEF names
<1>14. \A i \in 1 .. Len(from) : from[i] = q[i]
  BY <1>6, <1>7, <1>9, PrefixPoints
<1>15. PICK t \in Seq(Names) : t = from \o s
  BY <1>13
<1>16. Len(t) = Len(q)
  BY <1>9, <1>11, <1>12, <1>13, <1>15
<1>17. ASSUME NEW i \in 1 .. Len(t) PROVE t[i] = q[i]
  <2>1. CASE i \in 1 .. Len(from)
    BY <1>13, <1>14, <1>15, <2>1
  <2>2. CASE i \notin 1 .. Len(from)
    <3>1. PICK j \in 1 .. last : i = Len(from) + j
      <4>1. i - Len(from) \in 1 .. last /\ i = Len(from) + (i - Len(from))
        BY <1>6, <1>8, <1>9, <1>16, <2>2
      <4> QED
        BY <4>1
    <3>2. t[Len(from) + j] = q[Len(from) + j]
      BY <1>11, <1>12, <1>13, <1>15
    <3> QED
      BY <3>1, <3>2
  <2> QED
    BY <2>1, <2>2
<1>18. t = q
  BY <1>16, <1>17, SameSeq
<1>19. CollectPathNames(g, from, path) = names
  BY DEF CollectPathNames, names, at, last
<1> QED
  BY <1>9, <1>12, <1>15, <1>18, <1>19

----------------------------------------------------------------------------
(* The graph of the tab: what has been merged, weighed, indexed, sorted.    *)
GraphInv ==
    /\ merged \in Seq(Sample)
    /\ TreeOK(graph) /\ Weighed(graph, merged) /\ Sorted(graph)
    /\ samples = graph[<<>>].total

LEMMA ExportIsSamples ==
    ASSUME NEW export \in Exports
    PROVE  export \in Seq(Sample)
BY TabAssumption DEF Sample

LEMMA EmptyGraph == Root \in [{<<>>} -> Node] /\ Sorted(Root) /\ Root[<<>>].total = 0
<1>1. Root = [p \in {<<>>} |-> NewNode]
  BY DEF Root
<1>2. DOMAIN Root[<<>>].names = {} /\ Root[<<>>].total = 0
  <2>1. Root[<<>>] = NewNode
    BY <1>1
  <2> QED
    BY <2>1, NewNodeIsNode
<1> QED
  BY <1>1, <1>2, NewNodeIsNode DEF Sorted

LEMMA WholeOfGraph ==
    ASSUME NEW g, NEW r \in Seq(Sample), TreeOK(g), Weighed(g, r)
    PROVE  g[<<>>].total = WeightOf(r) /\ <<>> \in DOMAIN g
<1>1. <<>> \in DOMAIN g /\ <<>> \in Seq(Names)
  BY DEF TreeOK
<1>2. NodeAt(g, <<>>).total = Weigh(r, Through(r, <<>>)) /\ NodeAt(g, <<>>) = g[<<>>]
  BY <1>1 DEF Weighed, NodeAt
<1> QED
  BY <1>1, <1>2, WholeWeight

LEMMA InitGraph == Init => GraphInv
<1> SUFFICES ASSUME Init PROVE GraphInv
  OBVIOUS
<1>1. graph = Root /\ merged = <<>> /\ samples = 0
  BY DEF Init
<1> QED
  BY <1>1, RootIsTree, NothingIsWeighed, EmptyGraph DEF GraphInv

LEMMA ReceiveKeepsGraph ==
    ASSUME GraphInv, NEW export \in Exports, Receive(export), ~frozen
    PROVE  GraphInv'
<1>1. /\ graph' = SortRecursive(MergeNode(graph, GraphOf(export)))
      /\ samples' = samples + WeightOf(export)
      /\ merged' = merged \o export
  BY DEF Receive
<1>2. /\ merged \in Seq(Sample) /\ TreeOK(graph) /\ Weighed(graph, merged)
      /\ samples = graph[<<>>].total
  BY DEF GraphInv
<1>3. PICK e \in Seq(Sample) : e = export
  BY ExportIsSamples
<1>4. TreeOK(GraphOf(e)) /\ Weighed(GraphOf(e), e)
  BY GraphIsWeighed
<1>5. PICK m : /\ m = MergeNode(graph, GraphOf(e))
               /\ TreeOK(m) /\ Weighed(m, merged \o e)
  BY <1>2, <1>4, MergeKeepsTree, MergeIsWeighed
<1>6. PICK r \in Seq(Sample) : r = merged \o e
  <2>1. PICK a \in Seq(Sample) : a = merged
    BY <1>2
  <2>2. a \o e \in Seq(Sample)
    BY JoinedPlaces
  <2> QED
    BY <2>1, <2>2
<1>7. TreeOK(SortRecursive(m)) /\ Weighed(SortRecursive(m), r) /\ Sorted(SortRecursive(m))
  BY <1>5, <1>6, SortKeepsTree
<1>8. TreeOK(graph') /\ Weighed(graph', merged') /\ Sorted(graph') /\ merged' \in Seq(Sample)
  BY <1>1, <1>3, <1>5, <1>6, <1>7
<1>9. samples' = graph'[<<>>].total
  <2>1. /\ graph[<<>>].total = WeightOf(merged)
        /\ graph'[<<>>].total = WeightOf(merged')
    BY <1>2, <1>8, WholeOfGraph
  <2>2. WeightOf(merged \o e) = WeightOf(merged) + WeightOf(e)
    <3>1. /\ WeightOf(merged) = Weigh(merged, Through(merged, <<>>))
          /\ WeightOf(e) = Weigh(e, Through(e, <<>>))
          /\ WeightOf(r) = Weigh(r, Through(r, <<>>))
      BY <1>2, WholeWeight
    <3>2. Weigh(merged \o e, Through(merged \o e, <<>>))
              = Weigh(merged, Through(merged, <<>>)) + Weigh(e, Through(e, <<>>))
      BY <1>2, WeightsJoined
    <3> QED
      BY <1>6, <3>1, <3>2
  <2> QED
    BY <1>1, <1>2, <1>3, <2>1, <2>2
<1> QED
  BY <1>8, <1>9 DEF GraphInv

(* Of the keys, only "r" changes the graph, and empties it.                 *)
LEMMA KeyAndGraph ==
    ASSUME Key
    PROVE  \/ UNCHANGED data
           \/ Reset
BY DEF Key, ToggleFreeze, CursorTo, MoveDown, MoveUp, MoveLeft, MoveRight, ZoomTo,
       ZoomIn, ZoomOut, SetSearch, OpenSearch, TypeSearch, SearchUp, SearchDown,
       PickThread, CloseSearch, data

LEMMA ResetKeepsGraph ==
    ASSUME Reset
    PROVE  GraphInv'
<1>1. graph' = Root /\ merged' = <<>> /\ samples' = 0
  BY DEF Reset
<1> QED
  BY <1>1, RootIsTree, NothingIsWeighed, EmptyGraph DEF GraphInv

LEMMA NextKeepsGraph ==
    ASSUME GraphInv, [Next]_vars
    PROVE  GraphInv'
<1>1. ASSUME UNCHANGED data PROVE GraphInv'
  BY <1>1 DEF data, GraphInv
<1>2. CASE Draw
  BY <1>1, <1>2 DEF Draw
<1>3. CASE Key
  BY <1>1, <1>3, KeyAndGraph, ResetKeepsGraph
<1>4. ASSUME NEW export \in Exports, Receive(export) PROVE GraphInv'
  <2>1. CASE frozen
    BY <1>1, <1>4, <2>1 DEF Receive
  <2>2. CASE ~frozen
    BY <1>4, <2>2, ReceiveKeepsGraph
  <2> QED
    BY <2>1, <2>2
<1>5. CASE UNCHANGED vars
  BY <1>1, <1>5 DEF vars, data
<1> QED
  BY <1>2, <1>3, <1>4, <1>5 DEF Next, Event

----------------------------------------------------------------------------
(* What is laid out are nodes of the tree, and some row is the deepest.     *)
(* A frame is drawn when it and the frames of its callers have columns.     *)
Shown(g, from, p, scale) ==
    \A q \in DOMAIN g : IsPrefix(from, q) /\ IsPrefix(q, p) =>
        FrameOf(g, from, q, scale).width > 0

LEMMA LayoutIs ==
    ASSUME NEW g, TreeOK(g), NEW from \in DOMAIN g, NEW width,
           NEW scale, scale = Scale(width, g[from].total)
    PROVE  /\ IsFiniteSet(LayoutFrames(g, from, width))
           /\ \A f \in LayoutFrames(g, from, width) :
                  /\ f.path \in DOMAIN g /\ IsPrefix(from, f.path)
                  /\ Shown(g, from, f.path, scale)
                  /\ f = FrameOf(g, from, f.path, scale)
                  /\ f.depth = Len(f.path) - Len(from) /\ f.depth \in Nat
                  /\ g[from].total > 0
           /\ \A p \in DOMAIN g :
                  g[from].total > 0 /\ IsPrefix(from, p) /\ Shown(g, from, p, scale) =>
                      FrameOf(g, from, p, scale) \in LayoutFrames(g, from, width)
<1> DEFINE nodes == {q \in DOMAIN g : IsPrefix(from, q)}
           frames == {FrameOf(g, from, p, scale) : p \in nodes}
           drawable == {f \in frames : \A caller \in frames :
                            IsPrefix(caller.path, f.path) => caller.width > 0}
<1>1. IsFiniteSet(nodes) /\ nodes \subseteq DOMAIN g
  <2>1. nodes \in SUBSET (DOMAIN g) /\ IsFiniteSet(DOMAIN g)
    BY DEF TreeOK
  <2> HIDE DEF nodes
  <2> QED
    BY <2>1, FS_Subset
<1>2. IsFiniteSet(frames)
  <2> DEFINE frame == [p \in nodes |-> FrameOf(g, from, p, scale)]
  <2> HIDE DEF nodes
  <2>1. frame \in Surjection(nodes, frames)
    BY DEF Surjection
  <2> HIDE DEF frame, frames
  <2> QED
    BY <1>1, <2>1, FS_Surjection
<1>3. LayoutFrames(g, from, width) = IF g[from].total <= 0 THEN {} ELSE drawable
  BY Zenon DEF LayoutFrames
<1>4. IsFiniteSet({}) /\ IsFiniteSet(drawable)
  <2>1. drawable \in SUBSET frames
    OBVIOUS
  <2> HIDE DEF drawable, frames
  <2> QED
    BY <1>2, <2>1, FS_EmptySet, FS_Subset
<1>5. g[from].total \in Nat
  BY DEF TreeOK, Node
<1>6. \A p : FrameOf(g, from, p, scale).path = p
             /\ FrameOf(g, from, p, scale).depth = Len(p) - Len(from)
  BY DEF FrameOf
<1>7. ASSUME NEW f \in LayoutFrames(g, from, width)
      PROVE  /\ f.path \in DOMAIN g /\ IsPrefix(from, f.path)
             /\ Shown(g, from, f.path, scale)
             /\ f = FrameOf(g, from, f.path, scale)
             /\ f.depth = Len(f.path) - Len(from) /\ f.depth \in Nat
             /\ g[from].total > 0
  <2>1. f \in drawable /\ ~(g[from].total <= 0)
    BY <1>3
  <2>2. PICK p \in nodes : f = FrameOf(g, from, p, scale)
    BY <2>1
  <2>3. f.path = p /\ f.depth = Len(p) - Len(from)
    BY <1>6, <2>2
  <2>4. p \in DOMAIN g /\ IsPrefix(from, p) /\ p \in Seq(Names) /\ from \in Seq(Names)
    BY DEF TreeOK
  <2>5. Len(p) - Len(from) \in Nat
    <3>1. Len(from) <= Len(p)
      BY <2>4, PrefixPoints
    <3> QED
      BY <2>4, <3>1
  <2>6. ASSUME NEW q \in DOMAIN g, IsPrefix(from, q), IsPrefix(q, p)
        PROVE  FrameOf(g, from, q, scale).width > 0
    <3>1. FrameOf(g, from, q, scale) \in frames /\ FrameOf(g, from, q, scale).path = q
      BY <1>6, <2>6
    <3>2. \A caller \in frames : IsPrefix(caller.path, p) => caller.width > 0
      BY <2>1, <2>3
    <3> HIDE DEF frames, drawable
    <3> QED
      BY <2>6, <3>1, <3>2, Zenon
  <2>7. Shown(g, from, p, scale)
    BY <2>6 DEF Shown
  <2> QED
    BY <1>5, <2>1, <2>2, <2>3, <2>4, <2>5, <2>7
<1>8. ASSUME NEW p \in DOMAIN g, g[from].total > 0, IsPrefix(from, p),
             Shown(g, from, p, scale)
      PROVE  FrameOf(g, from, p, scale) \in LayoutFrames(g, from, width)
  <2>1. FrameOf(g, from, p, scale) \in frames
    BY <1>8
  <2>2. ASSUME NEW caller \in frames, IsPrefix(caller.path, FrameOf(g, from, p, scale).path)
        PROVE  caller.width > 0
    <3>1. PICK q \in DOMAIN g : IsPrefix(from, q) /\ caller = FrameOf(g, from, q, scale)
      OBVIOUS
    <3>2. IsPrefix(q, p)
      BY <1>6, <2>2, <3>1
    <3> HIDE DEF frames, drawable
    <3> QED
      BY <1>8, <3>1, <3>2 DEF Shown
  <2>3. FrameOf(g, from, p, scale) \in drawable
    <3> HIDE DEF frames
    <3> QED
      BY <2>1, <2>2
  <2> QED
    BY <1>3, <1>5, <1>8, <2>3
<1> HIDE DEF frames, drawable, nodes
<1> QED
  BY <1>2, <1>3, <1>4, <1>7, <1>8, Zenon

LEMMA DeepestIs ==
    ASSUME TreeOK(graph), ZoomRoot \in DOMAIN graph
    PROVE  Deepest \in Nat /\ \A f \in Layout : f.depth <= Deepest
<1> DEFINE depths == {f.depth : f \in Layout}
<1>1. IsFiniteSet(Layout) /\ \A f \in Layout : f.depth \in Nat
  BY LayoutIs DEF Layout
<1>2. IsFiniteSet(depths)
  <2> DEFINE depth == [f \in Layout |-> f.depth]
  <2>1. depth \in Surjection(Layout, depths)
    BY DEF Surjection
  <2> HIDE DEF depth, depths
  <2> QED
    BY <1>1, <2>1, FS_Surjection
<1>3. IsFiniteSet(depths \union {0}) /\ depths \union {0} \in SUBSET Nat
  <2>1. IsFiniteSet({0})
    BY FS_Singleton
  <2>2. IsFiniteSet(depths \union {0})
    <3> HIDE DEF depths
    <3> QED
      BY <1>2, <2>1, FS_Union
  <2> QED
    BY <1>1, <2>2
<1> HIDE DEF depths
<1>4. \E d \in depths \union {0} : \A e \in depths : e <= d
  <2>1. PICK d \in depths \union {0} : \A e \in depths \union {0} : e <= d
    BY <1>3, GreatestExists
  <2> QED
    BY <2>1
<1>5. Deepest \in depths \union {0} /\ \A e \in depths : e <= Deepest
  <2>1. Deepest = CHOOSE d \in depths \union {0} : \A e \in depths : e <= d
    BY DEF Deepest, depths
  <2> QED
    BY <1>4, <2>1
<1>6. \A f \in Layout : f.depth \in depths
  BY DEF depths
<1> QED
  BY <1>3, <1>5, <1>6

LEMMA ScrolledIsNat ==
    ASSUME NEW top \in Nat, NEW depth \in Nat, NEW deepest \in Nat,
           NEW height \in Nat \ {0}
    PROVE  Scrolled(top, depth, deepest, height) \in Nat
BY DEF Scrolled, AtMost

LEMMA FrontAndLast ==
    ASSUME NEW X, NEW path \in Seq(X), path # <<>>
    PROVE  /\ Len(path) \in Nat \ {0} /\ Last(path) = path[Len(path)] /\ Last(path) \in X
           /\ Front(path) \in Seq(X) /\ Len(Front(path)) = Len(path) - 1
           /\ Front(path) = SubSeq(path, 1, Len(path) - 1)
           /\ \A i \in 1 .. Len(path) - 1 : Front(path)[i] = path[i]
           /\ path = Append(Front(path), Last(path))
<1>1. Len(path) \in Nat \ {0} /\ Len(path) \in 1 .. Len(path)
  BY EmptySeq
<1>2. Last(path) = path[Len(path)] /\ path[Len(path)] \in X
  BY <1>1 DEF Last
<1>3. Front(path) = SubSeq(path, 1, Len(path) - 1)
  BY DEF Front
<1>4. PICK n \in 0 .. Len(path) : n = Len(path) - 1
  <2>1. PICK l \in Nat \ {0} : l = Len(path)
    BY <1>1
  <2>2. l - 1 \in 0 .. l
    OBVIOUS
  <2> QED
    BY <2>1, <2>2
<1>5. /\ SubSeq(path, 1, n) \in Seq(X) /\ Len(SubSeq(path, 1, n)) = n
      /\ \A i \in 1 .. n : SubSeq(path, 1, n)[i] = path[i]
  BY FirstPart
<1>6. SubSeq(path, 1, Len(path)) = Append(SubSeq(path, 1, Len(path) - 1), path[Len(path)])
  BY <1>1, NextPart
<1>7. SubSeq(path, 1, Len(path)) = path
  OBVIOUS
<1> QED
  BY <1>1, <1>2, <1>3, <1>4, <1>5, <1>6, <1>7

LEMMA SiblingPath ==
    ASSUME NEW X, NEW path \in Seq(X), path # <<>>, NEW x \in X
    PROVE  /\ Front(path) \o <<x>> \in Seq(X) /\ Len(Front(path) \o <<x>>) = Len(path)
           /\ \A i \in 1 .. Len(path) - 1 : (Front(path) \o <<x>>)[i] = path[i]
           /\ (Front(path) \o <<x>>)[Len(path)] = x
<1>1. PICK q \in Seq(X) : q = Front(path)
  BY FrontAndLast
<1>2. /\ Len(path) \in Nat \ {0} /\ Len(q) = Len(path) - 1
      /\ \A i \in 1 .. Len(path) - 1 : q[i] = path[i]
  BY <1>1, FrontAndLast
<1>3. q \o <<x>> \in Seq(X) /\ Len(q \o <<x>>) = Len(q) + 1
  OBVIOUS
<1>4. (\A i \in 1 .. Len(q) : (q \o <<x>>)[i] = q[i]) /\ (q \o <<x>>)[Len(q) + 1] = x
  OBVIOUS
<1>5. Len(q) + 1 = Len(path)
  BY <1>2
<1> QED
  BY <1>1, <1>2, <1>3, <1>4, <1>5

----------------------------------------------------------------------------
(* What arrives takes nothing away: nodes stay, and weigh no less.          *)
Grown(g, h) ==
    /\ DOMAIN g \subseteq DOMAIN h
    /\ \A p \in DOMAIN g : /\ g[p].total \in Nat /\ h[p].total \in Nat
                           /\ g[p].total <= h[p].total

LEMMA GraphGrows ==
    ASSUME GraphInv, NEW export \in Exports, Receive(export), ~frozen
    PROVE  Grown(graph, graph')
<1>1. GraphInv' /\ merged' = merged \o export
  BY ReceiveKeepsGraph DEF Receive
<1>2. PICK a \in Seq(Sample), e \in Seq(Sample), b \in Seq(Sample) :
          a = merged /\ e = export /\ b = a \o e /\ b = merged'
  BY <1>1, ExportIsSamples, JoinedPlaces DEF GraphInv
<1>3. DOMAIN graph = Stacks(a) /\ DOMAIN graph' = Stacks(b)
  BY <1>1, <1>2 DEF GraphInv, Weighed
<1>4. Stacks(b) = Stacks(a) \union Stacks(e)
  BY <1>2, StacksJoined
<1>5. ASSUME NEW p \in DOMAIN graph
      PROVE  graph[p].total \in Nat /\ graph'[p].total \in Nat /\ graph[p].total <= graph'[p].total
  <2>1. p \in Seq(Names) /\ p \in DOMAIN graph'
    BY <1>3, <1>4 DEF GraphInv, TreeOK
  <2>2. /\ graph[p].total = Weigh(a, Through(a, p))
        /\ graph'[p].total = Weigh(b, Through(b, p))
    BY <1>1, <1>2, <2>1 DEF GraphInv, Weighed, NodeAt
  <2>3. Weigh(a \o e, Through(a \o e, p)) = Weigh(a, Through(a, p)) + Weigh(e, Through(e, p))
    BY WeightsJoined
  <2>4. Weigh(a, Through(a, p)) \in Nat /\ Weigh(e, Through(e, p)) \in Nat
    BY WeighIsNat
  <2> QED
    BY <1>2, <2>2, <2>3, <2>4
<1> QED
  BY <1>3, <1>4, <1>5 DEF Grown

(* Every node but the root has a sample in it, and so have its callers.     *)
LEMMA NodesWeigh ==
    ASSUME GraphInv, NEW p \in DOMAIN graph, NEW c \in DOMAIN graph, c # <<>>, IsPrefix(p, c)
    PROVE  graph[p].total \in Nat /\ graph[p].total > 0
<1>1. /\ merged \in Seq(Sample) /\ DOMAIN graph = Stacks(merged)
      /\ p \in Seq(Names) /\ c \in Seq(Names)
  BY DEF GraphInv, Weighed, TreeOK
<1>2. PICK k \in DOMAIN merged : c \in Prefixes(merged[k].stack)
  BY <1>1 DEF Stacks
<1>3. PICK s \in Seq(Names) : s = merged[k].stack
  BY <1>1, SampleParts
<1>4. IsPrefix(c, s)
  BY <1>2, <1>3, InPrefixes
<1>5. IsPrefix(p, s)
  BY <1>1, <1>4, PrefixPoints
<1>6. k \in Through(merged, p)
  BY <1>3, <1>5 DEF Through
<1>7. /\ graph[p].total = Weigh(merged, Through(merged, p))
      /\ Weigh(merged, Through(merged, p)) \in Nat
  BY <1>1, WeighIsNat DEF GraphInv, Weighed, NodeAt
<1>8. merged[k].value <= Weigh(merged, Through(merged, p))
  BY <1>1, <1>6, WeighSample
<1>9. merged[k].value \in Nat /\ merged[k].value > 0
  BY <1>1, SampleParts
<1> QED
  BY <1>7, <1>8, <1>9

----------------------------------------------------------------------------
(* Where cursor, zoom and search stand. *)
ViewInv ==
    /\ zoom \in DOMAIN graph
    /\ cursor \in Seq(Nat) /\ scroll \in Nat
    /\ search = [active |-> search.active, matches |-> search.matches,
                 cursor |-> search.cursor]
    /\ search.active \in BOOLEAN
    /\ search.matches \in Seq(Names)
    /\ ToSet(search.matches) \subseteq ToSet(graph[<<>>].names)
    /\ search.cursor \in Nat \ {0}
    /\ search.matches # <<>> => search.cursor <= Len(search.matches)
    /\ ~search.active => search.matches = <<>>

LEMMA ClosedIs ==
    /\ Closed = [active |-> Closed.active, matches |-> Closed.matches,
                 cursor |-> Closed.cursor]
    /\ Closed.active = FALSE /\ Closed.matches = <<>> /\ Closed.cursor = 1
    /\ Closed.matches \in Seq(Names) /\ ToSet(Closed.matches) = {}
<1>1. Closed.active = FALSE /\ Closed.matches = <<>> /\ Closed.cursor = 1
  BY DEF Closed
<1>2. <<>> \in Seq(Names) /\ ToSet(<<>>) = {}
  BY DEF ToSet
<1> QED
  BY <1>1, <1>2 DEF Closed

LEMMA InitView == Init => ViewInv
<1> SUFFICES ASSUME Init PROVE ViewInv
  OBVIOUS
<1>1. /\ graph = Root /\ zoom = <<>> /\ cursor = <<>> /\ scroll = 0 /\ search = Closed
  BY DEF Init
<1>2. zoom \in DOMAIN graph
  BY <1>1 DEF Root
<1>3. cursor \in Seq(Nat) /\ scroll \in Nat
  BY <1>1
<1>4. /\ search.active = FALSE /\ search.matches = <<>> /\ search.cursor = 1
      /\ search.matches \in Seq(Names) /\ ToSet(search.matches) = {}
      /\ search = [active |-> search.active, matches |-> search.matches,
                   cursor |-> search.cursor]
  BY <1>1, ClosedIs
<1>5. search.active \in BOOLEAN
  BY <1>4, Zenon
<1>6. /\ search.cursor \in Nat \ {0}
      /\ ToSet(search.matches) \subseteq ToSet(graph[<<>>].names)
  BY <1>4
<1> QED
  BY <1>2, <1>3, <1>4, <1>5, <1>6, Zenon DEF ViewInv

LEMMA RootNames ==
    ASSUME TreeOK(graph)
    PROVE  /\ <<>> \in DOMAIN graph /\ graph[<<>>].names \in Seq(Names)
           /\ \A x \in Names : x \in ToSet(graph[<<>>].names) <=> <<x>> \in DOMAIN graph
<1>1. <<>> \in DOMAIN graph /\ graph[<<>>] \in Node
  BY DEF TreeOK
<1>2. ASSUME NEW x \in Names
      PROVE  x \in ToSet(graph[<<>>].names) <=> <<x>> \in DOMAIN graph
  <2>1. PICK e \in Seq(Names) : e = <<>>
    <3>1. <<>> \in Seq(Names)
      OBVIOUS
    <3> QED
      BY <3>1, Zenon
  <2>2. Append(e, x) = <<x>>
    BY <2>1
  <2>3. Append(e, x) \in DOMAIN graph <=> e \in DOMAIN graph /\ x \in ToSet(graph[e].names)
    BY DEF TreeOK
  <2> QED
    BY <1>1, <2>1, <2>2, <2>3
<1> QED
  BY <1>1, <1>2 DEF Node

LEMMA MatchingIs ==
    ASSUME TreeOK(graph), NEW text
    PROVE  /\ Matching(text) \in Seq(Names)
           /\ ToSet(Matching(text)) \subseteq ToSet(graph[<<>>].names)
<1> DEFINE names == graph[<<>>].names
           places == {i \in DOMAIN names : names[i] \in text}
<1>1. names \in Seq(Names) /\ places \in SUBSET (DOMAIN names)
  BY RootNames
<1>2. Matching(text) = Picked(names, places)
  BY DEF Matching
<1> HIDE DEF names, places
<1>3. Matching(text) \in Seq(Names) /\ ToSet(Matching(text)) \subseteq ToSet(names)
  BY <1>1, <1>2, PickedIsFrom
<1> QED
  BY <1>3 DEF names

LEMMA ZoomIs ==
    ASSUME TreeOK(graph), zoom \in DOMAIN graph
    PROVE  ZoomRoot = zoom
BY ZoomIsFound DEF ZoomRoot

(* Keys that change neither the search nor the graph.                       *)
LEMMA MovesKeepView ==
    ASSUME ViewInv, UNCHANGED <<graph, zoom, search>>, cursor' \in Seq(Nat), scroll' \in Nat
    PROVE  ViewInv'
BY DEF ViewInv

(* Only the number of the match is changed. *)
LEMMA SearchKeepsView ==
    ASSUME ViewInv, UNCHANGED <<graph, zoom, cursor, scroll>>,
           NEW n \in Nat \ {0}, search' = [search EXCEPT !.cursor = n],
           n <= Len(search.matches) \/ n <= search.cursor
    PROVE  ViewInv'
<1>1. PICK a \in BOOLEAN, m \in Seq(Names), c \in Nat \ {0} :
          /\ search = [active |-> a, matches |-> m, cursor |-> c]
          /\ a = search.active /\ m = search.matches /\ c = search.cursor
  BY DEF ViewInv
<1>2. /\ search'.cursor = n /\ search'.matches = m /\ search'.active = a
      /\ search' = [x \in {"active", "matches", "cursor"} |-> search'[x]]
  BY <1>1
<1>3. search' = [active |-> search'.active, matches |-> search'.matches,
                 cursor |-> search'.cursor]
  BY <1>2
<1>4. m # <<>> => n <= Len(m)
  BY <1>1 DEF ViewInv
<1>5. ToSet(m) \subseteq ToSet(graph'[<<>>].names) /\ zoom' \in DOMAIN graph'
  BY <1>1 DEF ViewInv
<1>6. (~a => m = <<>>) /\ cursor' \in Seq(Nat) /\ scroll' \in Nat
  BY <1>1 DEF ViewInv
<1> QED
  BY <1>2, <1>3, <1>4, <1>5, <1>6, Zenon DEF ViewInv

LEMMA OpenKeepsView ==
    ASSUME ViewInv, TreeOK(graph), NEW text, SetSearch(Matching(text))
    PROVE  ViewInv'
<1>1. /\ UNCHANGED <<graph, zoom, cursor, scroll>>
      /\ search' = [active |-> TRUE, matches |-> Matching(text), cursor |-> 1]
  BY DEF SetSearch, data, view
<1>2. PICK m \in Seq(Names) : /\ m = Matching(text)
                              /\ ToSet(m) \subseteq ToSet(graph[<<>>].names)
  BY MatchingIs
<1>3. search'.cursor = 1 /\ search'.matches = m /\ search'.active = TRUE
  BY <1>1, <1>2
<1>4. search' = [active |-> search'.active, matches |-> search'.matches,
                 cursor |-> search'.cursor]
  BY <1>1, <1>2, <1>3, Zenon
<1>5. m # <<>> => 1 <= Len(m)
  <2>1. m # <<>> => Len(m) \in Nat \ {0}
    BY EmptySeq
  <2> QED
    BY <2>1
<1>6. /\ ToSet(m) \subseteq ToSet(graph'[<<>>].names) /\ zoom' \in DOMAIN graph'
      /\ cursor' \in Seq(Nat) /\ scroll' \in Nat
  BY <1>1, <1>2 DEF ViewInv
<1>7. search'.active \in BOOLEAN /\ 1 \in Nat \ {0}
  <2>1. search'.active \in BOOLEAN
    BY <1>3, Zenon
  <2>2. 1 \in Nat \ {0}
    OBVIOUS
  <2> QED
    BY <2>1, <2>2
<1> QED
  BY <1>3, <1>4, <1>5, <1>6, <1>7, Zenon DEF ViewInv

(* The search closes, and the zoom is where there is a node. *)
LEMMA CloseKeepsView ==
    ASSUME search' = Closed, zoom' \in DOMAIN graph', cursor' \in Seq(Nat), scroll' \in Nat
    PROVE  ViewInv'
<1>1. /\ search' = [active |-> search'.active, matches |-> search'.matches,
                    cursor |-> search'.cursor]
      /\ search'.active = FALSE /\ search'.matches = <<>> /\ search'.cursor = 1
      /\ search'.matches \in Seq(Names) /\ ToSet(search'.matches) = {}
  BY ClosedIs
<1>2. search'.active \in BOOLEAN
  BY <1>1, Zenon
<1>3. search'.cursor \in Nat \ {0} /\ ToSet(search'.matches) \subseteq ToSet(graph'[<<>>].names)
  BY <1>1
<1> QED
  BY <1>1, <1>2, <1>3, Zenon DEF ViewInv

LEMMA ReceiveKeepsView ==
    ASSUME GraphInv, ViewInv, NEW export \in Exports, Receive(export), ~frozen
    PROVE  ViewInv'
<1>1. GraphInv' /\ Grown(graph, graph')
  BY ReceiveKeepsGraph, GraphGrows
<1>2. UNCHANGED <<cursor, zoom, scroll, search>>
  BY DEF Receive, view
<1>3. zoom' \in DOMAIN graph'
  BY <1>1, <1>2 DEF ViewInv, Grown
<1>4. ToSet(search'.matches) \subseteq ToSet(graph'[<<>>].names)
  <2>1. ASSUME NEW x \in ToSet(search.matches) PROVE x \in ToSet(graph'[<<>>].names)
    <3>1. x \in Names /\ x \in ToSet(graph[<<>>].names)
      <4>1. PICK m \in Seq(Names) :
                m = search.matches /\ ToSet(m) \subseteq ToSet(graph[<<>>].names)
        BY DEF ViewInv
      <4>2. \A y \in ToSet(m) : y \in Names
        BY DEF ToSet
      <4> QED
        BY <4>1, <4>2
    <3>2. <<x>> \in DOMAIN graph
      BY <3>1, RootNames DEF GraphInv
    <3>3. <<x>> \in DOMAIN graph'
      BY <1>1, <3>2 DEF Grown
    <3>4. \A y \in Names : y \in ToSet(graph'[<<>>].names) <=> <<y>> \in DOMAIN graph'
      <4>1. PICK e \in Seq(Names) : e = <<>>
        <5>1. <<>> \in Seq(Names)
          OBVIOUS
        <5> QED
          BY <5>1, Zenon
      <4>2. \A y \in Names : Append(e, y) = <<y>>
        BY <4>1
      <4>3. TreeOK(graph') /\ e \in DOMAIN graph'
        BY <1>1, <4>1 DEF GraphInv, TreeOK
      <4>4. \A y \in Names :
                Append(e, y) \in DOMAIN graph' <=> y \in ToSet(graph'[e].names)
        BY <4>3 DEF TreeOK
      <4> QED
        BY <4>1, <4>2, <4>4
    <3> QED
      BY <3>1, <3>3, <3>4
  <2> QED
    BY <1>2, <2>1
<1> QED
  BY <1>2, <1>3, <1>4 DEF ViewInv

LEMMA KeyKeepsView ==
    ASSUME GraphInv, ViewInv, Key
    PROVE  ViewInv'
<1>1. /\ TreeOK(graph) /\ zoom \in DOMAIN graph /\ zoom \in Seq(Names) /\ ZoomRoot = zoom
      /\ cursor \in Seq(Nat) /\ scroll \in Nat
  BY ZoomIs DEF GraphInv, ViewInv, TreeOK
<1>2. <<>> \in Seq(Nat)
  OBVIOUS
<1>3. CASE ~search.active /\ ToggleFreeze
  BY <1>1, <1>3, MovesKeepView DEF ToggleFreeze, data, view
<1>4. ASSUME NEW path \in Seq(Nat), CursorTo(path) PROVE ViewInv'
  BY <1>1, <1>4, MovesKeepView DEF CursorTo, data
<1>5. CASE ~search.active /\ MoveDown
  <2>1. Append(cursor, 1) \in Seq(Nat)
    BY <1>1
  <2> QED
    BY <1>4, <1>5, <2>1 DEF MoveDown
<1>6. CASE ~search.active /\ MoveUp
  <2>1. Front(cursor) \in Seq(Nat)
    BY <1>1, <1>6, FrontAndLast DEF MoveUp
  <2> QED
    BY <1>4, <1>6, <2>1 DEF MoveUp
<1>7. CASE ~search.active /\ MoveLeft
  <2>1. cursor # <<>> /\ Last(cursor) > 1 /\ Last(cursor) \in Nat
    BY <1>1, <1>7, FrontAndLast DEF MoveLeft
  <2>2. Last(cursor) - 1 \in Nat
    BY <2>1
  <2>3. Front(cursor) \o <<Last(cursor) - 1>> \in Seq(Nat)
    BY <1>1, <2>1, <2>2, SiblingPath
  <2> QED
    BY <1>4, <1>7, <2>3 DEF MoveLeft
<1>8. CASE ~search.active /\ MoveRight
  <2>1. cursor # <<>> /\ Last(cursor) \in Nat
    BY <1>1, <1>8, FrontAndLast DEF MoveRight
  <2>2. Last(cursor) + 1 \in Nat
    BY <2>1
  <2>3. Front(cursor) \o <<Last(cursor) + 1>> \in Seq(Nat)
    BY <1>1, <2>1, <2>2, SiblingPath
  <2> QED
    BY <1>4, <1>8, <2>3 DEF MoveRight
<1>9. ASSUME NEW path \in DOMAIN graph, ZoomTo(path), UNCHANGED search
      PROVE  ViewInv'
  <2>1. UNCHANGED graph /\ zoom' = path /\ cursor' = <<>> /\ scroll' = 0
    BY <1>9 DEF ZoomTo, data
  <2> QED
    BY <1>2, <1>9, <2>1 DEF ViewInv
<1>10. CASE ~search.active /\ ZoomIn
  <2>1. zoom \o CollectPathNames(graph, ZoomRoot, cursor) \in DOMAIN graph
    BY <1>1, NamesLeadToNode
  <2> QED
    BY <1>9, <1>10, <2>1 DEF ZoomIn
<1>11. CASE ~search.active /\ ZoomOut
  <2>1. zoom # <<>>
    BY <1>11 DEF ZoomOut
  <2>2. PICK n \in 0 .. Len(zoom) : Front(zoom) = SubSeq(zoom, 1, n)
    <3>1. Len(zoom) \in Nat \ {0} /\ Front(zoom) = SubSeq(zoom, 1, Len(zoom) - 1)
      BY <1>1, <2>1, FrontAndLast
    <3>2. Len(zoom) - 1 \in 0 .. Len(zoom)
      BY <3>1
    <3> QED
      BY <3>1, <3>2
  <2>3. Front(zoom) \in DOMAIN graph
    BY <1>1, <2>2, PartsAreNodes
  <2> QED
    BY <1>9, <1>11, <2>3 DEF ZoomOut
<1>12. CASE ~search.active /\ Reset
  <2>1. /\ graph' = Root /\ cursor' = <<>> /\ scroll' = 0 /\ zoom' = <<>>
        /\ UNCHANGED search
    BY <1>12 DEF Reset, Emptied
  <2>2. zoom' \in DOMAIN graph'
    BY <2>1 DEF Root
  <2>3. search.matches = <<>> /\ ToSet(search'.matches) \subseteq ToSet(graph'[<<>>].names)
    <3>1. search.matches = <<>>
      BY <1>12 DEF ViewInv
    <3>2. ToSet(<<>>) = {}
      BY DEF ToSet
    <3> QED
      BY <2>1, <3>1, <3>2
  <2>4. cursor' \in Seq(Nat) /\ scroll' \in Nat
    BY <1>2, <2>1
  <2> QED
    BY <2>1, <2>2, <2>3, <2>4 DEF ViewInv
<1>13. CASE ~search.active /\ OpenSearch
  BY <1>1, <1>13, OpenKeepsView DEF OpenSearch
<1>14. ASSUME NEW text, TypeSearch(text) PROVE ViewInv'
  BY <1>1, <1>14, OpenKeepsView DEF TypeSearch
<1>15. search.cursor \in Nat \ {0} /\ Len(search.matches) \in Nat
  BY DEF ViewInv
<1>16. CASE search.active /\ SearchUp
  <2>1. PICK n \in Nat \ {0} : n = search.cursor - 1 /\ n <= search.cursor
    <3>1. search.cursor > 1
      BY <1>16 DEF SearchUp
    <3>2. search.cursor - 1 \in Nat \ {0} /\ search.cursor - 1 <= search.cursor
      BY <1>15, <3>1
    <3> QED
      BY <3>2
  <2>2. search' = [search EXCEPT !.cursor = n] /\ UNCHANGED <<graph, zoom, cursor, scroll>>
    BY <1>16, <2>1 DEF SearchUp, data, view
  <2> QED
    BY <2>1, <2>2, SearchKeepsView
<1>17. CASE search.active /\ SearchDown
  <2>1. PICK n \in Nat \ {0} : n = search.cursor + 1 /\ n <= Len(search.matches)
    BY <1>15, <1>17 DEF SearchDown
  <2>2. search' = [search EXCEPT !.cursor = n] /\ UNCHANGED <<graph, zoom, cursor, scroll>>
    BY <1>17, <2>1 DEF SearchDown, data, view
  <2> QED
    BY <2>1, <2>2, SearchKeepsView
<1>18. CASE search.active /\ PickThread
  <2>1. /\ search.matches # <<>> /\ search' = Closed /\ UNCHANGED graph
        /\ zoom' = <<search.matches[search.cursor]>> /\ cursor' = <<>> /\ scroll' = 0
    BY <1>18 DEF PickThread, ZoomTo, data
  <2>2. search.cursor \in DOMAIN search.matches
    BY <1>15, <2>1 DEF ViewInv
  <2>3. PICK x \in Names : x = search.matches[search.cursor] /\ x \in ToSet(graph[<<>>].names)
    <3>1. PICK m \in Seq(Names), c \in Nat :
              /\ c \in DOMAIN m /\ m = search.matches /\ c = search.cursor
              /\ ToSet(m) \subseteq ToSet(graph[<<>>].names)
      BY <2>2 DEF ViewInv
    <3>2. m[c] \in Names /\ m[c] \in ToSet(m)
      BY <3>1 DEF ToSet
    <3> QED
      BY <3>1, <3>2
  <2>4. zoom' \in DOMAIN graph'
    BY <1>1, <2>1, <2>3, RootNames
  <2> QED
    BY <1>2, <2>1, <2>4, CloseKeepsView
<1>19. CASE search.active /\ CloseSearch
  BY <1>1, <1>19, CloseKeepsView DEF CloseSearch, data, view
<1> QED
  BY <1>3, <1>5, <1>6, <1>7, <1>8, <1>10, <1>11, <1>12, <1>13, <1>14, <1>16, <1>17,
     <1>18, <1>19 DEF Key

LEMMA NextKeepsView ==
    ASSUME GraphInv, ViewInv, [Next]_vars
    PROVE  ViewInv'
<1>1. CASE Draw
  <2>1. /\ TreeOK(graph) /\ ZoomRoot = zoom /\ zoom \in DOMAIN graph
        /\ Len(cursor) \in Nat /\ scroll \in Nat
    BY ZoomIs DEF GraphInv, ViewInv
  <2>2. Deepest \in Nat /\ Height \in Nat \ {0}
    BY <2>1, DeepestIs, TabAssumption
  <2>3. scroll' \in Nat /\ UNCHANGED <<graph, zoom, cursor, search>>
    BY <1>1, <2>1, <2>2, ScrolledIsNat DEF Draw, data
  <2> QED
    BY <2>3, MovesKeepView DEF ViewInv
<1>2. CASE Key
  BY <1>2, KeyKeepsView
<1>3. ASSUME NEW export \in Exports, Receive(export) PROVE ViewInv'
  <2>1. CASE frozen
    BY <1>3, <2>1 DEF Receive, ViewInv, data, view
  <2>2. CASE ~frozen
    BY <1>3, <2>2, ReceiveKeepsView
  <2> QED
    BY <2>1, <2>2
<1>4. CASE UNCHANGED vars
  BY <1>4 DEF vars, ViewInv
<1> QED
  BY <1>1, <1>2, <1>3, <1>4 DEF Next, Event

----------------------------------------------------------------------------
(* One step more, and one step less. *)
LEMMA NextStep ==
    ASSUME NEW g, TreeOK(g), NEW from \in DOMAIN g, NEW path \in Seq(Nat),
           NEW other \in Seq(Nat), Len(other) = Len(path) + 1,
           \A i \in 1 .. Len(path) : other[i] = path[i],
           Resolves(g, from, path),
           other[Len(other)] \in DOMAIN g[GetNode(g, from, path)].names
    PROVE  Resolves(g, from, other)
<1>1. Len(path) \in Nat /\ Len(other) \in Nat
  OBVIOUS
<1>2. PICK k \in Nat : k = Len(path) /\ k + 1 = Len(other) /\ k <= Len(path) /\ k <= Len(other)
  BY <1>1
<1>3. \A i \in 1 .. k : path[i] = other[i]
  BY <1>2
<1>4. /\ \A j \in 0 .. k : Steps(g, from, path)[j] = Steps(g, from, other)[j]
      /\ Leads(g, from, path, k) <=> Leads(g, from, other, k)
  BY <1>2, <1>3, SameSteps
<1>5. Leads(g, from, other, k)
  BY <1>2, <1>4 DEF Resolves
<1>6. other[k + 1] \in DOMAIN g[Steps(g, from, other)[k]].names
  <2>1. k \in 0 .. k
    BY <1>2
  <2> QED
    BY <1>2, <1>4, <2>1 DEF GetNode
<1>7. ASSUME NEW j \in 1 .. k + 1
      PROVE  other[j] \in DOMAIN g[Steps(g, from, other)[j - 1]].names
  <2>1. j \in 1 .. k \/ (j = k + 1 /\ j - 1 = k)
    BY <1>2
  <2> QED
    BY <1>5, <1>6, <2>1 DEF Leads
<1> QED
  BY <1>2, <1>7 DEF Resolves, Leads

LEMMA StepBack ==
    ASSUME NEW g, TreeOK(g), NEW from \in DOMAIN g, NEW path \in Seq(Nat), path # <<>>,
           Resolves(g, from, path)
    PROVE  /\ Resolves(g, from, Front(path))
           /\ Last(path) \in DOMAIN g[GetNode(g, from, Front(path))].names
<1>1. PICK k \in Nat, other \in Seq(Nat) :
          /\ other = Front(path) /\ Len(other) = k /\ k + 1 = Len(path)
          /\ Last(path) = path[k + 1]
          /\ \A i \in 1 .. k : path[i] = other[i]
  <2>1. /\ Len(path) \in Nat \ {0} /\ Last(path) = path[Len(path)]
        /\ Front(path) \in Seq(Nat) /\ Len(Front(path)) = Len(path) - 1
        /\ \A i \in 1 .. Len(path) - 1 : Front(path)[i] = path[i]
    BY FrontAndLast
  <2>2. Len(path) - 1 \in Nat /\ (Len(path) - 1) + 1 = Len(path)
    BY <2>1
  <2> QED
    BY <2>1, <2>2
<1>2. /\ \A j \in 0 .. k : Steps(g, from, path)[j] = Steps(g, from, other)[j]
      /\ Leads(g, from, path, k) <=> Leads(g, from, other, k)
  <2>1. k <= Len(path) /\ k <= Len(other)
    BY <1>1
  <2> QED
    BY <1>1, <2>1, SameSteps
<1>3. \A j \in 1 .. k + 1 : path[j] \in DOMAIN g[Steps(g, from, path)[j - 1]].names
  BY <1>1 DEF Resolves, Leads
<1>4. Leads(g, from, path, k)
  BY <1>3 DEF Leads
<1>5. path[k + 1] \in DOMAIN g[Steps(g, from, path)[k]].names
  <2>1. k + 1 \in 1 .. k + 1 /\ (k + 1) - 1 = k
    OBVIOUS
  <2> QED
    BY <1>3, <2>1
<1>6. k \in 0 .. k
  OBVIOUS
<1> QED
  BY <1>1, <1>2, <1>4, <1>5, <1>6 DEF Resolves, GetNode

LEMMA NoStep == \A g, from : Resolves(g, from, <<>>)
<1>1. Len(<<>>) = 0
  OBVIOUS
<1> QED
  BY <1>1 DEF Resolves, Leads

(* Keys and the cursor. *)
LEMMA KeyKeepsResolving ==
    ASSUME GraphInv, ViewInv, Key, Resolves(graph, zoom, cursor)
    PROVE  Resolves(graph', zoom', cursor')
<1>1. /\ TreeOK(graph) /\ zoom \in DOMAIN graph /\ ZoomRoot = zoom /\ cursor \in Seq(Nat)
  BY ZoomIs DEF GraphInv, ViewInv
<1>2. ASSUME cursor' = <<>> PROVE Resolves(graph', zoom', cursor')
  BY <1>2, NoStep
<1>3. ASSUME UNCHANGED <<graph, zoom, cursor>> PROVE Resolves(graph', zoom', cursor')
  BY <1>3
<1>4. ASSUME NEW path \in Seq(Nat), CursorTo(path), Resolves(graph, zoom, path)
      PROVE  Resolves(graph', zoom', cursor')
  BY <1>4 DEF CursorTo, data
<1>5. CASE MoveDown
  <2>1. /\ Append(cursor, 1) \in Seq(Nat) /\ Len(Append(cursor, 1)) = Len(cursor) + 1
        /\ Append(cursor, 1)[Len(cursor) + 1] = 1
        /\ \A i \in 1 .. Len(cursor) : Append(cursor, 1)[i] = cursor[i]
    BY <1>1, AppendPoints
  <2>2. GetNode(graph, zoom, cursor) \in DOMAIN graph
    BY <1>1, StepsMove DEF GetNode
  <2>3. graph[GetNode(graph, zoom, cursor)].names \in Seq(Names)
    BY <1>1, <2>2 DEF TreeOK, Node
  <2>4. 1 \in DOMAIN graph[GetNode(graph, zoom, cursor)].names
    <3>1. graph[GetNode(graph, zoom, cursor)].names # <<>>
      BY <1>1, <1>5 DEF MoveDown
    <3> QED
      BY <2>3, <3>1
  <2>5. PICK other \in Seq(Nat) : other = Append(cursor, 1)
    BY <2>1
  <2>6. Resolves(graph, zoom, other)
    BY <1>1, <2>1, <2>4, <2>5, NextStep
  <2> QED
    BY <1>4, <1>5, <2>5, <2>6 DEF MoveDown
<1>6. CASE MoveUp
  <2>1. cursor # <<>>
    BY <1>6 DEF MoveUp
  <2>2. Front(cursor) \in Seq(Nat) /\ Resolves(graph, zoom, Front(cursor))
    BY <1>1, <2>1, FrontAndLast, StepBack
  <2> QED
    BY <1>4, <1>6, <2>2 DEF MoveUp
<1>7. ASSUME cursor # <<>>, NEW x \in Nat, CursorTo(Front(cursor) \o <<x>>),
             x \in DOMAIN graph[GetNode(graph, zoom, Front(cursor))].names
      PROVE  Resolves(graph', zoom', cursor')
  <2>1. PICK other \in Seq(Nat), parent \in Seq(Nat) :
            /\ other = Front(cursor) \o <<x>> /\ parent = Front(cursor)
            /\ Len(other) = Len(parent) + 1 /\ other[Len(other)] = x
            /\ \A i \in 1 .. Len(parent) : other[i] = parent[i]
    <3>1. /\ Front(cursor) \in Seq(Nat) /\ Len(cursor) \in Nat \ {0}
          /\ Len(Front(cursor)) = Len(cursor) - 1
          /\ \A i \in 1 .. Len(cursor) - 1 : Front(cursor)[i] = cursor[i]
      BY <1>1, <1>7, FrontAndLast
    <3>2. /\ Front(cursor) \o <<x>> \in Seq(Nat)
          /\ Len(Front(cursor) \o <<x>>) = Len(cursor)
          /\ \A i \in 1 .. Len(cursor) - 1 : (Front(cursor) \o <<x>>)[i] = cursor[i]
          /\ (Front(cursor) \o <<x>>)[Len(cursor)] = x
      BY <1>1, <1>7, SiblingPath
    <3>3. PICK a \in Seq(Nat), b \in Seq(Nat) : a = Front(cursor) \o <<x>> /\ b = Front(cursor)
      BY <3>1, <3>2
    <3>4. /\ Len(a) = Len(b) + 1 /\ a[Len(a)] = x /\ \A i \in 1 .. Len(b) : a[i] = b[i]
      BY <3>1, <3>2, <3>3
    <3> QED
      BY <3>3, <3>4
  <2>2. Resolves(graph, zoom, parent)
    BY <1>1, <1>7, <2>1, StepBack
  <2>3. Resolves(graph, zoom, other)
    BY <1>1, <1>7, <2>1, <2>2, NextStep
  <2> QED
    BY <1>4, <1>7, <2>1, <2>3
<1>8. CASE MoveLeft
  <2>1. cursor # <<>> /\ Last(cursor) > 1 /\ Last(cursor) \in Nat
    BY <1>1, <1>8, FrontAndLast DEF MoveLeft
  <2>2. Last(cursor) \in DOMAIN graph[GetNode(graph, zoom, Front(cursor))].names
    BY <1>1, <2>1, StepBack
  <2>3. graph[GetNode(graph, zoom, Front(cursor))].names \in Seq(Names)
    <3>1. Front(cursor) \in Seq(Nat)
      BY <1>1, <2>1, FrontAndLast
    <3>2. GetNode(graph, zoom, Front(cursor)) \in DOMAIN graph
      BY <1>1, <3>1, StepsMove DEF GetNode
    <3> QED
      BY <1>1, <3>2 DEF TreeOK, Node
  <2>4. PICK x \in Nat : x = Last(cursor) - 1
                         /\ x \in DOMAIN graph[GetNode(graph, zoom, Front(cursor))].names
    <3>1. Last(cursor) - 1 \in DOMAIN graph[GetNode(graph, zoom, Front(cursor))].names
      BY <2>1, <2>2, <2>3
    <3>2. Last(cursor) - 1 \in Nat
      BY <2>1
    <3> QED
      BY <3>1, <3>2
  <2>5. CursorTo(Front(cursor) \o <<x>>)
    BY <1>8, <2>4 DEF MoveLeft
  <2> QED
    BY <1>7, <2>1, <2>4, <2>5
<1>9. CASE MoveRight
  <2>1. cursor # <<>> /\ Last(cursor) \in Nat
    BY <1>1, <1>9, FrontAndLast DEF MoveRight
  <2>2. graph[GetNode(graph, zoom, Front(cursor))].names \in Seq(Names)
    <3>1. Front(cursor) \in Seq(Nat)
      BY <1>1, <2>1, FrontAndLast
    <3>2. GetNode(graph, zoom, Front(cursor)) \in DOMAIN graph
      BY <1>1, <3>1, StepsMove DEF GetNode
    <3> QED
      BY <1>1, <3>2 DEF TreeOK, Node
  <2>3. Last(cursor) + 1 <= Len(graph[GetNode(graph, zoom, Front(cursor))].names)
    BY <1>1, <1>9 DEF MoveRight, RightLimit
  <2>4. PICK x \in Nat : x = Last(cursor) + 1
                         /\ x \in DOMAIN graph[GetNode(graph, zoom, Front(cursor))].names
    <3>1. Last(cursor) + 1 \in DOMAIN graph[GetNode(graph, zoom, Front(cursor))].names
      BY <2>1, <2>2, <2>3
    <3>2. Last(cursor) + 1 \in Nat
      BY <2>1
    <3> QED
      BY <3>1, <3>2
  <2>5. CursorTo(Front(cursor) \o <<x>>)
    BY <1>9, <2>4 DEF MoveRight
  <2> QED
    BY <1>7, <2>1, <2>4, <2>5
<1>10. CASE \/ ZoomIn \/ ZoomOut \/ Reset \/ PickThread
  BY <1>2, <1>10 DEF ZoomIn, ZoomOut, ZoomTo, Reset, Emptied, PickThread
<1>11. CASE \/ ToggleFreeze \/ OpenSearch \/ (\E text \in SUBSET ThreadNames : TypeSearch(text))
            \/ SearchUp \/ SearchDown \/ CloseSearch
  BY <1>3, <1>11 DEF ToggleFreeze, OpenSearch, TypeSearch, SetSearch, SearchUp,
                     SearchDown, CloseSearch, data, view
<1> QED
  BY <1>5, <1>6, <1>8, <1>9, <1>10, <1>11 DEF Key

----------------------------------------------------------------------------
(* What the detail bar shows: a frame there is, no lighter than shown.      *)
StillThere ==
    \E p \in DOMAIN graph :
        /\ IsPrefix(zoom, p) /\ Len(p) - Len(zoom) = selection.depth
        /\ NodeName(p) = selection.name
        /\ graph[p].total >= selection.total

SelectionInv ==
    /\ selection.total \in Nat
    /\ drawn /\ Resolves(graph, zoom, cursor) => selection = Frame(cursor)
    /\ cursor = <<>> \/ StillThere

LEMMA FrameIs ==
    ASSUME TreeOK(graph), zoom \in DOMAIN graph, NEW path \in Seq(Nat),
           Resolves(graph, zoom, path)
    PROVE  LET p == GetNode(graph, zoom, path)
           IN /\ p \in DOMAIN graph /\ IsPrefix(zoom, p) /\ Len(p) - Len(zoom) = Len(path)
              /\ Frame(path).name = NodeName(p) /\ Frame(path).depth = Len(path)
              /\ Frame(path).total = graph[p].total /\ graph[p].total \in Nat
<1> DEFINE p == GetNode(graph, zoom, path)
<1>1. ZoomRoot = zoom /\ Len(path) \in Nat /\ Len(zoom) \in Nat
  BY ZoomIs DEF TreeOK
<1>2. PICK k \in 0 .. Len(path) : k = Len(path) /\ k \in 0 .. k
  BY <1>1
<1>3. Leading(graph, zoom, path, k, Steps(graph, zoom, path))
  BY <1>2, LeadingSteps DEF Resolves
<1>4. p \in DOMAIN graph /\ IsPrefix(zoom, p) /\ Len(p) = Len(zoom) + Len(path)
  BY <1>2, <1>3, Zenon DEF Leading, GetNode
<1> HIDE DEF p
<1>5. /\ Frame(path).name = NodeName(p) /\ Frame(path).depth = Len(path)
      /\ Frame(path).total = graph[p].total
  BY <1>1 DEF Frame, p
<1>6. graph[p].total \in Nat
  BY <1>4 DEF TreeOK, Node
<1>7. Len(p) - Len(zoom) = Len(path)
  BY <1>1, <1>4
<1> QED
  BY <1>4, <1>5, <1>6, <1>7 DEF p

LEMMA ShownIsThere ==
    ASSUME TreeOK(graph), zoom \in DOMAIN graph, cursor \in Seq(Nat),
           Resolves(graph, zoom, cursor), selection = Frame(cursor)
    PROVE  StillThere /\ selection.total \in Nat
<1>1. PICK p : /\ p \in DOMAIN graph /\ IsPrefix(zoom, p) /\ Len(p) - Len(zoom) = Len(cursor)
               /\ selection.name = NodeName(p) /\ selection.depth = Len(cursor)
               /\ selection.total = graph[p].total /\ graph[p].total \in Nat
  BY FrameIs
<1>2. graph[p].total >= selection.total
  BY <1>1
<1> QED
  BY <1>1, <1>2 DEF StillThere

LEMMA ReceiveKeepsSelection ==
    ASSUME GraphInv, ViewInv, SelectionInv, NEW export \in Exports, Receive(export),
           drawn' = FALSE, UNCHANGED selection
    PROVE  SelectionInv'
<1>1. CASE frozen
  <2>1. UNCHANGED <<graph, zoom, cursor>>
    BY <1>1 DEF Receive, data, view
  <2> QED
    BY <2>1 DEF SelectionInv, StillThere, NodeName
<1>2. CASE ~frozen
  <2>1. Grown(graph, graph')
    BY <1>2, GraphGrows
  <2>2. UNCHANGED <<zoom, cursor>>
    BY <1>2 DEF Receive, view
  <2>3. ASSUME StillThere PROVE StillThere'
    <3>1. PICK p \in DOMAIN graph :
              /\ IsPrefix(zoom, p) /\ Len(p) - Len(zoom) = selection.depth
              /\ NodeName(p) = selection.name /\ graph[p].total >= selection.total
      BY <2>3 DEF StillThere
    <3>2. p \in DOMAIN graph' /\ graph'[p].total >= selection.total
      BY <2>1, <3>1 DEF Grown, SelectionInv
    <3> QED
      BY <2>2, <3>1, <3>2 DEF StillThere, NodeName
  <2> QED
    BY <2>2, <2>3 DEF SelectionInv
<1> QED
  BY <1>1, <1>2

LEMMA KeyKeepsSelection ==
    ASSUME GraphInv, ViewInv, SelectionInv, Key, drawn' = FALSE, UNCHANGED selection
    PROVE  SelectionInv'
<1>1. /\ TreeOK(graph) /\ zoom \in DOMAIN graph /\ ZoomRoot = zoom /\ cursor \in Seq(Nat)
  BY ZoomIs DEF GraphInv, ViewInv
<1>2. ASSUME cursor' = <<>> PROVE SelectionInv'
  BY <1>2 DEF SelectionInv
<1>3. ASSUME UNCHANGED <<graph, zoom, cursor>> PROVE SelectionInv'
  BY <1>3 DEF SelectionInv, StillThere, NodeName
<1>4. ASSUME StillThere, UNCHANGED <<graph, zoom>> PROVE SelectionInv'
  BY <1>4 DEF SelectionInv, StillThere, NodeName
<1>5. CASE MoveDown
  <2>1. UNCHANGED <<graph, zoom>>
    BY <1>5 DEF MoveDown, CursorTo, data
  <2>2. CASE cursor # <<>>
    BY <1>4, <2>1, <2>2 DEF SelectionInv
  <2>3. CASE cursor = <<>>
    <3>1. GetNode(graph, zoom, cursor) = zoom
      <4>1. Len(cursor) = 0
        BY <2>3
      <4> QED
        BY <1>1, <4>1, StepsMove DEF GetNode
    <3>2. graph[zoom].names # <<>> /\ graph[zoom].names \in Seq(Names)
      BY <1>1, <1>5, <3>1 DEF MoveDown, TreeOK, Node
    <3>3. 1 \in DOMAIN graph[zoom].names
      BY <3>2
    <3>4. /\ zoom \in Seq(Names) /\ graph[zoom].names[1] \in Names
          /\ Append(zoom, graph[zoom].names[1]) \in DOMAIN graph
      BY <1>1, <3>3, ChildIsThere
    <3>5. PICK x \in Names : x = graph[zoom].names[1]
      BY <3>4
    <3>6. PICK c \in DOMAIN graph : c = Append(zoom, x)
      BY <3>4, <3>5
    <3>7. c \in Seq(Names) /\ c # <<>> /\ IsPrefix(zoom, c)
      <4>1. c \in Seq(Names) /\ IsPrefix(c, c)
        BY <1>1, PrefixItself DEF TreeOK
      <4>2. IsPrefix(zoom, c)
        BY <3>4, <3>6, <4>1, ChildIsPrefix
      <4> QED
        BY <3>4, <3>6, <4>1, <4>2, AppendPoints
    <3>8. graph[zoom].total \in Nat /\ graph[zoom].total > 0
      BY <1>1, <3>7, NodesWeigh
    <3>9. drawn
      BY <1>1, <3>8 DEF Key
    <3>10. Resolves(graph, zoom, cursor)
      BY <2>3, NoStep
    <3>11. StillThere
      BY <1>1, <3>9, <3>10, ShownIsThere DEF SelectionInv
    <3> QED
      BY <1>4, <2>1, <3>11
  <2> QED
    BY <2>2, <2>3
<1>6. CASE MoveUp \/ MoveLeft \/ MoveRight
  <2>1. cursor # <<>> /\ UNCHANGED <<graph, zoom>>
    BY <1>6 DEF MoveUp, MoveLeft, MoveRight, CursorTo, data
  <2> QED
    BY <1>4, <2>1 DEF SelectionInv
<1>7. CASE \/ ZoomIn \/ ZoomOut \/ Reset \/ PickThread
  BY <1>2, <1>7 DEF ZoomIn, ZoomOut, ZoomTo, Reset, Emptied, PickThread
<1>8. CASE \/ ToggleFreeze \/ OpenSearch \/ (\E text \in SUBSET ThreadNames : TypeSearch(text))
           \/ SearchUp \/ SearchDown \/ CloseSearch
  BY <1>3, <1>8 DEF ToggleFreeze, OpenSearch, TypeSearch, SetSearch, SearchUp,
                    SearchDown, CloseSearch, data, view
<1> QED
  BY <1>5, <1>6, <1>7, <1>8 DEF Key

LEMMA DrawKeepsSelection ==
    ASSUME GraphInv, ViewInv, SelectionInv, Draw
    PROVE  SelectionInv'
<1>1. /\ TreeOK(graph) /\ zoom \in DOMAIN graph /\ ZoomRoot = zoom /\ cursor \in Seq(Nat)
  BY ZoomIs DEF GraphInv, ViewInv
<1>2. /\ UNCHANGED <<graph, zoom, cursor>>
      /\ selection' = IF Resolves(graph, zoom, cursor) THEN Frame(cursor) ELSE selection
  BY <1>1 DEF Draw, Selected, data
<1>3. Frame(cursor)' = Frame(cursor)
  BY <1>2 DEF Frame, ZoomRoot, NodeName
<1>4. CASE Resolves(graph, zoom, cursor)
  <2>1. PICK p : /\ p \in DOMAIN graph /\ IsPrefix(zoom, p) /\ Len(p) - Len(zoom) = Len(cursor)
                 /\ Frame(cursor).name = NodeName(p) /\ Frame(cursor).depth = Len(cursor)
                 /\ Frame(cursor).total = graph[p].total /\ graph[p].total \in Nat
    BY <1>1, <1>4, FrameIs
  <2>2. selection' = Frame(cursor) /\ graph[p].total >= Frame(cursor).total
    BY <1>2, <1>4, <2>1
  <2>3. StillThere'
    BY <1>2, <2>1, <2>2 DEF StillThere, NodeName
  <2>4. selection'.total \in Nat
    BY <2>1, <2>2
  <2> QED
    BY <1>3, <2>2, <2>3, <2>4 DEF SelectionInv
<1>5. CASE ~Resolves(graph, zoom, cursor)
  <2>1. StillThere /\ selection' = selection
    BY <1>2, <1>5, NoStep DEF SelectionInv
  <2>2. StillThere'
    BY <1>2, <2>1 DEF StillThere, NodeName
  <2> QED
    BY <1>2, <1>5, <2>1, <2>2 DEF SelectionInv
<1> QED
  BY <1>4, <1>5

LEMMA NextKeepsSelection ==
    ASSUME GraphInv, ViewInv, SelectionInv, [Next]_vars
    PROVE  SelectionInv'
<1>1. CASE UNCHANGED vars
  <2>1. UNCHANGED <<graph, zoom, cursor, drawn, selection>>
    BY <1>1 DEF vars
  <2>2. Frame(cursor)' = Frame(cursor) /\ (StillThere' <=> StillThere)
    BY <2>1 DEF Frame, ZoomRoot, NodeName, StillThere
  <2> QED
    BY <2>1, <2>2 DEF SelectionInv
<1>2. CASE Event
  BY <1>2, ReceiveKeepsSelection, KeyKeepsSelection DEF Event
<1> QED
  BY <1>1, <1>2, DrawKeepsSelection DEF Next

----------------------------------------------------------------------------
(* The inductive invariant: the tree is what has been merged, the zoom is   *)
(* one of its nodes, the matches of the search are threads of it, and what  *)
(* the detail bar shows is under the zoom unless the cursor is at it.       *)
IInv == GraphInv /\ ViewInv /\ SelectionInv

(* From the first state on, whatever arrives and whatever key is pressed,   *)
(* the graph, the zoom, the search and the detail bar go together.          *)
THEOREM TabInvariant == Spec => []IInv
<1>1. ASSUME Init PROVE IInv
  <2>1. GraphInv /\ ViewInv
    BY <1>1, InitGraph, InitView
  <2>2. selection.total = 0 /\ drawn = FALSE /\ cursor = <<>>
    BY <1>1 DEF Init, NoSelection
  <2>3. SelectionInv
    BY <2>2 DEF SelectionInv
  <2> QED
    BY <2>1, <2>3 DEF IInv
<1>2. IInv /\ [Next]_vars => IInv'
  BY NextKeepsGraph, NextKeepsView, NextKeepsSelection DEF IInv
<1> QED
  BY <1>1, <1>2, PTL DEF Spec

LEMMA SamplesAreConserved == GraphInv => WeightsConserved
<1> SUFFICES ASSUME GraphInv PROVE WeightsConserved
  OBVIOUS
<1>1. \A p \in DOMAIN graph : p \in Seq(Names)
  BY DEF GraphInv, TreeOK
<1>2. \A p \in DOMAIN graph : /\ graph[p].total = Weigh(merged, Through(merged, p))
                              /\ graph[p].self = Weigh(merged, EndingAt(merged, p))
  BY <1>1 DEF GraphInv, Weighed, NodeAt
<1> QED
  BY <1>2 DEF GraphInv, Weighed, Stacks, WeightsConserved

(* flamegraph.rs: whatever exports are built, merged and sorted, every node *)
(* weighs what the stacks through it weigh and by itself what those that    *)
(* end in it weigh, and the count of samples is that of the root.           *)
THEOREM NoSampleLost == Spec => []WeightsConserved
BY TabInvariant, SamplesAreConserved, PTL DEF IInv

LEMMA ChildrenAreAppended ==
    ASSUME NEW g, TreeOK(g), NEW p \in DOMAIN g
    PROVE  {q \in DOMAIN g : q # <<>> /\ Front(q) = p}
               = {Append(p, g[p].names[i]) : i \in DOMAIN g[p].names}
<1>1. ASSUME NEW q \in DOMAIN g, q # <<>>, Front(q) = p
      PROVE  \E i \in DOMAIN g[p].names : q = Append(p, g[p].names[i])
  <2>1. q = Append(p, Last(q)) /\ Last(q) \in Names /\ p \in Seq(Names)
    BY <1>1, FrontAndLast DEF TreeOK
  <2>2. PICK x \in Names : x = Last(q)
    BY <2>1
  <2>3. x \in ToSet(g[p].names)
    BY <2>1, <2>2 DEF TreeOK
  <2> QED
    BY <2>1, <2>2, <2>3 DEF ToSet
<1>2. ASSUME NEW i \in DOMAIN g[p].names
      PROVE  /\ Append(p, g[p].names[i]) \in DOMAIN g
             /\ Append(p, g[p].names[i]) # <<>> /\ Front(Append(p, g[p].names[i])) = p
  <2>1. PICK x \in Names : x = g[p].names[i] /\ Append(p, x) \in DOMAIN g /\ p \in Seq(Names)
    BY ChildIsThere
  <2>2. PICK q \in Seq(Names) : q = Append(p, x) /\ q # <<>> /\ Len(q) = Len(p) + 1
    BY <2>1, AppendPoints
  <2>3. /\ Front(q) \in Seq(Names) /\ Len(Front(q)) = Len(q) - 1
        /\ \A j \in 1 .. Len(q) - 1 : Front(q)[j] = q[j]
    BY <2>2, FrontAndLast
  <2>4. Front(q) = p
    <3>1. Len(p) \in Nat
      BY <2>1
    <3>2. Len(Front(q)) = Len(p)
      BY <2>2, <2>3, <3>1
    <3>3. \A j \in 1 .. Len(p) : q[j] = p[j]
      BY <2>1, <2>2, AppendPoints
    <3>4. \A j \in 1 .. Len(Front(q)) : Front(q)[j] = p[j]
      BY <2>2, <2>3, <3>1, <3>2, <3>3
    <3> QED
      BY <2>1, <2>3, <3>2, <3>4, SameSeq
  <2> QED
    BY <2>1, <2>2, <2>4
<1> QED
  BY <1>1, <1>2

LEMMA TreeIsIndexed == GraphInv => IndexedAndSorted
<1> SUFFICES ASSUME GraphInv, NEW p \in DOMAIN graph
             PROVE  LET names == graph[p].names
                        Child(i) == Append(p, names[i])
                    IN /\ {q \in DOMAIN graph : q # <<>> /\ Front(q) = p}
                              = {Child(i) : i \in DOMAIN names}
                       /\ DOMAIN graph[p].index = ToSet(names)
                       /\ \A i \in DOMAIN names : graph[p].index[names[i]] = i
                       /\ \A i, j \in DOMAIN names :
                              i < j => graph[Child(i)].total >= graph[Child(j)].total
  BY DEF IndexedAndSorted
<1>1. TreeOK(graph) /\ Sorted(graph) /\ Indexed(graph[p])
  BY DEF GraphInv, TreeOK
<1>2. {q \in DOMAIN graph : q # <<>> /\ Front(q) = p}
          = {Append(p, graph[p].names[i]) : i \in DOMAIN graph[p].names}
  BY <1>1, ChildrenAreAppended
<1>3. /\ DOMAIN graph[p].index = ToSet(graph[p].names)
      /\ \A i \in DOMAIN graph[p].names : graph[p].index[graph[p].names[i]] = i
  BY <1>1 DEF Indexed
<1>4. \A i, j \in DOMAIN graph[p].names : i < j =>
          graph[Append(p, graph[p].names[i])].total >= graph[Append(p, graph[p].names[j])].total
  BY <1>1 DEF Sorted
<1> QED
  BY <1>2, <1>3, <1>4

(* merge and sort_recursive: at every node each child has the place its     *)
(* index says, once, and heavier children come first.                       *)
THEOREM ChildrenInOrder == Spec => []IndexedAndSorted
BY TabInvariant, TreeIsIndexed, PTL DEF IInv

(* zoom_path: get_zoom_node finds every name of it, after any merge, reset, *)
(* search and zoom.                                                         *)
THEOREM ZoomStays == Spec => []ZoomResolves
<1>1. IInv => ZoomResolves
  BY ZoomIs DEF IInv, GraphInv, ViewInv, ZoomResolves
<1> QED
  BY <1>1, TabInvariant, PTL

(* The detail bar, at a draw with nothing before it: the cursor's frame as  *)
(* it weighs now, or one under the zoom that is no lighter than shown.      *)
THEOREM DetailIsCurrent == Spec => []SelectionIsCurrent
<1>1. ASSUME IInv PROVE SelectionIsCurrent
  <2>1. ZoomRoot = zoom
    BY <1>1, ZoomIs DEF IInv, GraphInv, ViewInv
  <2>2. cursor # <<>> \/ Resolves(graph, zoom, cursor)
    BY NoStep
  <2> QED
    BY <1>1, <2>1, <2>2 DEF IInv, SelectionInv, StillThere, SelectionIsCurrent
<1> QED
  BY <1>1, TabInvariant, PTL

(* handle_key: no key takes the cursor to where there is no frame.          *)
THEOREM KeysStayOnGraph == Spec => KeysKeepCursor
<1>1. ASSUME IInv, [Next]_vars
      PROVE  [Key /\ Resolves(graph, ZoomRoot, cursor) =>
                  Resolves(graph, ZoomRoot, cursor)']_vars
  <2>1. IInv'
    BY <1>1, NextKeepsGraph, NextKeepsView, NextKeepsSelection DEF IInv
  <2>2. ZoomRoot = zoom
    BY <1>1, ZoomIs DEF IInv, GraphInv, ViewInv
  <2>3. ZoomRoot' = zoom'
    BY <2>1, ZoomIsFound DEF IInv, GraphInv, ViewInv, ZoomRoot
  <2>4. ASSUME Key, Resolves(graph, ZoomRoot, cursor)
        PROVE  Resolves(graph, ZoomRoot, cursor)'
    BY <1>1, <2>2, <2>3, <2>4, KeyKeepsResolving DEF IInv
  <2> QED
    BY <2>4
<1> QED
  BY <1>1, TabInvariant, PTL DEF Spec, KeysKeepCursor

----------------------------------------------------------------------------
(* Rounding: what an operation gives is a number held, and more of anything *)
(* never rounds to less.                                                    *)
Held == {Fractions[k] : k \in DOMAIN Fractions}

LEMMA FractionsHeld ==
    /\ Held \subseteq Nat /\ 0 \in Held /\ Unit \in Held
    /\ Len(Fractions) \in Nat \ {0} /\ DOMAIN Fractions = 1 .. Len(Fractions)
    /\ \A k \in 1 .. Len(Fractions) : Fractions[k] \in Nat
<1>1. Fractions \in Seq(Nat) /\ Fractions # <<>>
  BY FractionAssumption
<1>2. Len(Fractions) \in Nat \ {0} /\ DOMAIN Fractions = 1 .. Len(Fractions)
  BY <1>1, EmptySeq
<1>3. \A k \in 1 .. Len(Fractions) : Fractions[k] \in Nat
  BY <1>1
<1>4. 1 \in DOMAIN Fractions /\ Fractions[1] = 0
  BY <1>2, FractionAssumption
<1> QED
  BY <1>2, <1>3, <1>4, FractionAssumption DEF Held

(* The greatest fraction up to a number is there, for 0 is one.             *)
LEMMA PlaceExists ==
    ASSUME NEW num \in Nat, NEW den \in Nat \ {0}
    PROVE  LET k == Place(num, den)
           IN /\ k \in 1 .. Len(Fractions) /\ Fractions[k] * den <= num
              /\ k < Len(Fractions) => num < Fractions[k + 1] * den
<1> DEFINE S == {k \in 1 .. Len(Fractions) : Fractions[k] * den <= num}
<1>1. PICK N \in Nat \ {0} : N = Len(Fractions) /\ DOMAIN Fractions = 1 .. N
  BY FractionsHeld
<1>2. S \in SUBSET Int /\ IsFiniteSet(S)
  <2>1. S \in SUBSET (1 .. N) /\ IsFiniteSet(1 .. N)
    BY <1>1, FS_Interval
  <2>2. IsFiniteSet(S)
    <3> HIDE DEF S
    <3> QED
      BY <2>1, FS_Subset
  <2> QED
    BY <2>1, <2>2
<1>3. 1 \in S
  <2>1. Fractions[1] = 0 /\ 0 * den <= num
    BY FractionAssumption
  <2> QED
    BY <1>1, <2>1
<1>4. PICK k \in S : \A j \in S : j <= k
  <2> HIDE DEF S
  <2> QED
    BY <1>2, <1>3, GreatestExists
<1>5. k \in DOMAIN Fractions /\ Fractions[k] * den <= num
  BY <1>1
<1>6. k < Len(Fractions) => num < Fractions[k + 1] * den
  <2>1. SUFFICES ASSUME k < N PROVE num < Fractions[k + 1] * den
    BY <1>1
  <2>2. k + 1 \in 1 .. N /\ k + 1 \notin S
    BY <1>1, <1>4, <2>1
  <2>3. PICK x \in Nat : x = Fractions[k + 1]
    BY <1>1, <2>2, FractionsHeld
  <2>4. ~(x * den <= num) /\ x * den \in Nat
    BY <1>1, <2>2, <2>3
  <2> QED
    BY <2>3, <2>4
<1>7. /\ Place(num, den) \in DOMAIN Fractions /\ Fractions[Place(num, den)] * den <= num
      /\ Place(num, den) < Len(Fractions) => num < Fractions[Place(num, den) + 1] * den
  <2> HIDE DEF S
  <2> QED
    BY <1>5, <1>6 DEF Place
<1> QED
  BY <1>1, <1>7

(* What is nearest is the fraction found, or the next one.                  *)
LEMMA NearestIs ==
    ASSUME NEW num \in Nat, NEW den \in Nat \ {0}
    PROVE  \/ Nearest(num, den) = Fractions[Place(num, den)]
           \/ /\ Place(num, den) < Len(Fractions)
              /\ Nearest(num, den) = Fractions[Place(num, den) + 1]
<1> DEFINE k == Place(num, den)
           up == \/ 2 * num > (Fractions[k] + Fractions[k + 1]) * den
                 \/ /\ 2 * num = (Fractions[k] + Fractions[k + 1]) * den
                    /\ k % 2 = 0
<1>1. Nearest(num, den)
          = IF k < Len(Fractions) /\ up THEN Fractions[k + 1] ELSE Fractions[k]
  BY Zenon DEF Nearest
<1> HIDE DEF up
<1> QED
  BY <1>1

LEMMA NearestIsHeld ==
    ASSUME NEW num \in Nat, NEW den \in Nat \ {0}
    PROVE  Nearest(num, den) \in Held /\ Nearest(num, den) \in Nat
<1>1. PICK k \in 1 .. Len(Fractions) : k = Place(num, den)
  BY PlaceExists
<1>2. \/ Nearest(num, den) = Fractions[k]
      \/ k < Len(Fractions) /\ Nearest(num, den) = Fractions[k + 1]
  BY <1>1, NearestIs, Zenon
<1>3. k < Len(Fractions) => k + 1 \in 1 .. Len(Fractions)
  BY FractionsHeld
<1> QED
  BY <1>2, <1>3, FractionsHeld DEF Held

(* A number that is held is never rounded below.                            *)
LEMMA NearestIsNoLess ==
    ASSUME NEW x \in Held, NEW num \in Nat, x <= num
    PROVE  Nearest(num, 1) >= x
<1>1. PICK i \in 1 .. Len(Fractions) : x = Fractions[i]
  BY FractionsHeld DEF Held
<1>2. PICK N \in Nat \ {0} : N = Len(Fractions)
  BY FractionsHeld
<1>3. PICK k \in 1 .. N : /\ k = Place(num, 1) /\ Fractions[k] * 1 <= num
                          /\ k < N => num < Fractions[k + 1] * 1
  <2>1. PICK den \in Nat \ {0} : den = 1
    OBVIOUS
  <2> QED
    BY <1>2, <2>1, PlaceExists
<1>4. \A j, l \in 1 .. N : j < l => Fractions[j] < Fractions[l]
  BY <1>2, FractionsHeld, FractionAssumption
<1>5. \A j \in 1 .. N : Fractions[j] \in Nat
  BY <1>2, FractionsHeld
<1>6. i <= k
  <2>1. SUFFICES ASSUME k < i PROVE FALSE
    BY <1>2
  <2>2. k < N /\ k + 1 \in 1 .. N /\ (k + 1 = i \/ k + 1 < i)
    BY <1>2, <2>1
  <2>3. Fractions[k + 1] <= Fractions[i]
    BY <1>2, <1>4, <1>5, <2>2
  <2> QED
    BY <1>1, <1>2, <1>3, <1>5, <2>2, <2>3
<1>7. Fractions[k] >= x
  <2>1. i = k \/ i < k
    BY <1>2, <1>6
  <2> QED
    BY <1>1, <1>2, <1>4, <1>5, <2>1
<1>8. k < N => k + 1 \in 1 .. N /\ Fractions[k + 1] >= x
  <2>1. SUFFICES ASSUME k < N PROVE k + 1 \in 1 .. N /\ Fractions[k + 1] >= x
    OBVIOUS
  <2>2. k + 1 \in 1 .. N /\ k < k + 1
    BY <2>1
  <2> QED
    BY <1>4, <1>5, <1>7, <2>2, FractionsHeld
<1>9. \/ Nearest(num, 1) = Fractions[k]
      \/ k < N /\ Nearest(num, 1) = Fractions[k + 1]
  <2>1. PICK den \in Nat \ {0} : den = 1
    OBVIOUS
  <2> QED
    BY <1>2, <1>3, <2>1, NearestIs, Zenon
<1> QED
  BY <1>7, <1>8, <1>9

(* layout_recursive: a frame never ends before it starts, however its       *)
(* weight and the sum are rounded.                                          *)
THEOREM SumIsNoLess ==
    ASSUME NEW x \in Held, NEW weight \in Nat, NEW scale \in Nat
    PROVE  Edge(x, weight, scale) \in Held /\ x <= Edge(x, weight, scale)
<1>1. x \in Nat /\ Unit \in Nat \ {0}
  BY FractionsHeld, FractionAssumption
<1>2. PICK w \in Nat : w = Float(weight)
  BY <1>1, NearestIsHeld DEF Float
<1>3. PICK t \in Nat : t = Times(w, scale)
  <2>1. w * scale \in Nat
    OBVIOUS
  <2> QED
    BY <1>1, <2>1, NearestIsHeld DEF Times
<1>4. PICK num \in Nat : num = x + t /\ x <= num
  BY <1>1
<1>5. Edge(x, weight, scale) = Nearest(num, 1)
  BY <1>2, <1>3, <1>4 DEF Edge, Plus
<1>6. Nearest(num, 1) \in Held /\ Nearest(num, 1) \in Nat
  BY NearestIsHeld
<1>7. Nearest(num, 1) >= x
  BY <1>4, NearestIsNoLess
<1> QED
  BY <1>1, <1>5, <1>6, <1>7

LEMMA ScaleIsNat ==
    ASSUME NEW width \in Nat, NEW total \in Nat \ {0}
    PROVE  Scale(width, total) \in Nat
<1>1. Unit \in Nat \ {0} /\ Unit \in Held
  BY FractionsHeld, FractionAssumption
<1>2. PICK n \in Nat : n = total * Unit /\ Unit <= n
  <2>1. 1 * Unit <= total * Unit
    BY <1>1, WeaklyMonotone
  <2> QED
    BY <1>1, <2>1
<1>3. Float(total) \in Nat \ {0}
  <2>1. Nearest(n, 1) \in Nat
    BY NearestIsHeld
  <2>2. Nearest(n, 1) >= Unit
    BY <1>1, <1>2, NearestIsNoLess
  <2> QED
    BY <1>1, <1>2, <2>1, <2>2 DEF Float
<1>4. Float(width) \in Nat
  <2>1. width * Unit \in Nat
    BY <1>1
  <2> QED
    BY <2>1, NearestIsHeld DEF Float
<1>5. Float(width) * Unit \in Nat
  BY <1>1, <1>4
<1> QED
  BY <1>3, <1>5, NearestIsHeld DEF Scale

LEMMA RoundGrows ==
    ASSUME NEW x \in Nat, NEW y \in Nat, x <= y
    PROVE  Round(x) \in Nat /\ Round(y) \in Nat /\ Round(x) <= Round(y)
<1>1. PICK d \in Nat \ {0} : d = 2 * Unit
  BY FractionAssumption
<1>2. PICK a \in Nat : a = 2 * x + Unit
  BY FractionAssumption
<1>3. PICK b \in Nat : b = 2 * y + Unit /\ a <= b
  BY <1>2, FractionAssumption
<1> QED
  BY <1>1, <1>2, <1>3, Division, DivisionGrows DEF Round

----------------------------------------------------------------------------
(* Past one weight after another.                                           *)
Moves(weights, scale) ==
    [k \in DOMAIN weights |-> [y \in Nat |-> Edge(y, weights[k], scale)]]

LEMMA AdvancedWalks ==
    ASSUME NEW x, NEW weights, NEW scale
    PROVE  Advanced(x, weights, scale) = Walk(x, Moves(weights, scale))[Len(weights)]
BY Zenon DEF Advanced, Moves

LEMMA AdvancedNowhere ==
    ASSUME NEW x, NEW scale
    PROVE  Advanced(x, <<>>, scale) = x
<1>1. Len(<<>>) = 0 /\ Moves(<<>>, scale) = <<>>
  BY DEF Moves
<1>2. Walk(x, <<>>)[0] = x
  BY <1>1, WalkNowhere
<1> QED
  BY <1>1, <1>2, AdvancedWalks

LEMMA AdvancedStep ==
    ASSUME NEW x \in Held, NEW scale \in Nat, NEW N \in Nat,
           NEW a \in [1 .. N -> Nat], NEW c \in [1 .. N + 1 -> Nat],
           \A k \in 1 .. N : c[k] = a[k]
    PROVE  /\ Advanced(x, a, scale) \in Held
           /\ Advanced(x, c, scale) = Edge(Advanced(x, a, scale), c[N + 1], scale)
<1>1. Len(a) = N /\ Len(c) = N + 1 /\ DOMAIN a = 1 .. N /\ DOMAIN c = 1 .. N + 1
      /\ N + 1 \in 1 .. N + 1
  OBVIOUS
<1>2. PICK ma : ma = Moves(a, scale)
  OBVIOUS
<1>3. PICK mc : mc = Moves(c, scale)
  OBVIOUS
<1>4. Len(ma) = N /\ Len(mc) = N + 1
  <2>1. DOMAIN ma = 1 .. N /\ DOMAIN mc = 1 .. N + 1 /\ N + 1 \in Nat
    BY <1>1, <1>2, <1>3 DEF Moves
  <2> QED
    BY <2>1
<1>5. \A k \in 1 .. N : mc[k] = ma[k]
  BY <1>1, <1>2, <1>3 DEF Moves
<1>6. ASSUME NEW k \in 1 .. N + 1, NEW y \in Held
      PROVE  mc[k][y] = Edge(y, c[k], scale) /\ mc[k][y] \in Held
  <2>1. c[k] \in Nat /\ y \in Nat
    BY FractionsHeld
  <2>2. mc[k][y] = Edge(y, c[k], scale)
    BY <1>1, <1>3, <2>1 DEF Moves
  <2> QED
    BY <2>1, <2>2, SumIsNoLess
<1>7. Walk(x, ma)[N] \in Held /\ Walk(x, mc)[N + 1] = mc[N + 1][Walk(x, ma)[N]]
  BY <1>4, <1>5, <1>6, WalkGoesOn
<1>8. Advanced(x, a, scale) = Walk(x, ma)[N] /\ Advanced(x, c, scale) = Walk(x, mc)[N + 1]
  BY <1>1, <1>2, <1>3, AdvancedWalks
<1> QED
  BY <1>1, <1>6, <1>7, <1>8

(* Where the i-th child of a node that starts at x does.                    *)
KidStart(g, p, x, scale, i) == Advanced(x, Before(g, p, i), scale)

LEMMA BeforeFirst ==
    ASSUME NEW g, NEW p, NEW x, NEW scale
    PROVE  KidStart(g, p, x, scale, 1) = x
<1>1. Before(g, p, 1) = <<>>
  <2>1. 1 .. 1 - 1 = {}
    OBVIOUS
  <2> QED
    BY <2>1 DEF Before
<1> QED
  BY <1>1, AdvancedNowhere DEF KidStart

LEMMA KidStep ==
    ASSUME NEW g, TreeOK(g), NEW p \in DOMAIN g, NEW i \in DOMAIN g[p].names,
           NEW x \in Held, NEW scale \in Nat
    PROVE  /\ KidStart(g, p, x, scale, i) \in Held
           /\ KidStart(g, p, x, scale, i + 1)
                  = Edge(KidStart(g, p, x, scale, i), g[Append(p, g[p].names[i])].total, scale)
<1>1. PICK n \in Nat : DOMAIN g[p].names = 1 .. n
  <2>1. g[p].names \in Seq(Names)
    BY DEF TreeOK, Node
  <2> QED
    BY <2>1
<1>2. PICK m \in Nat : m + 1 = i /\ m = i - 1 /\ (i + 1) - 1 = m + 1
  <2>1. i - 1 \in Nat /\ (i - 1) + 1 = i /\ (i + 1) - 1 = (i - 1) + 1
    BY <1>1
  <2> QED
    BY <2>1
<1> DEFINE weight(j) == g[Append(p, g[p].names[j])].total
           a == [j \in 1 .. m |-> weight(j)]
           c == [j \in 1 .. m + 1 |-> weight(j)]
<1>3. \A j \in 1 .. n : weight(j) \in Nat
  BY <1>1, ChildIsThere
<1> HIDE DEF weight
<1>4. a \in [1 .. m -> Nat] /\ c \in [1 .. m + 1 -> Nat] /\ c[m + 1] = weight(i)
      /\ \A j \in 1 .. m : c[j] = a[j]
  BY <1>1, <1>2, <1>3
<1>5. Before(g, p, i) = a /\ Before(g, p, i + 1) = c
  <2>1. Before(g, p, i) = [j \in 1 .. i - 1 |-> weight(j)]
    BY Zenon DEF Before, weight
  <2>2. Before(g, p, i + 1) = [j \in 1 .. (i + 1) - 1 |-> weight(j)]
    BY Zenon DEF Before, weight
  <2> QED
    BY <1>2, <2>1, <2>2
<1> HIDE DEF a, c
<1>6. /\ Advanced(x, a, scale) \in Held
      /\ Advanced(x, c, scale) = Edge(Advanced(x, a, scale), c[m + 1], scale)
  BY <1>4, AdvancedStep
<1>7. KidStart(g, p, x, scale, i) = Advanced(x, a, scale)
      /\ KidStart(g, p, x, scale, i + 1) = Advanced(x, c, scale)
  BY <1>5 DEF KidStart
<1> QED
  BY <1>4, <1>6, <1>7 DEF weight

(* layout_recursive: the callees of a frame start one after the other, none *)
(* before the ones to its left and none before its caller, whatever has     *)
(* been lost to rounding on the way.                                        *)
THEOREM CalleesAdvance ==
    ASSUME NEW g, TreeOK(g), NEW p \in DOMAIN g, NEW x \in Held, NEW scale \in Nat,
           NEW j \in 1 .. Len(g[p].names) + 1, NEW i \in 1 .. j
    PROVE  /\ KidStart(g, p, x, scale, i) \in Held /\ KidStart(g, p, x, scale, j) \in Held
           /\ x <= KidStart(g, p, x, scale, i)
           /\ KidStart(g, p, x, scale, i) <= KidStart(g, p, x, scale, j)
<1> DEFINE at(k) == KidStart(g, p, x, scale, k)
<1>1. PICK n \in Nat : n = Len(g[p].names) /\ DOMAIN g[p].names = 1 .. n
  <2>1. g[p].names \in Seq(Names)
    BY DEF TreeOK, Node
  <2> QED
    BY <2>1
<1>2. at(1) = x /\ x \in Nat /\ Held \subseteq Nat
  BY BeforeFirst, FractionsHeld
<1>3. ASSUME NEW k \in 1 .. n
      PROVE  at(k) \in Held /\ at(k + 1) \in Held /\ at(k) <= at(k + 1)
  <2>1. PICK w \in Nat : w = g[Append(p, g[p].names[k])].total
    BY <1>1, ChildIsThere
  <2>2. at(k) \in Held /\ at(k + 1) = Edge(at(k), w, scale)
    BY <1>1, <2>1, KidStep
  <2> HIDE DEF at
  <2> QED
    BY <2>1, <2>2, SumIsNoLess
<1> HIDE DEF at
<1>4. ASSUME NEW k \in 1 .. n + 1 PROVE at(k) \in Held
  <2>1. k = 1 \/ (k - 1 \in 1 .. n /\ (k - 1) + 1 = k)
    OBVIOUS
  <2> QED
    BY <1>2, <1>3, <2>1
<1>5. ASSUME NEW b \in 1 .. n + 1, NEW a \in 1 .. b PROVE at(a) <= at(b)
  <2>1. PICK N \in Nat : N = b - a /\ b = a + N /\ a + N <= n + 1
    <3>1. b - a \in Nat /\ b = a + (b - a) /\ b <= n + 1
      OBVIOUS
    <3> QED
      BY <3>1
  <2> DEFINE S == {k \in 0 .. N : at(a) <= at(a + k)}
  <2>2. 0 \in S
    <3>1. a + 0 = a /\ a \in 1 .. n + 1
      OBVIOUS
    <3>2. at(a) \in Nat
      BY <1>2, <1>4, <3>1
    <3> QED
      BY <3>1, <3>2
  <2>3. ASSUME NEW k \in 1 .. N, k - 1 \in S PROVE k \in S
    <3>1. PICK l \in 1 .. n : l = a + (k - 1) /\ l + 1 = a + k
      <4>1. a + (k - 1) \in 1 .. n /\ (a + (k - 1)) + 1 = a + k
        BY <2>1
      <4> QED
        BY <4>1
    <3>2. at(l) \in Nat /\ at(l + 1) \in Nat /\ at(l) <= at(l + 1)
      BY <1>2, <1>3
    <3>3. at(a) \in Nat
      <4>1. a \in 1 .. n + 1
        OBVIOUS
      <4> QED
        BY <1>2, <1>4, <4>1
    <3>4. at(a) <= at(l)
      BY <2>3, <3>1
    <3> QED
      BY <3>1, <3>2, <3>3, <3>4
  <2>4. 0 .. N \subseteq S
    <3> HIDE DEF S
    <3> QED
      BY <2>2, <2>3, UpTo
  <2>5. N \in S
    BY <2>4
  <2> QED
    BY <2>1, <2>5
<1>6. i \in 1 .. n + 1 /\ j \in 1 .. n + 1 /\ 1 \in 1 .. i
  BY <1>1
<1>7. at(i) \in Held /\ at(j) \in Held /\ at(1) <= at(i) /\ at(i) <= at(j)
  BY <1>4, <1>5, <1>6
<1> QED
  BY <1>2, <1>7 DEF at

----------------------------------------------------------------------------
(* Where a frame starts: where its caller starts, past the children before. *)
StartTerm(g, from, p, k) ==
    Before(g, SubSeq(p, 1, Len(from) + k - 1),
           PlaceOf(g[SubSeq(p, 1, Len(from) + k - 1)].names, p[Len(from) + k]))

StartMoves(g, from, p, scale, N) ==
    [k \in 1 .. N |-> [x \in Nat |-> Advanced(x, StartTerm(g, from, p, k), scale)]]

LEMMA StartWalks ==
    ASSUME NEW g, NEW from, NEW p, NEW scale, NEW N, N = Len(p) - Len(from)
    PROVE  FrameStart(g, from, p, scale) = Walk(0, StartMoves(g, from, p, scale, N))[N]
BY Zenon DEF FrameStart, StartMoves, StartTerm

LEMMA PlaceIsThere ==
    ASSUME NEW g, TreeOK(g), NEW p \in DOMAIN g, NEW x \in Names, Append(p, x) \in DOMAIN g
    PROVE  /\ PlaceOf(g[p].names, x) \in DOMAIN g[p].names
           /\ g[p].names[PlaceOf(g[p].names, x)] = x
<1>1. x \in ToSet(g[p].names) /\ Distinct(g[p].names)
  BY DEF TreeOK, Indexed
<1>2. PICK i \in DOMAIN g[p].names : g[p].names[i] = x
  BY <1>1 DEF ToSet
<1>3. PlaceOf(g[p].names, x) = i
  BY <1>1, <1>2, PlaceIs
<1> QED
  BY <1>2, <1>3

LEMMA TermAdvances ==
    ASSUME NEW g, TreeOK(g), NEW from \in DOMAIN g, NEW p \in DOMAIN g,
           NEW k \in 1 .. Len(p) - Len(from), NEW x \in Held, NEW scale \in Nat
    PROVE  Advanced(x, StartTerm(g, from, p, k), scale) \in Held
<1>1. p \in Seq(Names) /\ from \in Seq(Names) /\ Len(p) \in Nat /\ Len(from) \in Nat
  BY DEF TreeOK
<1>2. PICK n \in 1 .. Len(p) : n = Len(from) + k /\ n - 1 = Len(from) + k - 1
  <2>1. Len(from) + k \in 1 .. Len(p) /\ (Len(from) + k) - 1 = Len(from) + k - 1
    BY <1>1
  <2> QED
    BY <2>1
<1>3. /\ SubSeq(p, 1, n) = Append(SubSeq(p, 1, n - 1), p[n]) /\ p[n] \in Names
      /\ SubSeq(p, 1, n) \in DOMAIN g /\ SubSeq(p, 1, n - 1) \in DOMAIN g
  <2>1. n \in 0 .. Len(p) /\ n - 1 \in 0 .. Len(p)
    BY <1>1
  <2> QED
    BY <1>1, <2>1, NextPart, PartsAreNodes
<1>4. PICK q \in DOMAIN g, y \in Names :
          q = SubSeq(p, 1, n - 1) /\ y = p[n] /\ Append(q, y) \in DOMAIN g
  BY <1>3
<1>5. PICK i \in DOMAIN g[q].names : i = PlaceOf(g[q].names, y)
  BY <1>4, PlaceIsThere
<1>6. KidStart(g, q, x, scale, i) \in Held
  BY KidStep
<1>7. StartTerm(g, from, p, k) = Before(g, q, i)
  BY <1>2, <1>4, <1>5 DEF StartTerm
<1> QED
  BY <1>6, <1>7 DEF KidStart

LEMMA StartStep ==
    ASSUME NEW g, TreeOK(g), NEW from \in DOMAIN g, NEW p \in DOMAIN g, IsPrefix(from, p),
           NEW x \in Names, Append(p, x) \in DOMAIN g, NEW scale \in Nat
    PROVE  /\ FrameStart(g, from, p, scale) \in Held
           /\ FrameStart(g, from, Append(p, x), scale)
                  = KidStart(g, p, FrameStart(g, from, p, scale), scale,
                             PlaceOf(g[p].names, x))
<1>1. PICK c \in DOMAIN g : c = Append(p, x)
  OBVIOUS
<1>2. /\ p \in Seq(Names) /\ c \in Seq(Names) /\ Len(p) \in Nat /\ Len(from) \in Nat
      /\ from \in Seq(Names)
  BY DEF TreeOK
<1>3. /\ Len(c) = Len(p) + 1 /\ c[Len(p) + 1] = x /\ \A i \in 1 .. Len(p) : c[i] = p[i]
  BY <1>1, <1>2, AppendPoints
<1>4. PICK N \in Nat : N = Len(p) - Len(from) /\ N + 1 = Len(c) - Len(from)
                       /\ Len(from) + N = Len(p)
  <2>1. Len(from) <= Len(p)
    BY <1>2, PrefixPoints
  <2>2. /\ Len(p) - Len(from) \in Nat /\ (Len(p) - Len(from)) + 1 = Len(c) - Len(from)
        /\ Len(from) + (Len(p) - Len(from)) = Len(p)
    BY <1>2, <1>3, <2>1
  <2> QED
    BY <2>2
<1>5. ASSUME NEW n \in 0 .. Len(p) PROVE SubSeq(c, 1, n) = SubSeq(p, 1, n)
  BY <1>1, <1>2, PartOfAppend
<1> DEFINE a == StartMoves(g, from, p, scale, N)
           b == StartMoves(g, from, c, scale, N + 1)
<1>6. ASSUME NEW k \in 1 .. N PROVE StartTerm(g, from, c, k) = StartTerm(g, from, p, k)
  <2>1. PICK n \in 0 .. Len(p) : n = Len(from) + k - 1
    <3>1. Len(from) + k - 1 \in 0 .. Len(p)
      BY <1>2, <1>4
    <3> QED
      BY <3>1
  <2>2. Len(from) + k \in 1 .. Len(p)
    BY <1>2, <1>4
  <2>3. c[Len(from) + k] = p[Len(from) + k] /\ SubSeq(c, 1, n) = SubSeq(p, 1, n)
    BY <1>3, <1>5, <2>2
  <2> QED
    BY <2>1, <2>3, Zenon DEF StartTerm
<1>7. StartTerm(g, from, c, N + 1) = Before(g, p, PlaceOf(g[p].names, x))
  <2>1. Len(from) + (N + 1) - 1 = Len(p) /\ Len(from) + (N + 1) = Len(p) + 1
    BY <1>2, <1>4
  <2>2. SubSeq(c, 1, Len(p)) = p
    <3>1. Len(p) \in 0 .. Len(p) /\ SubSeq(p, 1, Len(p)) = p
      BY <1>2
    <3> QED
      BY <1>5, <3>1
  <2> QED
    BY <1>3, <2>1, <2>2, Zenon DEF StartTerm
<1>8. Len(a) = N /\ Len(b) = N + 1
  <2>1. DOMAIN a = 1 .. N /\ DOMAIN b = 1 .. N + 1 /\ N + 1 \in Nat
    BY DEF StartMoves
  <2> HIDE DEF a, b
  <2> QED
    BY <2>1
<1>9. \A k \in 1 .. N : b[k] = a[k]
  <2>1. ASSUME NEW k \in 1 .. N PROVE b[k] = a[k]
    <3>1. k \in 1 .. N + 1
      OBVIOUS
    <3> QED
      BY <1>6, <3>1 DEF StartMoves
  <2> QED
    BY <2>1
<1>10. ASSUME NEW k \in 1 .. N + 1, NEW y \in Held
       PROVE  b[k][y] = Advanced(y, StartTerm(g, from, c, k), scale) /\ b[k][y] \in Held
  <2>1. b[k][y] = Advanced(y, StartTerm(g, from, c, k), scale)
    BY FractionsHeld DEF StartMoves
  <2> HIDE DEF b
  <2> QED
    BY <1>4, <2>1, TermAdvances
<1>11. FrameStart(g, from, p, scale) = Walk(0, a)[N]
       /\ FrameStart(g, from, c, scale) = Walk(0, b)[N + 1]
  BY <1>4, StartWalks
<1> HIDE DEF a, b
<1>12. Walk(0, a)[N] \in Held /\ Walk(0, b)[N + 1] = b[N + 1][Walk(0, a)[N]]
  <2>1. \A k \in 1 .. N + 1 : \A y \in Held : b[k][y] \in Held
    BY <1>10
  <2>2. 0 \in Held
    BY FractionsHeld
  <2> QED
    BY <1>8, <1>9, <2>1, <2>2, WalkGoesOn
<1>13. N + 1 \in 1 .. N + 1
  OBVIOUS
<1>14. FrameStart(g, from, c, scale)
           = Advanced(FrameStart(g, from, p, scale), Before(g, p, PlaceOf(g[p].names, x)), scale)
  BY <1>7, <1>10, <1>11, <1>12, <1>13
<1> QED
  BY <1>1, <1>11, <1>12, <1>14 DEF KidStart

LEMMA StartIsHeld ==
    ASSUME NEW g, TreeOK(g), NEW from \in DOMAIN g, NEW p \in DOMAIN g, IsPrefix(from, p),
           NEW scale \in Nat
    PROVE  FrameStart(g, from, p, scale) \in Held
<1>1. p \in Seq(Names) /\ from \in Seq(Names) /\ Len(from) <= Len(p)
  BY PrefixPoints DEF TreeOK
<1>2. PICK N \in Nat : N = Len(p) - Len(from) /\ N \in 0 .. N
  BY <1>1
<1> DEFINE a == StartMoves(g, from, p, scale, N)
<1>3. Len(a) = N
  <2>1. DOMAIN a = 1 .. N
    BY DEF StartMoves
  <2> HIDE DEF a
  <2> QED
    BY <2>1
<1>4. ASSUME NEW k \in 1 .. N, NEW y \in Held PROVE a[k][y] \in Held
  <2>1. a[k][y] = Advanced(y, StartTerm(g, from, p, k), scale)
    BY FractionsHeld DEF StartMoves
  <2> HIDE DEF a
  <2> QED
    BY <1>2, <2>1, TermAdvances
<1>5. FrameStart(g, from, p, scale) = Walk(0, a)[N]
  BY <1>2, StartWalks
<1> HIDE DEF a
<1>6. Walk(0, a)[N] \in Held
  BY <1>2, <1>3, <1>4, FractionsHeld, WalkMoves
<1> QED
  BY <1>5, <1>6

(* cursor_frame_rect walks as layout_recursive does: past the children      *)
(* before the cursor's way, in the order in which they are laid out.        *)
LEMMA CursorIsStart ==
    ASSUME NEW g, TreeOK(g), NEW from \in DOMAIN g, NEW path \in Seq(Nat),
           Resolves(g, from, path), NEW scale
    PROVE  CursorStart(g, from, path, scale)
               = FrameStart(g, from, GetNode(g, from, path), scale)
<1>0. PICK K \in Nat : K = Len(path)
  OBVIOUS
<1> DEFINE at == Steps(g, from, path)
           p == GetNode(g, from, path)
<1>1. Len(path) \in Nat /\ DOMAIN path = 1 .. Len(path)
  OBVIOUS
<1>2. K \in 0 .. Len(path) /\ K = Len(path) /\ K \in Nat /\ K \in 0 .. K
  BY <1>0
<1>3. Leading(g, from, path, K, at)
  BY <1>2, LeadingSteps DEF Resolves
<1>4. p = at[K]
  BY <1>2 DEF GetNode
<1> HIDE DEF at, p
<1>5. Len(p) = Len(from) + K /\ Len(from) \in Nat
  <2>1. Len(at[K]) = Len(from) + K
    BY <1>2, <1>3 DEF Leading
  <2>2. from \in Seq(Names)
    BY DEF TreeOK
  <2> QED
    BY <1>4, <2>1, <2>2
<1>6. Len(p) - Len(from) = K
  BY <1>2, <1>5
<1>7. ASSUME NEW k \in 1 .. K
      PROVE  StartTerm(g, from, p, k) = Before(g, at[k - 1], path[k])
  <2>1. PICK j \in 0 .. K : j = k - 1 /\ Len(from) + j = Len(from) + k - 1
    <3>1. k - 1 \in 0 .. K /\ Len(from) + (k - 1) = Len(from) + k - 1
      BY <1>2, <1>5
    <3> QED
      BY <3>1
  <2>2. PICK u \in DOMAIN g : u = at[j]
    BY <1>3 DEF Leading
  <2>3. SubSeq(p, 1, Len(from) + k - 1) = u
    <3>1. at[j] = SubSeq(at[K], 1, Len(from) + j)
      BY <1>3 DEF Leading
    <3> QED
      BY <1>4, <2>1, <2>2, <3>1
  <2>4. path[k] \in DOMAIN g[u].names /\ p[Len(from) + k] = g[u].names[path[k]]
    BY <1>3, <1>4, <2>1, <2>2 DEF Leading
  <2>5. PlaceOf(g[u].names, g[u].names[path[k]]) = path[k]
    <3>1. Distinct(g[u].names)
      BY DEF TreeOK, Indexed
    <3> QED
      BY <2>4, <3>1, PlaceIs
  <2>6. StartTerm(g, from, p, k) = Before(g, u, PlaceOf(g[u].names, p[Len(from) + k]))
    BY <2>3, Zenon DEF StartTerm
  <2> QED
    BY <2>1, <2>2, <2>4, <2>5, <2>6
<1> DEFINE moves == [k \in DOMAIN path |-> [x \in Nat |->
                         Advanced(x, Before(g, at[k - 1], path[k]), scale)]]
<1>8. moves = StartMoves(g, from, p, scale, K)
  <2>1. DOMAIN path = 1 .. K
    BY <1>1, <1>2
  <2> QED
    BY <1>7, <2>1 DEF StartMoves
<1>9. CursorStart(g, from, path, scale) = Walk(0, moves)[K]
  <2>1. CursorStart(g, from, path, scale) = Walk(0, moves)[Len(path)]
    BY Zenon DEF CursorStart, at
  <2> HIDE DEF moves
  <2> QED
    BY <1>2, <2>1
<1>10. FrameStart(g, from, p, scale) = Walk(0, StartMoves(g, from, p, scale, K))[K]
  BY <1>6, StartWalks
<1> HIDE DEF moves
<1> QED
  BY <1>8, <1>9, <1>10 DEF p

----------------------------------------------------------------------------
(* The frames on the screen. The scale is a number once there are any.      *)
LEMMA ScaleIs ==
    ASSUME GraphInv, ViewInv, graph[zoom].total > 0
    PROVE  Scale(Width, graph[zoom].total) \in Nat
<1>1. graph[zoom].total \in Nat \ {0}
  BY DEF GraphInv, ViewInv, TreeOK, Node
<1> QED
  BY <1>1, TabAssumption, ScaleIsNat

LEMMA LaidOut ==
    ASSUME GraphInv, ViewInv, NEW f \in Layout, NEW scale,
           scale = Scale(Width, graph[zoom].total)
    PROVE  /\ f.path \in DOMAIN graph /\ f.path \in Seq(Names) /\ IsPrefix(zoom, f.path)
           /\ f.depth = Len(f.path) - Len(zoom)
           /\ graph[zoom].total > 0 /\ scale \in Nat
           /\ Shown(graph, zoom, f.path, scale)
           /\ f = FrameOf(graph, zoom, f.path, scale)
           /\ f.width > 0
<1>1. TreeOK(graph) /\ zoom \in DOMAIN graph /\ ZoomRoot = zoom
  BY ZoomIs DEF GraphInv, ViewInv
<1>2. f \in LayoutFrames(graph, zoom, Width)
  BY <1>1 DEF Layout
<1>3. /\ f.path \in DOMAIN graph /\ IsPrefix(zoom, f.path)
      /\ Shown(graph, zoom, f.path, scale)
      /\ f = FrameOf(graph, zoom, f.path, scale)
      /\ f.depth = Len(f.path) - Len(zoom)
      /\ graph[zoom].total > 0
  BY <1>1, <1>2, LayoutIs
<1>4. PICK p \in DOMAIN graph : p = f.path
  BY <1>3
<1>5. p \in Seq(Names) /\ IsPrefix(p, p)
  BY <1>1, PrefixItself DEF TreeOK
<1>6. FrameOf(graph, zoom, p, scale).width > 0
  BY <1>3, <1>4, <1>5 DEF Shown
<1> QED
  BY <1>3, <1>4, <1>5, <1>6, ScaleIs

(* A callee with columns of a frame on the screen is on the screen.         *)
LEMMA CalleeShown ==
    ASSUME GraphInv, ViewInv, NEW scale, scale = Scale(Width, graph[zoom].total),
           NEW caller \in Layout, NEW x \in Names,
           Append(caller.path, x) \in DOMAIN graph,
           FrameOf(graph, zoom, Append(caller.path, x), scale).width > 0
    PROVE  FrameOf(graph, zoom, Append(caller.path, x), scale) \in Layout
<1>1. TreeOK(graph) /\ zoom \in DOMAIN graph /\ ZoomRoot = zoom /\ zoom \in Seq(Names)
  BY ZoomIs DEF GraphInv, ViewInv, TreeOK
<1>2. PICK p \in DOMAIN graph :
          /\ p = caller.path /\ p \in Seq(Names) /\ IsPrefix(zoom, p)
          /\ Shown(graph, zoom, p, scale) /\ graph[zoom].total > 0
  BY LaidOut
<1>3. PICK c \in DOMAIN graph : c = Append(p, x) /\ c \in Seq(Names)
  BY <1>1, <1>2 DEF TreeOK
<1>4. ASSUME NEW q \in DOMAIN graph, IsPrefix(q, c) PROVE q = c \/ IsPrefix(q, p)
  <2>1. q \in Seq(Names)
    BY <1>1 DEF TreeOK
  <2>2. Len(q) <= Len(c) /\ \A i \in 1 .. Len(q) : q[i] = c[i]
    <3>1. IsPrefix(q, c) /\ c \in Seq(Names)
      BY <1>3, <1>4
    <3> QED
      BY <2>1, <3>1, PrefixPoints
  <2>3. Len(c) = Len(p) + 1 /\ \A i \in 1 .. Len(p) : c[i] = p[i]
    BY <1>2, <1>3, AppendPoints
  <2>4. Len(q) \in Nat /\ Len(p) \in Nat
    BY <1>2, <2>1
  <2>5. CASE Len(q) = Len(c)
    BY <1>3, <2>1, <2>2, <2>5, SameSeq
  <2>6. CASE Len(q) # Len(c)
    <3>1. Len(q) <= Len(p) /\ \A i \in 1 .. Len(q) : i \in 1 .. Len(p)
      BY <2>2, <2>3, <2>4, <2>6
    <3>2. \A i \in 1 .. Len(q) : q[i] = p[i]
      BY <2>2, <2>3, <3>1
    <3> QED
      BY <1>2, <2>1, <3>1, <3>2, PrefixPoints
  <2> QED
    BY <2>5, <2>6
<1>5. Shown(graph, zoom, c, scale)
  <2>1. ASSUME NEW q \in DOMAIN graph, IsPrefix(zoom, q), IsPrefix(q, c)
        PROVE  FrameOf(graph, zoom, q, scale).width > 0
    <3>1. q = c \/ IsPrefix(q, p)
      BY <1>4, <2>1
    <3>2. CASE q = c
      BY <1>2, <1>3, <3>2
    <3>3. CASE IsPrefix(q, p)
      BY <1>2, <2>1, <3>3 DEF Shown
    <3> QED
      BY <3>1, <3>2, <3>3
  <2> QED
    BY <2>1 DEF Shown
<1>6. IsPrefix(zoom, c)
  <2>1. Len(zoom) <= Len(p) /\ \A i \in 1 .. Len(zoom) : zoom[i] = p[i]
    BY <1>1, <1>2, PrefixPoints
  <2>2. Len(c) = Len(p) + 1 /\ \A i \in 1 .. Len(p) : c[i] = p[i]
    BY <1>2, <1>3, AppendPoints
  <2>3. Len(zoom) <= Len(c) /\ \A i \in 1 .. Len(zoom) : zoom[i] = c[i]
    <3>1. Len(zoom) \in Nat /\ Len(p) \in Nat
      BY <1>1, <1>2
    <3> QED
      BY <2>1, <2>2, <3>1
  <2> QED
    BY <1>1, <1>3, <2>3, PrefixPoints
<1>7. FrameOf(graph, zoom, c, scale) \in LayoutFrames(graph, zoom, Width)
  BY <1>1, <1>2, <1>5, <1>6, LayoutIs
<1> QED
  BY <1>1, <1>2, <1>3, <1>7 DEF Layout

(* The columns of the i-th child of p, in columns and in fractions.         *)
CalleeAt(p, x, scale, i, f) ==
    /\ f.x = Round(KidStart(graph, p, x, scale, i))
    /\ f.x + f.width = Round(KidStart(graph, p, x, scale, i + 1))
    /\ f.x \in Nat /\ f.width \in Int

LEMMA CalleeFrame ==
    ASSUME GraphInv, ViewInv, NEW scale \in Nat, NEW p \in DOMAIN graph, IsPrefix(zoom, p),
           NEW i \in DOMAIN graph[p].names
    PROVE  /\ FrameStart(graph, zoom, p, scale) \in Held
           /\ CalleeAt(p, FrameStart(graph, zoom, p, scale), scale, i,
                       FrameOf(graph, zoom, Append(p, graph[p].names[i]), scale))
<1>1. TreeOK(graph) /\ zoom \in DOMAIN graph
  BY DEF GraphInv, ViewInv
<1>2. /\ graph[p].names[i] \in Names
      /\ Append(p, graph[p].names[i]) \in DOMAIN graph
  BY <1>1, ChildIsThere
<1>3. PlaceOf(graph[p].names, graph[p].names[i]) = i
  <2>1. Distinct(graph[p].names)
    BY <1>1 DEF TreeOK, Indexed
  <2> QED
    BY <2>1, PlaceIs
<1> DEFINE c == Append(p, graph[p].names[i])
           x == FrameStart(graph, zoom, p, scale)
           y == FrameStart(graph, zoom, c, scale)
<1>4. x \in Held /\ y = KidStart(graph, p, x, scale, i)
  BY <1>1, <1>2, <1>3, StartStep
<1>5. /\ FrameOf(graph, zoom, c, scale).x = Round(y)
      /\ FrameOf(graph, zoom, c, scale).width = Columns(y, graph[c].total, scale)
  BY DEF FrameOf
<1> HIDE DEF x, y
<1>6. /\ KidStart(graph, p, x, scale, i) \in Held
      /\ KidStart(graph, p, x, scale, i + 1) = Edge(y, graph[c].total, scale)
  BY <1>1, <1>4, KidStep
<1>7. graph[c].total \in Nat
  BY <1>1, ChildIsThere
<1>8. /\ y \in Nat /\ Edge(y, graph[c].total, scale) \in Nat
      /\ y <= Edge(y, graph[c].total, scale)
  BY <1>4, <1>6, <1>7, SumIsNoLess, FractionsHeld
<1>9. Round(y) \in Nat /\ Round(Edge(y, graph[c].total, scale)) \in Nat
  BY <1>8, RoundGrows
<1>10. Columns(y, graph[c].total, scale) = Round(Edge(y, graph[c].total, scale)) - Round(y)
  BY DEF Columns
<1> HIDE DEF c
<1>11. CalleeAt(p, x, scale, i, FrameOf(graph, zoom, c, scale))
  BY <1>4, <1>5, <1>6, <1>9, <1>10 DEF CalleeAt
<1> QED
  BY <1>4, <1>11 DEF c, x

(* A frame on the screen below another node, and its place among the        *)
(* children.                                                                *)
LEMMA CalleeIs ==
    ASSUME GraphInv, ViewInv, NEW scale, scale = Scale(Width, graph[zoom].total),
           NEW f \in Layout, f.depth > 0, NEW p \in DOMAIN graph, Front(f.path) = p
    PROVE  LET i == graph[p].index[Last(f.path)]
           IN /\ IsPrefix(zoom, p) /\ scale \in Nat
              /\ i \in DOMAIN graph[p].names
              /\ f.path = Append(p, graph[p].names[i])
              /\ FrameStart(graph, zoom, p, scale) \in Held
              /\ CalleeAt(p, FrameStart(graph, zoom, p, scale), scale, i, f)
<1>1. /\ TreeOK(graph) /\ zoom \in DOMAIN graph /\ zoom \in Seq(Names) /\ p \in Seq(Names)
  BY DEF GraphInv, ViewInv, TreeOK
<1>2. PICK c \in DOMAIN graph :
          /\ c = f.path /\ c \in Seq(Names) /\ IsPrefix(zoom, c) /\ scale \in Nat
          /\ f.depth = Len(c) - Len(zoom) /\ f = FrameOf(graph, zoom, c, scale)
  BY LaidOut
<1>3. Len(c) \in Nat /\ Len(zoom) \in Nat /\ Len(zoom) < Len(c)
  <2>1. Len(c) \in Nat /\ Len(zoom) \in Nat
    BY <1>1, <1>2
  <2> QED
    BY <1>2, <2>1
<1>4. c # <<>>
  <2>1. Len(<<>>) = 0
    OBVIOUS
  <2> QED
    BY <1>3, <2>1
<1>5. PICK name \in Names :
          /\ name = Last(c) /\ c = Append(p, name) /\ Len(p) = Len(c) - 1
          /\ \A i \in 1 .. Len(c) - 1 : p[i] = c[i]
  BY <1>2, <1>4, FrontAndLast
<1>6. IsPrefix(zoom, p)
  <2>1. \A i \in 1 .. Len(zoom) : zoom[i] = c[i]
    BY <1>1, <1>2, PrefixPoints
  <2>2. Len(zoom) <= Len(p) /\ \A i \in 1 .. Len(zoom) : zoom[i] = p[i]
    BY <1>3, <1>5, <2>1
  <2> QED
    BY <1>1, <2>2, PrefixPoints
<1>7. Indexed(graph[p]) /\ name \in ToSet(graph[p].names)
  <2>1. Append(p, name) \in DOMAIN graph
    BY <1>2, <1>5
  <2> QED
    BY <1>1, <2>1, Zenon DEF TreeOK
<1>8. PICK i \in DOMAIN graph[p].names : graph[p].names[i] = name /\ graph[p].index[name] = i
  BY <1>7 DEF Indexed, ToSet
<1>9. /\ FrameStart(graph, zoom, p, scale) \in Held
      /\ CalleeAt(p, FrameStart(graph, zoom, p, scale), scale, i,
                  FrameOf(graph, zoom, Append(p, graph[p].names[i]), scale))
  BY <1>2, <1>6, CalleeFrame
<1> QED
  BY <1>2, <1>5, <1>6, <1>8, <1>9

(* Callees are drawn in the order of the children.                          *)
LEMMA CalleesInOrder ==
    ASSUME GraphInv, ViewInv, NEW p \in DOMAIN graph,
           NEW f \in Layout, f.depth > 0, Front(f.path) = p,
           NEW g \in Layout, g.depth > 0, Front(g.path) = p,
           graph[p].index[Last(f.path)] < graph[p].index[Last(g.path)]
    PROVE  f.x + f.width <= g.x
<1>1. PICK scale : scale = Scale(Width, graph[zoom].total)
  OBVIOUS
<1>2. PICK i \in DOMAIN graph[p].names :
          /\ i = graph[p].index[Last(f.path)] /\ scale \in Nat
          /\ FrameStart(graph, zoom, p, scale) \in Held
          /\ CalleeAt(p, FrameStart(graph, zoom, p, scale), scale, i, f)
  BY <1>1, CalleeIs
<1>3. PICK j \in DOMAIN graph[p].names :
          /\ j = graph[p].index[Last(g.path)]
          /\ CalleeAt(p, FrameStart(graph, zoom, p, scale), scale, j, g)
  BY <1>1, CalleeIs
<1>4. PICK x \in Held : x = FrameStart(graph, zoom, p, scale)
  BY <1>2
<1>5. TreeOK(graph) /\ graph[p].names \in Seq(Names)
  BY DEF GraphInv, TreeOK, Node
<1>6. j \in 1 .. Len(graph[p].names) + 1 /\ i + 1 \in 1 .. j
  BY <1>2, <1>3, <1>5
<1>7. /\ KidStart(graph, p, x, scale, i + 1) \in Nat
      /\ KidStart(graph, p, x, scale, j) \in Nat
      /\ KidStart(graph, p, x, scale, i + 1) <= KidStart(graph, p, x, scale, j)
  <2>1. /\ KidStart(graph, p, x, scale, i + 1) \in Held
        /\ KidStart(graph, p, x, scale, j) \in Held
        /\ KidStart(graph, p, x, scale, i + 1) <= KidStart(graph, p, x, scale, j)
    BY <1>2, <1>5, <1>6, CalleesAdvance
  <2> QED
    BY <2>1, FractionsHeld
<1>8. Round(KidStart(graph, p, x, scale, i + 1)) <= Round(KidStart(graph, p, x, scale, j))
  BY <1>7, RoundGrows
<1> QED
  BY <1>2, <1>3, <1>4, <1>8 DEF CalleeAt

(* Between the left border of a frame and a callee every column is of some  *)
(* callee: the first that ends beyond the column starts no later than it.   *)
LEMMA CalleesAdjoin ==
    ASSUME GraphInv, ViewInv, NEW p \in DOMAIN graph,
           NEW caller \in Layout, caller.path = p,
           NEW f \in Layout, f.depth > 0, Front(f.path) = p,
           NEW column \in caller.x .. f.x
    PROVE  \E g \in Layout : /\ g.depth > 0 /\ Front(g.path) = p
                             /\ column \in g.x .. g.x + g.width - 1
<1>1. PICK scale : scale = Scale(Width, graph[zoom].total)
  OBVIOUS
<1>2. PICK b \in DOMAIN graph[p].names :
          /\ scale \in Nat /\ IsPrefix(zoom, p)
          /\ FrameStart(graph, zoom, p, scale) \in Held
          /\ CalleeAt(p, FrameStart(graph, zoom, p, scale), scale, b, f)
  BY <1>1, CalleeIs
<1>3. PICK x \in Held : x = FrameStart(graph, zoom, p, scale)
  BY <1>2
<1>4. TreeOK(graph) /\ p \in Seq(Names) /\ zoom \in Seq(Names)
      /\ graph[p].names \in Seq(Names)
  BY DEF GraphInv, ViewInv, TreeOK, Node
<1>5. PICK n \in Nat : n = Len(graph[p].names) /\ DOMAIN graph[p].names = 1 .. n /\ b \in 1 .. n
  BY <1>4
<1> DEFINE at(i) == Round(KidStart(graph, p, x, scale, i))
<1>6. \A i \in 1 .. n + 1 : at(i) \in Nat
  <2>1. ASSUME NEW i \in 1 .. n + 1 PROVE at(i) \in Nat
    <3>1. i \in 1 .. i
      OBVIOUS
    <3>2. KidStart(graph, p, x, scale, i) \in Nat
      BY <1>2, <1>4, <1>5, <3>1, CalleesAdvance, FractionsHeld
    <3> QED
      BY <3>2, RoundGrows
  <2> QED
    BY <2>1
<1>7. at(1) = caller.x /\ at(b) = f.x /\ at(b + 1) = f.x + f.width /\ f.width > 0
  <2>1. caller = FrameOf(graph, zoom, p, scale) /\ f.width > 0
    BY <1>1, LaidOut
  <2>2. caller.x = Round(x)
    BY <1>3, <2>1 DEF FrameOf
  <2> QED
    BY <1>2, <1>3, <2>1, <2>2, BeforeFirst DEF CalleeAt
<1> HIDE DEF at
<1> DEFINE S == {m \in 1 .. b : column < at(m + 1)}
<1>8. b \in 1 .. n + 1 /\ b + 1 \in 1 .. n + 1 /\ 1 \in 1 .. n + 1 /\ b \in 1 .. b
  BY <1>5
<1>9. column \in Nat /\ at(1) <= column /\ column < at(b + 1)
  <2>1. PICK u \in Nat : u = at(1) /\ u = caller.x
    BY <1>6, <1>7, <1>8
  <2>2. f.x \in Nat /\ f.width \in Int /\ f.width > 0
    BY <1>2, <1>7 DEF CalleeAt
  <2>3. column \in Nat /\ u <= column /\ column <= f.x
    BY <2>1, <2>2
  <2>4. column < f.x + f.width
    BY <2>2, <2>3
  <2> QED
    BY <1>7, <2>1, <2>3, <2>4
<1>10. PICK m \in S : \A k \in S : m <= k
  <2>1. b \in S
    BY <1>8, <1>9
  <2>2. S \in SUBSET (1 .. b) /\ 1 \in Int /\ b \in Int
    BY <1>5
  <2> HIDE DEF S
  <2> QED
    BY <2>1, <2>2, LeastOfInterval
<1>11. m \in 1 .. n /\ m + 1 \in 1 .. n + 1 /\ m \in 1 .. n + 1 /\ column < at(m + 1)
  BY <1>5, <1>10
<1>12. at(m) <= column
  <2>1. CASE m = 1
    BY <1>9, <2>1
  <2>2. CASE m # 1
    <3>1. m - 1 \in 1 .. b /\ ~(m <= m - 1) /\ (m - 1) + 1 = m
      BY <1>5, <1>10, <2>2
    <3>2. m - 1 \notin S
      <4> HIDE DEF S
      <4> QED
        BY <1>10, <3>1
    <3>3. ~(column < at(m))
      BY <3>1, <3>2
    <3> QED
      BY <1>6, <1>9, <1>11, <3>3
  <2> QED
    BY <2>1, <2>2
<1>13. PICK name \in Names :
           /\ name = graph[p].names[m] /\ Append(p, name) \in DOMAIN graph
           /\ CalleeAt(p, x, scale, m, FrameOf(graph, zoom, Append(p, name), scale))
  <2>1. m \in DOMAIN graph[p].names
    BY <1>5, <1>11
  <2>2. /\ graph[p].names[m] \in Names /\ Append(p, graph[p].names[m]) \in DOMAIN graph
    BY <1>4, <2>1, ChildIsThere
  <2>3. CalleeAt(p, x, scale, m, FrameOf(graph, zoom, Append(p, graph[p].names[m]), scale))
    BY <1>2, <1>3, <2>1, CalleeFrame
  <2> QED
    BY <2>2, <2>3
<1>14. PICK g : g = FrameOf(graph, zoom, Append(p, name), scale)
  OBVIOUS
<1>15. g.x = at(m) /\ g.x + g.width = at(m + 1) /\ g.x \in Nat /\ g.width \in Int
  BY <1>13, <1>14 DEF CalleeAt, at
<1>16. column \in g.x .. g.x + g.width - 1 /\ g.width > 0
  BY <1>9, <1>11, <1>12, <1>15
<1>17. g \in Layout
  BY <1>1, <1>13, <1>14, <1>16, CalleeShown
<1>18. g.depth > 0 /\ Front(g.path) = p
  <2>1. PICK c \in Seq(Names) : c = Append(p, name) /\ Len(c) = Len(p) + 1 /\ c # <<>>
                                /\ \A i \in 1 .. Len(p) : c[i] = p[i]
    <3>1. PICK c : c = Append(p, name)
      OBVIOUS
    <3>2. /\ c \in Seq(Names) /\ Len(c) = Len(p) + 1 /\ c # <<>>
          /\ \A i \in 1 .. Len(p) : c[i] = p[i]
      BY <1>4, <3>1, AppendPoints
    <3> QED
      BY <3>1, <3>2
  <2>2. g.path = c /\ g.depth = Len(c) - Len(zoom)
    BY <1>14, <2>1 DEF FrameOf
  <2>3. Len(zoom) \in Nat /\ Len(p) \in Nat /\ Len(zoom) <= Len(p)
    BY <1>2, <1>4, PrefixPoints
  <2>4. Front(c) \in Seq(Names) /\ Len(Front(c)) = Len(p)
        /\ \A i \in 1 .. Len(p) : Front(c)[i] = p[i]
    <3>1. /\ Front(c) \in Seq(Names) /\ Len(Front(c)) = Len(c) - 1
          /\ \A i \in 1 .. Len(c) - 1 : Front(c)[i] = c[i]
      BY <2>1, FrontAndLast
    <3>2. Len(c) - 1 = Len(p)
      BY <2>1, <2>3
    <3> QED
      BY <2>1, <3>1, <3>2
  <2>5. Front(c) = p
    BY <1>4, <2>4, SameSeq
  <2> QED
    BY <2>1, <2>2, <2>3, <2>5
<1> QED
  BY <1>16, <1>17, <1>18

(* layout_recursive: whatever is merged and wherever the zoom, the callees  *)
(* of a frame share no column, stand in the order of the children, and      *)
(* leave no column free up to the last of them.                             *)
THEOREM FramesStayInOrder == Spec => []FramesInOrder
<1>1. ASSUME GraphInv, ViewInv, NEW p \in DOMAIN graph
      PROVE  LET callees == {f \in Layout : f.depth > 0 /\ Front(f.path) = p}
                 Child(f) == graph[p].index[Last(f.path)]
             IN /\ \A f, g \in callees : Child(f) < Child(g) => f.x + f.width <= g.x
                /\ \A caller \in Layout, f \in callees :
                       caller.path = p =>
                           \A column \in caller.x .. f.x :
                               \E g \in callees : column \in g.x .. g.x + g.width - 1
  <2> DEFINE callees == {f \in Layout : f.depth > 0 /\ Front(f.path) = p}
             Child(f) == graph[p].index[Last(f.path)]
  <2>1. ASSUME NEW f \in callees, NEW g \in callees, Child(f) < Child(g)
        PROVE  f.x + f.width <= g.x
    BY <1>1, <2>1, CalleesInOrder
  <2>2. ASSUME NEW caller \in Layout, NEW f \in callees, caller.path = p,
               NEW column \in caller.x .. f.x
        PROVE  \E g \in callees : column \in g.x .. g.x + g.width - 1
    <3>1. PICK g \in Layout : /\ g.depth > 0 /\ Front(g.path) = p
                              /\ column \in g.x .. g.x + g.width - 1
      BY <1>1, <2>2, CalleesAdjoin
    <3> QED
      BY <3>1
  <2> QED
    BY <2>1, <2>2
<1>2. IInv => FramesInOrder
  BY <1>1, Zenon DEF IInv, FramesInOrder
<1> QED
  BY <1>2, TabInvariant, PTL

(* The cursor's frame, where it is drawn.                                   *)
LEMMA CursorFrame ==
    ASSUME GraphInv, ViewInv, Drawn(cursor)
    PROVE  \E f \in Layout : /\ f.path = GetNode(graph, ZoomRoot, cursor)
                             /\ f.depth = Len(cursor)
                             /\ f.x = CursorColumn(graph, ZoomRoot, cursor, Width)
<1>1. /\ TreeOK(graph) /\ zoom \in DOMAIN graph /\ ZoomRoot = zoom
      /\ cursor \in Seq(Nat)
  BY ZoomIs DEF GraphInv, ViewInv
<1>2. Resolves(graph, zoom, cursor)
  BY <1>1 DEF Drawn
<1>3. PICK f \in Layout : f.path = GetNode(graph, zoom, cursor)
  BY <1>1 DEF Drawn
<1>4. PICK p \in DOMAIN graph :
          p = GetNode(graph, zoom, cursor) /\ Len(p) - Len(zoom) = Len(cursor)
  BY <1>1, <1>2, FrameIs
<1>5. PICK scale : scale = Scale(Width, graph[zoom].total)
  OBVIOUS
<1>6. f.depth = Len(cursor) /\ f = FrameOf(graph, zoom, p, scale)
  BY <1>3, <1>4, <1>5, LaidOut
<1>7. CursorStart(graph, zoom, cursor, scale) = FrameStart(graph, zoom, p, scale)
  BY <1>1, <1>2, <1>4, CursorIsStart
<1>8. f.x = Round(FrameStart(graph, zoom, p, scale))
  BY <1>6 DEF FrameOf
<1>9. f.x = CursorColumn(graph, zoom, cursor, Width)
  BY <1>5, <1>7, <1>8 DEF CursorColumn
<1> QED
  BY <1>1, <1>3, <1>6, <1>9

(* No two callees of a frame start at the same column.                      *)
LEMMA OneOfCallees ==
    ASSUME GraphInv, ViewInv, NEW f \in Layout, NEW g \in Layout,
           g.depth = f.depth, g.x = f.x, Front(g.path) = Front(f.path)
    PROVE  g.path = f.path
<1>1. PICK scale : scale = Scale(Width, graph[zoom].total)
  OBVIOUS
<1>2. TreeOK(graph) /\ zoom \in Seq(Names)
  BY DEF GraphInv, ViewInv, TreeOK
<1>3. PICK p \in DOMAIN graph : p = f.path /\ p \in Seq(Names) /\ IsPrefix(zoom, p)
                                /\ f.depth = Len(p) - Len(zoom) /\ f.width > 0
  BY <1>1, LaidOut
<1>4. PICK q \in DOMAIN graph : q = g.path /\ q \in Seq(Names) /\ IsPrefix(zoom, q)
                                /\ g.depth = Len(q) - Len(zoom) /\ g.width > 0
  BY <1>1, LaidOut
<1>5. Len(p) \in Nat /\ Len(q) \in Nat /\ Len(zoom) \in Nat /\ Len(p) = Len(q)
      /\ Len(zoom) <= Len(p)
  <2>1. Len(p) \in Nat /\ Len(q) \in Nat /\ Len(zoom) \in Nat /\ Len(zoom) <= Len(p)
    BY <1>2, <1>3, <1>4, PrefixPoints
  <2>2. Len(p) - Len(zoom) = Len(q) - Len(zoom)
    BY <1>3, <1>4
  <2> QED
    BY <2>1, <2>2
<1>6. CASE Len(p) = Len(zoom)
  <2>1. /\ \A i \in 1 .. Len(zoom) : zoom[i] = p[i]
        /\ \A i \in 1 .. Len(zoom) : zoom[i] = q[i]
    BY <1>2, <1>3, <1>4, PrefixPoints
  <2>2. \A i \in 1 .. Len(p) : p[i] = q[i]
    BY <1>6, <2>1
  <2>3. p = q
    BY <1>3, <1>4, <1>5, <2>2, SameSeq
  <2> QED
    BY <1>3, <1>4, <2>3
<1>7. CASE Len(p) # Len(zoom)
  <2>1. f.depth > 0 /\ g.depth > 0
    BY <1>3, <1>4, <1>5, <1>7
  <2>2. p # <<>> /\ q # <<>>
    <3>1. Len(<<>>) = 0
      OBVIOUS
    <3> QED
      BY <1>5, <1>7, <3>1
  <2>3. PICK c \in DOMAIN graph : c = Front(p) /\ c = Front(q)
    <3>1. p = Append(Front(p), Last(p)) /\ Front(p) \in Seq(Names) /\ Last(p) \in Names
      BY <1>3, <2>2, FrontAndLast
    <3>2. PICK u \in Seq(Names), x \in Names : u = Front(p) /\ Append(u, x) \in DOMAIN graph
      BY <3>1
    <3>3. u \in DOMAIN graph
      BY <1>2, <3>2, Zenon DEF TreeOK
    <3> QED
      BY <1>3, <1>4, <3>2, <3>3
  <2>4. PICK i \in DOMAIN graph[c].names :
            /\ i = graph[c].index[Last(p)] /\ p = Append(c, graph[c].names[i])
            /\ CalleeAt(c, FrameStart(graph, zoom, c, scale), scale, i, f)
    BY <1>1, <1>3, <2>1, <2>3, CalleeIs
  <2>5. PICK j \in DOMAIN graph[c].names :
            /\ j = graph[c].index[Last(q)] /\ q = Append(c, graph[c].names[j])
            /\ CalleeAt(c, FrameStart(graph, zoom, c, scale), scale, j, g)
    BY <1>1, <1>4, <2>1, <2>3, CalleeIs
  <2>6. i \in Nat /\ j \in Nat
    <3>1. graph[c].names \in Seq(Names)
      BY <1>2 DEF TreeOK, Node
    <3> QED
      BY <3>1
  <2>7. f.x \in Nat /\ f.width \in Int /\ g.x \in Nat /\ g.width \in Int
    BY <2>4, <2>5 DEF CalleeAt
  <2>8. ~(i < j)
    <3>1. i < j => f.x + f.width <= g.x
      BY <1>3, <1>4, <2>1, <2>3, <2>4, <2>5, CalleesInOrder
    <3> QED
      BY <1>3, <2>7, <3>1
  <2>9. ~(j < i)
    <3>1. j < i => g.x + g.width <= f.x
      BY <1>3, <1>4, <2>1, <2>3, <2>4, <2>5, CalleesInOrder
    <3> QED
      BY <1>4, <2>7, <3>1
  <2>10. i = j
    BY <2>6, <2>8, <2>9
  <2> QED
    BY <1>3, <1>4, <2>4, <2>5, <2>10
<1> QED
  BY <1>6, <1>7

(* render_flamegraph: the frame that the keys act on, when it is drawn, is  *)
(* among those found at the cursor's row and column and highlighted, and    *)
(* no other callee of its caller is.                                        *)
THEOREM CursorIsHighlighted == Spec => []HighlightShowsCursor
<1>1. ASSUME GraphInv, ViewInv, Drawn(cursor)
      PROVE  LET p == GetNode(graph, ZoomRoot, cursor)
                 found == {f \in Layout :
                              /\ f.depth = Len(cursor)
                              /\ f.x = CursorColumn(graph, ZoomRoot, cursor, Width)}
             IN /\ \E f \in found : f.path = p
                /\ \A f \in found : f.path # p => Front(f.path) # Front(p)
  <2>1. PICK f \in Layout : /\ f.path = GetNode(graph, ZoomRoot, cursor)
                            /\ f.depth = Len(cursor)
                            /\ f.x = CursorColumn(graph, ZoomRoot, cursor, Width)
    BY <1>1, CursorFrame
  <2>2. ASSUME NEW g \in Layout, g.depth = f.depth, g.x = f.x, g.path # f.path,
               Front(g.path) = Front(f.path)
        PROVE  FALSE
    BY <1>1, <2>2, OneOfCallees
  <2> QED
    BY <2>1, <2>2
<1>2. IInv => HighlightShowsCursor
  BY <1>1, Zenon DEF IInv, HighlightShowsCursor
<1> QED
  BY <1>2, TabInvariant, PTL

(* render_flamegraph: wherever the graph was scrolled to, and whatever has  *)
(* become of it, a row that is drawn is on the screen after the draw, and   *)
(* the screen shows no empty rows while there are rows above it.            *)
THEOREM ScrollShowsRow ==
    ASSUME NEW from \in Nat, NEW depth \in Nat, NEW deepest \in Nat,
           NEW height \in Nat \ {0}, depth <= deepest
    PROVE  LET top == Scrolled(from, depth, deepest, height)
           IN /\ top \in Nat /\ depth \in top .. top + height - 1
              /\ top = 0 \/ top + height - 1 <= deepest
BY DEF Scrolled, AtMost

(* render_flamegraph: wherever the graph was scrolled to, the row of the    *)
(* cursor is on the screen after the draw.                                  *)
THEOREM DrawScrolls == Spec => DrawShowsCursor
<1>1. ASSUME IInv, Draw, Drawn(cursor)
      PROVE  Len(cursor) \in scroll' .. scroll' + Height - 1
  <2>1. /\ TreeOK(graph) /\ zoom \in DOMAIN graph /\ ZoomRoot = zoom
        /\ cursor \in Seq(Nat) /\ scroll \in Nat
    BY <1>1, ZoomIs DEF IInv, GraphInv, ViewInv
  <2>2. PICK f \in Layout : f.depth = Len(cursor)
    BY <1>1, CursorFrame DEF IInv
  <2>3. Deepest \in Nat /\ Len(cursor) <= Deepest
    BY <2>1, <2>2, DeepestIs
  <2>4. Height \in Nat \ {0} /\ Len(cursor) \in Nat
    BY <2>1, TabAssumption
  <2>5. PICK from \in Nat, depth \in Nat, deepest \in Nat, height \in Nat \ {0} :
            /\ from = scroll /\ depth = Len(cursor) /\ deepest = Deepest /\ height = Height
            /\ depth <= deepest
    BY <2>1, <2>3, <2>4
  <2>6. depth \in Scrolled(from, depth, deepest, height)
                      .. Scrolled(from, depth, deepest, height) + height - 1
    BY <2>5, ScrollShowsRow
  <2>7. scroll' = Scrolled(from, depth, deepest, height)
    BY <1>1, <2>5 DEF Draw
  <2> QED
    BY <2>5, <2>6, <2>7
<1>2. IInv => [Draw /\ Drawn(cursor) =>
                   Len(cursor) \in scroll' .. scroll' + Height - 1]_vars
  BY <1>1
<1> QED
  BY <1>2, TabInvariant, PTL DEF Spec, DrawShowsCursor
============================================================================
