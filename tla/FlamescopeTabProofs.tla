------------------------ MODULE FlamescopeTabProofs ------------------------
(* Proofs about FlamescopeTab for any threads, times, updates, terminal     *)
(* areas and sizes of the grid: first the arithmetic of rows and columns,   *)
(* then one sample, a whole update, the keys, and the draw.                 *)
EXTENDS FlamescopeTab, OperatorProofs

USE ScopeAssumption, LayoutAssumption

----------------------------------------------------------------------------
(* A time after the epoch has one row of one column.                        *)
LEMMA CellOfOffset ==
    ASSUME NEW n \in Nat, NEW col \in Nat, NEW row \in 0 .. Rows - 1
    PROVE  n = col * Rows + row <=> col = n \div Rows /\ row = n % Rows
<1> DEFINE q == n \div Rows
           m == n % Rows
<1>1. q \in Nat /\ m \in 0 .. Rows - 1 /\ n = q * Rows + m
  BY Division
<1> HIDE DEF q, m
<1>2. col * Rows \in Nat /\ q * Rows \in Nat
  BY <1>1
<1>3. ASSUME n = col * Rows + row, col < q PROVE FALSE
  BY <1>1, <1>2, <1>3, Monotone
<1>4. ASSUME n = col * Rows + row, q < col PROVE FALSE
  BY <1>1, <1>2, <1>4, Monotone
<1> QED
  BY <1>1, <1>2, <1>3, <1>4 DEF q, m

LEMMA OffsetIsNat ==
    ASSUME NEW first \in Time, NEW time \in Time
    PROVE  Offset(first, time) \in Nat
BY DEF Offset

----------------------------------------------------------------------------
(* One sample in one heatmap. *)
History == Seq(Thread \X Time)

LEMMA SinceIsNat ==
    ASSUME NEW r \in History, NEW k \in DOMAIN r
    PROVE  Since(r, k) \in Nat
<1>1. 1 \in DOMAIN r
  BY DEF History
<1>2. r[1] \in Thread \X Time /\ r[k] \in Thread \X Time
  BY <1>1 DEF History
<1>3. r[1][2] \in Nat /\ r[k][2] \in Nat
  BY <1>2
<1> QED
  BY <1>3 DEF Since

(* A sample more changes no distance of an older one.                       *)
LEMMA Appended ==
    ASSUME NEW r \in History, NEW sample \in Thread \X Time
    PROVE  LET longer == Append(r, sample)
               first == IF r = <<>> THEN sample[2] ELSE r[1][2]
           IN /\ longer \in History
              /\ DOMAIN r = 1 .. Len(r) /\ Len(r) \in Nat
              /\ DOMAIN longer = DOMAIN r \union {Len(r) + 1}
              /\ first \in Time /\ longer[1][2] = first
              /\ longer[Len(r) + 1] = sample
              /\ Since(longer, Len(r) + 1) = Offset(first, sample[2])
              /\ \A k \in DOMAIN r :
                     longer[k] = r[k] /\ Since(longer, k) = Since(r, k)
<1> DEFINE longer == Append(r, sample)
           first == IF r = <<>> THEN sample[2] ELSE r[1][2]
<1>1. /\ longer \in History
      /\ DOMAIN r = 1 .. Len(r) /\ Len(r) \in Nat
      /\ DOMAIN longer = DOMAIN r \union {Len(r) + 1}
      /\ longer[Len(r) + 1] = sample
      /\ \A k \in DOMAIN r : longer[k] = r[k]
  BY DEF History
<1>2. CASE r = <<>>
  <2>1. Len(r) = 0
    BY <1>2
  <2>2. /\ longer[1] = sample /\ first = sample[2]
        /\ sample[2] \in Time /\ sample[2] \in Nat
    <3>1. longer[Len(r) + 1] = longer[1]
      BY <2>1
    <3>2. longer[1] = sample
      BY <1>1, <3>1
    <3>3. sample[2] \in Time /\ sample[2] \in Nat
      OBVIOUS
    <3> HIDE DEF longer
    <3> QED
      BY <1>2, <3>2, <3>3
  <2>3. Since(longer, Len(r) + 1) = Offset(first, sample[2])
    BY <1>1, <2>1, <2>2 DEF Since, Offset
  <2> QED
    BY <1>1, <1>2, <2>1, <2>2, <2>3
<1>3. CASE r # <<>>
  <2>1. 1 \in DOMAIN r
    BY <1>1, <1>3 DEF History
  <2>2. longer[1] = r[1] /\ r[1] \in Thread \X Time
    BY <1>1, <2>1 DEF History
  <2>3. /\ first \in Time /\ longer[1][2] = first /\ sample[2] \in Time
        /\ first \in Nat /\ sample[2] \in Nat
    BY <1>3, <2>2
  <2>4. Since(longer, Len(r) + 1) = Offset(first, sample[2])
    BY <1>1, <2>3 DEF Since, Offset
  <2>5. \A k \in DOMAIN r : Since(longer, k) = Since(r, k)
    BY <1>1, <2>2 DEF Since
  <2> QED
    BY <1>1, <2>3, <2>4, <2>5
<1> QED
  BY <1>2, <1>3

LEMMA CellIsFinite ==
    ASSUME NEW r \in History, NEW chosen, NEW col, NEW row
    PROVE  /\ SamplesAt(r, chosen, col, row) \subseteq DOMAIN r
           /\ IsFiniteSet(SamplesAt(r, chosen, col, row))
           /\ Cardinality(SamplesAt(r, chosen, col, row)) \in Nat
<1>1. SamplesAt(r, chosen, col, row) \in SUBSET (1 .. Len(r)) /\ Len(r) \in Nat
  BY DEF SamplesAt, History
<1>2. IsFiniteSet(SamplesAt(r, chosen, col, row))
  <2>1. IsFiniteSet(1 .. Len(r))
    BY <1>1, FS_Interval
  <2> QED
    BY ONLY <1>1, <2>1, FS_Subset
<1>3. DOMAIN r = 1 .. Len(r)
  BY DEF History
<1> QED
  BY <1>1, <1>2, <1>3, FS_CardinalityType

(* A heatmap of threads the sample is not of.                               *)
LEMMA OtherHeatmap ==
    ASSUME NEW r \in History, NEW sample \in Thread \X Time,
           NEW cols, NEW chosen, sample[1] \notin chosen, CountsOf(r, cols, chosen)
    PROVE  CountsOf(Append(r, sample), cols, chosen)
<1> DEFINE longer == Append(r, sample)
<1>1. /\ DOMAIN longer = DOMAIN r \union {Len(r) + 1}
      /\ longer[Len(r) + 1] = sample
      /\ \A k \in DOMAIN r : longer[k] = r[k] /\ Since(longer, k) = Since(r, k)
  BY Appended
<1> HIDE DEF longer
<1>2. ASSUME NEW col, NEW row
      PROVE  SamplesAt(longer, chosen, col, row) = SamplesAt(r, chosen, col, row)
  BY <1>1 DEF SamplesAt
<1> QED
  BY <1>1, <1>2 DEF CountsOf, longer

LEMMA PaddedIsLonger ==
    ASSUME NEW cols \in Counts, NEW col \in Nat
    PROVE  /\ Padded(cols, col) \in Counts
           /\ Len(Padded(cols, col)) \in Nat /\ Len(cols) \in Nat
           /\ Len(cols) <= Len(Padded(cols, col)) /\ col < Len(Padded(cols, col))
           /\ DOMAIN Padded(cols, col) = 1 .. Len(Padded(cols, col))
           /\ DOMAIN cols = 1 .. Len(cols)
           /\ \A c \in DOMAIN Padded(cols, col) :
                  Padded(cols, col)[c] = IF c \in DOMAIN cols THEN cols[c] ELSE Blank
<1> DEFINE Column == [0 .. Rows - 1 -> Nat]
<1>1. Blank \in Column
  BY DEF Blank
<1> HIDE DEF Column
<1>2. cols \in Seq(Column) /\ Len(cols) \in Nat /\ DOMAIN cols = 1 .. Len(cols)
  BY DEF Counts, Column
<1>3. CASE Len(cols) > col
  BY <1>2, <1>3 DEF Padded, Counts, Column
<1>4. CASE ~(Len(cols) > col)
  <2> DEFINE new == [i \in 1 .. col + 1 - Len(cols) |-> Blank]
  <2>1. Padded(cols, col) = cols \o new
    BY <1>4 DEF Padded
  <2>2. new \in [1 .. col + 1 - Len(cols) -> Column] /\ col + 1 - Len(cols) \in Nat
    BY <1>1, <1>2, <1>4
  <2>3. \A i \in 1 .. col + 1 - Len(cols) : new[i] = Blank
    OBVIOUS
  <2> HIDE DEF new
  <2>4. new \in Seq(Column) /\ Len(new) = col + 1 - Len(cols)
    BY <2>2
  <2>5. /\ cols \o new \in Seq(Column) /\ Len(cols \o new) = col + 1
        /\ \A c \in 1 .. col + 1 :
               (cols \o new)[c] = IF c <= Len(cols) THEN cols[c] ELSE new[c - Len(cols)]
    BY <1>2, <2>4
  <2>6. \A c \in 1 .. col + 1 :
            (cols \o new)[c] = IF c \in DOMAIN cols THEN cols[c] ELSE Blank
    BY <1>2, <2>3, <2>5
  <2>7. DOMAIN (cols \o new) = 1 .. col + 1
    BY <2>5
  <2>8. cols \o new \in Counts
    BY <2>5 DEF Counts, Column
  <2> QED
    BY <1>2, <1>4, <2>1, <2>5, <2>6, <2>7, <2>8
<1> QED
  BY <1>3, <1>4 DEF Column

(* A heatmap of threads the sample is of: its cell counts one more.         *)
LEMMA OwnHeatmap ==
    ASSUME NEW r \in History, NEW sample \in Thread \X Time,
           NEW cols \in Counts, NEW chosen, sample[1] \in chosen,
           CountsOf(r, cols, chosen),
           NEW n \in Nat, n = Since(Append(r, sample), Len(r) + 1)
    PROVE  LET new == Counted(cols, n \div Rows, n % Rows)
           IN new \in Counts \ {<<>>} /\ CountsOf(Append(r, sample), new, chosen)
<1> DEFINE longer == Append(r, sample)
           q == n \div Rows
           m == n % Rows
           wide == Padded(cols, q)
           new == Counted(cols, q, m)
           last == Len(r) + 1
<1>1. /\ longer \in History /\ Len(r) \in Nat
      /\ DOMAIN r = 1 .. Len(r) /\ DOMAIN longer = DOMAIN r \union {last}
      /\ longer[last] = sample
      /\ \A k \in DOMAIN r : longer[k] = r[k] /\ Since(longer, k) = Since(r, k)
  BY Appended
<1>2. q \in Nat /\ m \in 0 .. Rows - 1
  BY Division
<1>3. /\ wide \in Counts /\ Len(wide) \in Nat /\ Len(cols) \in Nat
      /\ Len(cols) <= Len(wide) /\ q < Len(wide) /\ DOMAIN wide = 1 .. Len(wide)
      /\ DOMAIN cols = 1 .. Len(cols)
      /\ \A c \in DOMAIN wide : wide[c] = IF c \in DOMAIN cols THEN cols[c] ELSE Blank
  <2> HIDE DEF q
  <2> QED
    BY <1>2, PaddedIsLonger
<1>4. new = [wide EXCEPT ![q + 1][m] = @ + 1]
  BY DEF Counted
<1>5. \A c \in Nat, row \in 0 .. Rows - 1 : n = c * Rows + row <=> c = q /\ row = m
  BY CellOfOffset
<1>6. n = Since(longer, last)
  OBVIOUS
<1> HIDE DEF longer, q, m, wide, new
<1>7. /\ new \in Counts /\ DOMAIN new = DOMAIN wide /\ Len(new) = Len(wide)
      /\ \A c \in DOMAIN wide : \A row \in 0 .. Rows - 1 :
             new[c][row] = IF c = q + 1 /\ row = m THEN wide[c][row] + 1
                           ELSE wide[c][row]
  <2> DEFINE Column == [0 .. Rows - 1 -> Nat]
             column == [wide[q + 1] EXCEPT ![m] = @ + 1]
  <2>1. wide \in Seq(Column) /\ q + 1 \in DOMAIN wide
    BY <1>2, <1>3 DEF Counts
  <2>2. wide[q + 1] \in Column
    BY <2>1
  <2>3. /\ column \in Column
        /\ \A row \in 0 .. Rows - 1 :
               column[row] = IF row = m THEN wide[q + 1][row] + 1 ELSE wide[q + 1][row]
    BY <1>2, <2>2
  <2>4. new = [wide EXCEPT ![q + 1] = column]
    BY <1>4
  <2> HIDE DEF Column, column
  <2>5. /\ new \in Seq(Column) /\ DOMAIN new = DOMAIN wide /\ Len(new) = Len(wide)
        /\ \A c \in DOMAIN wide : new[c] = IF c = q + 1 THEN column ELSE wide[c]
    BY <2>1, <2>3, <2>4
  <2> QED
    BY <2>3, <2>5 DEF Counts, Column
<1>8. ASSUME NEW c \in DOMAIN wide, NEW row \in 0 .. Rows - 1
      PROVE  wide[c][row] = Cardinality(SamplesAt(r, chosen, c - 1, row))
  <2>1. CASE c \in DOMAIN cols
    BY <1>3, <2>1 DEF CountsOf
  <2>2. CASE c \notin DOMAIN cols
    <3>1. wide[c][row] = 0
      BY <1>3, <2>2 DEF Blank
    <3>2. ASSUME NEW k \in SamplesAt(r, chosen, c - 1, row) PROVE FALSE
      <4>1. /\ k \in DOMAIN r /\ Since(r, k) = (c - 1) * Rows + row
            /\ Since(r, k) < Len(cols) * Rows
        BY <3>2 DEF SamplesAt, CountsOf
      <4>2. c - 1 \in Nat /\ Len(cols) <= c - 1 /\ row \in Nat
        BY <1>3, <2>2
      <4>3. Len(cols) * Rows <= (c - 1) * Rows
        BY <1>3, <4>2, WeaklyMonotone
      <4>4. Len(cols) * Rows \in Nat /\ (c - 1) * Rows \in Nat
        BY <1>3, <4>2
      <4> QED
        BY <4>1, <4>2, <4>3, <4>4
    <3>3. SamplesAt(r, chosen, c - 1, row) = {}
      BY <3>2
    <3> QED
      BY <3>1, <3>3, FS_EmptySet
  <2> QED
    BY <2>1, <2>2
<1>9. ASSUME NEW c \in DOMAIN new, NEW row \in 0 .. Rows - 1
      PROVE  new[c][row] = Cardinality(SamplesAt(longer, chosen, c - 1, row))
  <2>1. c - 1 \in Nat /\ c \in Nat /\ c \in DOMAIN wide
    BY <1>3, <1>7
  <2>2. last \notin SamplesAt(r, chosen, c - 1, row)
    BY <1>1, CellIsFinite
  <2>3. CASE c = q + 1 /\ row = m
    <3>0. c - 1 = q /\ n = q * Rows + row
      BY <1>2, <1>5, <2>3
    <3>1. n = (c - 1) * Rows + row
      BY <3>0
    <3>2. SamplesAt(longer, chosen, c - 1, row)
              = SamplesAt(r, chosen, c - 1, row) \union {last}
      BY <1>1, <1>6, <3>1 DEF SamplesAt
    <3>3. Cardinality(SamplesAt(longer, chosen, c - 1, row))
              = Cardinality(SamplesAt(r, chosen, c - 1, row)) + 1
      BY <2>2, <3>2, CellIsFinite, FS_AddElement
    <3> QED
      BY <1>7, <1>8, <2>1, <2>3, <3>3
  <2>4. CASE ~(c = q + 1 /\ row = m)
    <3>0. ~(c - 1 = q /\ row = m)
      BY <1>2, <2>1, <2>4
    <3>1. n # (c - 1) * Rows + row
      BY <1>5, <2>1, <3>0, Zenon
    <3>2. SamplesAt(longer, chosen, c - 1, row) = SamplesAt(r, chosen, c - 1, row)
      BY <1>1, <1>6, <3>1 DEF SamplesAt
    <3> QED
      BY <1>7, <1>8, <2>1, <2>4, <3>2
  <2> QED
    BY <2>3, <2>4
<1>10. ASSUME NEW k \in DOMAIN longer, longer[k][1] \in chosen
       PROVE  Since(longer, k) < Len(new) * Rows
  <2>1. Len(cols) * Rows <= Len(wide) * Rows /\ n < Len(wide) * Rows
    <3>1. Len(cols) * Rows \in Nat /\ Len(wide) * Rows \in Nat /\ q * Rows \in Nat
      BY <1>2, <1>3
    <3>2. q * Rows + Rows <= Len(wide) * Rows
      BY <1>2, <1>3, Monotone
    <3>3. n = q * Rows + m
      BY <1>2, <1>5
    <3>4. Len(cols) * Rows <= Len(wide) * Rows
      BY <1>3, WeaklyMonotone
    <3> QED
      BY <1>2, <3>1, <3>2, <3>3, <3>4
  <2>2. CASE k = last
    BY <1>6, <1>7, <2>1, <2>2
  <2>3. CASE k \in DOMAIN r
    <3>1. Since(longer, k) = Since(r, k) /\ Since(r, k) \in Nat
      BY <1>1, <2>3, SinceIsNat
    <3>2. Since(r, k) < Len(cols) * Rows
      BY <1>1, <1>10, <2>3 DEF CountsOf
    <3>3. Len(cols) * Rows \in Nat /\ Len(wide) * Rows \in Nat
      BY <1>3
    <3> QED
      BY <1>7, <2>1, <3>1, <3>2, <3>3
  <2> QED
    BY <1>1, <2>2, <2>3
<1>11. new # <<>>
  BY <1>2, <1>3, <1>7
<1>12. CountsOf(longer, new, chosen)
  BY <1>9, <1>10 DEF CountsOf
<1> QED
  BY <1>7, <1>11, <1>12 DEF new, longer, q, m

----------------------------------------------------------------------------
(* The sorted list of thread names. *)
Ascending(names) ==
    \A i, j \in DOMAIN names : i < j => names[i] < names[j]

(* Where names are sorted, those smaller than another come first. *)
LEMMA SmallerComeFirst ==
    ASSUME NEW names \in Seq(Nat), Ascending(names), NEW t \in Nat,
           t \notin ToSet(names)
    PROVE  \E at \in 0 .. Len(names) :
              /\ Cardinality({i \in DOMAIN names : names[i] < t}) = at
              /\ \A i \in DOMAIN names : names[i] < t <=> i <= at
<1> DEFINE smaller == {i \in DOMAIN names : names[i] < t}
           greater == {i \in DOMAIN names : t < names[i]}
<1>1. /\ Len(names) \in Nat /\ DOMAIN names = 1 .. Len(names)
      /\ \A i \in DOMAIN names : names[i] \in Nat /\ names[i] # t
  BY DEF ToSet
<1>2. greater \in SUBSET Int /\ IsFiniteSet(greater)
  <2>1. greater \in SUBSET (1 .. Len(names)) /\ IsFiniteSet(1 .. Len(names))
    BY <1>1, FS_Interval
  <2>2. 1 .. Len(names) \subseteq Int
    BY <1>1
  <2> HIDE DEF greater
  <2> QED
    BY <2>1, <2>2, FS_Subset
<1>3. PICK at \in 0 .. Len(names) : \A i \in DOMAIN names : names[i] < t <=> i <= at
  <2>1. CASE greater = {}
    <3>1. \A i \in DOMAIN names : names[i] < t /\ i <= Len(names)
      BY <1>1, <2>1
    <3> QED
      BY <1>1, <3>1
  <2>2. CASE greater # {}
    <3>1. PICK first \in greater : \A i \in greater : first <= i
      <4> HIDE DEF greater
      <4> QED
        BY <1>2, <2>2, LeastExists
    <3>2. first \in 1 .. Len(names) /\ t < names[first]
      BY <1>1
    <3>3. ASSUME NEW i \in DOMAIN names PROVE names[i] < t <=> i <= first - 1
      <4>1. CASE i < first
        BY <1>1, <3>1, <3>2, <4>1
      <4>2. CASE i = first
        BY <1>1, <3>2, <4>2
      <4>3. CASE first < i
        <5>1. names[first] < names[i]
          BY <1>1, <3>2, <4>3 DEF Ascending
        <5> QED
          BY <1>1, <3>2, <4>3, <5>1
      <4> QED
        BY <1>1, <3>2, <4>1, <4>2, <4>3
    <3>4. first - 1 \in 0 .. Len(names)
      BY <1>1, <3>2
    <3> QED
      BY <3>3, <3>4
  <2> QED
    BY <2>1, <2>2
<1>4. smaller = 1 .. at
  BY <1>1, <1>3
<1>5. Cardinality(smaller) = at
  <2>1. at \in Int /\ at \in Nat /\ (at < 1 => at = 0)
    BY <1>1
  <2>2. Cardinality(1 .. at) = IF 1 <= at THEN at - 1 + 1 ELSE 0
    BY <2>1, FS_Interval
  <2>3. Cardinality(1 .. at) = at
    BY <2>1, <2>2
  <2> HIDE DEF smaller
  <2> QED
    BY <1>4, <2>3
<1> QED
  BY <1>3, <1>5

LEMMA InsertedIsSorted ==
    ASSUME NEW names \in Seq(Thread), Ascending(names), NEW t \in Thread,
           t \notin ToSet(names)
    PROVE  /\ Inserted(names, t) \in Seq(Thread) /\ Ascending(Inserted(names, t))
           /\ ToSet(Inserted(names, t)) = ToSet(names) \union {t}
<1>1. names \in Seq(Nat) /\ t \in Nat
  <2>1. /\ Len(names) \in Nat /\ DOMAIN names = 1 .. Len(names)
        /\ names \in [1 .. Len(names) -> Thread]
    OBVIOUS
  <2>2. names \in [1 .. Len(names) -> Nat]
    BY <2>1
  <2>3. names \in Seq(Nat)
    BY <2>1, <2>2
  <2> QED
    BY <2>3
<1>2. PICK at \in 0 .. Len(names) :
          /\ Cardinality({i \in DOMAIN names : names[i] < t}) = at
          /\ \A i \in DOMAIN names : names[i] < t <=> i <= at
  BY <1>1, SmallerComeFirst
<1> DEFINE new == Inserted(names, t)
           n == Len(names)
<1>3. /\ n \in Nat /\ at \in Nat /\ at <= n /\ DOMAIN names = 1 .. n
      /\ \A i \in DOMAIN names : names[i] \in Thread /\ names[i] \in Nat /\ names[i] # t
  BY <1>1, <1>2 DEF ToSet
<1>4. new = SubSeq(names, 1, at) \o <<t>> \o SubSeq(names, at + 1, n)
  <2>1. new = InsertAt(names, at + 1, t)
    BY <1>2 DEF Inserted
  <2>2. (at + 1) - 1 = at
    BY <1>3
  <2>3. new = SubSeq(names, 1, (at + 1) - 1) \o <<t>> \o SubSeq(names, at + 1, Len(names))
    <3> HIDE DEF new
    <3> QED
      BY <2>1 DEF InsertAt
  <2> HIDE DEF new
  <2> QED
    BY <2>2, <2>3
<1>5. /\ SubSeq(names, 1, at) \in Seq(Thread) /\ Len(SubSeq(names, 1, at)) = at
      /\ \A i \in 1 .. at : SubSeq(names, 1, at)[i] = names[i]
  BY <1>3
<1>6. /\ SubSeq(names, at + 1, n) \in Seq(Thread)
      /\ Len(SubSeq(names, at + 1, n)) = n - at
      /\ \A i \in 1 .. n - at : SubSeq(names, at + 1, n)[i] = names[at + i]
  <2>1. at + 1 \in 1 .. n + 1
    BY <1>3
  <2>2. /\ SubSeq(names, at + 1, n) \in Seq(Thread)
        /\ Len(SubSeq(names, at + 1, n)) = IF at + 1 <= n THEN (n - (at + 1)) + 1 ELSE 0
        /\ \A i \in 1 .. (n - (at + 1)) + 1 :
               SubSeq(names, at + 1, n)[i] = names[at + 1 + i - 1]
    BY <1>3, <2>1, SubSeqProperties
  <2>3. (n - (at + 1)) + 1 = n - at /\ (~(at + 1 <= n) => n - at = 0)
    <3> HIDE DEF n
    <3>1. n \in Nat /\ at \in Nat /\ at <= n
      BY <1>3
    <3> QED
      BY ONLY <3>1
  <2>4. ASSUME NEW i \in 1 .. n - at
        PROVE  SubSeq(names, at + 1, n)[i] = names[at + i]
    <3>1. at + 1 + i - 1 = at + i
      BY <1>3
    <3>2. SubSeq(names, at + 1, n)[i] = names[at + 1 + i - 1]
      BY <2>2, <2>3
    <3> QED
      BY <3>1, <3>2
  <2> HIDE DEF n
  <2> QED
    BY <2>2, <2>3, <2>4
<1> HIDE DEF new
<1>7. /\ new \in Seq(Thread) /\ DOMAIN new = 1 .. n + 1
      /\ \A i \in 1 .. n + 1 :
             new[i] = IF i <= at THEN names[i] ELSE IF i = at + 1 THEN t ELSE names[i - 1]
  <2> DEFINE front == SubSeq(names, 1, at)
             back == SubSeq(names, at + 1, n)
  <2> HIDE DEF front, back
  <2>1. /\ front \o <<t>> \in Seq(Thread) /\ Len(front \o <<t>>) = at + 1
        /\ \A i \in 1 .. at + 1 :
               (front \o <<t>>)[i] = IF i <= at THEN names[i] ELSE t
    BY <1>3, <1>5 DEF front
  <2> DEFINE head == front \o <<t>>
  <2> HIDE DEF head
  <2>2. /\ head \o back \in Seq(Thread) /\ Len(head \o back) = n + 1
        /\ \A i \in 1 .. n + 1 :
               (head \o back)[i] = IF i <= at + 1 THEN head[i] ELSE back[i - (at + 1)]
    <3>1. head \in Seq(Thread) /\ Len(head) = at + 1
      BY <2>1 DEF head
    <3>2. back \in Seq(Thread) /\ Len(back) = n - at
      BY <1>6 DEF back
    <3>3. at + 1 + (n - at) = n + 1
      BY <1>3
    <3> QED
      <4> HIDE DEF n
      <4>1. /\ head \o back \in Seq(Thread) /\ Len(head \o back) = at + 1 + (n - at)
            /\ \A i \in 1 .. at + 1 + (n - at) :
                   (head \o back)[i] = IF i <= at + 1 THEN head[i] ELSE back[i - (at + 1)]
        <5>1. /\ head \o back \in Seq(Thread) /\ Len(head \o back) = Len(head) + Len(back)
              /\ \A i \in 1 .. Len(head) + Len(back) :
                     (head \o back)[i] = IF i <= Len(head) THEN head[i]
                                        ELSE back[i - Len(head)]
          BY ONLY <3>1, <3>2, ConcatProperties
        <5> QED
          BY <3>1, <3>2, <5>1
      <4> QED
        BY <3>3, <4>1
  <2>3. \A i \in 1 .. n + 1 : i > at + 1 => back[i - (at + 1)] = names[i - 1]
    <3>1. ASSUME NEW i \in 1 .. n + 1, i > at + 1
          PROVE  back[i - (at + 1)] = names[i - 1]
      <4>1. i - (at + 1) \in 1 .. n - at /\ at + (i - (at + 1)) = i - 1
        BY <1>3, <3>1
      <4> QED
        BY <1>6, <4>1 DEF back
    <3> QED
      BY <3>1
  <2>4. new = head \o back
    BY <1>4 DEF front, back, head
  <2>5. \A i \in 1 .. n + 1 :
            new[i] = IF i <= at THEN names[i] ELSE IF i = at + 1 THEN t ELSE names[i - 1]
    BY <1>3, <2>1, <2>2, <2>3, <2>4 DEF head
  <2>6. new \in Seq(Thread) /\ DOMAIN new = 1 .. n + 1
    BY <1>3, <2>2, <2>4
  <2> QED
    BY <2>5, <2>6
<1>8. Ascending(new)
  <2> SUFFICES ASSUME NEW i \in 1 .. n + 1, NEW j \in 1 .. n + 1, i < j
               PROVE  new[i] < new[j]
    BY <1>7 DEF Ascending
  <2>1. \A k, l \in 1 .. n : k < l => names[k] < names[l]
    BY <1>3 DEF Ascending
  <2>2. \A k \in 1 .. n : (k <= at => names[k] < t) /\ (k > at => t < names[k])
    BY <1>1, <1>2, <1>3
  <2>3. CASE j <= at
    BY <1>3, <1>7, <2>1, <2>3
  <2>4. CASE j = at + 1
    BY <1>3, <1>7, <2>2, <2>4
  <2>5. CASE j > at + 1
    <3>1. j - 1 \in 1 .. n /\ j - 1 > at /\ new[j] = names[j - 1]
      BY <1>3, <1>7, <2>5
    <3>2. CASE i <= at
      BY <1>3, <1>7, <2>1, <3>1, <3>2
    <3>3. CASE i = at + 1
      BY <1>3, <1>7, <2>2, <3>1, <3>3
    <3>4. CASE i > at + 1
      <4>1. i - 1 \in 1 .. n /\ i - 1 < j - 1 /\ new[i] = names[i - 1]
        BY <1>3, <1>7, <3>4
      <4> QED
        BY <2>1, <3>1, <4>1
    <3> QED
      BY <1>3, <3>2, <3>3, <3>4
  <2> QED
    BY <1>3, <2>3, <2>4, <2>5
<1>9. ToSet(new) = ToSet(names) \union {t}
  <2>1. ASSUME NEW x \in ToSet(new) PROVE x \in ToSet(names) \union {t}
    <3>1. PICK i \in 1 .. n + 1 : x = new[i]
      BY <1>7, <2>1 DEF ToSet
    <3>2. CASE i <= at
      <4>1. i \in DOMAIN names /\ x = names[i]
        BY <1>3, <1>7, <3>1, <3>2
      <4> QED
        BY <4>1 DEF ToSet
    <3>3. CASE i = at + 1
      BY <1>3, <1>7, <3>1, <3>3 DEF ToSet
    <3>4. CASE i > at + 1
      <4>1. i - 1 \in 1 .. n /\ x = names[i - 1]
        BY <1>3, <1>7, <3>1, <3>4
      <4> QED
        BY <1>3, <4>1 DEF ToSet
    <3> QED
      BY <1>3, <3>2, <3>3, <3>4
  <2>2. ASSUME NEW k \in 1 .. n PROVE names[k] \in ToSet(new)
    <3>1. CASE k <= at
      <4>1. k \in 1 .. n + 1 /\ new[k] = names[k]
        BY <1>3, <1>7, <3>1
      <4> QED
        BY <1>7, <4>1 DEF ToSet
    <3>2. CASE k > at
      <4>1. k + 1 \in 1 .. n + 1 /\ new[k + 1] = names[k]
        BY <1>3, <1>7, <3>2
      <4> QED
        BY <1>7, <4>1 DEF ToSet
    <3> QED
      BY <1>3, <3>1, <3>2
  <2>3. t \in ToSet(new)
    <3>1. at + 1 \in 1 .. n + 1 /\ new[at + 1] = t
      BY <1>3, <1>7
    <3> QED
      BY <1>7, <3>1 DEF ToSet
  <2>4. ToSet(names) \subseteq ToSet(new)
    BY <1>3, <2>2 DEF ToSet
  <2> QED
    BY <2>1, <2>3, <2>4
<1> QED
  BY <1>7, <1>8, <1>9 DEF new

----------------------------------------------------------------------------
(* What the tab keeps, s, is right for the samples recorded, r. *)
Heat(s, r) ==
    /\ s.epoch = IF r = <<>> THEN NoTime ELSE r[1][2]
    /\ s.columns \in Counts /\ CountsOf(r, s.columns, Thread)
    /\ DOMAIN s.threads = {r[k][1] : k \in DOMAIN r}
    /\ \A t \in DOMAIN s.threads :
           s.threads[t] \in Counts \ {<<>>} /\ CountsOf(r, s.threads[t], {t})
    /\ s.threadNames \in Seq(Thread) /\ Ascending(s.threadNames)
    /\ ToSet(s.threadNames) = DOMAIN s.threads

LEMMA NoHeat ==
    ASSUME NEW s, s.epoch = NoTime, s.columns = <<>>, s.threads = <<>>,
           s.threadNames = <<>>
    PROVE  Heat(s, <<>>)
BY DEF Heat, Counts, CountsOf, Ascending, ToSet

(* One sample more. *)
LEMMA OneSample ==
    ASSUME NEW r \in History, NEW s, Heat(s, r), NEW sample \in Thread \X Time
    PROVE  Heat(RecordOne(s, sample), Append(r, sample))
<1> DEFINE longer == Append(r, sample)
           last == Len(r) + 1
           thread == sample[1]
           time == sample[2]
           first == IF r = <<>> THEN time ELSE r[1][2]
           n == Offset(first, time)
           known == thread \in DOMAIN s.threads
           own == IF known THEN s.threads[thread] ELSE <<>>
           new == RecordOne(s, sample)
           cell(cols) == Counted(cols, n \div Rows, n % Rows)
<1>1. /\ longer \in History /\ Len(r) \in Nat
      /\ DOMAIN r = 1 .. Len(r) /\ DOMAIN longer = DOMAIN r \union {last}
      /\ first \in Time /\ longer[1][2] = first /\ longer[last] = sample
      /\ n = Since(longer, last)
      /\ \A k \in DOMAIN r : longer[k] = r[k]
  BY Appended
<1>2. thread \in Thread /\ time \in Time /\ n \in Nat
  <2>1. thread \in Thread /\ time \in Time
    OBVIOUS
  <2> HIDE DEF first, time
  <2> QED
    BY <1>1, <2>1, OffsetIsNat
<1>3. first = IF s.epoch = NoTime THEN time ELSE s.epoch
  <2>1. CASE r = <<>>
    BY <2>1 DEF Heat
  <2>2. CASE r # <<>>
    <3>1. s.epoch = first
      BY <2>2 DEF Heat
    <3>2. s.epoch # NoTime
      BY <1>1, <3>1
    <3> QED
      BY <3>1, <3>2
  <2> QED
    BY <2>1, <2>2
<1>4. /\ new.epoch = first
      /\ new.columns = cell(s.columns)
      /\ new.threads = [t \in DOMAIN s.threads \union {thread} |->
                           IF t = thread THEN cell(own) ELSE s.threads[t]]
      /\ new.threadNames = IF known THEN s.threadNames
                           ELSE Inserted(s.threadNames, thread)
  <2> HIDE DEF first, n
  <2>1. n = Offset(IF s.epoch = NoTime THEN time ELSE s.epoch, time)
    BY <1>3 DEF n
  <2> QED
    BY <1>3, <2>1, Zenon DEF RecordOne
<1> HIDE DEF longer, last, first, time, new, n
<1>5. longer # <<>> /\ new.epoch = longer[1][2]
  <2>1. last \in DOMAIN longer /\ DOMAIN <<>> = {}
    BY <1>1
  <2>2. new.epoch = longer[1][2]
    BY <1>1, <1>4, Zenon
  <2> QED
    BY <2>1, <2>2
<1>6. cell(s.columns) \in Counts /\ CountsOf(longer, cell(s.columns), Thread)
  BY <1>1, <1>2, OwnHeatmap DEF Heat, longer, last
<1>7. cell(own) \in Counts \ {<<>>} /\ CountsOf(longer, cell(own), {thread})
  <2>1. own \in Counts /\ CountsOf(r, own, {thread})
    <3>1. CASE known
      BY <3>1 DEF Heat
    <3>2. CASE ~known
      <4>1. own = <<>> /\ own \in Counts /\ DOMAIN own = {}
        BY <3>2 DEF Counts
      <4>2. \A k \in DOMAIN r : r[k][1] # thread
        BY <3>2 DEF Heat
      <4> QED
        BY <4>1, <4>2 DEF CountsOf
    <3> QED
      BY <3>1, <3>2
  <2> HIDE DEF own
  <2> QED
    BY <1>1, <1>2, <2>1, OwnHeatmap DEF longer, last
<1> HIDE DEF own, cell
<1>8. ASSUME NEW t \in DOMAIN s.threads, t # thread
      PROVE  s.threads[t] \in Counts \ {<<>>} /\ CountsOf(longer, s.threads[t], {t})
  BY <1>8, OtherHeatmap DEF Heat, longer
<1>9. DOMAIN new.threads = DOMAIN s.threads \union {thread}
  BY <1>4
<1>10. DOMAIN new.threads = {longer[k][1] : k \in DOMAIN longer}
  BY <1>1, <1>9 DEF Heat
<1>11. \A t \in DOMAIN new.threads :
          new.threads[t] \in Counts \ {<<>>} /\ CountsOf(longer, new.threads[t], {t})
  BY <1>4, <1>7, <1>8, <1>9
<1>12. /\ new.threadNames \in Seq(Thread) /\ Ascending(new.threadNames)
       /\ ToSet(new.threadNames) = DOMAIN new.threads
  <2>1. CASE known
    BY <1>4, <1>9, <2>1 DEF Heat
  <2>2. CASE ~known
    <3>1. /\ s.threadNames \in Seq(Thread) /\ Ascending(s.threadNames)
          /\ thread \notin ToSet(s.threadNames)
      BY <2>2 DEF Heat
    <3>2. new.threadNames = Inserted(s.threadNames, thread)
      BY <1>4, <2>2
    <3> HIDE DEF thread, known
    <3>3. /\ new.threadNames \in Seq(Thread) /\ Ascending(new.threadNames)
          /\ ToSet(new.threadNames) = ToSet(s.threadNames) \union {thread}
      BY <1>2, <3>1, <3>2, InsertedIsSorted
    <3> QED
      BY <1>9, <3>3 DEF Heat
  <2> QED
    BY <2>1, <2>2
<1> QED
  BY <1>4, <1>5, <1>6, <1>10, <1>11, <1>12 DEF Heat, longer, new

----------------------------------------------------------------------------
(* A whole update. The function in Recorded exists: a least length without  *)
(* one would be longer than 0, and extend the one of a shorter length.      *)
Fold(f, n, start, samples) ==
    f = [k \in 0 .. n |-> IF k = 0 THEN start ELSE RecordOne(f[k - 1], samples[k])]

LEMMA FoldExists ==
    ASSUME NEW start, NEW samples, NEW N \in Nat
    PROVE  \E f : Fold(f, N, start, samples)
<1> DEFINE bad == {n \in 0 .. N : ~\E f : Fold(f, n, start, samples)}
<1>1. bad \in SUBSET (0 .. N) /\ 0 \in Int /\ N \in Int
  OBVIOUS
<1>2. SUFFICES ASSUME bad # {} PROVE FALSE
  <2>1. N \in 0 .. N
    OBVIOUS
  <2> QED
    BY <1>2, <2>1
<1>3. PICK n \in bad : \A m \in bad : n <= m
  <2> HIDE DEF bad
  <2> QED
    BY <1>1, <1>2, LeastOfInterval
<1>4. n # 0
  <2>1. Fold([k \in 0 .. 0 |-> start], 0, start, samples)
    BY DEF Fold
  <2> QED
    BY <2>1
<1>5. n - 1 \in 0 .. N /\ n \in 1 .. N /\ n - 1 \notin bad
  BY <1>3, <1>4
<1>6. PICK f : Fold(f, n - 1, start, samples)
  BY <1>5
<1> DEFINE g == [k \in 0 .. n |-> IF k = n THEN RecordOne(f[n - 1], samples[n]) ELSE f[k]]
<1>7. ASSUME NEW k \in 0 .. n
      PROVE  g[k] = IF k = 0 THEN start ELSE RecordOne(g[k - 1], samples[k])
  <2>1. CASE k = n
    <3>1. g[k] = RecordOne(f[n - 1], samples[n]) /\ g[k - 1] = f[n - 1]
      BY <1>5, <2>1
    <3> HIDE DEF g
    <3> QED
      BY <1>4, <2>1, <3>1
  <2>2. CASE k # n
    <3>1. k \in 0 .. n - 1 /\ g[k] = f[k]
      BY <1>5, <2>2
    <3>2. f[k] = IF k = 0 THEN start ELSE RecordOne(f[k - 1], samples[k])
      BY <1>6, <3>1 DEF Fold
    <3>3. k # 0 => g[k - 1] = f[k - 1]
      BY <1>5, <3>1
    <3> HIDE DEF g
    <3> QED
      BY <3>1, <3>2, <3>3
  <2> QED
    BY <2>1, <2>2
<1>8. Fold(g, n, start, samples)
  <2>1. g = [k \in 0 .. n |-> g[k]]
    OBVIOUS
  <2> HIDE DEF g
  <2> QED
    BY <1>7, <2>1, Zenon DEF Fold
<1> HIDE DEF g
<1> QED
  BY <1>3, <1>8

LEMMA RecordedIsFold ==
    ASSUME NEW start, NEW samples, Len(samples) \in Nat
    PROVE  \E f : /\ Fold(f, Len(samples), start, samples)
                  /\ Recorded(start, samples) = f[Len(samples)]
<1> DEFINE f == CHOOSE f : Fold(f, Len(samples), start, samples)
<1>1. Fold(f, Len(samples), start, samples)
  BY FoldExists
<1>2. f = CHOOSE after : after = [k \in 0 .. Len(samples) |->
              IF k = 0 THEN start ELSE RecordOne(after[k - 1], samples[k])]
  BY Zenon DEF Fold
<1>3. Recorded(start, samples) = f[Len(samples)]
  BY <1>2, Zenon DEF Recorded
<1> HIDE DEF f
<1> QED
  BY <1>1, <1>3

LEMMA ConcatIsHistory ==
    ASSUME NEW r \in History, NEW samples \in History
    PROVE  r \o samples \in History
BY ConcatProperties DEF History

LEMMA ManySamples ==
    ASSUME NEW r \in History, NEW s, Heat(s, r), NEW samples \in History
    PROVE  Heat(Recorded(s, samples), r \o samples)
<1> DEFINE N == Len(samples)
           R == Len(r)
           seen(k) == [i \in 1 .. R + k |-> IF i <= R THEN r[i] ELSE samples[i - R]]
<1>1. /\ N \in Nat /\ R \in Nat
      /\ \A i \in 1 .. N : samples[i] \in Thread \X Time
      /\ \A i \in 1 .. R : r[i] \in Thread \X Time
  BY DEF History
<1>2. PICK f : Fold(f, N, s, samples) /\ Recorded(s, samples) = f[N]
  <2> HIDE DEF N
  <2> QED
    BY <1>1, RecordedIsFold DEF N
<1>3. seen(0) = r
  <2>1. r = [i \in 1 .. R |-> r[i]]
    BY DEF History
  <2>2. seen(0) = [i \in 1 .. R |-> r[i]]
    BY <1>1
  <2> HIDE DEF seen
  <2> QED
    BY <2>1, <2>2
<1>4. seen(N) = r \o samples
  <2>1. /\ r \o samples = [i \in 1 .. R + N |-> (r \o samples)[i]]
        /\ \A i \in 1 .. R + N :
               (r \o samples)[i] = IF i <= R THEN r[i] ELSE samples[i - R]
    <3>1. r \in Seq(Thread \X Time) /\ samples \in Seq(Thread \X Time)
      BY DEF History
    <3>2. /\ r \o samples \in Seq(Thread \X Time) /\ Len(r \o samples) = R + N
          /\ \A i \in 1 .. R + N :
                 (r \o samples)[i] = IF i <= R THEN r[i] ELSE samples[i - R]
      BY <3>1, ConcatProperties
    <3>3. PICK whole : whole = r \o samples
      OBVIOUS
    <3> HIDE DEF N, R
    <3>4. whole = [i \in 1 .. R + N |-> whole[i]]
      <4>1. whole \in Seq(Thread \X Time) /\ Len(whole) = R + N
        BY <3>2, <3>3
      <4> QED
        BY ONLY <4>1, LenProperties
    <3> QED
      BY <3>2, <3>3, <3>4
  <2> HIDE DEF N, R
  <2> QED
    BY <2>1
<1>5. ASSUME NEW k \in 1 .. N
      PROVE  /\ seen(k - 1) \in History /\ samples[k] \in Thread \X Time
             /\ seen(k) = Append(seen(k - 1), samples[k])
  <2>1. /\ R + (k - 1) \in Nat /\ R + k = R + (k - 1) + 1
        /\ \A i \in 1 .. R + (k - 1) : ~(i <= R) => i - R \in 1 .. N
    BY <1>1
  <2>2. /\ seen(k - 1) \in Seq(Thread \X Time) /\ Len(seen(k - 1)) = R + (k - 1)
        /\ \A i \in 1 .. R + (k - 1) :
               seen(k - 1)[i] = IF i <= R THEN r[i] ELSE samples[i - R]
    BY <1>1, <2>1
  <2> DEFINE longer == Append(seen(k - 1), samples[k])
  <2>3. /\ longer = [i \in 1 .. R + k |-> longer[i]]
        /\ \A i \in 1 .. R + (k - 1) : longer[i] = seen(k - 1)[i]
        /\ longer[R + k] = samples[k]
    <3> HIDE DEF seen, R
    <3> QED
      BY <1>1, <2>1, <2>2
  <2>4. \A i \in 1 .. R + k :
            longer[i] = IF i <= R THEN r[i] ELSE samples[i - R]
    <3> HIDE DEF longer, seen, R
    <3>1. ASSUME NEW i \in 1 .. R + (k - 1)
          PROVE  longer[i] = IF i <= R THEN r[i] ELSE samples[i - R]
      BY <2>2, <2>3
    <3>2. ~(R + k <= R) /\ (R + k) - R = k
      BY <1>1
    <3>3. \A i \in 1 .. R + k : i \in 1 .. R + (k - 1) \/ i = R + k
      BY <1>1
    <3> QED
      BY <2>3, <3>1, <3>2, <3>3
  <2>5. seen(k) = longer
    <3> HIDE DEF longer
    <3> QED
      BY <2>3, <2>4
  <2> QED
    BY <1>1, <2>2, <2>5 DEF History
<1> DEFINE bad == {k \in 0 .. N : ~Heat(f[k], seen(k))}
<1> HIDE DEF seen
<1>6. bad = {}
  <2> SUFFICES ASSUME bad # {} PROVE FALSE
    OBVIOUS
  <2>1. bad \in SUBSET (0 .. N) /\ 0 \in Int /\ N \in Int
    BY <1>1
  <2>2. PICK k \in bad : \A m \in bad : k <= m
    <3> HIDE DEF bad
    <3> QED
      BY <2>1, LeastOfInterval
  <2>3. k # 0
    BY <1>2, <1>3 DEF Fold
  <2>4. k - 1 \in 0 .. N /\ k \in 1 .. N /\ k - 1 \notin bad
    BY <1>1, <2>2, <2>3
  <2>5. f[k] = RecordOne(f[k - 1], samples[k])
    BY <1>2, <2>3, <2>4 DEF Fold
  <2>6. Heat(f[k - 1], seen(k - 1))
    BY <2>4
  <2> QED
    <3>1. Heat(RecordOne(f[k - 1], samples[k]), Append(seen(k - 1), samples[k]))
      BY <1>5, <2>4, <2>6, OneSample
    <3>2. Heat(f[k], seen(k))
      BY <1>5, <2>4, <2>5, <3>1
    <3> QED
      BY <2>2, <3>2
<1>7. Heat(f[N], seen(N))
  BY <1>1, <1>6
<1> QED
  BY <1>2, <1>4, <1>7

(* The samples of an update. *)
LEMMA SamplesAreHistory ==
    ASSUME NEW update \in Updates, NEW order \in Orders(update)
    PROVE  SamplesIn(update, order) \in History
<1> DEFINE N == Cardinality(DOMAIN update)
           of(k) == [i \in DOMAIN update[order[k]] |-> <<order[k], update[order[k]][i]>>]
           seqs == [k \in DOMAIN order |-> of(k)]
<1>1. N \in Nat
  BY FS_CardinalityType
<1>2. DOMAIN order = 1 .. N /\ \A k \in 1 .. N : order[k] \in DOMAIN update
  BY Zenon DEF Orders, SetToSeqs
<1>3. ASSUME NEW k \in 1 .. N PROVE of(k) \in Seq(Thread \X Time)
  <2>1. order[k] \in Thread /\ update[order[k]] \in Seq(Time)
    BY <1>2
  <2> QED
    BY <2>1
<1>4. seqs \in [1 .. N -> Seq(Thread \X Time)]
  <2> HIDE DEF of, N
  <2> QED
    BY <1>2, <1>3
<1> HIDE DEF N
<1>5. FlattenSeq(seqs) \in Seq(Thread \X Time)
  <2> HIDE DEF seqs
  <2> QED
    BY <1>1, <1>4, FlattenIsSeq
<1> QED
  BY <1>5, Zenon DEF SamplesIn, History

----------------------------------------------------------------------------
(* The inductive invariant. *)
Kept == [epoch |-> epoch, columns |-> columns, threads |-> threads,
         threadNames |-> threadNames]

HeatOK == recorded \in History /\ Heat(Kept, recorded)

FilterOK == filter = NoThread \/ filter \in DOMAIN threads

SearchOK ==
    /\ search \in [active : BOOLEAN, matches : Seq(Thread), cursor : Nat]
    /\ search.cursor \in 1 .. (IF search.matches = <<>> THEN 1 ELSE Len(search.matches))
    /\ ToSet(search.matches) \subseteq DOMAIN threads

WindowOK ==
    /\ autoScroll \in BOOLEAN
    /\ scrollX \in Nat /\ cursorCol \in Nat /\ cursorRow \in 0 .. Rows - 1

IInv == HeatOK /\ FilterOK /\ SearchOK /\ WindowOK

LEMMA ClosedIsOK ==
    /\ Closed \in [active : BOOLEAN, matches : Seq(Thread), cursor : Nat]
    /\ Closed.matches = <<>> /\ Closed.cursor = 1 /\ ToSet(Closed.matches) = {}
BY DEF Closed, ToSet

LEMMA InvInit == Init => IInv
<1> SUFFICES ASSUME Init PROVE IInv
  OBVIOUS
<1> USE DEF Init
<1>1. HeatOK
  <2>1. Heat(Kept, <<>>)
    BY NoHeat DEF Kept
  <2> QED
    BY <2>1 DEF HeatOK, History
<1>2. FilterOK
  BY DEF FilterOK
<1>3. SearchOK
  BY ClosedIsOK DEF SearchOK
<1>4. WindowOK
  BY DEF WindowOK
<1> QED
  BY <1>1, <1>2, <1>3, <1>4 DEF IInv

LEMMA HeatUnchanged ==
    ASSUME HeatOK, UNCHANGED heatmap
    PROVE  HeatOK' /\ threads' = threads
<1>1. Kept' = Kept /\ recorded' = recorded
  BY DEF Kept, heatmap
<1>2. (Heat(Kept, recorded))' <=> Heat(Kept', recorded')
  BY DEF Heat, CountsOf, SamplesAt, Since, Ascending, Counts, ToSet
<1> QED
  BY <1>1, <1>2 DEF HeatOK, heatmap

(* What leaves the data, the filter and the search alone. *)
LEMMA OthersUnchanged ==
    ASSUME IInv, UNCHANGED heatmap
    PROVE  /\ HeatOK'
           /\ UNCHANGED filter => FilterOK'
           /\ UNCHANGED search => SearchOK'
BY HeatUnchanged DEF IInv, FilterOK, SearchOK

LEMMA DrawInv ==
    ASSUME IInv, NEW area, Draw(area)
    PROVE  IInv'
<1>1. /\ UNCHANGED heatmap /\ UNCHANGED filter /\ UNCHANGED search
      /\ cursorCol' = DrawnCol /\ scrollX' = DrawnScroll(DrawnCol)
      /\ UNCHANGED autoScroll /\ UNCHANGED cursorRow
  BY DEF Draw
<1>2. HeatOK' /\ FilterOK' /\ SearchOK'
  BY <1>1, OthersUnchanged
<1>3. Len(VisibleColumns) \in Nat
  <2>1. VisibleColumns \in Counts
    <3>1. columns \in Counts /\ \A t \in DOMAIN threads : threads[t] \in Counts
      BY DEF IInv, HeatOK, Heat, Kept
    <3>2. <<>> \in Counts
      BY DEF Counts
    <3> QED
      BY <3>1, <3>2 DEF VisibleColumns
  <2> QED
    BY <2>1 DEF Counts
<1>4. DrawnCol \in Nat
  BY <1>3 DEF DrawnCol, IInv, WindowOK
<1>5. DrawnScroll(DrawnCol) \in Nat
  <2> DEFINE col == DrawnCol
  <2>1. DrawnScroll(col) = IF col < scrollX THEN col
                           ELSE IF col >= scrollX + GridCols THEN col + 1 - GridCols
                           ELSE scrollX
    BY DEF DrawnScroll
  <2>2. col \in Nat /\ scrollX \in Nat
    BY <1>4 DEF IInv, WindowOK
  <2> HIDE DEF col
  <2>3. col >= scrollX + GridCols => col + 1 - GridCols \in Nat
    BY <2>2
  <2> QED
    BY <2>1, <2>2, <2>3 DEF col
<1>6. WindowOK'
  BY <1>1, <1>4, <1>5 DEF WindowOK, IInv
<1> QED
  BY <1>2, <1>6 DEF IInv

LEMMA RecordInv ==
    ASSUME IInv, NEW update \in Updates, RecordTimestamps(update)
    PROVE  IInv'
<1>1. PICK order \in Orders(update) :
          LET samples == SamplesIn(update, order)
              after == Recorded(Kept, samples)
          IN /\ epoch' = after.epoch /\ columns' = after.columns
             /\ threads' = after.threads /\ threadNames' = after.threadNames
             /\ recorded' = recorded \o samples
             /\ UNCHANGED <<filter, autoScroll, window, search>>
  BY DEF RecordTimestamps, Kept
<1> DEFINE samples == SamplesIn(update, order)
           after == Recorded(Kept, samples)
<1>2. /\ epoch' = after.epoch /\ columns' = after.columns
      /\ threads' = after.threads /\ threadNames' = after.threadNames
      /\ recorded' = recorded \o samples
      /\ filter' = filter /\ search' = search
      /\ autoScroll' = autoScroll /\ scrollX' = scrollX
      /\ cursorCol' = cursorCol /\ cursorRow' = cursorRow
  BY <1>1 DEF window
<1>3. samples \in History
  BY SamplesAreHistory
<1>4. Heat(after, recorded \o samples) /\ recorded \o samples \in History
  <2> HIDE DEF samples
  <2> QED
    BY <1>3, ManySamples, ConcatIsHistory DEF IInv, HeatOK
<1> HIDE DEF samples, after
<1>5. HeatOK'
  <2>1. Heat(Kept', recorded')
    BY <1>2, <1>4 DEF Heat, Kept
  <2> QED
    BY <1>2, <1>4, <2>1 DEF HeatOK, Heat, CountsOf, SamplesAt, Since, Ascending, Counts,
                            ToSet, History
<1>6. DOMAIN threads \subseteq DOMAIN threads'
  <2>1. DOMAIN threads = {recorded[k][1] : k \in DOMAIN recorded}
    BY DEF IInv, HeatOK, Heat, Kept
  <2>2. DOMAIN threads' = {recorded'[k][1] : k \in DOMAIN recorded'}
    BY <1>2, <1>4 DEF Heat
  <2>3. \A k \in DOMAIN recorded : k \in DOMAIN recorded' /\ recorded'[k] = recorded[k]
    <3>1. recorded \in Seq(Thread \X Time) /\ samples \in Seq(Thread \X Time)
      BY <1>3 DEF IInv, HeatOK, History
    <3> QED
      BY <1>2, <3>1
  <2> QED
    BY <2>1, <2>2, <2>3
<1>7. FilterOK' /\ SearchOK'
  BY <1>2, <1>6 DEF IInv, FilterOK, SearchOK
<1>8. WindowOK'
  BY <1>2 DEF IInv, WindowOK
<1> QED
  BY <1>5, <1>7, <1>8 DEF IInv

(* The keys. *)
LEMMA MoveInv ==
    ASSUME IInv, Right \/ Left \/ Down \/ Up \/ Follow
    PROVE  IInv'
<1>1. UNCHANGED heatmap /\ UNCHANGED filter /\ UNCHANGED search
  BY DEF Right, Left, Down, Up, RowTo, Follow
<1>2. HeatOK' /\ FilterOK' /\ SearchOK'
  BY <1>1, OthersUnchanged
<1>3. WindowOK'
  <2> USE DEF IInv, WindowOK, window
  <2>1. CASE Right
    <3>1. cursorCol + 1 \in Nat /\ cursorCol' \in {cursorCol, cursorCol + 1}
      BY <2>1 DEF Right
    <3> QED
      BY <2>1, <3>1 DEF Right
  <2>2. CASE Left
    <3>1. cursorCol' \in Nat
      BY <2>2 DEF Left
    <3> QED
      BY <2>2, <3>1 DEF Left
  <2>3. CASE Down
    BY <2>3 DEF Down, RowTo
  <2>4. CASE Up
    BY <2>4 DEF Up, RowTo
  <2>5. CASE Follow
    BY <2>5 DEF Follow
  <2> QED
    BY <2>1, <2>2, <2>3, <2>4, <2>5
<1> QED
  BY <1>2, <1>3 DEF IInv

LEMMA ResetInv ==
    ASSUME IInv, Reset
    PROVE  IInv'
<1>1. HeatOK'
  <2>1. Heat(Kept', <<>>)
    BY NoHeat DEF Reset, Kept
  <2>2. recorded' = <<>> /\ recorded' \in History
    BY DEF Reset, History
  <2>3. Heat(Kept', recorded')
    BY <2>1, <2>2
  <2> QED
    BY <2>2, <2>3 DEF HeatOK, Heat, CountsOf, SamplesAt, Since, Ascending, Counts,
                      ToSet, History
<1>2. FilterOK' /\ WindowOK'
  BY DEF Reset, Unfiltered, FilterOK, WindowOK
<1>3. SearchOK'
  BY ClosedIsOK DEF Reset, SearchOK
<1> QED
  BY <1>1, <1>2, <1>3 DEF IInv

LEMMA SearchInv ==
    ASSUME IInv,
           \/ \E text : SetSearch(text)
           \/ SearchTo(search.cursor - 1) \/ SearchTo(search.cursor + 1)
           \/ CloseSearch
    PROVE  IInv'
<1>1. /\ UNCHANGED heatmap /\ UNCHANGED filter /\ UNCHANGED autoScroll
      /\ UNCHANGED window
  BY DEF SetSearch, SearchTo, CloseSearch
<1>2. HeatOK' /\ FilterOK' /\ threads' = threads
  BY <1>1, OthersUnchanged, HeatUnchanged DEF IInv
<1>3. WindowOK'
  BY <1>1 DEF IInv, WindowOK, window
<1>4. SearchOK'
  <2>1. CASE \E text : SetSearch(text)
    <3>1. PICK text : SetSearch(text)
      BY <2>1
    <3> DEFINE places == {i \in DOMAIN threadNames : threadNames[i] \in text}
               found == Picked(threadNames, places)
    <3>2. search' = [active |-> TRUE, cursor |-> 1, matches |-> found]
      BY <3>1 DEF SetSearch
    <3>3. threadNames \in Seq(Thread) /\ ToSet(threadNames) = DOMAIN threads
      BY DEF IInv, HeatOK, Heat, Kept
    <3>4. found \in Seq(Thread) /\ ToSet(found) \subseteq ToSet(threadNames)
      BY <3>3, PickedIsFrom
    <3> HIDE DEF found
    <3>5. 1 \in 1 .. (IF found = <<>> THEN 1 ELSE Len(found))
      BY <3>4
    <3> QED
      BY <1>2, <3>2, <3>3, <3>4, <3>5 DEF SearchOK
  <2>2. CASE SearchTo(search.cursor - 1) \/ SearchTo(search.cursor + 1)
    <3>1. PICK place \in 1 .. Len(search.matches) :
              search' = [search EXCEPT !.cursor = place]
      BY <2>2 DEF SearchTo
    <3>2. search \in [active : BOOLEAN, matches : Seq(Thread), cursor : Nat]
      BY DEF IInv, SearchOK
    <3>3. search.matches \in Seq(Thread) /\ place \in Nat /\ search.matches # <<>>
      BY <3>1, <3>2
    <3> QED
      BY <1>2, <3>1, <3>2, <3>3 DEF IInv, SearchOK
  <2>3. CASE CloseSearch
    BY <1>2, <2>3, ClosedIsOK DEF CloseSearch, SearchOK
  <2> QED
    BY <2>1, <2>2, <2>3
<1> QED
  BY <1>2, <1>3, <1>4 DEF IInv

LEMMA ChooseInv ==
    ASSUME IInv, PickThread \/ ClearFilter
    PROVE  IInv'
<1>1. UNCHANGED heatmap /\ threads' = threads
  BY DEF PickThread, ClearFilter, heatmap
<1>2. HeatOK'
  BY <1>1, OthersUnchanged
<1>3. FilterOK'
  <2>1. CASE PickThread
    <3>1. /\ search.matches \in Seq(Thread) /\ search.matches # <<>>
          /\ search.cursor \in 1 .. Len(search.matches)
          /\ ToSet(search.matches) \subseteq DOMAIN threads
          /\ filter' = search.matches[search.cursor]
      BY <2>1 DEF PickThread, IInv, SearchOK
    <3> QED
      BY <1>1, <3>1 DEF FilterOK, ToSet
  <2>2. CASE ClearFilter
    BY <2>2 DEF ClearFilter, FilterOK
  <2> QED
    BY <2>1, <2>2
<1>4. SearchOK'
  <2>1. CASE PickThread
    BY <1>1, <2>1, ClosedIsOK DEF PickThread, SearchOK
  <2>2. CASE ClearFilter
    BY <1>1, <2>2 DEF ClearFilter, SearchOK, IInv
  <2> QED
    BY <2>1, <2>2
<1>5. WindowOK'
  <2>1. CASE PickThread
    BY <2>1 DEF PickThread, WindowOK, IInv
  <2>2. CASE ClearFilter
    BY <2>2 DEF ClearFilter, window, WindowOK, IInv
  <2> QED
    BY <2>1, <2>2
<1> QED
  BY <1>2, <1>3, <1>4, <1>5 DEF IInv

LEMMA InvNext == IInv /\ [Next]_vars => IInv'
<1> SUFFICES ASSUME IInv, [Next]_vars PROVE IInv'
  OBVIOUS
<1>1. CASE \E update \in Updates : RecordTimestamps(update)
  BY <1>1, RecordInv
<1>2. CASE \E area \in Areas : Draw(area)
  BY <1>2, DrawInv
<1>3. CASE Key
  BY <1>3, MoveInv, ResetInv, SearchInv, ChooseInv DEF Key
<1>4. CASE UNCHANGED vars
  <2>1. UNCHANGED heatmap /\ UNCHANGED filter /\ UNCHANGED search
    BY <1>4 DEF vars, heatmap
  <2>2. HeatOK' /\ FilterOK' /\ SearchOK'
    BY <2>1, OthersUnchanged
  <2>3. WindowOK'
    BY <1>4 DEF vars, WindowOK, IInv
  <2> QED
    BY <2>2, <2>3 DEF IInv
<1> QED
  BY <1>1, <1>2, <1>3, <1>4 DEF Next

LEMMA InvAlways == Spec => []IInv
<1> QED
  BY InvInit, InvNext, PTL DEF Spec

----------------------------------------------------------------------------
LEMMA InvImplies == IInv => TypeOK /\ HeatmapExact /\ NamesSorted /\ FilterHasData
<1> SUFFICES ASSUME IInv PROVE TypeOK /\ HeatmapExact /\ NamesSorted /\ FilterHasData
  OBVIOUS
<1>1. /\ recorded \in Seq(Thread \X Time)
      /\ epoch = IF recorded = <<>> THEN NoTime ELSE recorded[1][2]
      /\ columns \in Counts /\ CountsOf(recorded, columns, Thread)
      /\ DOMAIN threads = {recorded[k][1] : k \in DOMAIN recorded}
      /\ \A t \in DOMAIN threads :
             threads[t] \in Counts \ {<<>>} /\ CountsOf(recorded, threads[t], {t})
      /\ threadNames \in Seq(Thread) /\ Ascending(threadNames)
      /\ ToSet(threadNames) = DOMAIN threads
  BY DEF IInv, HeatOK, Heat, Kept, History
<1>2. TypeOK
  <2>1. epoch \in Time \union {NoTime}
    <3>1. recorded # <<>> => 1 \in DOMAIN recorded /\ recorded[1] \in Thread \X Time
      BY <1>1
    <3> QED
      BY <1>1, <3>1
  <2>2. DOMAIN threads \subseteq Thread
    BY <1>1
  <2>3. filter \in Thread \union {NoThread}
    BY <2>2 DEF IInv, FilterOK
  <2>4. /\ search.active \in BOOLEAN /\ search.matches \in Seq(Thread)
        /\ search.cursor \in 1 .. (IF search.matches = <<>> THEN 1
                                   ELSE Len(search.matches))
    BY DEF IInv, SearchOK
  <2> QED
    BY <1>1, <2>1, <2>2, <2>3, <2>4 DEF TypeOK, IInv, WindowOK
<1>3. HeatmapExact
  BY <1>1 DEF HeatmapExact
<1>4. NamesSorted
  BY <1>1 DEF NamesSorted, Ascending
<1>5. FilterHasData
  BY <1>1 DEF FilterHasData, IInv, FilterOK, SearchOK
<1> QED
  BY <1>2, <1>3, <1>4, <1>5

(* The types, for any samples and keys: the cursor stays in the grid's rows *)
(* and on a match of the search.                                            *)
THEOREM TypeCorrect == Spec => []TypeOK
<1> QED
  BY InvAlways, InvImplies, PTL

(* Whatever samples arrive in whatever order, also older than the first,    *)
(* every one is counted once, in its cell of the heatmap of all threads and *)
(* of that of its thread (record_timestamps, increment_column).             *)
THEOREM CountsAreExact == Spec => []HeatmapExact
<1> QED
  BY InvAlways, InvImplies, PTL

(* The list that record_timestamps inserts into by binary search stays      *)
(* sorted, and names the threads that have samples, each once.              *)
THEOREM NamesStaySorted == Spec => []NamesSorted
<1> QED
  BY InvAlways, InvImplies, PTL

(* Neither new samples, nor a reset, nor a search left open makes the       *)
(* filter, or a match that may be picked, name a thread without samples.    *)
THEOREM FilterNeverEmpty == Spec => []FilterHasData
<1> QED
  BY InvAlways, InvImplies, PTL

----------------------------------------------------------------------------
(* The draw: a grid of cells of one size.                                   *)
LEMMA MaxOfTwo ==
    ASSUME NEW a \in Nat, NEW b \in Nat
    PROVE  Max({a, b}) = IF a >= b THEN a ELSE b
<1> DEFINE top == IF a >= b THEN a ELSE b
<1>1. top \in {a, b} /\ \A y \in {a, b} : top >= y
  OBVIOUS
<1>2. ASSUME NEW x \in {a, b}, \A y \in {a, b} : x >= y PROVE x = top
  BY <1>2
<1> HIDE DEF top
<1>3. Max({a, b}) = top
  <2>1. Max({a, b}) = CHOOSE x \in {a, b} : \A y \in {a, b} : x >= y
    BY Zenon DEF Max
  <2>2. LET m == CHOOSE x \in {a, b} : \A y \in {a, b} : x >= y
        IN m \in {a, b} /\ \A y \in {a, b} : m >= y
    BY <1>1, Zenon
  <2> QED
    BY <1>2, <2>1, <2>2, Zenon
<1> QED
  BY <1>3 DEF top

LEMMA CellSize ==
    ASSUME NEW area \in Areas
    PROVE  /\ area.width \in Nat /\ area.height \in Nat
           /\ CellWidth(area) \in Nat \ {0} /\ CellHeight(area) \in Nat \ {0}
           /\ PadLeft(area) \in Nat /\ PadTop(area) \in Nat
           /\ GridFits(area) =>
                  /\ PadLeft(area) + LabelWidth + GridCols * CellWidth(area) <= area.width
                  /\ PadTop(area) + Rows * CellHeight(area) <= area.height
<1> DEFINE w == area.width
           h == area.height
           n == SaturatingSub(w, LabelWidth)
           q == n \div GridCols
           r == h \div Rows
           W == CellWidth(area)
           H == CellHeight(area)
<1>1. w \in Nat /\ h \in Nat
  OBVIOUS
<1> HIDE DEF w, h
<1>2. ASSUME NEW a \in Nat, NEW b \in Nat
      PROVE  SaturatingSub(a, b) \in Nat /\ (b <= a => SaturatingSub(a, b) = a - b)
  BY DEF SaturatingSub
<1>3. n \in Nat
  BY <1>1, <1>2
<1>4. q \in Nat /\ q * GridCols <= n
  <2> HIDE DEF n
  <2> DEFINE m == n % GridCols
  <2>1. q \in Nat /\ m \in 0 .. GridCols - 1 /\ n = q * GridCols + m
    BY <1>3, Division
  <2> HIDE DEF q, m
  <2>2. q * GridCols \in Nat
    BY <2>1
  <2> QED
    BY <2>1, <2>2
<1>5. r \in Nat /\ r * Rows <= h
  <2> DEFINE m == h % Rows
  <2>1. r \in Nat /\ m \in 0 .. Rows - 1 /\ h = r * Rows + m
    BY <1>1, Division
  <2> HIDE DEF r, m
  <2>2. r * Rows \in Nat
    BY <2>1
  <2> QED
    BY <1>1, <2>1, <2>2
<1>6. W \in {q, 2} /\ W \in Nat \ {0} /\ H \in {r, 1} /\ H \in Nat \ {0}
  <2>1. W = Max({q, 2}) /\ H = Max({r, 1})
    BY DEF CellWidth, CellHeight, w, h
  <2> HIDE DEF q, r, W, H
  <2>2. Max({q, 2}) = (IF q >= 2 THEN q ELSE 2) /\ Max({r, 1}) = IF r >= 1 THEN r ELSE 1
    BY <1>4, <1>5, MaxOfTwo
  <2> QED
    BY <1>4, <1>5, <2>1, <2>2
<1> DEFINE grid == LabelWidth + W * GridCols
           left == SaturatingSub(w, grid)
           top == SaturatingSub(h, H * Rows)
<1>7. W * GridCols \in Nat /\ GridCols * W = W * GridCols /\ grid \in Nat
  <2> HIDE DEF W
  <2> QED
    BY <1>6
<1>8. H * Rows \in Nat /\ Rows * H = H * Rows
  <2> HIDE DEF H
  <2> QED
    BY <1>6
<1>9. left \in Nat /\ (grid <= w => left = w - grid)
  <2> HIDE DEF grid
  <2> QED
    BY <1>1, <1>2, <1>7
<1>10. top \in Nat /\ (H * Rows <= h => top = h - H * Rows)
  BY <1>1, <1>2, <1>8
<1>11. PadLeft(area) = left \div 2 /\ PadTop(area) = top \div 2
  BY DEF PadLeft, PadTop, w, h
<1> HIDE DEF left, top
<1>12. /\ PadLeft(area) \in Nat /\ PadLeft(area) <= left
       /\ PadTop(area) \in Nat /\ PadTop(area) <= top
  BY <1>9, <1>10, <1>11
<1>13. ASSUME GridFits(area) PROVE grid <= w /\ H * Rows <= h
  <2>1. w >= LabelWidth + 2 * GridCols /\ h >= Rows
    BY <1>13 DEF GridFits, w, h
  <2>2. n = w - LabelWidth
    BY <1>1, <1>2, <2>1
  <2> HIDE DEF n, q, r, W, H
  <2>3. W * GridCols <= w - LabelWidth
    <3>1. CASE W = q
      BY <1>4, <2>2, <3>1
    <3>2. CASE W = 2
      BY <1>1, <2>1, <3>2
    <3> QED
      BY <1>6, <3>1, <3>2
  <2>4. H * Rows <= h
    <3>1. CASE H = r
      BY <1>5, <3>1
    <3>2. CASE H = 1
      BY <1>1, <2>1, <3>2
    <3> QED
      BY <1>6, <3>1, <3>2
  <2> QED
    BY <1>1, <1>7, <2>3, <2>4
<1>14. ASSUME GridFits(area)
       PROVE  /\ PadLeft(area) + LabelWidth + GridCols * W <= w
              /\ PadTop(area) + Rows * H <= h
  <2> HIDE DEF W, H
  <2> QED
    BY <1>1, <1>7, <1>8, <1>9, <1>10, <1>12, <1>13, <1>14
<1> QED
  BY <1>1, <1>6, <1>12, <1>14 DEF w, h

(* The rows or columns of the screen that two cells of a size take.         *)
LEMMA SpansAreApart ==
    ASSUME NEW start \in Nat, NEW size \in Nat \ {0}, NEW i \in Nat, NEW j \in Nat,
           i # j, NEW x \in Int,
           x \in (start + i * size) .. (start + i * size + size - 1)
    PROVE  x \notin (start + j * size) .. (start + j * size + size - 1)
<1>1. PICK a, b \in Nat : a = i * size /\ b = j * size
  OBVIOUS
<1>2. i < j => a + size <= b
  BY <1>1, Monotone
<1>3. j < i => b + size <= a
  BY <1>1, Monotone
<1> QED
  BY <1>1, <1>2, <1>3

(* The part of the screen a cell of the grid takes, were it large enough. *)
Cell(area, offset, row) ==
    (CellX(area, offset) .. CellX(area, offset) + CellWidth(area) - 1)
      \X (RowY(area, row) .. RowY(area, row) + CellHeight(area) - 1)

LEMMA CellsAreApart ==
    ASSUME NEW area \in Areas, NEW i \in Nat, NEW j \in Nat, NEW row \in Nat,
           NEW other \in Nat, i # j \/ row # other
    PROVE  Painted(area, i, row) \cap Painted(area, j, other) = {}
<1> DEFINE W == CellWidth(area)
           H == CellHeight(area)
           left == PadLeft(area) + LabelWidth
           top == PadTop(area)
<1>1. W \in Nat \ {0} /\ H \in Nat \ {0} /\ left \in Nat /\ top \in Nat
  BY CellSize
<1>2. \A k \in Nat : /\ CellX(area, k) = left + k * W /\ RowY(area, k) = top + k * H
                     /\ left + k * W \in Int /\ top + k * H \in Int
  <2>1. \A k \in Nat : CellX(area, k) = left + k * W /\ RowY(area, k) = top + k * H
    BY DEF CellX, RowY
  <2> HIDE DEF W, H, left, top
  <2> QED
    BY <1>1, <2>1
<1>3. SUFFICES ASSUME NEW p \in Painted(area, i, row), p \in Painted(area, j, other)
               PROVE  FALSE
  OBVIOUS
<1>4. /\ p[1] \in CellX(area, i) .. CellX(area, i) + W - 1
      /\ p[2] \in RowY(area, row) .. RowY(area, row) + H - 1
      /\ p[1] \in CellX(area, j) .. CellX(area, j) + W - 1
      /\ p[2] \in RowY(area, other) .. RowY(area, other) + H - 1
      /\ p[1] \in 0 .. area.width - 1 /\ p[2] \in 0 .. area.height - 1
  <2> HIDE DEF W, H, left, top
  <2> QED
    BY <1>3 DEF Painted, W, H
<1> HIDE DEF W, H, left, top
<1>5. /\ p[1] \in (left + i * W) .. (left + i * W + W - 1)
      /\ p[2] \in (top + row * H) .. (top + row * H + H - 1)
      /\ p[1] \in (left + j * W) .. (left + j * W + W - 1)
      /\ p[2] \in (top + other * H) .. (top + other * H + H - 1)
      /\ p[1] \in Int /\ p[2] \in Int
  <2>1. p[1] \in Int /\ p[2] \in Int
    BY <1>4
  <2>2. /\ CellX(area, i) = left + i * W /\ CellX(area, j) = left + j * W
        /\ RowY(area, row) = top + row * H /\ RowY(area, other) = top + other * H
    BY <1>2
  <2> QED
    BY ONLY <1>4, <2>1, <2>2
<1>6. CASE i # j
  BY <1>1, <1>5, <1>6, SpansAreApart, Zenon
<1>7. CASE row # other
  BY <1>1, <1>5, <1>7, SpansAreApart, Zenon
<1> QED
  BY <1>3, <1>6, <1>7

LEMMA CellsAreWhole ==
    ASSUME NEW area \in Areas, GridFits(area),
           NEW i \in 0 .. GridCols - 1, NEW row \in 0 .. Rows - 1
    PROVE  Cardinality(Painted(area, i, row)) = CellWidth(area) * CellHeight(area)
<1> DEFINE W == CellWidth(area)
           H == CellHeight(area)
           x == CellX(area, i)
           y == RowY(area, row)
<1>1. /\ area.width \in Nat /\ area.height \in Nat
      /\ W \in Nat \ {0} /\ H \in Nat \ {0}
      /\ PadLeft(area) \in Nat /\ PadTop(area) \in Nat
      /\ PadLeft(area) + LabelWidth + GridCols * W <= area.width
      /\ PadTop(area) + Rows * H <= area.height
  BY CellSize
<1>2. x = PadLeft(area) + LabelWidth + i * W /\ y = PadTop(area) + row * H
  BY DEF CellX, RowY
<1> HIDE DEF W, H, x, y
<1>3. i * W + W <= GridCols * W /\ row * H + H <= Rows * H
  BY <1>1, Monotone
<1>4. /\ x \in Nat /\ y \in Nat
      /\ x + W <= area.width /\ y + H <= area.height
  <2>1. PICK a \in Nat, b \in Nat, c \in Nat, d \in Nat :
            a = i * W /\ b = GridCols * W /\ c = row * H /\ d = Rows * H
    BY <1>1
  <2>2. /\ x = PadLeft(area) + LabelWidth + a /\ y = PadTop(area) + c
        /\ a + W <= b /\ c + H <= d
        /\ PadLeft(area) + LabelWidth + b <= area.width
        /\ PadTop(area) + d <= area.height
    BY <1>1, <1>2, <1>3, <2>1
  <2>3. /\ W \in Nat /\ H \in Nat /\ area.width \in Nat /\ area.height \in Nat
        /\ PadLeft(area) \in Nat /\ PadTop(area) \in Nat
    BY <1>1
  <2>4. x \in Nat /\ x + W <= area.width
    <3>1. PICK p \in Nat, w \in Nat : p = PadLeft(area) + LabelWidth /\ w = W
      BY <2>3
    <3>2. x = p + a /\ a + w <= b /\ p + b <= area.width /\ area.width \in Nat
      BY <2>2, <2>3, <3>1
    <3>3. x \in Nat /\ x + w <= area.width
      BY ONLY <3>2, a \in Nat, b \in Nat, p \in Nat, w \in Nat
    <3> QED
      BY <3>1, <3>3
  <2>5. y \in Nat
    BY <2>2, <2>3
  <2>6. y + H <= area.height
    <3>1. PICK p \in Nat, h \in Nat : p = PadTop(area) /\ h = H
      BY <2>3
    <3>2. y = p + c /\ c + h <= d /\ p + d <= area.height /\ area.height \in Nat
      BY <2>2, <2>3, <3>1
    <3>3. y + h <= area.height
      BY ONLY <3>2, c \in Nat, d \in Nat, p \in Nat, h \in Nat
    <3> QED
      BY <3>1, <3>3
  <2> QED
    BY <2>4, <2>5, <2>6
<1>5. /\ x .. x + W - 1 \subseteq 0 .. area.width - 1
      /\ y .. y + H - 1 \subseteq 0 .. area.height - 1
  BY <1>1, <1>4
<1>6. Painted(area, i, row) = (x .. x + W - 1) \X (y .. y + H - 1)
  BY <1>5 DEF Painted, x, y, W, H
<1>7. /\ IsFiniteSet(x .. x + W - 1) /\ Cardinality(x .. x + W - 1) = W
      /\ IsFiniteSet(y .. y + H - 1) /\ Cardinality(y .. y + H - 1) = H
  <2>1. /\ x \in Int /\ y \in Int /\ x + W - 1 \in Int /\ y + H - 1 \in Int
        /\ ~(x > x + W - 1) /\ (x + W - 1) - x + 1 = W
        /\ ~(y > y + H - 1) /\ (y + H - 1) - y + 1 = H
    BY <1>1, <1>4
  <2> QED
    BY <2>1, FS_Interval
<1>8. Cardinality((x .. x + W - 1) \X (y .. y + H - 1)) = W * H
  BY <1>7, FS_Product
<1> QED
  BY <1>6, <1>8 DEF W, H

LEMMA DrawIsShown ==
    ASSUME IInv, NEW area \in Areas, Draw(area), VisibleColumns # <<>>
    PROVE  LET offset == cursorCol' - scrollX'
               cell == Painted(area, offset, cursorRow)
               others == ((0 .. GridCols - 1) \X (0 .. Rows - 1))
                           \ {<<offset, cursorRow>>}
           IN /\ cursorCol' \in 0 .. Len(VisibleColumns) - 1
              /\ offset \in 0 .. GridCols - 1
              /\ GridFits(area) =>
                     Cardinality(cell) = CellWidth(area) * CellHeight(area)
              /\ \A other \in others :
                     cell \cap Painted(area, other[1], other[2]) = {}
              /\ DrawnCol' = cursorCol'
<1> DEFINE total == Len(VisibleColumns)
           col == DrawnCol
           offset == cursorCol' - scrollX'
           others == ((0 .. GridCols - 1) \X (0 .. Rows - 1)) \ {<<offset, cursorRow>>}
<1>1. total \in Nat \ {0}
  <2>1. VisibleColumns \in Counts
    <3>1. columns \in Counts /\ \A t \in DOMAIN threads : threads[t] \in Counts
      BY DEF IInv, HeatOK, Heat, Kept
    <3>2. <<>> \in Counts
      BY DEF Counts
    <3> QED
      BY <3>1, <3>2 DEF VisibleColumns
  <2> QED
    BY <2>1 DEF Counts
<1>2. col \in 0 .. total - 1 /\ (autoScroll => col = total - 1)
  <2>1. col = IF autoScroll \/ cursorCol > total - 1 THEN total - 1 ELSE cursorCol
    BY <1>1 DEF DrawnCol
  <2> HIDE DEF total, col
  <2> QED
    BY <1>1, <2>1 DEF IInv, WindowOK
<1>3. /\ cursorCol' = col
      /\ scrollX' = IF col < scrollX THEN col
                    ELSE IF col >= scrollX + GridCols THEN col + 1 - GridCols
                    ELSE scrollX
      /\ scrollX \in Nat /\ cursorRow \in 0 .. Rows - 1
  BY DEF Draw, DrawnScroll, IInv, WindowOK
<1>4. offset \in 0 .. GridCols - 1
  <2> HIDE DEF total, col
  <2> QED
    BY <1>1, <1>2, <1>3
<1>5. DrawnCol' = cursorCol'
  <2>1. VisibleColumns' = VisibleColumns /\ autoScroll' = autoScroll
    BY DEF Draw, heatmap, VisibleColumns
  <2>2. DrawnCol' = IF autoScroll \/ cursorCol' > total - 1 THEN total - 1 ELSE cursorCol'
    BY <1>1, <2>1 DEF DrawnCol
  <2> HIDE DEF total, col
  <2> QED
    BY <1>1, <1>2, <1>3, <2>2
<1>6. ASSUME NEW other \in others
      PROVE  Painted(area, offset, cursorRow) \cap Painted(area, other[1], other[2]) = {}
  <2> HIDE DEF offset
  <2>1. /\ other[1] \in Nat /\ other[2] \in Nat
        /\ offset # other[1] \/ cursorRow # other[2]
    BY <1>3, <1>4
  <2>2. offset \in Nat /\ cursorRow \in Nat
    BY <1>3, <1>4
  <2> QED
    BY <2>1, <2>2, CellsAreApart
<1>7. GridFits(area) =>
          Cardinality(Painted(area, offset, cursorRow)) = CellWidth(area) * CellHeight(area)
  <2> HIDE DEF offset
  <2> QED
    BY <1>3, <1>4, CellsAreWhole
<1> HIDE DEF total, col
<1>8. cursorCol' \in 0 .. total - 1
  BY <1>2, <1>3
<1> QED
  BY <1>4, <1>5, <1>6, <1>7, <1>8 DEF total

(* A draw pulls the cursor into the data and the window after the cursor,   *)
(* and paints its cell whole where the area has room for the grid, and no   *)
(* other cell over it, for every area and every size of the grid.           *)
THEOREM CursorIsShown == Spec => DrawShowsCursor
<1>1. IInv /\ [Next]_vars =>
          [\A area \in Areas : Draw(area) /\ VisibleColumns # <<>> =>
               LET offset == cursorCol' - scrollX'
                   cell == Painted(area, offset, cursorRow)
                   others == ((0 .. GridCols - 1) \X (0 .. Rows - 1))
                               \ {<<offset, cursorRow>>}
               IN /\ cursorCol' \in 0 .. Len(VisibleColumns) - 1
                  /\ offset \in 0 .. GridCols - 1
                  /\ GridFits(area) =>
                         Cardinality(cell) = CellWidth(area) * CellHeight(area)
                  /\ \A other \in others :
                         cell \cap Painted(area, other[1], other[2]) = {}
                  /\ DrawnCol' = cursorCol']_vars
  BY DrawIsShown
<1> QED
  BY <1>1, InvAlways, PTL DEF Spec, DrawShowsCursor
============================================================================
