------------------------- MODULE RangeLookupProofs -------------------------
(* Proofs about the reverse scan of SymbolStore::lookup, for ranges of any  *)
(* number, length and depth.                                                *)
EXTENDS RangeLookup, OperatorProofs

(* An inlined range lies inside a depth-0 range of the same file. *)
LEMMA RootOf ==
    ASSUME NEW E \in SUBSET RawRange, WellNested(E), NEW r \in E
    PROVE  \E q \in E : q.depth = 0 /\ Encloses(q, r)
<1>1. r.depth \in Nat /\ r.va \in Int /\ r.len \in Int
  BY RangeAssumption DEF RawRange, Addr
<1>2. CASE r.depth = 0
  BY <1>1, <1>2 DEF Encloses, Stop
<1>3. CASE r.depth # 0
  <2>1. 0 \in 0 .. r.depth - 1
    BY <1>1, <1>3
  <2> QED
    BY <2>1 DEF WellNested
<1> QED
  BY <1>2, <1>3

(* Cutting the depth keeps start and length, and fits the key. *)
LEMMA CutIsTyped ==
    ASSUME NEW r \in RawRange
    PROVE  /\ Cut(r) \in SymRange
           /\ Cut(r).va = r.va /\ Cut(r).len = r.len
           /\ Cut(r).depth = r.depth % DepthModulus
           /\ r.depth < DepthModulus => Cut(r) = r
<1>1. r.depth % DepthModulus \in 0 .. DepthModulus - 1
  BY RangeAssumption DEF RawRange
<1>2. r.depth < DepthModulus => r.depth % DepthModulus = r.depth
  BY RangeAssumption DEF RawRange
<1> QED
  BY <1>1, <1>2 DEF Cut, Depth16, RawRange, SymRange

(* Below u64::MAX the saturated end covers what the exact end covers. *)
LEMMA SaturationIsHarmless ==
    ASSUME NEW r \in SymRange, NEW a \in Addr \ {MaxAddr}
    PROVE  Covers(r, a) <=> r.va <= a /\ a < Stop(r)
BY RangeAssumption DEF Covers, End, Stop, SymRange, Addr

(* The depth-0 range of a range that contains an address contains it too. *)
LEMMA RootCovers ==
    ASSUME NEW E \in SUBSET RawRange, WellNested(E), NEW a \in Addr,
           NEW r \in Covering(E, a)
    PROVE  \E root \in Covering(E, a) : root.depth = 0 /\ Encloses(root, r)
<1>1. r \in E /\ r.va <= a /\ a < Stop(r)
  BY DEF Covering
<1>2. PICK root \in E : root.depth = 0 /\ Encloses(root, r)
  BY <1>1, RootOf
<1>3. root.va <= a /\ a < Stop(root)
  BY <1>1, <1>2, RangeAssumption DEF Encloses, Stop, RawRange, Addr
<1> QED
  BY <1>2, <1>3 DEF Covering

(* Around a shallow address every range is stored as it was reported. *)
LEMMA ShallowIsStored ==
    ASSUME NEW E \in SUBSET RawRange, WellNested(E), NEW a \in Addr,
           NEW T \in Written({Cut(r) : r \in E}), Shallow(E, a),
           NEW r \in Covering(E, a)
    PROVE  r \in T /\ r = Cut(r)
<1>1. PICK root \in Covering(E, a) : root.depth = 0 /\ Encloses(root, r)
  BY RootCovers
<1>2. r \in E /\ r.va <= a /\ root.va <= r.va
  BY <1>1 DEF Covering, Encloses
<1>3. ASSUME NEW q \in E, q.va = r.va PROVE q = Cut(q)
  BY <1>1, <1>2, <1>3, CutIsTyped DEF Shallow
<1>4. r = Cut(r)
  BY <1>2, <1>3
<1>5. PICK stored \in T : SameKey(stored, r)
  BY <1>2, <1>4 DEF Written
<1>6. PICK q \in E : stored = Cut(q)
  BY <1>5 DEF Written
<1>7. q.va = r.va
  BY <1>5, <1>6, CutIsTyped DEF SameKey
<1>8. stored = q
  BY <1>3, <1>6, <1>7
<1>9. q = r
  BY <1>2, <1>5, <1>8 DEF WellNested, SameKey
<1> QED
  BY <1>4, <1>5, <1>8, <1>9

(* The scan does not stop before a range that contains a shallow address: a *)
(* depth-0 key between that range's start and the address would be a second *)
(* depth-0 range overlapping the range's own root, or a cut depth.          *)
LEMMA ScanReaches ==
    ASSUME NEW E \in SUBSET RawRange, WellNested(E), NEW a \in Addr,
           NEW T \in Written({Cut(r) : r \in E}), Shallow(E, a),
           NEW r \in Covering(E, a)
    PROVE  r \in Visited(T, a)
<1>1. r \in T /\ r \in E /\ r.va <= a /\ a < Stop(r)
  BY ShallowIsStored DEF Covering
<1> SUFFICES ASSUME NEW key \in T, key.depth = 0, key.va <= a
             PROVE  key.va <= r.va
  BY <1>1 DEF Visited
<1>2. PICK root \in Covering(E, a) : root.depth = 0 /\ Encloses(root, r)
  BY RootCovers
<1>3. PICK q \in E : key = Cut(q)
  BY DEF Written
<1>4. q.va = key.va /\ root \in E
  BY <1>2, <1>3, CutIsTyped DEF Covering
<1>5. /\ q.va \in Int /\ q.len \in Nat /\ q.depth \in Nat
      /\ r.va \in Int /\ r.len \in Nat
      /\ root.va \in Int /\ root.len \in Nat
      /\ a \in Int
  BY <1>1, <1>4, RangeAssumption DEF RawRange, Addr
<1>6. root.va <= r.va
  BY <1>2 DEF Encloses
<1>7. CASE q.va < root.va
  BY <1>4, <1>5, <1>6, <1>7
<1>8. CASE root.va <= q.va
  <2>1. q.depth < DepthModulus
    BY <1>2, <1>4, <1>8 DEF Shallow
  <2>2. q.depth = 0
    BY <1>3, <2>1, CutIsTyped
  <2>3. CASE q = root
    BY <1>4, <1>6, <2>3
  <2>4. CASE q # root
    <3>1. Apart(q, root)
      BY <1>2, <1>4, <2>2, <2>4 DEF WellNested
    <3> QED
      BY <1>2, <1>4, <1>5, <1>6, <3>1 DEF Apart, Stop, Covering
  <2> QED
    BY <2>3, <2>4
<1> QED
  BY <1>5, <1>7, <1>8

(* Whatever depths the extractor reports and whichever of two ranges with   *)
(* one key is written last, the scan of lookup finds no range that does not *)
(* contain the address; where no depth was cut between the start of the     *)
(* function around the address and the address, it finds all that do.       *)
THEOREM ScanIsExact ==
    ASSUME NEW E \in SUBSET RawRange, WellNested(E),
           NEW T \in Written({Cut(r) : r \in E}), NEW a \in Addr \ {MaxAddr}
    PROVE  /\ Frames(T, a) \subseteq {Cut(r) : r \in Covering(E, a)}
           /\ Shallow(E, a) => Frames(T, a) = {Cut(r) : r \in Covering(E, a)}
<1>1. ASSUME NEW r \in E
      PROVE  Covers(Cut(r), a) <=> r \in Covering(E, a)
  <2>1. Covers(Cut(r), a) <=> r.va <= a /\ a < r.va + r.len
    BY CutIsTyped, SaturationIsHarmless DEF Stop
  <2> QED
    BY <2>1 DEF Covering, Stop
<1>2. ASSUME NEW key \in Frames(T, a)
      PROVE  key \in {Cut(r) : r \in Covering(E, a)}
  <2>1. key \in T /\ Covers(key, a)
    BY DEF Frames, Visited
  <2>2. PICK r \in E : key = Cut(r)
    BY <2>1 DEF Written
  <2> QED
    BY <1>1, <2>1, <2>2
<1>3. ASSUME Shallow(E, a), NEW r \in Covering(E, a)
      PROVE  Cut(r) \in Frames(T, a)
  <2>1. r \in Visited(T, a) /\ r = Cut(r)
    BY <1>3, ScanReaches, ShallowIsStored
  <2>2. r \in E
    BY DEF Covering
  <2> QED
    BY <1>1, <2>1, <2>2 DEF Frames
<1> QED
  BY <1>2, <1>3

(* Around a shallow address the frames found have distinct depths and leave *)
(* out no depth above the innermost: one inline chain.                      *)
THEOREM FramesFormChain ==
    ASSUME NEW E \in SUBSET RawRange, WellNested(E),
           NEW T \in Written({Cut(r) : r \in E}),
           NEW a \in Addr \ {MaxAddr}, Shallow(E, a), NEW r \in Frames(T, a)
    PROVE  /\ \A q \in Frames(T, a) : q.depth = r.depth => q = r
           /\ \A d \in 0 .. r.depth - 1 : \E q \in Frames(T, a) : q.depth = d
<1>1. Frames(T, a) = Covering(E, a)
  <2>1. \A q \in Covering(E, a) : q = Cut(q)
    BY ShallowIsStored
  <2> QED
    BY <2>1, ScanIsExact
<1>2. r \in E /\ r.va <= a /\ a < Stop(r)
  BY <1>1 DEF Covering
<1>3. /\ a \in Int
      /\ \A q \in E : q.va \in Int /\ q.len \in Nat
  BY RangeAssumption DEF RawRange, Addr
<1>4. ASSUME NEW q \in Frames(T, a), q.depth = r.depth, q # r
      PROVE  FALSE
  <2>1. q \in E /\ q.va <= a /\ a < Stop(q)
    BY <1>1 DEF Covering
  <2>2. Apart(q, r)
    BY <1>2, <1>4, <2>1 DEF WellNested
  <2> QED
    BY <1>2, <1>3, <2>1, <2>2 DEF Apart, Stop
<1>5. ASSUME NEW d \in 0 .. r.depth - 1
      PROVE  \E q \in Frames(T, a) : q.depth = d
  <2>1. PICK q \in E : q.depth = d /\ Encloses(q, r)
    BY <1>2 DEF WellNested
  <2>2. q.va <= a /\ a < Stop(q)
    BY <1>2, <1>3, <2>1 DEF Encloses, Stop
  <2> QED
    BY <1>1, <2>1, <2>2 DEF Covering
<1> QED
  BY <1>4, <1>5

----------------------------------------------------------------------------
(* What the store holds is nothing, or one range for every key pushed, each *)
(* with the depth the key field has room for.                               *)
StoredAsPushed ==
    /\ TypeOK
    /\ WellNested(reported) /\ IsFiniteSet(reported)
    /\ extracted = {Cut(r) : r \in reported}
    /\ table = {} \/ table \in Written(extracted)
    /\ ~persisted => table = {}

LEMMA StoredAsPushedInit == Init => StoredAsPushed
BY FS_EmptySet DEF Init, StoredAsPushed, TypeOK, WellNested

LEMMA StoredAsPushedStep ==
    StoredAsPushed /\ [NestedNext]_vars => StoredAsPushed'
<1> SUFFICES ASSUME StoredAsPushed, [NestedNext]_vars
             PROVE  StoredAsPushed'
  OBVIOUS
<1> USE DEF StoredAsPushed, TypeOK
<1>1. ASSUME NestedNext, NEW r \in RawRange, Extract(r)
      PROVE  StoredAsPushed'
  <2>1. Cut(r) \in SymRange
    BY CutIsTyped
  <2>2. WellNested(reported')
    BY <1>1 DEF NestedNext, WellNested
  <2>3. IsFiniteSet(reported')
    BY <1>1, FS_AddElement DEF Extract
  <2>4. extracted' = {Cut(q) : q \in reported'}
    BY <1>1 DEF Extract
  <2> QED
    BY <1>1, <2>1, <2>2, <2>3, <2>4 DEF Extract, WellNested
<1>2. CASE NestedNext /\ Persist
  <2>1. table' \in Written(extracted) /\ table' \subseteq extracted
    BY <1>2 DEF Persist, Written
  <2> QED
    BY <1>2, <2>1 DEF Persist, WellNested, Written
<1>3. CASE NestedNext /\ RemoveFile
  BY <1>3 DEF RemoveFile, WellNested
<1>4. CASE UNCHANGED vars
  BY <1>4 DEF vars, WellNested, Written
<1> QED
  BY <1>1, <1>2, <1>3, <1>4 DEF NestedNext, Next

(* However deep the inlining the extractor reports, what is pushed and what *)
(* is stored fits the key: the depth field has its 16 bits and no more.     *)
THEOREM TypeCorrect == Spec => []TypeOK
<1>1. StoredAsPushed => TypeOK
  BY DEF StoredAsPushed
<1> QED
  BY <1>1, StoredAsPushedInit, StoredAsPushedStep, PTL DEF Spec

(* An empty table gives no frames. *)
LEMMA NothingFound == \A a : Frames({}, a) = {}
BY DEF Frames, Visited

(* For every size of the address space, of the depth field and of the file, *)
(* whatever has been stored or removed: lookup finds no range that does not *)
(* contain the address, and all that do unless a depth was cut next to it.  *)
THEOREM LookupExact == Spec => []LookupIsExact
<1>1. StoredAsPushed => LookupIsExact
  <2> SUFFICES ASSUME StoredAsPushed, NEW a \in Addr \ {MaxAddr}
               PROVE  LET held == {Cut(r) : r \in Covering(reported, a)}
                      IN /\ Frames(table, a) \subseteq held
                         /\ table # {} /\ Shallow(reported, a)
                                => Frames(table, a) = held
    BY DEF LookupIsExact
  <2>1. CASE table = {}
    BY <2>1, NothingFound
  <2>2. CASE table # {}
    <3>1. reported \in SUBSET RawRange /\ WellNested(reported)
      BY DEF StoredAsPushed, TypeOK
    <3>2. table \in Written({Cut(r) : r \in reported})
      BY <2>2 DEF StoredAsPushed
    <3> QED
      BY <3>1, <3>2, ScanIsExact
  <2> QED
    BY <2>1, <2>2
<1> QED
  BY <1>1, StoredAsPushedInit, StoredAsPushedStep, PTL DEF Spec

----------------------------------------------------------------------------
(* Frames that form a chain, sorted by depth: the i-th is at depth i - 1.   *)
(* The first position for which that fails would skip a depth of the chain. *)
LEMMA SortedChainIsCounted ==
    ASSUME NEW E \in SUBSET RawRange, IsFiniteSet(E), WellNested(E),
           NEW T \in Written({Cut(r) : r \in E}),
           NEW a \in Addr \ {MaxAddr}, Shallow(E, a)
    PROVE  \A i \in DOMAIN Lookup(T, a) : Lookup(T, a)[i].depth = i - 1
<1> DEFINE F == Frames(T, a)
           R == {pair \in F \X F : ShallowerFirst(pair[1], pair[2])}
           found == Lookup(T, a)
           N == Cardinality(F)
<1>1. IsFiniteSet(F) /\ N \in Nat /\ F \subseteq SymRange
  <2>1. F \subseteq {Cut(r) : r \in E}
    BY DEF Frames, Visited, Written
  <2>2. IsFiniteSet({Cut(r) : r \in E})
    <3> DEFINE C == {Cut(r) : r \in E}
               cut == [r \in E |-> Cut(r)]
    <3>1. cut \in Surjection(E, C)
      BY DEF Surjection
    <3> HIDE DEF C, cut
    <3>2. IsFiniteSet(C)
      BY <3>1, FS_Surjection
    <3> QED
      BY <3>2 DEF C
  <2>3. {Cut(r) : r \in E} \subseteq SymRange
    BY CutIsTyped
  <2> QED
    BY <2>1, <2>2, <2>3, FS_Subset, FS_CardinalityType
<1>2. /\ \A r \in F : r.depth \in Nat
      /\ \A q, r \in F : q.depth = r.depth => q = r
      /\ \A r \in F : \A d \in 0 .. r.depth - 1 : \E q \in F : q.depth = d
  BY <1>1, FramesFormChain, RangeAssumption DEF SymRange
<1>3. found = Ranked(F, R)
  BY DEF Lookup
<1> HIDE DEF F, found
<1>4. StrictTotalOrder(F, R)
  BY <1>2 DEF StrictTotalOrder, ShallowerFirst
<1>5. /\ found \in [1 .. N -> F]
      /\ \A r \in F : \E i \in 1 .. N : found[i] = r
  <2> HIDE DEF R
  <2> QED
    BY <1>1, <1>3, <1>4, RankedIsListing
<1>6. ASSUME NEW i \in 1 .. N, NEW j \in 1 .. N, i < j
      PROVE  found[i].depth < found[j].depth
  <2>1. <<found[i], found[j]>> \in R
    <3> HIDE DEF R
    <3> QED
      BY <1>1, <1>3, <1>4, <1>6, RankedIsOrdered
  <2> QED
    BY <2>1 DEF ShallowerFirst
<1> HIDE DEF R
<1> DEFINE Bad == {i \in 1 .. N : found[i].depth # i - 1}
<1>7. ASSUME Bad # {} PROVE FALSE
  <2>1. Bad \in SUBSET (1 .. N) /\ IsFiniteSet(1 .. N)
    BY <1>1, FS_Interval
  <2>2. Bad \in SUBSET Int /\ IsFiniteSet(Bad)
    <3>1. 1 .. N \subseteq Int
      BY <1>1
    <3> HIDE DEF Bad
    <3> QED
      BY <2>1, <3>1, FS_Subset
  <2>3. PICK i \in Bad : \A j \in Bad : i <= j
    BY <1>7, <2>2, LeastExists
  <2>4. i \in 1 .. N /\ found[i].depth # i - 1 /\ found[i] \in F
    BY <1>5
  <2>5. \A j \in 1 .. N : j < i => found[j].depth = j - 1
    BY <2>3, <2>4
  <2>6. found[i].depth > i - 1
    <3>1. CASE i = 1
      BY <1>2, <2>4, <3>1
    <3>2. CASE i # 1
      <4>1. i - 1 \in 1 .. N /\ i - 1 < i
        BY <1>1, <2>4, <3>2
      <4>2. found[i - 1].depth = i - 2
        BY <2>5, <4>1
      <4>3. found[i - 1].depth < found[i].depth
        BY <1>6, <2>4, <4>1
      <4> QED
        BY <1>2, <2>4, <4>2, <4>3
    <3> QED
      BY <3>1, <3>2
  <2>7. PICK q \in F : q.depth = i - 1
    BY <1>2, <2>4, <2>6
  <2>8. PICK j \in 1 .. N : found[j] = q
    BY <1>5
  <2>9. ~(j < i) /\ j # i
    BY <2>4, <2>5, <2>7, <2>8
  <2>10. found[i].depth < found[j].depth
    BY <1>6, <2>4, <2>8, <2>9
  <2> QED
    BY <1>2, <2>4, <2>6, <2>7, <2>8, <2>10
<1>8. DOMAIN found = 1 .. N
  BY <1>5
<1> QED
  BY <1>7, <1>8 DEF found

(* An empty table gives an empty chain. *)
LEMMA EmptyLookup == \A a : DOMAIN Lookup({}, a) = {}
<1> SUFFICES ASSUME NEW a PROVE DOMAIN Lookup({}, a) = {}
  OBVIOUS
<1>1. Lookup({}, a) = Ranked({}, {})
  BY NothingFound DEF Lookup
<1>2. StrictTotalOrder({}, {})
  BY DEF StrictTotalOrder
<1>3. Ranked({}, {}) \in [1 .. Cardinality({}) -> {}]
  BY <1>2, FS_EmptySet, RankedIsListing
<1> QED
  BY <1>1, <1>3, FS_EmptySet

(* What symbolize_native relies on when it marks all frames but the first   *)
(* as inlined: whatever was stored or removed, where no depth was cut,      *)
(* lookup returns the chain outermost first and skips no depth.             *)
THEOREM InlineChain == Spec => []FramesAreInlineChain
<1>1. StoredAsPushed => FramesAreInlineChain
  <2> SUFFICES ASSUME StoredAsPushed, NEW a \in Addr \ {MaxAddr},
                      Shallow(reported, a)
               PROVE  \A i \in DOMAIN Lookup(table, a) :
                          Lookup(table, a)[i].depth = i - 1
    BY DEF FramesAreInlineChain
  <2>1. CASE table = {}
    BY <2>1, EmptyLookup
  <2>2. CASE table # {}
    <3>1. /\ reported \in SUBSET RawRange /\ WellNested(reported)
          /\ IsFiniteSet(reported)
      BY DEF StoredAsPushed, TypeOK
    <3>2. table \in Written({Cut(r) : r \in reported})
      BY <2>2 DEF StoredAsPushed
    <3> QED
      BY <3>1, <3>2, SortedChainIsCounted
  <2> QED
    BY <2>1, <2>2
<1> QED
  BY <1>1, StoredAsPushedInit, StoredAsPushedStep, PTL DEF Spec
============================================================================
