---------------------------- MODULE RangeLookup ----------------------------
(* The ranges partition of ONE executable: how extract_symbols and          *)
(* store_file_symbols fill it, and what the reverse scan of                 *)
(* SymbolStore::lookup finds in it for an address.  Names of functions are  *)
(* left out: a frame is the range it comes from.                            *)
EXTENDS Ranking, SequencesExt

CONSTANTS MaxAddr,       \* u64::MAX
          MaxLength,     \* longest range the extractor emits
          MaxDepth,      \* deepest inline level the extractor emits
          DepthModulus,  \* 2^16: depth is cut to a u16 key field
          MaxRanges      \* bound: ranges extracted from one file

ASSUME RangeAssumption ==
    /\ MaxAddr \in Nat \ {0} /\ MaxLength \in Nat /\ MaxDepth \in Nat
    /\ DepthModulus \in Nat \ {0} /\ MaxRanges \in Nat

Addr == 0 .. MaxAddr
RawRange == [va: Addr, len: 0 .. MaxLength, depth: 0 .. MaxDepth]
SymRange == [va: Addr, len: 0 .. MaxLength, depth: 0 .. DepthModulus - 1]

VARIABLES reported,   \* ranges the extractor has passed to the callback
          extracted,  \* what the callback has pushed for them
          table,      \* ranges persisted under the file's id
          persisted   \* the batch holding them was committed
vars == <<reported, extracted, table, persisted>>

----------------------------------------------------------------------------
(* A range as a half-open interval. *)
Stop(r) == r.va + r.len

Apart(q, r) == Stop(q) <= r.va \/ Stop(r) <= q.va

Encloses(q, r) == q.va <= r.va /\ Stop(r) <= Stop(q)

SameKey(q, r) == q.va = r.va /\ q.depth = r.depth

(* What debug information gives, depths not cut: every range has a start    *)
(* and depth of its own, ranges of one depth do not overlap, and an inlined *)
(* body lies inside a range of each smaller depth.                          *)
WellNested(T) ==
    /\ \A q, r \in T : q # r => ~SameKey(q, r)
    /\ \A q, r \in T : q # r /\ q.depth = r.depth => Apart(q, r)
    /\ \A r \in T : \A d \in 0 .. r.depth - 1 :
           \E q \in T : q.depth = d /\ Encloses(q, r)

----------------------------------------------------------------------------
(* Mutant of End: the sum wraps around. *)
WrappedEnd(r) == Stop(r) % (MaxAddr + 1)

(* start.saturating_add(length): the sum stops at u64::MAX. *)
End(r) == IF Stop(r) > MaxAddr THEN MaxAddr ELSE Stop(r)

Covers(r, a) == a >= r.va /\ a < End(r)

(* The keys the reverse scan from (addr, u16::MAX) visits: it stops after   *)
(* the first key of depth 0, whether or not that range covers the address.  *)
Visited(T, a) ==
    {r \in T : /\ r.va <= a
               /\ \A q \in T : q.depth = 0 /\ q.va <= a => q.va <= r.va}

Frames(T, a) == {r \in Visited(T, a) : Covers(r, a)}

(* Mutant of ShallowerFirst: innermost frame first. *)
DeeperFirst(q, r) == q.depth > r.depth

ShallowerFirst(q, r) == q.depth < r.depth

Lookup(T, a) ==
    LET found == Frames(T, a)
    IN Ranked(found, {pair \in found \X found : ShallowerFirst(pair[1], pair[2])})

(* One batch writes key after key; of two ranges with one key the later     *)
(* write wins, and sort_unstable leaves open which one that is.             *)
Written(E) ==
    {T \in SUBSET E : /\ \A r \in E : \E q \in T : SameKey(q, r)
                      /\ \A q, r \in T : SameKey(q, r) => q = r}

----------------------------------------------------------------------------
(* Mutant of Depth16: the field holds any depth. *)
DepthWhole(depth) == depth

(* depth as u16: the callback keeps the low 16 bits. *)
Depth16(depth) == depth % DepthModulus

Cut(r) == [r EXCEPT !.depth = Depth16(r.depth)]

Init == reported = {} /\ extracted = {} /\ table = {} /\ persisted = FALSE

(* The callback of multi_extractor.extract. *)
Extract(r) ==
    /\ ~persisted
    /\ Cardinality(reported) < MaxRanges
    /\ reported' = reported \union {r}
    /\ extracted' = extracted \union {Cut(r)}
    /\ UNCHANGED <<table, persisted>>

Persist ==
    /\ table' \in Written(extracted)
    /\ persisted' = TRUE
    /\ UNCHANGED <<reported, extracted>>

(* remove_file_symbols: the file may be loaded again, its id is that of its *)
(* content, so the ranges are the same.                                     *)
RemoveFile ==
    /\ table' = {}
    /\ UNCHANGED <<reported, extracted, persisted>>

Next == \/ \E r \in RawRange : Extract(r)
        \/ Persist
        \/ RemoveFile

(* The lists debug information gives, outer ranges first. *)
NestedNext == Next /\ WellNested(reported')

Spec == Init /\ [][NestedNext]_vars

----------------------------------------------------------------------------
(* What is pushed and what is stored fits the key: 16 bits of depth,        *)
(* however deep the inlining the extractor reports.                         *)
TypeOK == /\ reported \subseteq RawRange
          /\ extracted \subseteq SymRange
          /\ table \subseteq SymRange
          /\ persisted \in BOOLEAN

(* The reference: every range that mathematically contains the address. *)
Covering(T, a) == {r \in T : r.va <= a /\ a < Stop(r)}

(* The ranges that start between the start of the function around an        *)
(* address and the address have depths a u16 holds.                         *)
Shallow(E, a) ==
    \A outer \in Covering(E, a), r \in E :
        outer.depth = 0 /\ outer.va <= r.va /\ r.va <= a
            => r.depth < DepthModulus

(* lookup finds no range that does not contain the address, though its ends *)
(* saturate, and it finds every one that does, though its scan stops at the *)
(* first depth-0 key, unless a depth was cut between the start of the       *)
(* function around the address and the address: a cut depth, the early stop *)
(* it causes and the key it overwrites hurt no other function.  u64::MAX,   *)
(* which no half-open u64 range contains, is left out.                      *)
LookupIsExact ==
    \A a \in Addr \ {MaxAddr} :
        LET held == {Cut(r) : r \in Covering(reported, a)}
        IN /\ Frames(table, a) \subseteq held
           /\ table # {} /\ Shallow(reported, a) => Frames(table, a) = held

(* Where no depth was cut, the frames lookup returns are one inline chain,  *)
(* outermost first: the i-th has depth i - 1 and none is missing, which     *)
(* symbolize_native relies on when it marks all but the first as inlined.   *)
FramesAreInlineChain ==
    \A a \in Addr \ {MaxAddr} :
        LET found == Lookup(table, a)
        IN Shallow(reported, a) =>
               \A i \in DOMAIN found : found[i].depth = i - 1
=============================================================================
