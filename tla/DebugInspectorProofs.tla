------------------------ MODULE DebugInspectorProofs -----------------------
(* Proofs about DebugInspector for any requests, patterns and screen.       *)
EXTENDS DebugPages, OperatorProofs

(* The page is one of the requests, or the first of none. *)
PageOK ==
    /\ requests \in Seq(Requests)
    /\ current \in Nat
    /\ IF requests = <<>> THEN current = 0 ELSE current < Len(requests)
    /\ DOMAIN search = {"active", "input", "pattern", "hits", "hitCursor"}

(* Only a pattern is early, and without a request every pattern is.         *)
PatternOK ==
    /\ early => search.pattern # NoPattern
    /\ requests = <<>> /\ search.pattern # NoPattern => early

IInv == PageOK /\ PatternOK /\ HitsAreCurrent

USE InspectorAssumption

LEMMA IInvInit == Init => IInv
<1> SUFFICES ASSUME Init PROVE IInv
  OBVIOUS
<1>1. requests = <<>> /\ current = 0 /\ requests \in Seq(Requests)
  BY EmptySeq DEF Init
<1>2. /\ search.pattern = NoPattern /\ early = FALSE /\ search.hits = <<>>
      /\ DOMAIN search = {"active", "input", "pattern", "hits", "hitCursor"}
  BY DEF Init, NoSearch
<1> QED
  BY <1>1, <1>2 DEF IInv, PageOK, PatternOK, HitsAreCurrent, Hits

----------------------------------------------------------------------------
(* Steps that keep request and page, and what the hits are of.              *)
LEMMA PageKept ==
    ASSUME IInv, UNCHANGED <<requests, current, early>>,
           search'.pattern = search.pattern, search'.hits = search.hits,
           DOMAIN search' = DOMAIN search
    PROVE  IInv'
BY DEF IInv, PageOK, PatternOK, HitsAreCurrent, Hits, Shown, Doc

(* A request that arrives goes behind the one on the screen; the first one  *)
(* finds no pattern, or an early one.                                       *)
LEMMA RequestKeeps ==
    ASSUME IInv, NEW request \in Requests, NewRequest(request)
    PROVE  IInv'
<1> USE DEF IInv, NewRequest
<1>1. /\ requests' \in Seq(Requests) /\ requests' # <<>>
      /\ Len(requests') = Len(requests) + 1 /\ Len(requests) \in Nat
      /\ \A i \in 1 .. Len(requests) : requests'[i] = requests[i]
  BY AppendProperties, LenProperties DEF PageOK
<1>2. PageOK'
  BY <1>1 DEF PageOK
<1>3. PatternOK'
  BY <1>1 DEF PatternOK
<1>4. HitsAreCurrent'
  <2>1. CASE requests = <<>>
    BY <2>1, <1>1 DEF PatternOK, HitsAreCurrent, Hits
  <2>2. CASE requests # <<>>
    <3>1. Shown(current, requests) /\ Shown(current, requests')
      BY <1>1, <2>2 DEF PageOK, Shown
    <3>2. Doc(current, requests') = Doc(current, requests)
      BY <1>1, <3>1 DEF PageOK, Shown, Doc
    <3> QED
      BY <3>1, <3>2 DEF HitsAreCurrent, Hits
  <2> QED
    BY <2>1, <2>2
<1> QED
  BY <1>2, <1>3, <1>4

(* A pattern confirmed is looked for at once, a pattern cleared has no hits.*)
LEMMA PatternKeeps ==
    IInv /\ (ConfirmInput \/ ClearSearch) => IInv'
<1> SUFFICES ASSUME IInv, ConfirmInput \/ ClearSearch PROVE IInv'
  OBVIOUS
<1> USE DEF IInv
<1>1. UNCHANGED <<requests, current>>
  BY DEF ConfirmInput, ClearSearch
<1>2. CASE ConfirmInput
  <2>1. /\ search'.pattern = search.input
        /\ search'.hits = Hits(search.input, current, requests)
        /\ DOMAIN search' = {"active", "input", "pattern", "hits", "hitCursor"}
        /\ early' = (requests = <<>> /\ search.input # NoPattern)
    BY <1>2 DEF ConfirmInput
  <2> QED
    BY <1>1, <2>1 DEF PageOK, PatternOK, HitsAreCurrent
<1>3. CASE ClearSearch
  <2>1. /\ search'.pattern = NoPattern /\ search'.hits = <<>> /\ early' = FALSE
        /\ DOMAIN search' = {"active", "input", "pattern", "hits", "hitCursor"}
    BY <1>3 DEF ClearSearch, NoSearch
  <2> QED
    BY <1>1, <2>1 DEF PageOK, PatternOK, HitsAreCurrent, Hits
<1> QED
  BY <1>2, <1>3

(* Navigation takes the hits along. *)
LEMMA NavigationKeeps ==
    ASSUME IInv, NEW place \in Nat, place < Len(requests), Navigate(place)
    PROVE  IInv'
<1> USE DEF IInv, Navigate
<1>1. requests # <<>> /\ UNCHANGED requests /\ current' = place
  BY EmptySeq DEF PageOK
<1>2. /\ search'.pattern = search.pattern
      /\ search'.hits = IF search.pattern = NoPattern THEN search.hits
                        ELSE Hits(search.pattern, place, requests)
      /\ DOMAIN search' = DOMAIN search
  BY DEF Refreshed, PageOK
<1>3. PageOK' /\ PatternOK'
  BY <1>1, <1>2 DEF PageOK, PatternOK
<1>4. search.pattern = NoPattern => search.hits = <<>>
  BY DEF HitsAreCurrent, Hits, PatternOK
<1>5. HitsAreCurrent'
  BY <1>1, <1>2, <1>4 DEF HitsAreCurrent, Hits
<1> QED
  BY <1>3, <1>5

LEMMA IInvStep == IInv /\ [Next]_vars => IInv'
<1> SUFFICES ASSUME IInv, [Next]_vars PROVE IInv'
  OBVIOUS
<1> USE DEF IInv
<1>1. ASSUME NEW request \in Requests, NewRequest(request) PROVE IInv'
  BY <1>1, RequestKeeps
<1>2. ASSUME NEW pattern, Input(pattern) PROVE IInv'
  BY <1>2, PageKept DEF Input, PageOK
<1>3. CASE CancelInput
  BY <1>3, PageKept DEF CancelInput, PageOK
<1>4. CASE StartInput
  BY <1>4, PageKept DEF StartInput, PageOK
<1>5. CASE ConfirmInput \/ ClearSearch
  BY <1>5, PatternKeeps
<1>6. CASE Quit
  BY <1>6, PageKept DEF Quit
<1>7. CASE Jump
  BY <1>7, PageKept DEF Jump, PageOK
<1>8. CASE NextRequest \/ Previous \/ FirstRequest \/ LastRequest
  <2>1. /\ Len(requests) \in Nat /\ (requests # <<>> => Len(requests) > 0)
        /\ requests = <<>> => current = 0 /\ Len(requests) = 0
        /\ requests # <<>> => current < Len(requests)
        /\ current \in Nat
    BY LenProperties, EmptySeq DEF PageOK
  <2>2. CASE NextRequest
    BY <2>1, <2>2, NavigationKeeps DEF NextRequest
  <2>3. CASE Previous
    BY <2>1, <2>3, NavigationKeeps DEF Previous
  <2>4. CASE FirstRequest
    BY <2>1, <2>4, NavigationKeeps DEF FirstRequest
  <2>5. CASE LastRequest
    BY <2>1, <2>5, NavigationKeeps DEF LastRequest
  <2> QED
    BY <1>8, <2>2, <2>3, <2>4, <2>5
<1>9. ASSUME NEW line, Scroll(line) PROVE IInv'
  BY <1>9, PageKept DEF Scroll
<1>10. CASE UNCHANGED vars
  BY <1>10, PageKept DEF vars
<1> QED
  BY <1>1, <1>2, <1>3, <1>4, <1>5, <1>6, <1>7, <1>8, <1>9, <1>10 DEF Next, Key

----------------------------------------------------------------------------
(* recompute_hits is called wherever it must be, but for an early pattern:  *)
(* the hits are always those of the request on the screen.                  *)
THEOREM HitsCurrent == Spec => []HitsAreCurrent
<1>1. IInv => HitsAreCurrent
  BY DEF IInv
<1> QED
  BY <1>1, IInvInit, IInvStep, PTL DEF Spec

----------------------------------------------------------------------------
(* The cursor of the hits. *)
LEMMA HitsAreLines ==
    ASSUME NEW pattern, NEW place \in Nat, NEW list \in Seq(Requests)
    PROVE  /\ Hits(pattern, place, list) \in Seq(Nat)
           /\ Hits(pattern, place, list) # <<>> =>
                  /\ Shown(place, list) /\ Doc(place, list) \in Seq(SUBSET Pattern)
                  /\ \A h \in ToSet(Hits(pattern, place, list)) :
                         h < Len(Doc(place, list))
<1>1. CASE ~(pattern # NoPattern /\ Shown(place, list))
  BY <1>1, EmptySeq DEF Hits
<1>2. CASE pattern # NoPattern /\ Shown(place, list)
  <2> DEFINE doc == Doc(place, list)
             lines == [i \in DOMAIN doc |-> i - 1]
             places == {i \in DOMAIN doc : pattern \in doc[i]}
  <2>1. doc \in Seq(SUBSET Pattern)
    <3>1. place + 1 \in 1 .. Len(list)
      BY <1>2, LenProperties DEF Shown
    <3>2. list[place + 1] \in Requests
      BY <3>1, ElementOfSeq
    <3> QED
      BY <3>2 DEF Doc
  <2> HIDE DEF doc
  <2>2. Len(doc) \in Nat /\ DOMAIN doc = 1 .. Len(doc)
    BY <2>1, LenProperties
  <2>3. lines \in [1 .. Len(doc) -> Nat] /\ \A i \in 1 .. Len(doc) : lines[i] < Len(doc)
    BY <2>2
  <2>4. lines \in Seq(Nat) /\ DOMAIN lines = 1 .. Len(doc) /\ places \subseteq DOMAIN lines
    BY <2>2, <2>3
  <2>5. Hits(pattern, place, list) = Picked(lines, places)
    BY <1>2 DEF Hits, LinesWith, doc
  <2> HIDE DEF lines, places
  <2>6. Picked(lines, places) \in Seq(Nat) /\ ToSet(Picked(lines, places)) \subseteq ToSet(lines)
    BY <2>4, PickedIsFrom
  <2>7. \A h \in ToSet(lines) : h < Len(doc)
    BY <2>3, <2>4 DEF ToSet
  <2> QED
    BY <1>2, <2>1, <2>5, <2>6, <2>7 DEF doc
<1> QED
  BY <1>1, <1>2

(* It is on a hit where there are any, and an early pattern has none.       *)
CursorOK ==
    /\ search.hits \in Seq(Nat) /\ search.hitCursor \in Nat
    /\ search.hits # <<>> => search.hitCursor < Len(search.hits)
    /\ early => search.hits = <<>>

LEMMA CursorInit == Init => CursorOK
BY EmptySeq DEF Init, NoSearch, CursorOK

LEMMA JumpKeepsCursor ==
    ASSUME IInv, CursorOK, Jump
    PROVE  CursorOK' /\ search'.hits = search.hits
<1> DEFINE n == Len(search.hits)
           c == search.hitCursor
<1>1. n \in Nat \ {0} /\ c \in 0 .. n - 1
  BY EmptySeq, LenProperties DEF Jump, CursorOK
<1>2. NextHit(search) \in 0 .. n - 1 /\ PreviousHit(search) \in 0 .. n - 1
  <2>1. NextHit(search) = (c + 1) % n /\ PreviousHit(search) = IF c = 0 THEN n - 1 ELSE c - 1
    BY DEF NextHit, PreviousHit
  <2> HIDE DEF n, c
  <2>2. (c + 1) % n \in 0 .. n - 1
    <3>1. c + 1 \in Nat
      BY <1>1
    <3> QED
      BY <1>1, <3>1, Division
  <2> QED
    BY <1>1, <2>1, <2>2
<1>3. search'.hits = search.hits /\ search'.hitCursor \in 0 .. n - 1
  <2> HIDE DEF n, c
  <2> QED
    BY <1>2 DEF Jump, IInv, PageOK
<1>4. early' = early
  BY DEF Jump
<1> QED
  BY <1>1, <1>3, <1>4 DEF CursorOK

LEMMA CursorStep == IInv /\ CursorOK /\ [Next]_vars => CursorOK'
<1> SUFFICES ASSUME IInv, CursorOK, [Next]_vars PROVE CursorOK'
  OBVIOUS
<1>1. ASSUME search'.hits = search.hits, search'.hitCursor = search.hitCursor,
             early' = early
      PROVE  CursorOK'
  BY <1>1 DEF CursorOK
<1>2. DOMAIN search = {"active", "input", "pattern", "hits", "hitCursor"}
  BY DEF IInv, PageOK
<1>3. ASSUME NEW request \in Requests, NewRequest(request) PROVE CursorOK'
  BY <1>1, <1>3 DEF NewRequest
<1>4. CASE (\E pattern \in Pattern \union {NoPattern} : Input(pattern))
              \/ CancelInput \/ StartInput
  BY <1>1, <1>2, <1>4 DEF Input, CancelInput, StartInput
<1>5. CASE ConfirmInput
  <2>1. /\ search'.hits = Hits(search.input, current, requests)
        /\ search'.hitCursor = 0
        /\ early' = (requests = <<>> /\ search.input # NoPattern)
    BY <1>5 DEF ConfirmInput
  <2>2. requests \in Seq(Requests) /\ current \in Nat
    BY DEF IInv, PageOK
  <2>3. requests = <<>> => ~Shown(current, requests)
    BY <2>2, EmptySeq DEF Shown
  <2>4. search'.hits \in Seq(Nat) /\ (early' => search'.hits = <<>>)
    BY <2>1, <2>2, <2>3, HitsAreLines DEF Hits
  <2> QED
    BY <2>1, <2>4, EmptySeq DEF CursorOK
<1>6. CASE ClearSearch
  BY <1>6, EmptySeq DEF ClearSearch, NoSearch, CursorOK
<1>7. CASE Quit \/ \E line : Scroll(line)
  BY <1>1, <1>7 DEF Quit, Scroll
<1>8. CASE Jump
  BY <1>8, JumpKeepsCursor
<1>9. ASSUME NEW place \in Nat, Navigate(place) PROVE CursorOK'
  <2>1. early' = FALSE /\ search' = Refreshed(place) /\ requests \in Seq(Requests)
    BY <1>9 DEF Navigate, IInv, PageOK
  <2>2. CASE search.pattern = NoPattern
    BY <2>1, <2>2 DEF Refreshed, CursorOK
  <2>3. CASE search.pattern # NoPattern
    <3>1. /\ search'.hits = Hits(search.pattern, place, requests)
          /\ search'.hitCursor = 0
      BY <1>2, <2>1, <2>3 DEF Refreshed
    <3>2. search'.hits \in Seq(Nat)
      <4>1. requests \in Seq(Requests)
        BY <2>1
      <4>2. Hits(search.pattern, place, requests) \in Seq(Nat)
        BY ONLY <4>1, HitsAreLines, place \in Nat
      <4> QED
        BY <3>1, <4>2
    <3> QED
      BY <2>1, <3>1, <3>2, EmptySeq DEF CursorOK
  <2> QED
    BY <2>2, <2>3
<1>10. CASE NextRequest \/ Previous \/ FirstRequest \/ LastRequest
  <2>1. /\ Len(requests) \in Nat /\ current \in Nat
        /\ requests # <<>> => Len(requests) - 1 \in Nat
    BY LenProperties, EmptySeq DEF IInv, PageOK
  <2>2. CASE NextRequest
    BY <1>9, <2>1, <2>2 DEF NextRequest
  <2>3. CASE Previous
    <3>1. current - 1 \in Nat
      BY <2>1, <2>3 DEF Previous
    <3> QED
      BY <1>9, <2>3, <3>1 DEF Previous
  <2>4. CASE FirstRequest
    BY <1>9, <2>4 DEF FirstRequest
  <2>5. CASE LastRequest
    BY <1>9, <2>1, <2>5 DEF LastRequest
  <2> QED
    BY <1>10, <2>2, <2>3, <2>4, <2>5
<1>11. CASE UNCHANGED vars
  BY <1>1, <1>11 DEF vars
<1> QED
  BY <1>3, <1>4, <1>5, <1>6, <1>7, <1>8, <1>10, <1>11 DEF Next, Key

LEMMA JumpIsShown ==
    ASSUME IInv, CursorOK, Jump \/ ConfirmInput, search'.hits # <<>>, IInv', CursorOK'
    PROVE  ActiveHit(search') \in scroll' .. scroll' + Height - 1
<1> DEFINE hit == ActiveHit(search')
           doc == Doc(current', requests')
<1>1. ScrollTo(hit)
  <2>1. CASE Jump
    BY <2>1 DEF Jump
  <2>2. CASE ConfirmInput
    <3>1. hit = search'.hits[1]
      BY <2>2 DEF ConfirmInput, ActiveHit
    <3> QED
      BY <2>2, <3>1 DEF ConfirmInput
  <2> QED
    BY <2>1, <2>2
<1>2. search'.hits = Hits(search'.pattern, current', requests')
  BY DEF IInv, HitsAreCurrent, CursorOK, Hits, Shown, Doc
<1>3. requests' \in Seq(Requests) /\ current' \in Nat
  BY DEF IInv, PageOK
<1>4. /\ Shown(current', requests') /\ doc \in Seq(SUBSET Pattern)
      /\ \A h \in ToSet(search'.hits) : h < Len(doc)
  BY <1>2, <1>3, HitsAreLines
<1>5. hit \in Nat /\ hit < Len(doc)
  <2>1. /\ search'.hits \in Seq(Nat) /\ search'.hitCursor \in Nat
        /\ search'.hitCursor < Len(search'.hits)
    BY DEF CursorOK
  <2>2. search'.hitCursor + 1 \in DOMAIN search'.hits
    BY <2>1, LenProperties
  <2>3. hit \in ToSet(search'.hits) /\ hit \in Nat
    BY <2>1, <2>2 DEF ActiveHit, ToSet
  <2> HIDE DEF hit, doc
  <2> QED
    BY <1>4, <2>3
<1>6. Len(doc) \in Nat
  <2> HIDE DEF doc
  <2> QED
    BY <1>4, LenProperties
<1>7. scroll' = IF hit > LastTop(doc) THEN LastTop(doc) ELSE hit
  BY <1>1, <1>4 DEF ScrollTo
<1> HIDE DEF hit, doc
<1>8. LastTop(doc) = IF Len(doc) > Height THEN Len(doc) - Height ELSE 0
  BY DEF LastTop
<1> QED
  BY <1>5, <1>6, <1>7, <1>8 DEF hit

(* "n", "N" and Enter scroll to the hit, and pulling the position back into *)
(* the page at the next draw never takes the hit off the screen again.      *)
THEOREM JumpShows == Spec => JumpShowsHit
<1>1. IInv /\ CursorOK /\ [Next]_vars =>
          [(Jump \/ ConfirmInput) /\ search'.hits # <<>> =>
               ActiveHit(search') \in scroll' .. scroll' + Height - 1]_vars
  BY IInvStep, CursorStep, JumpIsShown
<1> QED
  BY <1>1, IInvInit, IInvStep, CursorInit, CursorStep, PTL DEF Spec, JumpShowsHit

----------------------------------------------------------------------------
(* What a page is read for: m[row] is what a row says, and a row of these   *)
(* parts says nothing.                                                      *)
Literals ==
    {"", Unknown, "sample", "Unknown", "Native", "Kernel", "JVM", "Python", "PHP", "Ruby", "Perl",
     "JS", ".NET", "Beam", "Go", "+", "inline", "strindex", "Dictionary",
     "String Table", "Mapping Table", "Attribute Table", "Function Table", "Profile",
     "id", "time", "duration", "period", "dropped_attributes", "original_format",
     "original_payload", "Samples", "Scope", "name", "version", "Resource", "schema_url"}

Texts == STRING \union Literals

Words == Texts \union {BaseOf[s] : s \in Texts}

QuietParts == {"blank", "field", "section", "counts", "title", "string", "mapping",
               "memory", "attribute", "function", "samples", "empty"}

Reader(m, S) ==
    /\ m \in [DOMAIN m -> Seq(S)]
    /\ \A part \in QuietParts, words \in Seq(Words) :
           Row(part, words) \in DOMAIN m /\ m[Row(part, words)] = <<>>

Reads(rows, m, out) == rows \in Seq(DOMAIN m) /\ FlatMap(m, rows) = out

LEMMA ReadsIsSeq ==
    ASSUME NEW S, NEW m, Reader(m, S), NEW rows, NEW out, Reads(rows, m, out)
    PROVE  out \in Seq(S)
<1>1. m \in [DOMAIN m -> Seq(S)] /\ rows \in Seq(DOMAIN m) /\ FlatMap(m, rows) = out
  BY Zenon DEF Reader, Reads
<1>2. FlatMap(m, rows) \in Seq(S)
  BY <1>1, FlatMapIsSeq, Zenon
<1> QED
  BY <1>1, <1>2, Zenon

LEMMA ReadsNothing ==
    ASSUME NEW m
    PROVE  Reads(<<>>, m, <<>>)
<1>1. <<>> \in Seq(DOMAIN m)
  BY EmptySeq
<1> QED
  BY <1>1, FlatMapNothing, Zenon DEF Reads

LEMMA ReadsRow ==
    ASSUME NEW S, NEW m, Reader(m, S), NEW row \in DOMAIN m
    PROVE  Reads(<<row>>, m, m[row])
<1>1. PICK R : R = DOMAIN m
  OBVIOUS
<1>2. <<row>> \in Seq(R)
  BY <1>1
<1>3. FlatMap(m, <<row>>) = m[row]
  BY FlatMapOne, Zenon DEF Reader
<1> QED
  BY <1>1, <1>2, <1>3, Zenon DEF Reads

LEMMA ReadsQuiet ==
    ASSUME NEW S, NEW m, Reader(m, S), NEW part \in QuietParts, NEW words \in Seq(Words)
    PROVE  Reads(Line(part, words), m, <<>>)
<1>1. Row(part, words) \in DOMAIN m /\ m[Row(part, words)] = <<>>
  BY Zenon DEF Reader
<1>2. Reads(<<Row(part, words)>>, m, m[Row(part, words)])
  BY <1>1, ReadsRow, Zenon
<1> QED
  BY <1>1, <1>2, Zenon DEF Line

LEMMA ReadsJoin ==
    ASSUME NEW S, NEW m, Reader(m, S), NEW a, NEW x, Reads(a, m, x),
           NEW b, NEW y, Reads(b, m, y)
    PROVE  Reads(a \o b, m, x \o y)
<1>1. PICK R : R = DOMAIN m
  OBVIOUS
<1>2. m \in [R -> Seq(S)] /\ a \in Seq(R) /\ b \in Seq(R)
  BY <1>1, Zenon DEF Reader, Reads
<1>3. a \o b \in Seq(R)
  BY <1>2, ConcatProperties, Zenon
<1>4. FlatMap(m, a \o b) = FlatMap(m, a) \o FlatMap(m, b)
  <2>1. Splits(m, a, b)
    BY <1>2, FlatMapJoin, Zenon
  <2> QED
    BY <2>1 DEF Splits
<1> QED
  BY <1>1, <1>3, <1>4, Zenon DEF Reads

(* Next to lines that say nothing. *)
LEMMA QuietBefore ==
    ASSUME NEW S, NEW m, Reader(m, S), NEW a, Reads(a, m, <<>>),
           NEW b, NEW y, Reads(b, m, y)
    PROVE  Reads(a \o b, m, y)
<1>1. y \in Seq(S)
  BY ReadsIsSeq, Zenon
<1>2. <<>> \o y = y
  BY <1>1, ConcatEmptySeq
<1>3. Reads(a \o b, m, <<>> \o y)
  BY ReadsJoin, Zenon
<1> QED
  BY <1>2, <1>3, Zenon

LEMMA QuietAfter ==
    ASSUME NEW S, NEW m, Reader(m, S), NEW a, NEW x, Reads(a, m, x),
           NEW b, Reads(b, m, <<>>)
    PROVE  Reads(a \o b, m, x)
<1>1. x \in Seq(S)
  BY ReadsIsSeq, Zenon
<1>2. x \o <<>> = x
  BY <1>1, ConcatEmptySeq
<1>3. Reads(a \o b, m, x \o <<>>)
  BY ReadsJoin, Zenon
<1> QED
  BY <1>2, <1>3, Zenon

(* Part after part of a list. *)
LEMMA ReadsEach ==
    ASSUME NEW S, NEW m, Reader(m, S), NEW T, NEW list \in Seq(T),
           NEW f, f = [k \in DOMAIN list |-> f[k]],
           NEW g, g = [k \in DOMAIN list |-> g[k]],
           \A k \in DOMAIN list : Reads(f[k], m, g[k])
    PROVE  Reads(FlattenSeq(f), m, FlattenSeq(g))
<1>0. PICK R : R = DOMAIN m
  OBVIOUS
<1>1. PICK N \in Nat : DOMAIN list = 1 .. N
  <2>1. Len(list) \in Nat /\ DOMAIN list = 1 .. Len(list)
    OBVIOUS
  <2> QED
    BY <2>1, Zenon
<1>2. \A k \in 1 .. N : f[k] \in Seq(R) /\ g[k] = FlatMap(m, f[k])
  BY <1>0, <1>1, Zenon DEF Reads
<1>3. f \in [1 .. N -> Seq(R)]
  BY <1>1, <1>2, Zenon
<1>4. f \in Seq(Seq(R)) /\ DOMAIN f = 1 .. N
  BY <1>1, <1>3, IntervalIsSeq, Zenon
<1>5. g = [k \in DOMAIN f |-> FlatMap(m, f[k])]
  BY <1>1, <1>2, <1>4, Zenon
<1>6. m \in [R -> Seq(S)]
  BY <1>0, Zenon DEF Reader
<1>7. FlatMap(m, FlattenSeq(f)) = FlattenSeq(g)
  <2>1. Passes(m, f, g)
    BY <1>4, <1>5, <1>6, FlatMapFlatten, Zenon
  <2> QED
    BY <2>1 DEF Passes
<1>8. FlattenSeq(f) \in Seq(R)
  BY <1>3, FlattenIsSeq, Zenon
<1> QED
  BY <1>0, <1>7, <1>8, Zenon DEF Reads

LEMMA QuietEach ==
    ASSUME NEW S, NEW m, Reader(m, S), NEW T, NEW list \in Seq(T),
           NEW f, f = [k \in DOMAIN list |-> f[k]],
           \A k \in DOMAIN list : Reads(f[k], m, <<>>)
    PROVE  Reads(FlattenSeq(f), m, <<>>)
<1> DEFINE g == [k \in DOMAIN list |-> <<>>]
<1>1. Len(list) \in Nat /\ g \in [1 .. Len(list) -> {<<>>}]
  OBVIOUS
<1>2. g = [k \in DOMAIN list |-> g[k]] /\ \A k \in DOMAIN list : Reads(f[k], m, g[k])
  BY Zenon
<1> HIDE DEF g
<1>3. Reads(FlattenSeq(f), m, FlattenSeq(g))
  BY <1>2, ReadsEach, Zenon
<1> QED
  BY <1>1, <1>3, FlattenNone, Zenon

(* A list of lists, each read as h reads its elements. *)
LEMMA ReadsThrough ==
    ASSUME NEW S, NEW m, Reader(m, S), NEW D, NEW h \in [D -> Seq(S)],
           NEW T, NEW list \in Seq(T), NEW f, f = [k \in DOMAIN list |-> f[k]],
           NEW d, d = [k \in DOMAIN list |-> d[k]],
           \A k \in DOMAIN list : d[k] \in Seq(D) /\ Reads(f[k], m, FlatMap(h, d[k]))
    PROVE  FlattenSeq(d) \in Seq(D) /\ Reads(FlattenSeq(f), m, FlatMap(h, FlattenSeq(d)))
<1> DEFINE g == [k \in DOMAIN list |-> FlatMap(h, d[k])]
<1>1. PICK N \in Nat : DOMAIN list = 1 .. N
  <2>1. Len(list) \in Nat /\ DOMAIN list = 1 .. Len(list)
    OBVIOUS
  <2> QED
    BY <2>1, Zenon
<1>2. g = [k \in DOMAIN list |-> g[k]] /\ \A k \in DOMAIN list : Reads(f[k], m, g[k])
  BY Zenon
<1>3. d \in [1 .. N -> Seq(D)]
  BY <1>1, Zenon
<1>4. d \in Seq(Seq(D)) /\ DOMAIN d = DOMAIN list
  BY <1>1, <1>3, IntervalIsSeq, Zenon
<1>5. g = [k \in DOMAIN d |-> FlatMap(h, d[k])]
  BY <1>4, Zenon
<1> HIDE DEF g
<1>6. Reads(FlattenSeq(f), m, FlattenSeq(g))
  BY <1>2, ReadsEach, Zenon
<1>7. FlatMap(h, FlattenSeq(d)) = FlattenSeq(g)
  <2>1. Passes(h, d, g)
    BY <1>4, <1>5, FlatMapFlatten, Zenon
  <2> QED
    BY <2>1 DEF Passes
<1>8. FlattenSeq(d) \in Seq(D)
  BY <1>3, FlattenIsSeq, Zenon
<1> QED
  BY <1>6, <1>7, <1>8, Zenon

----------------------------------------------------------------------------
(* What is in the tables of a dictionary, and the words of the page.        *)
LEMMA AtIs ==
    ASSUME NEW T, NEW table \in Seq(T), NEW place \in Int, ListedAt(place, table)
    PROVE  At(place, table) \in T
BY DEF ListedAt, At

LEMMA TablesAre ==
    ASSUME NEW dict \in DictionaryMessage
    PROVE  /\ dict.strings \in Seq(STRING) /\ dict.mappings \in Seq(MappingMessage)
           /\ dict.functions \in Seq(FunctionMessage)
           /\ dict.attributes \in Seq(AttributeMessage)
           /\ dict.locations \in Seq(LocationMessage) /\ dict.stacks \in Seq(Seq(Int))
<1> HIDE DEF MappingMessage, FunctionMessage, AttributeMessage, LocationMessage
<1> QED
  BY DEF DictionaryMessage

LEMMA TextsAre ==
    /\ Literals \subseteq Texts /\ STRING \subseteq Texts /\ Texts \subseteq Words
    /\ Literals \subseteq Words
BY Zenon DEF Texts, Words

LEMMA StrIsText ==
    ASSUME NEW dict \in DictionaryMessage, NEW place \in Int
    PROVE  Str(place, dict) \in Texts
<1>1. CASE ListedAt(place, dict.strings)
  <2>1. dict.strings \in Seq(STRING)
    BY TablesAre
  <2>2. At(place, dict.strings) \in STRING
    BY <1>1, <2>1, AtIs, Zenon
  <2> QED
    BY <1>1, <2>2, TextsAre, Zenon DEF Str
<1>2. CASE ~ListedAt(place, dict.strings)
  <2>1. "" \in Literals
    BY DEF Literals
  <2> QED
    BY <1>2, <2>1, TextsAre, Zenon DEF Str
<1> QED
  BY <1>1, <1>2

LEMMA WordIsText ==
    ASSUME NEW value \in ValueMessage, NEW dict \in Seq(DictionaryMessage)
    PROVE  Word(value, dict) \in Texts
<1>1. value.text \in Texts /\ value.place \in Int
  BY TextsAre, Zenon DEF ValueMessage
<1>2. dict # <<>> => dict[1] \in DictionaryMessage
  OBVIOUS
<1>3. dict # <<>> => Str(value.place, dict[1]) \in Texts
  BY <1>1, <1>2, StrIsText, Zenon
<1>4. "strindex" \in Texts
  <2>1. "strindex" \in Literals
    BY DEF Literals
  <2> QED
    BY <2>1, TextsAre, Zenon
<1> QED
  BY <1>1, <1>3, <1>4, Zenon DEF Word

LEMMA AttributeText ==
    ASSUME NEW attribute \in AttributeMessage, NEW dict \in DictionaryMessage
    PROVE  AttributeWords(attribute, dict) \in Seq(Words)
<1>1. attribute.key \in Int /\ attribute.value \in ValueMessage
  BY DEF AttributeMessage
<1>2. <<dict>> \in Seq(DictionaryMessage)
  OBVIOUS
<1>3. Str(attribute.key, dict) \in Words /\ Word(attribute.value, <<dict>>) \in Words
  BY <1>1, <1>2, StrIsText, WordIsText, TextsAre, Zenon
<1> QED
  BY <1>3 DEF AttributeWords

LEMMA GetAttrIs ==
    ASSUME NEW dict \in DictionaryMessage, NEW place \in Int
    PROVE  GetAttr(place, dict) \in Seq(AttributeMessage)
<1>1. dict.attributes \in Seq(AttributeMessage)
  BY TablesAre
<1>2. CASE place > 0 /\ ListedAt(place, dict.attributes)
  <2>1. At(place, dict.attributes) \in AttributeMessage
    BY <1>1, <1>2, AtIs, Zenon
  <2> QED
    BY <1>2, <2>1 DEF GetAttr
<1>3. CASE ~(place > 0 /\ ListedAt(place, dict.attributes))
  BY <1>3, EmptySeq DEF GetAttr
<1> QED
  BY <1>2, <1>3

----------------------------------------------------------------------------
(* The parts of a page that say nothing.                                    *)
LEMMA BlankQuiet ==
    ASSUME NEW S, NEW m, Reader(m, S)
    PROVE  Reads(Blank, m, <<>>)
<1>1. "blank" \in QuietParts /\ <<>> \in Seq(Words)
  BY EmptySeq DEF QuietParts
<1> QED
  BY <1>1, ReadsQuiet, Zenon DEF Blank

LEMMA FilledQuiet ==
    ASSUME NEW S, NEW m, Reader(m, S), NEW label \in Literals, NEW value \in Texts
    PROVE  Reads(Filled(label, value), m, <<>>)
<1>0. label \in Words /\ value \in Words
  BY TextsAre, Zenon
<1>1. "field" \in QuietParts /\ <<label, value>> \in Seq(Words)
  BY <1>0 DEF QuietParts
<1>2. Reads(Line("field", <<label, value>>), m, <<>>)
  BY <1>1, ReadsQuiet, Zenon
<1> QED
  BY <1>2, ReadsNothing, Zenon DEF Filled

LEMMA AttributeQuiet ==
    ASSUME NEW S, NEW m, Reader(m, S), NEW dict \in DictionaryMessage,
           NEW attribute \in AttributeMessage
    PROVE  Reads(Line("attribute", AttributeWords(attribute, dict)), m, <<>>)
<1>1. "attribute" \in QuietParts /\ AttributeWords(attribute, dict) \in Seq(Words)
  BY AttributeText DEF QuietParts
<1> QED
  BY <1>1, ReadsQuiet, Zenon

LEMMA AttributesQuiet ==
    ASSUME NEW S, NEW m, Reader(m, S), NEW dict \in DictionaryMessage,
           NEW indices \in Seq(Int)
    PROVE  Reads(AttributeRows(indices, dict), m, <<>>)
<1> DEFINE rows(i) == Each(GetAttr(i, dict),
                           LAMBDA a : Line("attribute", AttributeWords(a, dict)))
           f == [k \in DOMAIN indices |-> rows(indices[k])]
<1>1. ASSUME NEW i \in Int PROVE Reads(rows(i), m, <<>>)
  <2> DEFINE list == GetAttr(i, dict)
             g == [k \in DOMAIN list |-> Line("attribute", AttributeWords(list[k], dict))]
  <2>1. list \in Seq(AttributeMessage)
    BY GetAttrIs
  <2>2. \A k \in DOMAIN list : list[k] \in AttributeMessage
    BY <2>1
  <2>3. rows(i) = FlattenSeq(g)
    BY Zenon DEF Each
  <2> HIDE DEF list
  <2>4. g = [k \in DOMAIN list |-> g[k]] /\ \A k \in DOMAIN list : Reads(g[k], m, <<>>)
    BY <2>2, AttributeQuiet, Zenon
  <2> HIDE DEF g
  <2>5. Reads(FlattenSeq(g), m, <<>>)
    BY <2>1, <2>4, QuietEach, Zenon
  <2> QED
    BY <2>3, <2>5
<1>2. \A k \in DOMAIN indices : indices[k] \in Int
  OBVIOUS
<1>3. AttributeRows(indices, dict) = FlattenSeq(f)
  BY Zenon DEF AttributeRows, Each
<1> HIDE DEF rows
<1>4. f = [k \in DOMAIN indices |-> f[k]] /\ \A k \in DOMAIN indices : Reads(f[k], m, <<>>)
  BY <1>1, <1>2, Zenon
<1> HIDE DEF f
<1>5. Reads(FlattenSeq(f), m, <<>>)
  BY <1>4, QuietEach, Zenon
<1> QED
  BY <1>3, <1>5, Zenon

LEMMA LiteralQuiet ==
    ASSUME NEW S, NEW m, Reader(m, S), NEW part \in QuietParts, NEW word \in Literals
    PROVE  Reads(Line(part, <<word>>), m, <<>>) /\ Reads(Line(part, <<>>), m, <<>>)
<1>1. word \in Words
  BY TextsAre, Zenon
<1>2. <<word>> \in Seq(Words) /\ <<>> \in Seq(Words)
  BY <1>1
<1> QED
  BY <1>2, ReadsQuiet, Zenon

(* Two quiet parts are one. *)
LEMMA QuietJoin ==
    ASSUME NEW S, NEW m, Reader(m, S), NEW a, Reads(a, m, <<>>), NEW b, Reads(b, m, <<>>)
    PROVE  Reads(a \o b, m, <<>>)
BY QuietBefore, Zenon

LEMMA MappingQuiet ==
    ASSUME NEW S, NEW m, Reader(m, S), NEW dict \in DictionaryMessage,
           NEW mapping \in MappingMessage
    PROVE  Reads(MappingRows(mapping, dict), m, <<>>)
<1>1. mapping.filename \in Int /\ mapping.attributes \in Seq(Int)
  BY DEF MappingMessage
<1>2. Str(mapping.filename, dict) \in Words
  BY <1>1, StrIsText, TextsAre, Zenon
<1>3. /\ <<Str(mapping.filename, dict)>> \in Seq(Words) /\ <<>> \in Seq(Words)
      /\ "mapping" \in QuietParts /\ "memory" \in QuietParts
  BY <1>2 DEF QuietParts
<1>4. Reads(Line("mapping", <<Str(mapping.filename, dict)>>), m, <<>>)
  BY <1>3, ReadsQuiet, Zenon
<1>5. Reads(Line("memory", <<>>), m, <<>>)
  BY <1>3, ReadsQuiet, Zenon
<1>6. Reads(AttributeRows(mapping.attributes, dict), m, <<>>)
  BY <1>1, AttributesQuiet, Zenon
<1> QED
  BY <1>4, <1>5, <1>6, QuietJoin, Zenon DEF MappingRows

LEMMA FunctionQuiet ==
    ASSUME NEW S, NEW m, Reader(m, S), NEW dict \in DictionaryMessage,
           NEW function \in FunctionMessage
    PROVE  Reads(FunctionRow(function, dict), m, <<>>)
<1> DEFINE name == Str(function.name, dict)
           list == <<Str(function.system, dict), Str(function.file, dict)>>
           f == [k \in DOMAIN list |-> IF list[k] = "" THEN <<>> ELSE <<list[k]>>]
           words == <<name>> \o FlattenSeq(f)
<1>1. function.name \in Int /\ function.system \in Int /\ function.file \in Int
  BY DEF FunctionMessage
<1>2. name \in Words /\ Str(function.system, dict) \in Words /\ Str(function.file, dict) \in Words
  BY <1>1, StrIsText, TextsAre, Zenon
<1>3. f \in [1 .. 2 -> Seq(Words)]
  <2>1. DOMAIN list = 1 .. 2 /\ \A k \in 1 .. 2 : list[k] \in Words
    BY <1>2
  <2>2. \A w \in Words : <<>> \in Seq(Words) /\ <<w>> \in Seq(Words)
    OBVIOUS
  <2> HIDE DEF list
  <2> QED
    BY <2>1, <2>2, Zenon
<1>4. FunctionRow(function, dict) = Line("function", words)
  BY Zenon DEF FunctionRow, Each
<1> HIDE DEF f, name
<1>5. FlattenSeq(f) \in Seq(Words) /\ <<name>> \in Seq(Words)
  <2>1. 2 \in Nat /\ <<name>> \in Seq(Words)
    BY <1>2
  <2> QED
    BY <1>3, <2>1, FlattenIsSeq, Zenon
<1>6. words \in Seq(Words) /\ "function" \in QuietParts
  BY <1>5, ConcatProperties DEF QuietParts
<1> QED
  BY <1>4, <1>6, ReadsQuiet, Zenon

LEMMA TableReads ==
    ASSUME NEW S, NEW m, Reader(m, S), NEW title \in Literals, NEW table, NEW rows,
           NEW out, Len(table) > 1 => Reads(rows, m, out)
    PROVE  Reads(Table(title, table, rows), m, IF Len(table) > 1 THEN out ELSE <<>>)
<1>1. CASE Len(table) > 1
  <2>1. Reads(Line("title", <<title>>), m, <<>>)
    <3>1. "title" \in QuietParts
      BY DEF QuietParts
    <3> QED
      BY <3>1, LiteralQuiet, Zenon
  <2>2. Reads(Line("title", <<title>>) \o rows, m, out)
    BY <1>1, <2>1, QuietBefore, Zenon
  <2>3. Reads(Line("title", <<title>>) \o rows \o Blank, m, out)
    BY <2>2, BlankQuiet, QuietAfter, Zenon
  <2> QED
    BY <1>1, <2>3, Zenon DEF Table
<1>2. CASE ~(Len(table) > 1)
  BY <1>2, ReadsNothing, Zenon DEF Table
<1> QED
  BY <1>1, <1>2, Zenon

LEMMA TableQuiet ==
    ASSUME NEW S, NEW m, Reader(m, S), NEW title \in Literals, NEW table, NEW rows,
           Len(table) > 1 => Reads(rows, m, <<>>)
    PROVE  Reads(Table(title, table, rows), m, <<>>)
<1>1. Reads(Table(title, table, rows), m, IF Len(table) > 1 THEN <<>> ELSE <<>>)
  BY TableReads, Zenon
<1>2. (IF Len(table) > 1 THEN <<>> ELSE <<>>) = <<>>
  OBVIOUS
<1> QED
  BY <1>1, <1>2, Zenon

(* A table without its zero entry. *)
LEMMA TailIs ==
    ASSUME NEW T, NEW table \in Seq(T), Len(table) > 1
    PROVE  Tail(table) \in Seq(T) /\ \A k \in DOMAIN Tail(table) : Tail(table)[k] \in T
<1>1. table # <<>>
  OBVIOUS
<1>2. Tail(table) \in Seq(T)
  BY <1>1, HeadTailProperties
<1> QED
  BY <1>2

(* Of a dictionary, only the table of the strings may say something.        *)
StringTable(dict) == Table("String Table", dict.strings, StringRows(dict.strings))

Around(dict, m, top, a, b, c) ==
    /\ Reads(top, m, <<>>) /\ Reads(a, m, <<>>) /\ Reads(b, m, <<>>) /\ Reads(c, m, <<>>)
    /\ DictionaryRows(dict) = top \o StringTable(dict) \o a \o b \o c

LEMMA DictionaryParts ==
    ASSUME NEW S, NEW m, Reader(m, S), NEW dict \in DictionaryMessage
    PROVE  \E top, a, b, c : Around(dict, m, top, a, b, c)
<1>1. /\ dict.mappings \in Seq(MappingMessage) /\ dict.functions \in Seq(FunctionMessage)
      /\ dict.attributes \in Seq(AttributeMessage)
  BY TablesAre, Zenon
<1>2. /\ "Dictionary" \in Literals /\ "Mapping Table" \in Literals
      /\ "Attribute Table" \in Literals /\ "Function Table" \in Literals
      /\ "section" \in QuietParts /\ "counts" \in QuietParts
  BY Zenon DEF Literals, QuietParts
<1> DEFINE mappings == Each(Tail(dict.mappings), LAMBDA x : MappingRows(x, dict))
           attributes == Each(Tail(dict.attributes),
                              LAMBDA a : Line("attribute", AttributeWords(a, dict)))
           functions == Each(Tail(dict.functions), LAMBDA f : FunctionRow(f, dict))
<1>3. ASSUME Len(dict.mappings) > 1 PROVE Reads(mappings, m, <<>>)
  <2> DEFINE list == Tail(dict.mappings)
             f == [k \in DOMAIN list |-> MappingRows(list[k], dict)]
  <2>1. list \in Seq(MappingMessage) /\ \A k \in DOMAIN list : list[k] \in MappingMessage
    BY <1>1, <1>3, TailIs, Zenon
  <2>2. mappings = FlattenSeq(f)
    BY Zenon DEF Each
  <2> HIDE DEF list
  <2>3. f = [k \in DOMAIN list |-> f[k]] /\ \A k \in DOMAIN list : Reads(f[k], m, <<>>)
    BY <2>1, MappingQuiet, Zenon
  <2> HIDE DEF f
  <2>4. Reads(FlattenSeq(f), m, <<>>)
    BY <2>1, <2>3, QuietEach, Zenon
  <2> QED
    BY <2>2, <2>4, Zenon
<1>4. ASSUME Len(dict.attributes) > 1 PROVE Reads(attributes, m, <<>>)
  <2> DEFINE list == Tail(dict.attributes)
             f == [k \in DOMAIN list |-> Line("attribute", AttributeWords(list[k], dict))]
  <2>1. list \in Seq(AttributeMessage) /\ \A k \in DOMAIN list : list[k] \in AttributeMessage
    BY <1>1, <1>4, TailIs, Zenon
  <2>2. attributes = FlattenSeq(f)
    BY Zenon DEF Each
  <2> HIDE DEF list
  <2>3. f = [k \in DOMAIN list |-> f[k]] /\ \A k \in DOMAIN list : Reads(f[k], m, <<>>)
    BY <2>1, AttributeQuiet, Zenon
  <2> HIDE DEF f
  <2>4. Reads(FlattenSeq(f), m, <<>>)
    BY <2>1, <2>3, QuietEach, Zenon
  <2> QED
    BY <2>2, <2>4, Zenon
<1>5. ASSUME Len(dict.functions) > 1 PROVE Reads(functions, m, <<>>)
  <2> DEFINE list == Tail(dict.functions)
             f == [k \in DOMAIN list |-> FunctionRow(list[k], dict)]
  <2>1. list \in Seq(FunctionMessage) /\ \A k \in DOMAIN list : list[k] \in FunctionMessage
    BY <1>1, <1>5, TailIs, Zenon
  <2>2. functions = FlattenSeq(f)
    BY Zenon DEF Each
  <2> HIDE DEF list
  <2>3. f = [k \in DOMAIN list |-> f[k]] /\ \A k \in DOMAIN list : Reads(f[k], m, <<>>)
    BY <2>1, FunctionQuiet, Zenon
  <2> HIDE DEF f
  <2>4. Reads(FlattenSeq(f), m, <<>>)
    BY <2>1, <2>3, QuietEach, Zenon
  <2> QED
    BY <2>2, <2>4, Zenon
<1>6. /\ Reads(Line("section", <<"Dictionary">>), m, <<>>)
      /\ Reads(Line("counts", <<>>), m, <<>>) /\ Reads(Blank, m, <<>>)
  BY <1>2, LiteralQuiet, BlankQuiet, Zenon
<1>7. Reads(Table("Mapping Table", dict.mappings, mappings), m, <<>>)
  BY <1>2, <1>3, TableQuiet, Zenon
<1>8. Reads(Table("Attribute Table", dict.attributes, attributes), m, <<>>)
  BY <1>2, <1>4, TableQuiet, Zenon
<1>9. Reads(Table("Function Table", dict.functions, functions), m, <<>>)
  BY <1>2, <1>5, TableQuiet, Zenon
<1> DEFINE top == Line("section", <<"Dictionary">>) \o Line("counts", <<>>)
                      \o Line("counts", <<>>) \o Blank
<1>10. Reads(top, m, <<>>)
  BY <1>6, QuietJoin, Zenon
<1>11. DictionaryRows(dict) =
           top \o StringTable(dict) \o Table("Mapping Table", dict.mappings, mappings)
               \o Table("Attribute Table", dict.attributes, attributes)
               \o Table("Function Table", dict.functions, functions)
  BY Zenon DEF DictionaryRows, StringTable
<1> HIDE DEF top, mappings, attributes, functions
<1> QED
  BY <1>7, <1>8, <1>9, <1>10, <1>11, Zenon DEF Around

LEMMA DictionaryReads ==
    ASSUME NEW S, NEW m, Reader(m, S), NEW dict \in DictionaryMessage, NEW out,
           Reads(StringTable(dict), m, out)
    PROVE  Reads(DictionaryRows(dict), m, out)
<1>0. PICK top, a, b, c : Around(dict, m, top, a, b, c)
  BY DictionaryParts, Zenon
<1>1. /\ Reads(top, m, <<>>) /\ Reads(a, m, <<>>) /\ Reads(b, m, <<>>)
      /\ Reads(c, m, <<>>)
      /\ DictionaryRows(dict) = top \o StringTable(dict) \o a \o b \o c
  BY <1>0, Zenon DEF Around
<1>2. Reads(top \o StringTable(dict), m, out)
  BY <1>1, QuietBefore, Zenon
<1>3. Reads(top \o StringTable(dict) \o a, m, out)
  BY <1>1, <1>2, QuietAfter, Zenon
<1>4. Reads(top \o StringTable(dict) \o a \o b, m, out)
  BY <1>1, <1>3, QuietAfter, Zenon
<1>5. Reads(top \o StringTable(dict) \o a \o b \o c, m, out)
  BY <1>1, <1>4, QuietAfter, Zenon
<1> QED
  BY <1>1, <1>5, Zenon

LEMMA TypesQuiet ==
    ASSUME NEW S, NEW m, Reader(m, S), NEW dict \in DictionaryMessage,
           NEW types \in Seq(Int \X Int)
    PROVE  Reads(TypeRows(types, dict), m, <<>>)
<1> DEFINE f == [k \in DOMAIN types |->
                    Line("field", <<Str(types[k][1], dict), Str(types[k][2], dict)>>)]
<1>1. ASSUME NEW k \in DOMAIN types
      PROVE  Reads(Line("field", <<Str(types[k][1], dict), Str(types[k][2], dict)>>), m, <<>>)
  <2>1. types[k][1] \in Int /\ types[k][2] \in Int
    OBVIOUS
  <2>2. Str(types[k][1], dict) \in Words /\ Str(types[k][2], dict) \in Words
    BY <2>1, StrIsText, TextsAre, Zenon
  <2>3. /\ <<Str(types[k][1], dict), Str(types[k][2], dict)>> \in Seq(Words)
        /\ "field" \in QuietParts
    BY <2>2 DEF QuietParts
  <2> QED
    BY <2>3, ReadsQuiet, Zenon
<1>2. TypeRows(types, dict) = FlattenSeq(f)
  BY Zenon DEF TypeRows, Each
<1>3. f = [k \in DOMAIN types |-> f[k]] /\ \A k \in DOMAIN types : Reads(f[k], m, <<>>)
  BY <1>1, Zenon
<1> HIDE DEF f
<1>4. Reads(FlattenSeq(f), m, <<>>)
  BY <1>3, QuietEach, Zenon
<1> QED
  BY <1>2, <1>4, Zenon

LEMMA ProfileIs ==
    ASSUME NEW profile \in ProfileMessage
    PROVE  /\ profile.id \in Texts /\ profile.time \in Texts /\ profile.duration \in Texts
           /\ profile.period \in Texts /\ profile.dropped \in Texts
           /\ profile.format \in Texts
           /\ profile.types \in Seq(Int \X Int) /\ profile.attributes \in Seq(Int)
           /\ profile.samples \in Seq(SampleMessage)
BY TextsAre, Zenon DEF ProfileMessage

(* The part of a profile before its samples. *)
LEMMA ProfileHeadQuiet ==
    ASSUME NEW S, NEW m, Reader(m, S), NEW dict \in Seq(DictionaryMessage),
           NEW profile \in ProfileMessage
    PROVE  /\ Reads(Each(dict, LAMBDA d : TypeRows(profile.types, d)), m, <<>>)
           /\ Reads(Each(dict, LAMBDA d : AttributeRows(profile.attributes, d)), m, <<>>)
<1>1. profile.types \in Seq(Int \X Int) /\ profile.attributes \in Seq(Int)
  BY ProfileIs, Zenon
<1>2. \A k \in DOMAIN dict : dict[k] \in DictionaryMessage
  OBVIOUS
<1> DEFINE f == [k \in DOMAIN dict |-> TypeRows(profile.types, dict[k])]
           g == [k \in DOMAIN dict |-> AttributeRows(profile.attributes, dict[k])]
<1>3. /\ Each(dict, LAMBDA d : TypeRows(profile.types, d)) = FlattenSeq(f)
      /\ Each(dict, LAMBDA d : AttributeRows(profile.attributes, d)) = FlattenSeq(g)
  BY Zenon DEF Each
<1>4. /\ f = [k \in DOMAIN dict |-> f[k]] /\ \A k \in DOMAIN dict : Reads(f[k], m, <<>>)
      /\ g = [k \in DOMAIN dict |-> g[k]] /\ \A k \in DOMAIN dict : Reads(g[k], m, <<>>)
  BY <1>1, <1>2, TypesQuiet, AttributesQuiet, Zenon
<1> HIDE DEF f, g
<1>5. Reads(FlattenSeq(f), m, <<>>) /\ Reads(FlattenSeq(g), m, <<>>)
  BY <1>4, QuietEach, Zenon
<1> QED
  BY <1>3, <1>5, Zenon

(* A profile says what its samples say. *)
LEMMA ProfileReads ==
    ASSUME NEW S, NEW m, Reader(m, S), NEW dict \in Seq(DictionaryMessage),
           NEW h \in [SampleMessage -> Seq(S)],
           \A s \in SampleMessage : Reads(SampleRows(s, dict), m, h[s]),
           NEW profile \in ProfileMessage
    PROVE  Reads(ProfileRows(profile, dict), m, FlatMap(h, profile.samples))
<1>1. /\ profile.id \in Texts /\ profile.time \in Texts /\ profile.duration \in Texts
      /\ profile.period \in Texts /\ profile.dropped \in Texts
      /\ profile.format \in Texts /\ profile.samples \in Seq(SampleMessage)
  BY ProfileIs, Zenon
<1>2. /\ "section" \in QuietParts /\ "samples" \in QuietParts /\ "field" \in QuietParts
      /\ "title" \in QuietParts
  BY DEF QuietParts
<1>3. /\ "Profile" \in Literals /\ "id" \in Literals /\ "time" \in Literals
      /\ "duration" \in Literals /\ "period" \in Literals
      /\ "dropped_attributes" \in Literals /\ "original_format" \in Literals
      /\ "original_payload" \in Literals /\ "Samples" \in Literals
  BY Zenon DEF Literals
<1> DEFINE p1 == Line("section", <<"Profile">>)
           p2 == Filled("id", profile.id)
           p3 == Filled("time", profile.time)
           p4 == Filled("duration", profile.duration)
           p5 == Each(dict, LAMBDA d : TypeRows(profile.types, d))
           p6 == Filled("period", profile.period)
           p7 == Line("samples", <<>>)
           p8 == Filled("dropped_attributes", profile.dropped)
           p9 == Filled("original_format", profile.format)
           p10 == IF profile.format = "" THEN <<>> ELSE Line("field", <<"original_payload">>)
           p11 == Each(dict, LAMBDA d : AttributeRows(profile.attributes, d))
           p12 == IF profile.samples = <<>> THEN <<>> ELSE Line("title", <<"Samples">>)
           samples == Each(profile.samples, LAMBDA s : SampleRows(s, dict))
<1>4. /\ Reads(p1, m, <<>>) /\ Reads(p2, m, <<>>) /\ Reads(p3, m, <<>>)
      /\ Reads(p4, m, <<>>) /\ Reads(p6, m, <<>>) /\ Reads(p7, m, <<>>)
      /\ Reads(p8, m, <<>>) /\ Reads(p9, m, <<>>)
  BY <1>1, <1>2, <1>3, LiteralQuiet, FilledQuiet, Zenon
<1>5. Reads(p5, m, <<>>) /\ Reads(p11, m, <<>>)
  BY ProfileHeadQuiet, Zenon
<1>6. Reads(p10, m, <<>>) /\ Reads(p12, m, <<>>)
  <2>1. /\ Reads(Line("field", <<"original_payload">>), m, <<>>)
        /\ Reads(Line("title", <<"Samples">>), m, <<>>)
    BY <1>2, <1>3, LiteralQuiet, Zenon
  <2> QED
    BY <2>1, ReadsNothing, Zenon
<1>7. Reads(samples, m, FlatMap(h, profile.samples))
  <2> DEFINE list == profile.samples
             f == [k \in DOMAIN list |-> SampleRows(list[k], dict)]
             g == [k \in DOMAIN list |-> h[list[k]]]
  <2>1. list \in Seq(SampleMessage) /\ \A k \in DOMAIN list : list[k] \in SampleMessage
    BY <1>1
  <2>2. samples = FlattenSeq(f)
    BY Zenon DEF Each
  <2>3. FlatMap(h, list) = FlattenSeq(g)
    BY Zenon DEF FlatMap
  <2> HIDE DEF list
  <2>4. /\ f = [k \in DOMAIN list |-> f[k]] /\ g = [k \in DOMAIN list |-> g[k]]
        /\ \A k \in DOMAIN list : Reads(f[k], m, g[k])
    BY <2>1, Zenon
  <2> HIDE DEF f, g
  <2>5. Reads(FlattenSeq(f), m, FlattenSeq(g))
    BY <2>1, <2>4, ReadsEach, Zenon
  <2> QED
    BY <2>2, <2>3, <2>5, Zenon DEF list
<1>8. ProfileRows(profile, dict) =
          p1 \o p2 \o p3 \o p4 \o p5 \o p6 \o p7 \o p8 \o p9 \o p10 \o p11 \o Blank \o p12
              \o samples
  BY Zenon DEF ProfileRows
<1> HIDE DEF p1, p2, p3, p4, p5, p6, p7, p8, p9, p10, p11, p12, samples
<1>9. Reads(p1 \o p2 \o p3 \o p4, m, <<>>)
  BY <1>4, QuietJoin, Zenon
<1>10. Reads(p1 \o p2 \o p3 \o p4 \o p5 \o p6 \o p7, m, <<>>)
  BY <1>4, <1>5, <1>9, QuietJoin, Zenon
<1>11. Reads(p1 \o p2 \o p3 \o p4 \o p5 \o p6 \o p7 \o p8 \o p9 \o p10, m, <<>>)
  BY <1>4, <1>6, <1>10, QuietJoin, Zenon
<1>12. Reads(p1 \o p2 \o p3 \o p4 \o p5 \o p6 \o p7 \o p8 \o p9 \o p10 \o p11 \o Blank \o p12,
             m, <<>>)
  BY <1>5, <1>6, <1>11, BlankQuiet, QuietJoin, Zenon
<1>13. Reads(p1 \o p2 \o p3 \o p4 \o p5 \o p6 \o p7 \o p8 \o p9 \o p10 \o p11 \o Blank \o p12
                 \o samples, m, FlatMap(h, profile.samples))
  BY <1>7, <1>12, QuietBefore, Zenon
<1> QED
  BY <1>8, <1>13, Zenon

LEMMA ScopeQuiet ==
    ASSUME NEW S, NEW m, Reader(m, S), NEW scope \in ScopeMessage
    PROVE  Reads(ScopeRows(scope), m, <<>>)
<1>1. scope.name \in Texts /\ scope.version \in Texts
  BY TextsAre, Zenon DEF ScopeMessage
<1>2. /\ "Scope" \in Literals /\ "name" \in Literals /\ "version" \in Literals
      /\ "title" \in QuietParts
  BY Zenon DEF Literals, QuietParts
<1>3. /\ Reads(Line("title", <<"Scope">>), m, <<>>)
      /\ Reads(Filled("name", scope.name), m, <<>>)
      /\ Reads(Filled("version", scope.version), m, <<>>)
  BY <1>1, <1>2, LiteralQuiet, FilledQuiet, Zenon
<1> QED
  BY <1>3, BlankQuiet, QuietJoin, Zenon DEF ScopeRows

LEMMA KeyValueQuiet ==
    ASSUME NEW S, NEW m, Reader(m, S), NEW attribute \in KeyValueMessage
    PROVE  Reads(Line("attribute", <<attribute.key, Word(attribute.value, <<>>)>>), m, <<>>)
<1>1. attribute.key \in Texts /\ attribute.value \in ValueMessage
  BY TextsAre, Zenon DEF KeyValueMessage
<1>2. <<>> \in Seq(DictionaryMessage)
  BY EmptySeq
<1>3. attribute.key \in Words /\ Word(attribute.value, <<>>) \in Words
  BY <1>1, <1>2, WordIsText, TextsAre, Zenon
<1>4. /\ <<attribute.key, Word(attribute.value, <<>>)>> \in Seq(Words)
      /\ "attribute" \in QuietParts
  BY <1>3 DEF QuietParts
<1> QED
  BY <1>4, ReadsQuiet, Zenon

(* The profiles of a scope. *)
LEMMA ScopeReads ==
    ASSUME NEW S, NEW m, Reader(m, S), NEW dict \in Seq(DictionaryMessage),
           NEW h \in [SampleMessage -> Seq(S)],
           \A s \in SampleMessage : Reads(SampleRows(s, dict), m, h[s]),
           NEW scope \in ScopeProfilesMessage
    PROVE  /\ SamplesOf(scope.profiles) \in Seq(SampleMessage)
           /\ Reads(Each(scope.scope, ScopeRows)
                        \o Each(scope.profiles, LAMBDA p : ProfileRows(p, dict)),
                    m, FlatMap(h, SamplesOf(scope.profiles)))
<1>1. scope.scope \in Seq(ScopeMessage) /\ scope.profiles \in Seq(ProfileMessage)
  BY Zenon DEF ScopeProfilesMessage
<1> DEFINE scopes == scope.scope
           profiles == scope.profiles
           head == [k \in DOMAIN scopes |-> ScopeRows(scopes[k])]
           f == [k \in DOMAIN profiles |-> ProfileRows(profiles[k], dict)]
           d == [k \in DOMAIN profiles |-> profiles[k].samples]
<1>2. /\ Each(scope.scope, ScopeRows) = FlattenSeq(head)
      /\ Each(scope.profiles, LAMBDA p : ProfileRows(p, dict)) = FlattenSeq(f)
  BY Zenon DEF Each
<1>3. SamplesOf(scope.profiles) = FlattenSeq(d)
  BY Zenon DEF SamplesOf
<1>4. scopes \in Seq(ScopeMessage) /\ profiles \in Seq(ProfileMessage)
  BY <1>1
<1> HIDE DEF scopes, profiles
<1>5. /\ \A k \in DOMAIN scopes : scopes[k] \in ScopeMessage
      /\ \A k \in DOMAIN profiles : profiles[k] \in ProfileMessage
  BY <1>4
<1>6. head = [k \in DOMAIN scopes |-> head[k]] /\ \A k \in DOMAIN scopes : Reads(head[k], m, <<>>)
  BY <1>5, ScopeQuiet, Zenon
<1>7. /\ f = [k \in DOMAIN profiles |-> f[k]] /\ d = [k \in DOMAIN profiles |-> d[k]]
      /\ \A k \in DOMAIN profiles :
             d[k] \in Seq(SampleMessage) /\ Reads(f[k], m, FlatMap(h, d[k]))
  <2>1. ASSUME NEW k \in DOMAIN profiles
        PROVE  /\ profiles[k].samples \in Seq(SampleMessage)
               /\ Reads(ProfileRows(profiles[k], dict), m, FlatMap(h, profiles[k].samples))
    BY <1>5, ProfileIs, ProfileReads, Zenon
  <2> QED
    BY <2>1, Zenon
<1> HIDE DEF head, f, d
<1>8. Reads(FlattenSeq(head), m, <<>>)
  BY <1>4, <1>6, QuietEach, Zenon
<1>9. FlattenSeq(d) \in Seq(SampleMessage) /\ Reads(FlattenSeq(f), m, FlatMap(h, FlattenSeq(d)))
  BY <1>4, <1>7, ReadsThrough, Zenon
<1>10. Reads(FlattenSeq(head) \o FlattenSeq(f), m, FlatMap(h, FlattenSeq(d)))
  BY <1>8, <1>9, QuietBefore, Zenon
<1> QED
  BY <1>2, <1>3, <1>9, <1>10, Zenon

(* The samples of a resource. *)
SamplesIn(resource) ==
    FlattenSeq([j \in DOMAIN resource.scopes |-> SamplesOf(resource.scopes[j].profiles)])

LEMMA ResourceReads ==
    ASSUME NEW S, NEW m, Reader(m, S), NEW dict \in Seq(DictionaryMessage),
           NEW h \in [SampleMessage -> Seq(S)],
           \A s \in SampleMessage : Reads(SampleRows(s, dict), m, h[s]),
           NEW resource \in ResourceMessage
    PROVE  /\ SamplesIn(resource) \in Seq(SampleMessage)
           /\ Reads(ResourceRows(resource, dict), m, FlatMap(h, SamplesIn(resource)))
<1>1. /\ resource.attributes \in Seq(KeyValueMessage) /\ resource.schema \in Texts
      /\ resource.scopes \in Seq(ScopeProfilesMessage)
  BY TextsAre, Zenon DEF ResourceMessage
<1> DEFINE attributes == resource.attributes
           scopes == resource.scopes
           Rows(s) == Each(s.scope, ScopeRows)
                          \o Each(s.profiles, LAMBDA p : ProfileRows(p, dict))
           head == [k \in DOMAIN attributes |->
                       Line("attribute", <<attributes[k].key, Word(attributes[k].value, <<>>)>>)]
           f == [k \in DOMAIN scopes |-> Rows(scopes[k])]
           d == [k \in DOMAIN scopes |-> SamplesOf(scopes[k].profiles)]
           p1 == Line("section", <<"Resource">>)
           p2 == Each(resource.attributes,
                      LAMBDA a : Line("attribute", <<a.key, Word(a.value, <<>>)>>))
           p3 == Filled("schema_url", resource.schema)
           p4 == Each(resource.scopes,
                      LAMBDA s : Each(s.scope, ScopeRows)
                                     \o Each(s.profiles, LAMBDA p : ProfileRows(p, dict)))
<1>2. p2 = FlattenSeq(head)
  BY Zenon DEF Each
<1>3. p4 = FlattenSeq(f)
  <2> HIDE DEF Rows
  <2>1. Each(scopes, Rows) = FlattenSeq([k \in DOMAIN scopes |-> Rows(scopes[k])])
    BY Zenon DEF Each
  <2> QED
    BY <2>1, Zenon DEF Rows
<1>4. SamplesIn(resource) = FlattenSeq(d)
  BY Zenon DEF SamplesIn
<1>5. attributes \in Seq(KeyValueMessage) /\ scopes \in Seq(ScopeProfilesMessage)
  BY <1>1
<1>6. ResourceRows(resource, dict) = p1 \o p2 \o p3 \o Blank \o p4
  BY Zenon DEF ResourceRows
<1>7. "Resource" \in Literals /\ "schema_url" \in Literals /\ "section" \in QuietParts
  BY Zenon DEF Literals, QuietParts
<1>8. Reads(p1, m, <<>>) /\ Reads(p3, m, <<>>)
  BY <1>1, <1>7, LiteralQuiet, FilledQuiet, Zenon
<1> HIDE DEF attributes, scopes, p1, p2, p3, p4
<1>9. /\ \A k \in DOMAIN attributes : attributes[k] \in KeyValueMessage
      /\ \A k \in DOMAIN scopes : scopes[k] \in ScopeProfilesMessage
  BY <1>5
<1>10. /\ head = [k \in DOMAIN attributes |-> head[k]]
       /\ \A k \in DOMAIN attributes : Reads(head[k], m, <<>>)
  BY <1>9, KeyValueQuiet, Zenon
<1>11. /\ f = [k \in DOMAIN scopes |-> f[k]] /\ d = [k \in DOMAIN scopes |-> d[k]]
       /\ \A k \in DOMAIN scopes :
              d[k] \in Seq(SampleMessage) /\ Reads(f[k], m, FlatMap(h, d[k]))
  <2>1. ASSUME NEW s \in ScopeProfilesMessage
        PROVE  /\ SamplesOf(s.profiles) \in Seq(SampleMessage)
               /\ Reads(Rows(s), m, FlatMap(h, SamplesOf(s.profiles)))
    BY ScopeReads, Zenon
  <2> HIDE DEF Rows
  <2> QED
    BY <1>9, <2>1, Zenon
<1> HIDE DEF head, f, d
<1>12. Reads(FlattenSeq(head), m, <<>>)
  BY <1>5, <1>10, QuietEach, Zenon
<1>13. FlattenSeq(d) \in Seq(SampleMessage) /\ Reads(FlattenSeq(f), m, FlatMap(h, FlattenSeq(d)))
  BY <1>5, <1>11, ReadsThrough, Zenon
<1>14. Reads(p1 \o p2 \o p3 \o Blank, m, <<>>)
  BY <1>2, <1>8, <1>12, BlankQuiet, QuietJoin, Zenon
<1>15. Reads(p1 \o p2 \o p3 \o Blank \o p4, m, FlatMap(h, FlattenSeq(d)))
  BY <1>3, <1>13, <1>14, QuietBefore, Zenon
<1> QED
  BY <1>4, <1>6, <1>13, <1>15, Zenon

(* The resources of a request say what the samples say. *)
ResourcesRows(request) ==
    Each(request.resources, LAMBDA r : ResourceRows(r, request.dictionary))

LEMMA ResourcesRead ==
    ASSUME NEW S, NEW m, Reader(m, S), NEW request \in RequestMessage,
           NEW h \in [SampleMessage -> Seq(S)],
           \A s \in SampleMessage : Reads(SampleRows(s, request.dictionary), m, h[s])
    PROVE  /\ AllSamples(request) \in Seq(SampleMessage)
           /\ Reads(ResourcesRows(request), m, FlatMap(h, AllSamples(request)))
<1>1. /\ request.dictionary \in Seq(DictionaryMessage)
      /\ request.resources \in Seq(ResourceMessage)
  BY Zenon DEF RequestMessage
<1> DEFINE dict == request.dictionary
           list == request.resources
           f == [k \in DOMAIN list |-> ResourceRows(list[k], dict)]
           d == [k \in DOMAIN list |-> SamplesIn(list[k])]
<1>2. ResourcesRows(request) = FlattenSeq(f)
  BY Zenon DEF Each, ResourcesRows
<1>3. AllSamples(request) = FlattenSeq(d)
  BY Zenon DEF AllSamples, SamplesIn
<1>4. dict \in Seq(DictionaryMessage) /\ list \in Seq(ResourceMessage)
  BY <1>1
<1>5. \A s \in SampleMessage : Reads(SampleRows(s, dict), m, h[s])
  OBVIOUS
<1> HIDE DEF dict, list
<1>6. \A k \in DOMAIN list : list[k] \in ResourceMessage
  BY <1>4
<1>7. /\ f = [k \in DOMAIN list |-> f[k]] /\ d = [k \in DOMAIN list |-> d[k]]
      /\ \A k \in DOMAIN list :
             d[k] \in Seq(SampleMessage) /\ Reads(f[k], m, FlatMap(h, d[k]))
  BY <1>4, <1>5, <1>6, ResourceReads, Zenon
<1> HIDE DEF f, d
<1>8. FlattenSeq(d) \in Seq(SampleMessage) /\ Reads(FlattenSeq(f), m, FlatMap(h, FlattenSeq(d)))
  BY <1>4, <1>7, ReadsThrough, Zenon
<1> QED
  BY <1>2, <1>3, <1>8, Zenon

(* A page says what its tables say, and then what the samples say.          *)
LEMMA DocumentIs ==
    ASSUME NEW request
    PROVE  Document(request) =
               LET rows == Each(request.dictionary, DictionaryRows) \o ResourcesRows(request)
               IN IF rows = <<>> THEN Line("empty", <<>>) ELSE rows
BY Zenon DEF Document, ResourcesRows

LEMMA DocumentReads ==
    ASSUME NEW S, NEW m, Reader(m, S), NEW request \in RequestMessage,
           NEW h \in [SampleMessage -> Seq(S)],
           \A s \in SampleMessage : Reads(SampleRows(s, request.dictionary), m, h[s]),
           NEW t, Reads(Each(request.dictionary, DictionaryRows), m, t)
    PROVE  /\ AllSamples(request) \in Seq(SampleMessage)
           /\ Reads(Document(request), m, t \o FlatMap(h, AllSamples(request)))
<1> DEFINE rows == Each(request.dictionary, DictionaryRows) \o ResourcesRows(request)
           out == t \o FlatMap(h, AllSamples(request))
<1>1. /\ AllSamples(request) \in Seq(SampleMessage)
      /\ Reads(ResourcesRows(request), m, FlatMap(h, AllSamples(request)))
  BY ResourcesRead, Zenon
<1>2. Reads(rows, m, out)
  BY <1>1, ReadsJoin, Zenon
<1>3. Document(request) = IF rows = <<>> THEN Line("empty", <<>>) ELSE rows
  BY DocumentIs, Zenon
<1> HIDE DEF out, rows
<1>4. CASE rows = <<>>
  <2>1. "empty" \in QuietParts /\ "Resource" \in Literals
    BY Zenon DEF QuietParts, Literals
  <2>2. Reads(Line("empty", <<>>), m, <<>>)
    BY <2>1, LiteralQuiet, Zenon
  <2>3. out = <<>>
    BY <1>2, <1>4, FlatMapNothing, Zenon DEF Reads
  <2> QED
    BY <1>1, <1>3, <1>4, <2>2, <2>3, Zenon DEF out
<1>5. CASE rows # <<>>
  BY <1>1, <1>2, <1>3, <1>5, Zenon DEF out
<1> QED
  BY <1>4, <1>5, Zenon

----------------------------------------------------------------------------
(* The rows of the strings, of a stack and of a sample.                     *)
StringRow == {Row("string", <<s>>) : s \in STRING}

LEMMA RowsOfStrings ==
    ASSUME NEW strings \in Seq(STRING)
    PROVE  FilledRows(strings) \in Seq(StringRow)
<1> DEFINE f == [k \in DOMAIN strings |->
                    IF strings[k] = "" THEN <<>> ELSE Line("string", <<strings[k]>>)]
<1>1. Len(strings) \in Nat /\ DOMAIN strings = 1 .. Len(strings)
      /\ \A k \in DOMAIN strings : strings[k] \in STRING
  OBVIOUS
<1>2. FilledRows(strings) = FlattenSeq(f)
  BY Zenon DEF FilledRows, Each
<1>3. \A s \in STRING : Line("string", <<s>>) \in Seq(StringRow)
  <2>1. \A s \in STRING : Row("string", <<s>>) \in StringRow
    BY Zenon DEF StringRow
  <2>2. \A r \in StringRow : <<r>> \in Seq(StringRow)
    OBVIOUS
  <2> QED
    BY <2>1, <2>2, Zenon DEF Line
<1>4. f \in [1 .. Len(strings) -> Seq(StringRow)]
  BY <1>1, <1>3, EmptySeq, Zenon
<1> QED
  BY <1>1, <1>2, <1>4, FlattenIsSeq, Zenon

LEMMA StringsQuiet ==
    ASSUME NEW S, NEW m, Reader(m, S), NEW rows \in Seq(StringRow)
    PROVE  Reads(rows, m, <<>>)
<1>1. \A s \in STRING : Row("string", <<s>>) \in DOMAIN m /\ m[Row("string", <<s>>)] = <<>>
  <2>1. "string" \in QuietParts /\ \A w \in Words : <<w>> \in Seq(Words)
    BY DEF QuietParts
  <2> QED
    BY <2>1, TextsAre, Zenon DEF Reader
<1>2. \A r \in StringRow : r \in DOMAIN m /\ m[r] = <<>>
  BY <1>1, Zenon DEF StringRow
<1>3. PICK R : R = DOMAIN m
  OBVIOUS
<1>4. StringRow \subseteq R /\ \A k \in DOMAIN rows : rows[k] \in StringRow
  BY <1>2, <1>3
<1>5. rows \in Seq(R) /\ \A k \in DOMAIN rows : m[rows[k]] = <<>>
  BY <1>2, <1>4
<1>6. FlatMap(m, rows) = <<>>
  BY <1>5, FlatMapQuiet, Zenon
<1> QED
  BY <1>3, <1>5, <1>6, Zenon DEF Reads

(* What the table of the strings says when it is cut. *)
CutSays(strings, m) ==
    IF Len(FilledRows(strings)) < MaxStrings THEN <<>> ELSE m[Row("truncated", <<>>)]

LEMMA StringRowsRead ==
    ASSUME NEW S, NEW m, Reader(m, S), NEW strings \in Seq(STRING),
           Row("truncated", <<>>) \in DOMAIN m
    PROVE  Reads(StringRows(strings), m, CutSays(strings, m))
<1> DEFINE rows == FilledRows(strings)
           cut == SubSeq(rows, 1, MaxStrings)
<1>1. rows \in Seq(StringRow) /\ Len(rows) \in Nat
  BY RowsOfStrings, LenProperties, Zenon
<1>2. Reads(Line("truncated", <<>>), m, m[Row("truncated", <<>>)])
  BY ReadsRow, Zenon DEF Line
<1>3. Reads(rows, m, <<>>)
  BY <1>1, StringsQuiet, Zenon
<1>4. CASE Len(rows) < MaxStrings
  <2>1. StringRows(strings) = rows
    BY <1>4, Zenon DEF StringRows
  <2> QED
    BY <1>3, <1>4, <2>1, Zenon DEF CutSays
<1>5. CASE ~(Len(rows) < MaxStrings)
  <2>1. cut \in Seq(StringRow)
    <3>1. MaxStrings \in 0 .. Len(rows)
      BY <1>1, <1>5, DocumentAssumption
    <3> QED
      BY <1>1, <3>1, SubSeqProperties
  <2>2. StringRows(strings) = cut \o Line("truncated", <<>>)
    BY <1>5, Zenon DEF StringRows
  <2>3. Reads(cut, m, <<>>)
    BY <2>1, StringsQuiet, Zenon
  <2>4. Reads(cut \o Line("truncated", <<>>), m, m[Row("truncated", <<>>)])
    BY <1>2, <2>3, QuietBefore, Zenon
  <2> QED
    BY <1>5, <2>2, <2>4, Zenon DEF CutSays
<1> QED
  BY <1>4, <1>5, Zenon

LEMMA StringTableReads ==
    ASSUME NEW S, NEW m, Reader(m, S), NEW strings \in Seq(STRING),
           Row("truncated", <<>>) \in DOMAIN m
    PROVE  Reads(Table("String Table", strings, StringRows(strings)), m,
                 IF Len(strings) > 1 /\ Len(FilledRows(strings)) >= MaxStrings
                 THEN m[Row("truncated", <<>>)] ELSE <<>>)
<1> DEFINE rows == FilledRows(strings)
<1>1. Len(rows) \in Nat
  BY RowsOfStrings, LenProperties, Zenon
<1>2. Reads(StringRows(strings), m, CutSays(strings, m))
  BY StringRowsRead, Zenon
<1>3. "String Table" \in Literals
  BY Zenon DEF Literals
<1>4. Reads(Table("String Table", strings, StringRows(strings)), m,
            IF Len(strings) > 1 THEN CutSays(strings, m) ELSE <<>>)
  BY <1>2, <1>3, TableReads, Zenon
<1>5. (IF Len(strings) > 1 THEN CutSays(strings, m) ELSE <<>>)
          = IF Len(strings) > 1 /\ Len(FilledRows(strings)) >= MaxStrings
            THEN m[Row("truncated", <<>>)] ELSE <<>>
  <2>1. (Len(rows) >= MaxStrings) <=> ~(Len(rows) < MaxStrings)
    BY <1>1, DocumentAssumption
  <2> HIDE DEF rows
  <2> QED
    BY <2>1, Zenon DEF rows, CutSays
<1> QED
  BY <1>4, <1>5, Zenon

(* The rows of a stack, root first, where o is what the row of a reference  *)
(* says.                                                                    *)
RootFirst(sample, dict) ==
    IF HasStack(sample, dict) THEN Reverse(At(sample.stack, dict.stacks)) ELSE <<>>

LEMMA RootFirstIs ==
    ASSUME NEW dict \in DictionaryMessage, NEW sample \in SampleMessage
    PROVE  RootFirst(sample, dict) \in Seq(Int)
<1>1. sample.stack \in Int /\ dict.stacks \in Seq(Seq(Int))
  BY TablesAre, Zenon DEF SampleMessage
<1>2. CASE HasStack(sample, dict)
  <2>1. At(sample.stack, dict.stacks) \in Seq(Int)
    BY <1>1, <1>2, AtIs, Zenon DEF HasStack
  <2>2. \A s \in Seq(Int) : Reverse(s) \in Seq(Int)
    BY DEF Reverse
  <2> QED
    BY <1>2, <2>1, <2>2, Zenon DEF RootFirst
<1>3. CASE ~HasStack(sample, dict)
  BY <1>3, EmptySeq, Zenon DEF RootFirst
<1> QED
  BY <1>2, <1>3

LEMMA StackReads ==
    ASSUME NEW S, NEW m, Reader(m, S), NEW dict \in DictionaryMessage,
           NEW sample \in SampleMessage, NEW o,
           \A i \in Int : Reads(LocationRows(i, dict), m, o[i])
    PROVE  Reads(StackRows(sample, dict), m, FlatMap(o, RootFirst(sample, dict)))
<1> DEFINE list == RootFirst(sample, dict)
           f == [k \in DOMAIN list |-> LocationRows(list[k], dict)]
           g == [k \in DOMAIN list |-> o[list[k]]]
<1>1. list \in Seq(Int)
  BY RootFirstIs, Zenon
<1>2. StackRows(sample, dict) = FlattenSeq(f)
  <2>1. sample.stack \in Int /\ dict.stacks \in Seq(Seq(Int))
    BY TablesAre, Zenon DEF SampleMessage
  <2>2. (sample.stack > 0 /\ sample.stack < Len(dict.stacks)) <=> HasStack(sample, dict)
    BY <2>1 DEF HasStack, ListedAt
  <2>3. CASE HasStack(sample, dict)
    <3>1. list = Reverse(At(sample.stack, dict.stacks))
      BY <2>3, Zenon DEF RootFirst
    <3>2. StackRows(sample, dict) = Each(Reverse(At(sample.stack, dict.stacks)),
                                         LAMBDA i : LocationRows(i, dict))
      BY <2>2, <2>3, Zenon DEF StackRows
    <3> HIDE DEF list
    <3>3. Each(list, LAMBDA i : LocationRows(i, dict)) = FlattenSeq(f)
      BY Zenon DEF Each
    <3> QED
      BY <3>1, <3>2, <3>3, Zenon
  <2>4. CASE ~HasStack(sample, dict)
    <3>1. list = <<>> /\ StackRows(sample, dict) = <<>>
      BY <2>2, <2>4, Zenon DEF RootFirst, StackRows
    <3> HIDE DEF list
    <3>2. f \in [1 .. 0 -> {<<>>}]
      BY <3>1
    <3> QED
      BY <3>1, <3>2, FlattenNone, Zenon
  <2> QED
    BY <2>3, <2>4
<1> HIDE DEF list
<1>3. \A k \in DOMAIN list : list[k] \in Int
  BY <1>1
<1>4. /\ f = [k \in DOMAIN list |-> f[k]] /\ g = [k \in DOMAIN list |-> g[k]]
      /\ \A k \in DOMAIN list : Reads(f[k], m, g[k])
  BY <1>3, Zenon
<1> HIDE DEF f, g
<1>5. Reads(FlattenSeq(f), m, FlattenSeq(g))
  BY <1>1, <1>4, ReadsEach, Zenon
<1> QED
  BY <1>2, <1>5, Zenon DEF g, list, FlatMap

(* The rows of a sample, where w is what its stack says in each dictionary. *)
LEMMA SampleReads ==
    ASSUME NEW S, NEW m, Reader(m, S), NEW dict \in Seq(DictionaryMessage),
           NEW sample \in SampleMessage, Row("sample", sample.values) \in DOMAIN m,
           NEW w, w = [k \in DOMAIN dict |-> w[k]],
           \A k \in DOMAIN dict : Reads(StackRows(sample, dict[k]), m, w[k])
    PROVE  Reads(SampleRows(sample, dict), m,
                 m[Row("sample", sample.values)] \o FlattenSeq(w))
<1> DEFINE f == [k \in DOMAIN dict |->
                    AttributeRows(sample.attributes, dict[k]) \o StackRows(sample, dict[k])]
           first == Line("sample", sample.values)
<1>1. sample.attributes \in Seq(Int)
  BY Zenon DEF SampleMessage
<1>2. \A k \in DOMAIN dict : dict[k] \in DictionaryMessage
  OBVIOUS
<1>3. Each(dict, LAMBDA d : AttributeRows(sample.attributes, d) \o StackRows(sample, d))
          = FlattenSeq(f)
  BY Zenon DEF Each
<1>4. f = [k \in DOMAIN dict |-> f[k]] /\ \A k \in DOMAIN dict : Reads(f[k], m, w[k])
  <2>1. ASSUME NEW k \in DOMAIN dict
        PROVE  Reads(AttributeRows(sample.attributes, dict[k]) \o StackRows(sample, dict[k]),
                     m, w[k])
    BY <1>1, <1>2, AttributesQuiet, QuietBefore, Zenon
  <2> QED
    BY <2>1, Zenon
<1>5. SampleRows(sample, dict) = first \o FlattenSeq(f) \o Blank
  BY <1>3, Zenon DEF SampleRows
<1>6. Reads(first, m, m[Row("sample", sample.values)])
  BY ReadsRow, Zenon DEF Line
<1> HIDE DEF f, first
<1>7. Reads(FlattenSeq(f), m, FlattenSeq(w))
  BY <1>4, ReadsEach, Zenon
<1>8. Reads(first \o FlattenSeq(f), m, m[Row("sample", sample.values)] \o FlattenSeq(w))
  BY <1>6, <1>7, ReadsJoin, Zenon
<1>9. Reads(first \o FlattenSeq(f) \o Blank, m,
            m[Row("sample", sample.values)] \o FlattenSeq(w))
  BY <1>8, BlankQuiet, QuietAfter, Zenon
<1> QED
  BY <1>5, <1>9, Zenon

----------------------------------------------------------------------------
(* The words of the frames of a location. *)
Parts == QuietParts \union {"sample", "frame", "invalid", "truncated"}

PageRow == [part : Parts, words : Seq(Words)]

LEMMA RowIs ==
    ASSUME NEW part \in Parts, NEW words \in Seq(Words)
    PROVE  /\ Row(part, words) \in PageRow
           /\ Row(part, words).part = part /\ Row(part, words).words = words
<1>1. PICK W : W = Seq(Words)
  OBVIOUS
<1>2. Row(part, words) \in [part : Parts, words : W]
  BY <1>1 DEF Row
<1> QED
  BY <1>1, <1>2, Zenon DEF PageRow, Row

LEMMA LocationIs ==
    ASSUME NEW location \in LocationMessage
    PROVE  /\ location.mapping \in Int /\ location.address \in STRING
           /\ location.lines \in Seq(Int) /\ location.attributes \in Seq(Int)
BY Zenon DEF LocationMessage

(* Min of places is one of them. *)
LEMMA MinIsOf ==
    ASSUME NEW N \in Nat, NEW S \in SUBSET (1 .. N), S # {}
    PROVE  Min(S) \in S
<1>1. \E x \in S : \A y \in S : x <= y
  <2>1. 1 \in Int /\ N \in Int
    OBVIOUS
  <2> QED
    BY <2>1, LeastOfInterval, Zenon
<1> QED
  BY <1>1 DEF Min

LEMMA FrameInfoIsWord ==
    ASSUME NEW dict \in DictionaryMessage, NEW location \in LocationMessage
    PROVE  FrameInfo(location, dict) \in Words
<1> DEFINE indices == location.attributes
           types == {k \in DOMAIN indices :
                       \E a \in ToSet(GetAttr(indices[k], dict)) :
                           /\ Str(a.key, dict) = "profile.frame.type"
                           /\ a.value.kind = "string"}
           raw == GetAttr(indices[Min(types)], dict)[1].value.text
           known == [native |-> "Native", kernel |-> "Kernel", jvm |-> "JVM",
                     cpython |-> "Python", php |-> "PHP", phpjit |-> "PHP",
                     ruby |-> "Ruby", perl |-> "Perl", v8js |-> "JS",
                     dotnet |-> ".NET", beam |-> "Beam", go |-> "Go"]
<1>1. indices \in Seq(Int) /\ Len(indices) \in Nat /\ DOMAIN indices = 1 .. Len(indices)
  BY LocationIs
<1>2. FrameInfo(location, dict) = IF types = {} THEN "Unknown"
                                  ELSE IF raw \in DOMAIN known THEN known[raw] ELSE raw
  BY Zenon DEF FrameInfo
<1>3. "Unknown" \in Literals /\ \A s \in DOMAIN known : known[s] \in Literals
  <2> DEFINE tags == {"native", "kernel", "jvm", "cpython", "php", "phpjit", "ruby",
                      "perl", "v8js", "dotnet", "beam", "go"}
  <2>1. DOMAIN known = tags
    OBVIOUS
  <2>2. \A s \in tags : known[s] \in
            {"Native", "Kernel", "JVM", "Python", "PHP", "Ruby", "Perl", "JS", ".NET",
             "Beam", "Go"}
    OBVIOUS
  <2> HIDE DEF known, tags
  <2> QED
    BY <2>1, <2>2, Zenon DEF Literals
<1>4. CASE types # {}
  <2>1. types \in SUBSET (1 .. Len(indices))
    BY <1>1
  <2> HIDE DEF indices
  <2>2. Min(types) \in types
    <3> HIDE DEF types
    <3> QED
      BY <1>1, <1>4, <2>1, MinIsOf
  <2>3. PICK i \in Int : i = indices[Min(types)] /\ GetAttr(i, dict) # <<>>
    <3>1. indices[Min(types)] \in Int
      BY <1>1, <2>2
    <3>2. ToSet(GetAttr(indices[Min(types)], dict)) # {}
      BY <2>2, Zenon
    <3>3. ToSet(<<>>) = {}
      BY DEF ToSet
    <3> QED
      BY <3>1, <3>2, <3>3, Zenon
  <2>4. GetAttr(i, dict) \in Seq(AttributeMessage)
    BY GetAttrIs, Zenon
  <2>5. GetAttr(i, dict)[1] \in AttributeMessage
    BY <2>3, <2>4
  <2>6. GetAttr(i, dict)[1].value \in ValueMessage
    BY <2>5, Zenon DEF AttributeMessage
  <2>7. GetAttr(i, dict)[1].value.text \in STRING
    BY <2>6, Zenon DEF ValueMessage
  <2>8. raw \in Words
    BY <2>3, <2>7, TextsAre, Zenon
  <2> HIDE DEF types, raw, known
  <2> QED
    BY <1>2, <1>3, <1>4, <2>8, TextsAre, Zenon
<1>5. CASE types = {}
  BY <1>2, <1>3, <1>5, TextsAre, Zenon
<1> QED
  BY <1>4, <1>5

LEMMA NamesAreWords ==
    ASSUME NEW dict \in DictionaryMessage
    PROVE  /\ \A i \in Int : FuncName(i, dict) \in Words
           /\ \A location \in LocationMessage : MappingName(location, dict) \in Words
<1>1. Unknown \in Words
  BY TextsAre, Zenon DEF Literals
<1>2. dict.functions \in Seq(FunctionMessage) /\ dict.mappings \in Seq(MappingMessage)
  BY TablesAre, Zenon
<1>3. ASSUME NEW i \in Int PROVE FuncName(i, dict) \in Words
  <2>1. CASE i > 0 /\ ListedAt(i, dict.functions)
    <3>1. At(i, dict.functions) \in FunctionMessage
      BY <1>2, <2>1, AtIs, Zenon
    <3>2. At(i, dict.functions).name \in Int
      BY <3>1, Zenon DEF FunctionMessage
    <3>3. Str(At(i, dict.functions).name, dict) \in Words
      BY <3>2, StrIsText, TextsAre, Zenon
    <3> QED
      BY <1>1, <2>1, <3>3, Zenon DEF FuncName
  <2> QED
    BY <1>1, <2>1, Zenon DEF FuncName
<1>4. ASSUME NEW location \in LocationMessage PROVE MappingName(location, dict) \in Words
  <2>1. CASE location.mapping > 0 /\ ListedAt(location.mapping, dict.mappings)
    <3>1. At(location.mapping, dict.mappings) \in MappingMessage
      BY <1>2, <2>1, AtIs, LocationIs, Zenon
    <3>2. At(location.mapping, dict.mappings).filename \in Int
      BY <3>1, Zenon DEF MappingMessage
    <3>3. Str(At(location.mapping, dict.mappings).filename, dict) \in Texts
      BY <3>2, StrIsText, Zenon
    <3>4. BaseOf[Str(At(location.mapping, dict.mappings).filename, dict)] \in Words
      BY <3>3, Zenon DEF Words
    <3> QED
      BY <1>1, <2>1, <3>4, Zenon DEF MappingName
  <2> QED
    BY <1>1, <2>1, Zenon DEF MappingName
<1> QED
  BY <1>3, <1>4

(* The words of the rows of a location. *)
LEMMA FrameWords ==
    ASSUME NEW dict \in DictionaryMessage, NEW location \in LocationMessage
    PROVE  /\ <<MappingName(location, dict), "+", location.address,
                FrameInfo(location, dict)>> \in Seq(Words)
           /\ \A k \in DOMAIN location.lines :
                  <<FuncName(location.lines[k], dict), FrameInfo(location, dict)>>
                      \o (IF k > 1 THEN <<"inline">> ELSE <<>>) \in Seq(Words)
<1>1. /\ FrameInfo(location, dict) \in Words /\ MappingName(location, dict) \in Words
      /\ location.address \in Words /\ "+" \in Words /\ "inline" \in Words
  <2>1. "+" \in Literals /\ "inline" \in Literals /\ location.address \in STRING
    BY LocationIs, Zenon DEF Literals
  <2> QED
    BY <2>1, FrameInfoIsWord, NamesAreWords, TextsAre, Zenon
<1>2. \A k \in DOMAIN location.lines : FuncName(location.lines[k], dict) \in Words
  <2>1. \A k \in DOMAIN location.lines : location.lines[k] \in Int
    BY LocationIs
  <2> QED
    BY <2>1, NamesAreWords, Zenon
<1>3. ASSUME NEW a \in Words, NEW b \in Words, NEW k
      PROVE  <<a, b>> \o (IF k > 1 THEN <<"inline">> ELSE <<>>) \in Seq(Words)
  <2>1. <<a, b>> \in Seq(Words) /\ <<"inline">> \in Seq(Words) /\ <<>> \in Seq(Words)
    BY <1>1
  <2>2. (IF k > 1 THEN <<"inline">> ELSE <<>>) \in Seq(Words)
    BY <2>1, Zenon
  <2> QED
    BY <2>1, <2>2, ConcatProperties, Zenon
<1>4. \A a, b, c, d \in Words : <<a, b, c, d>> \in Seq(Words)
  OBVIOUS
<1> QED
  BY <1>1, <1>2, <1>3, <1>4, Zenon

----------------------------------------------------------------------------
(* Every filled string has its row, and there are no more rows than that.   *)
FilledAt(strings) == {k \in DOMAIN strings : strings[k] # ""}

LEMMA RowForEach ==
    ASSUME NEW strings \in Seq(STRING)
    PROVE  /\ Len(FilledRows(strings)) = Cardinality(FilledAt(strings))
           /\ \A k \in FilledAt(strings) :
                  HasAt(FilledRows(strings), Cardinality(FilledAt(strings) \intersect (1 .. k)),
                        Row("string", <<strings[k]>>))
<1> DEFINE P == FilledAt(strings)
           row == [k \in DOMAIN strings |-> Row("string", <<strings[k]>>)]
           f == [k \in DOMAIN strings |->
                    IF strings[k] = "" THEN <<>> ELSE Line("string", <<strings[k]>>)]
           S == {row[k] : k \in DOMAIN strings}
<1>1. PICK N \in Nat : DOMAIN strings = 1 .. N
  <2>1. Len(strings) \in Nat /\ DOMAIN strings = 1 .. Len(strings)
    BY LenProperties
  <2> QED
    BY <2>1, Zenon
<1>2. FilledRows(strings) = FlattenSeq(f)
  BY Zenon DEF FilledRows, Each
<1>3. f = [k \in 1 .. N |-> IF k \in P THEN <<row[k]>> ELSE <<>>]
  <2>1. ASSUME NEW k \in 1 .. N
        PROVE  (IF strings[k] = "" THEN <<>> ELSE Line("string", <<strings[k]>>))
                   = IF k \in P THEN <<row[k]>> ELSE <<>>
    BY <1>1, Zenon DEF FilledAt, Line
  <2> QED
    BY <1>1, <2>1, Zenon
<1>4. P \in SUBSET (1 .. N) /\ row \in [1 .. N -> S]
  BY <1>1, Zenon DEF FilledAt
<1>5. \A k \in P : row[k] = Row("string", <<strings[k]>>)
  BY Zenon DEF FilledAt
<1> HIDE DEF f, row, S, P
<1>6. HasAll(FlattenSeq(f), P, row)
  BY <1>3, <1>4, FlattenSome, Zenon
<1> QED
  BY <1>2, <1>5, <1>6, Zenon DEF P, HasAll

LEMMA ShortIs ==
    ASSUME NEW S, NEW s \in Seq(S), ~(Len(s) > 1), NEW k \in DOMAIN s
    PROVE  k = 1 /\ s # <<>>
OBVIOUS

LEMMA MaxStringsIs == ~(0 >= MaxStrings)
BY DocumentAssumption

(* The table is cut when there are too many strings, and then there is more *)
(* than the null string.                                                    *)
LEMMA CutIsTooMany ==
    ASSUME NEW strings \in Seq(STRING), strings = <<>> \/ strings[1] = ""
    PROVE  /\ Len(FilledRows(strings)) \in Nat
           /\ TooMany(strings) <=>
                  Len(strings) > 1 /\ Len(FilledRows(strings)) >= MaxStrings
           /\ Len(strings) > 1 \/ FilledAt(strings) = {}
<1>1. Len(FilledRows(strings)) = Cardinality(FilledAt(strings))
  BY RowForEach, Zenon
<1>2. TooMany(strings) <=> Len(FilledRows(strings)) >= MaxStrings
  BY <1>1, Zenon DEF TooMany, FilledAt
<1>3. Len(FilledRows(strings)) \in Nat
  BY RowsOfStrings, LenProperties, Zenon
<1>4. ASSUME ~(Len(strings) > 1) PROVE FilledAt(strings) = {}
  <2>1. \A k \in DOMAIN strings : k = 1 /\ strings # <<>>
    BY <1>4, ShortIs, Zenon
  <2> QED
    BY <2>1, Zenon DEF FilledAt
<1>5. FilledAt(strings) = {} => ~(Len(FilledRows(strings)) >= MaxStrings)
  <2>1. Cardinality({}) = 0
    BY FS_EmptySet, Zenon
  <2> QED
    BY <1>1, <2>1, MaxStringsIs, Zenon
<1> QED
  BY <1>2, <1>3, <1>4, <1>5, Zenon

----------------------------------------------------------------------------
(* What a page is read for: its notices. *)
Notices == [row \in PageRow |-> NoticeOn(row)]

LEMMA NoticesReader ==
    /\ Reader(Notices, Parts)
    /\ \A words \in Seq(Words) :
           /\ \A part \in {"truncated", "sample", "invalid"} :
                  Row(part, words) \in DOMAIN Notices /\ Notices[Row(part, words)] = <<part>>
           /\ Row("frame", words) \in DOMAIN Notices /\ Notices[Row("frame", words)] = <<>>
<1>1. /\ QuietParts \subseteq Parts /\ {"truncated", "sample", "invalid"} \subseteq Parts
      /\ "frame" \in Parts /\ "frame" \notin {"truncated", "sample", "invalid"}
      /\ \A part \in QuietParts : part \notin {"truncated", "sample", "invalid"}
  BY DEF Parts, QuietParts
<1>2. ASSUME NEW part \in Parts, NEW words \in Seq(Words)
      PROVE  /\ Row(part, words) \in DOMAIN Notices
             /\ Notices[Row(part, words)] =
                    IF part \in {"truncated", "sample", "invalid"} THEN <<part>> ELSE <<>>
  <2>1. Row(part, words) \in PageRow /\ Row(part, words).part = part
    BY RowIs, Zenon
  <2> QED
    BY <2>1, Zenon DEF Notices, NoticeOn
<1>3. Notices \in [DOMAIN Notices -> Seq(Parts)]
  <2>1. \A row \in PageRow : row.part \in Parts
    BY Zenon DEF PageRow
  <2>2. \A part \in Parts : <<part>> \in Seq(Parts)
    OBVIOUS
  <2>3. \A row \in PageRow : NoticeOn(row) \in Seq(Parts)
    BY <2>1, <2>2, EmptySeq, Zenon DEF NoticeOn
  <2> QED
    BY <2>3, Zenon DEF Notices
<1>4. Reader(Notices, Parts)
  BY <1>1, <1>2, <1>3, Zenon DEF Reader
<1> QED
  BY <1>1, <1>2, <1>4, Zenon

(* One for each reference to nothing. *)
NoticeFor(i, dict) ==
    IF i = 0 \/ ~ListedAt(i, dict.locations) THEN <<"invalid">> ELSE <<>>

LEMMA LocationNotices ==
    ASSUME NEW dict \in DictionaryMessage, NEW i \in Int
    PROVE  Reads(LocationRows(i, dict), Notices, NoticeFor(i, dict))
<1>1. (i > 0 /\ ListedAt(i, dict.locations)) <=> ~(i = 0 \/ ~ListedAt(i, dict.locations))
  BY DEF ListedAt
<1>2. CASE ~(i > 0 /\ ListedAt(i, dict.locations))
  <2>1. <<>> \in Seq(Words) /\ "invalid" \in {"truncated", "sample", "invalid"}
    BY EmptySeq
  <2>2. /\ Row("invalid", <<>>) \in DOMAIN Notices
        /\ Notices[Row("invalid", <<>>)] = <<"invalid">>
    BY <2>1, NoticesReader, Zenon
  <2>3. Reads(<<Row("invalid", <<>>)>>, Notices, Notices[Row("invalid", <<>>)])
    BY <2>2, NoticesReader, ReadsRow, Zenon
  <2>4. LocationRows(i, dict) = <<Row("invalid", <<>>)>>
    BY <1>2, Zenon DEF LocationRows, Line
  <2> QED
    BY <1>1, <1>2, <2>2, <2>3, <2>4, Zenon DEF NoticeFor
<1>3. CASE i > 0 /\ ListedAt(i, dict.locations)
  <2> DEFINE location == At(i, dict.locations)
             words == <<MappingName(location, dict), "+", location.address,
                        FrameInfo(location, dict)>>
             wordsOf(k) == <<FuncName(location.lines[k], dict), FrameInfo(location, dict)>>
                               \o (IF k > 1 THEN <<"inline">> ELSE <<>>)
             rows == [k \in DOMAIN location.lines |-> LineRow(location, k, dict)]
  <2>1. location \in LocationMessage
    BY <1>3, TablesAre, AtIs, Zenon
  <2>2. words \in Seq(Words) /\ \A k \in DOMAIN location.lines : wordsOf(k) \in Seq(Words)
    BY <2>1, FrameWords, Zenon
  <2>3. LocationRows(i, dict) = IF location.lines = <<>> THEN <<Row("frame", words)>> ELSE rows
    BY <1>3, Zenon DEF LocationRows, Line
  <2>4. location.lines \in Seq(Int)
    BY <2>1, LocationIs, Zenon
  <2>5. \A k \in DOMAIN location.lines : LineRow(location, k, dict) = Row("frame", wordsOf(k))
    BY Zenon DEF LineRow
  <2> HIDE DEF location, words, wordsOf
  <2>6. Reads(<<Row("frame", words)>>, Notices, <<>>)
    <3>1. Row("frame", words) \in DOMAIN Notices /\ Notices[Row("frame", words)] = <<>>
      BY <2>2, NoticesReader, Zenon
    <3> QED
      BY <3>1, NoticesReader, ReadsRow, Zenon
  <2>7. Reads(rows, Notices, <<>>)
    <3>1. PICK R : R = DOMAIN Notices
      OBVIOUS
    <3>2. \A k \in DOMAIN location.lines :
              LineRow(location, k, dict) \in R /\ Notices[LineRow(location, k, dict)] = <<>>
      BY <2>2, <2>5, <3>1, NoticesReader, Zenon
    <3>3. PICK N \in Nat : DOMAIN location.lines = 1 .. N
      <4>1. Len(location.lines) \in Nat /\ DOMAIN location.lines = 1 .. Len(location.lines)
        BY <2>4, LenProperties
      <4> QED
        BY <4>1, Zenon
    <3>4. rows \in [1 .. N -> R] /\ \A k \in 1 .. N : Notices[rows[k]] = <<>>
      BY <3>2, <3>3, Zenon
    <3>5. rows \in Seq(R) /\ DOMAIN rows = 1 .. N
      BY <3>4, IntervalIsSeq, Zenon
    <3>6. FlatMap(Notices, rows) = <<>>
      BY <3>4, <3>5, FlatMapQuiet, Zenon
    <3> QED
      BY <3>1, <3>5, <3>6, Zenon DEF Reads
  <2>8. NoticeFor(i, dict) = <<>>
    BY <1>1, <1>3, Zenon DEF NoticeFor
  <2> QED
    BY <2>3, <2>6, <2>7, <2>8, Zenon
<1> QED
  BY <1>2, <1>3, Zenon

LEMMA StackNotices ==
    ASSUME NEW dict \in DictionaryMessage, NEW sample \in SampleMessage
    PROVE  Reads(StackRows(sample, dict), Notices, Missing(sample, dict))
<1> DEFINE stack == RootFirst(sample, dict)
           o == [i \in Int |-> NoticeFor(i, dict)]
<1>1. \A i \in Int : Reads(LocationRows(i, dict), Notices, o[i])
  BY LocationNotices, Zenon
<1>2. stack \in Seq(Int)
  BY RootFirstIs, Zenon
<1>3. [k \in DOMAIN stack |-> o[stack[k]]] = [k \in DOMAIN stack |-> NoticeFor(stack[k], dict)]
  <2>1. \A k \in DOMAIN stack : stack[k] \in Int
    BY <1>2
  <2> QED
    BY <2>1, Zenon
<1>4. Missing(sample, dict) = FlattenSeq([k \in DOMAIN stack |-> NoticeFor(stack[k], dict)])
  BY Zenon DEF Missing, RootFirst, NoticeFor
<1> HIDE DEF o
<1>5. Reads(StackRows(sample, dict), Notices, FlatMap(o, stack))
  BY <1>1, NoticesReader, StackReads, Zenon
<1> QED
  BY <1>3, <1>4, <1>5, Zenon DEF FlatMap

LEMMA SampleIs ==
    ASSUME NEW sample \in SampleMessage
    PROVE  sample.values \in Seq(Words)
<1>1. sample.values \in Seq(STRING)
  BY Zenon DEF SampleMessage
<1>2. \A S, T : S \subseteq T => Seq(S) \subseteq Seq(T)
  OBVIOUS
<1>3. STRING \subseteq Words
  BY TextsAre, Zenon
<1> QED
  BY <1>1, <1>2, <1>3, Zenon

LEMMA SampleNotices ==
    ASSUME NEW dict \in Seq(DictionaryMessage), NEW sample \in SampleMessage
    PROVE  Reads(SampleRows(sample, dict), Notices,
                 <<"sample">> \o Each(dict, LAMBDA d : Missing(sample, d)))
<1> DEFINE w == [k \in DOMAIN dict |-> Missing(sample, dict[k])]
<1>1. /\ Row("sample", sample.values) \in DOMAIN Notices
      /\ Notices[Row("sample", sample.values)] = <<"sample">>
  <2>1. "sample" \in {"truncated", "sample", "invalid"}
    OBVIOUS
  <2> QED
    BY <2>1, SampleIs, NoticesReader, Zenon
<1>2. \A k \in DOMAIN dict : dict[k] \in DictionaryMessage
  OBVIOUS
<1>3. /\ w = [k \in DOMAIN dict |-> w[k]]
      /\ \A k \in DOMAIN dict : Reads(StackRows(sample, dict[k]), Notices, w[k])
  BY <1>2, StackNotices, Zenon
<1>4. Each(dict, LAMBDA d : Missing(sample, d)) = FlattenSeq(w)
  BY Zenon DEF Each
<1> HIDE DEF w
<1>5. Reads(SampleRows(sample, dict), Notices,
            Notices[Row("sample", sample.values)] \o FlattenSeq(w))
  BY <1>1, <1>3, NoticesReader, SampleReads, Zenon
<1> QED
  BY <1>1, <1>4, <1>5, Zenon

LEMMA DictionaryNotices ==
    ASSUME NEW dict \in DictionaryMessage, DictionaryOK(dict)
    PROVE  Reads(DictionaryRows(dict), Notices,
                 IF TooMany(dict.strings) THEN <<"truncated">> ELSE <<>>)
<1>1. dict.strings \in Seq(STRING)
  BY TablesAre, Zenon
<1>2. /\ Row("truncated", <<>>) \in DOMAIN Notices
      /\ Notices[Row("truncated", <<>>)] = <<"truncated">>
  <2>1. <<>> \in Seq(Words) /\ "truncated" \in {"truncated", "sample", "invalid"}
    BY EmptySeq
  <2> QED
    BY <2>1, NoticesReader, Zenon
<1>3. Reads(Table("String Table", dict.strings, StringRows(dict.strings)), Notices,
            IF Len(dict.strings) > 1 /\ Len(FilledRows(dict.strings)) >= MaxStrings
            THEN Notices[Row("truncated", <<>>)] ELSE <<>>)
  BY <1>1, <1>2, NoticesReader, StringTableReads, Zenon
<1>4. TooMany(dict.strings) <=>
          Len(dict.strings) > 1 /\ Len(FilledRows(dict.strings)) >= MaxStrings
  BY <1>1, CutIsTooMany, Zenon DEF DictionaryOK
<1>5. Reads(Table("String Table", dict.strings, StringRows(dict.strings)), Notices,
            IF TooMany(dict.strings) THEN <<"truncated">> ELSE <<>>)
  BY <1>2, <1>3, <1>4, Zenon
<1> QED
  BY <1>5, NoticesReader, DictionaryReads, Zenon DEF StringTable

(* What is due for each sample. *)
DueOf(dict) ==
    [s \in SampleMessage |-> <<"sample">> \o Each(dict, LAMBDA d : Missing(s, d))]

LEMMA DueReads ==
    ASSUME NEW dict \in Seq(DictionaryMessage)
    PROVE  /\ DueOf(dict) \in [SampleMessage -> Seq(Parts)]
           /\ \A s \in SampleMessage : Reads(SampleRows(s, dict), Notices, DueOf(dict)[s])
<1> DEFINE due(s) == <<"sample">> \o Each(dict, LAMBDA d : Missing(s, d))
<1>1. \A s \in SampleMessage : Reads(SampleRows(s, dict), Notices, due(s))
  BY SampleNotices, Zenon
<1>2. DueOf(dict) = [s \in SampleMessage |-> due(s)]
  BY Zenon DEF DueOf
<1> HIDE DEF due
<1>3. \A s \in SampleMessage : due(s) \in Seq(Parts)
  BY <1>1, NoticesReader, ReadsIsSeq, Zenon
<1> QED
  BY <1>1, <1>2, <1>3, Zenon

(* What is due for the tables of the strings. *)
LEMMA DictionariesRead ==
    ASSUME NEW dict \in Seq(DictionaryMessage), \A k \in DOMAIN dict : DictionaryOK(dict[k])
    PROVE  Reads(Each(dict, DictionaryRows), Notices,
                 Each(dict, LAMBDA d : IF TooMany(d.strings) THEN <<"truncated">> ELSE <<>>))
<1> DEFINE f == [k \in DOMAIN dict |-> DictionaryRows(dict[k])]
           g == [k \in DOMAIN dict |->
                    IF TooMany(dict[k].strings) THEN <<"truncated">> ELSE <<>>]
<1>1. /\ Each(dict, DictionaryRows) = FlattenSeq(f)
      /\ Each(dict, LAMBDA d : IF TooMany(d.strings) THEN <<"truncated">> ELSE <<>>)
             = FlattenSeq(g)
  BY Zenon DEF Each
<1>2. /\ f = [k \in DOMAIN dict |-> f[k]] /\ g = [k \in DOMAIN dict |-> g[k]]
      /\ \A k \in DOMAIN dict : Reads(f[k], Notices, g[k])
  <2>1. \A k \in DOMAIN dict : dict[k] \in DictionaryMessage
    OBVIOUS
  <2> QED
    BY <2>1, DictionaryNotices, Zenon
<1> HIDE DEF f, g
<1>3. Reads(FlattenSeq(f), Notices, FlattenSeq(g))
  BY <1>2, NoticesReader, ReadsEach, Zenon
<1> QED
  BY <1>1, <1>3, Zenon

LEMMA PageNotices ==
    ASSUME NEW request \in RequestMessage,
           \A k \in DOMAIN request.dictionary : DictionaryOK(request.dictionary[k])
    PROVE  Each(Document(request), NoticeOn) = NoticesDue(request)
<1> DEFINE dict == request.dictionary
           samples == AllSamples(request)
           page == Document(request)
           due(s) == <<"sample">> \o Each(dict, LAMBDA d : Missing(s, d))
           cut == Each(dict, LAMBDA d : IF TooMany(d.strings) THEN <<"truncated">> ELSE <<>>)
           h == DueOf(dict)
<1>1. dict \in Seq(DictionaryMessage)
  BY Zenon DEF RequestMessage
<1>2. NoticesDue(request) = cut \o Each(samples, due)
  BY Zenon DEF NoticesDue
<1>3. /\ h \in [SampleMessage -> Seq(Parts)]
      /\ \A s \in SampleMessage : Reads(SampleRows(s, request.dictionary), Notices, h[s])
  BY <1>1, DueReads, Zenon
<1>4. h = [s \in SampleMessage |-> due(s)]
  BY Zenon DEF DueOf
<1>5. Reads(Each(request.dictionary, DictionaryRows), Notices, cut)
  BY <1>1, DictionariesRead, Zenon
<1> HIDE DEF h, due, cut
<1>6. /\ samples \in Seq(SampleMessage)
      /\ Reads(page, Notices, cut \o FlatMap(h, samples))
  BY <1>3, <1>5, NoticesReader, DocumentReads, Zenon
<1>7. FlatMap(h, samples) = Each(samples, due)
  <2>1. \A k \in DOMAIN samples : samples[k] \in SampleMessage
    BY <1>6
  <2>2. [k \in DOMAIN samples |-> h[samples[k]]] = [k \in DOMAIN samples |-> due(samples[k])]
    BY <1>4, <2>1, Zenon
  <2> QED
    BY <2>2, Zenon DEF FlatMap, Each
<1>8. FlatMap(Notices, page) = Each(page, NoticeOn)
  <2>1. PICK R : R = DOMAIN Notices
    OBVIOUS
  <2>2. page \in Seq(R)
    BY <1>6, <2>1, Zenon DEF Reads
  <2> HIDE DEF page
  <2>3. \A k \in DOMAIN page : page[k] \in R
    BY <2>2
  <2>4. [k \in DOMAIN page |-> Notices[page[k]]] = [k \in DOMAIN page |-> NoticeOn(page[k])]
    BY <2>1, <2>3, Zenon DEF Notices
  <2> QED
    BY <2>4, Zenon DEF FlatMap, Each
<1> QED
  BY <1>2, <1>6, <1>7, <1>8, Zenon DEF Reads

----------------------------------------------------------------------------
(* What is in a part of a page is on the page. *)
Within(a, c) == \A i \in DOMAIN a : \E j \in DOMAIN c : c[j] = a[i]

LEMMA WithinTrans ==
    ASSUME NEW a, NEW b, NEW c, Within(a, b), Within(b, c)
    PROVE  Within(a, c)
BY Zenon DEF Within

LEMMA WithinJoin ==
    ASSUME NEW R, NEW a \in Seq(R), NEW b \in Seq(R)
    PROVE  Within(a, a \o b) /\ Within(b, a \o b)
<1>1. PICK N \in Nat, M \in Nat : N = Len(a) /\ M = Len(b)
  OBVIOUS
<1>2. DOMAIN a = 1 .. N /\ DOMAIN b = 1 .. M
  BY <1>1
<1>3. /\ DOMAIN (a \o b) = 1 .. (N + M)
      /\ \A k \in 1 .. N : (a \o b)[k] = a[k]
      /\ \A k \in 1 .. M : (a \o b)[N + k] = b[k]
  BY <1>1
<1>4. \A k \in 1 .. N : k \in 1 .. (N + M)
  OBVIOUS
<1>5. \A k \in 1 .. M : N + k \in 1 .. (N + M)
  OBVIOUS
<1> QED
  BY <1>2, <1>3, <1>4, <1>5, Zenon DEF Within

LEMMA WithinFlatten ==
    ASSUME NEW R, NEW N \in Nat, NEW f \in [1 .. N -> Seq(R)], NEW k \in 1 .. N
    PROVE  Within(f[k], FlattenSeq(f))
<1> DEFINE flat(n) == FlattenSeq(FirstOnes(f, n))
           T == {n \in 0 .. N : \A i \in 1 .. n : Within(f[i], flat(n))}
<1>1. /\ FirstOnes(f, N) = f
      /\ \A n \in 0 .. N : flat(n) \in Seq(R)
      /\ \A n \in 1 .. N : flat(n) = flat(n - 1) \o f[n]
  <2>1. GrowsBy(f, N, R)
    BY FlattenGrows, Zenon
  <2> QED
    BY <2>1, Zenon DEF GrowsBy
<1> HIDE DEF flat
<1>2. 0 \in T
  OBVIOUS
<1>3. ASSUME NEW n \in 1 .. N, n - 1 \in T PROVE n \in T
  <2>1. n \in 0 .. N /\ n - 1 \in 0 .. N /\ \A i \in 1 .. n : i = n \/ i \in 1 .. n - 1
    OBVIOUS
  <2>2. flat(n - 1) \in Seq(R) /\ f[n] \in Seq(R) /\ flat(n) = flat(n - 1) \o f[n]
    BY <1>1, <2>1
  <2>3. Within(flat(n - 1), flat(n)) /\ Within(f[n], flat(n))
    <3>1. PICK x \in Seq(R), y \in Seq(R) : x = flat(n - 1) /\ y = f[n]
      BY <2>2, Zenon
    <3>2. Within(x, x \o y) /\ Within(y, x \o y)
      BY WithinJoin, Zenon
    <3> QED
      BY <2>2, <3>1, <3>2, Zenon
  <2>4. \A i \in 1 .. n - 1 : Within(f[i], flat(n))
    BY <1>3, <2>3, WithinTrans, Zenon
  <2>5. \A i \in 1 .. n : Within(f[i], flat(n))
    BY <2>1, <2>3, <2>4, Zenon
  <2> QED
    BY <2>1, <2>5, Zenon
<1>4. N \in 0 .. N
  OBVIOUS
<1> HIDE DEF T
<1>5. 0 .. N \subseteq T
  BY <1>2, <1>3, UpTo
<1>6. N \in T
  BY <1>4, <1>5, Zenon
<1> USE DEF T
<1> QED
  BY <1>1, <1>6, Zenon DEF flat

LEMMA ReadsWithin ==
    ASSUME NEW m, NEW a, NEW x, Reads(a, m, x), NEW b, NEW y, Reads(b, m, y)
    PROVE  Within(a, a \o b) /\ Within(b, a \o b)
<1>1. a \in Seq(DOMAIN m) /\ b \in Seq(DOMAIN m)
  BY Zenon DEF Reads
<1> QED
  BY <1>1, WithinJoin, Zenon

LEMMA ElementsAre ==
    ASSUME NEW T, NEW s \in Seq(T)
    PROVE  Len(s) \in Nat /\ DOMAIN s = 1 .. Len(s) /\ \A k \in DOMAIN s : s[k] \in T
OBVIOUS

LEMMA OneElement == \A x : 1 \in DOMAIN <<x>> /\ <<x>>[1] = x
OBVIOUS

LEMMA Wider ==
    ASSUME NEW T, NEW s \in Seq(T), NEW R, \A k \in DOMAIN s : s[k] \in R
    PROVE  s \in Seq(R)
OBVIOUS

LEMMA CutAt ==
    ASSUME NEW T, NEW s \in Seq(T), NEW n \in 0 .. Len(s)
    PROVE  /\ SubSeq(s, 1, n) \in Seq(T) /\ Len(SubSeq(s, 1, n)) = n
           /\ \A j \in 1 .. n : SubSeq(s, 1, n)[j] = s[j]
OBVIOUS

(* Up to the cut the table has a row for each of the strings.               *)
LEMMA RowBeforeCut ==
    ASSUME NEW strings \in Seq(STRING), NEW k \in BeforeCut(strings)
    PROVE  /\ k \in FilledAt(strings)
           /\ \E i \in DOMAIN StringRows(strings) :
                  StringRows(strings)[i] = Row("string", <<strings[k]>>)
<1> DEFINE i == Cardinality(FilledAt(strings) \intersect (1 .. k))
           row == Row("string", <<strings[k]>>)
<1>1. PICK rows \in Seq(StringRow) : rows = FilledRows(strings)
  BY RowsOfStrings
<1>2. k \in FilledAt(strings) /\ i <= MaxStrings
  <2>1. k \in DOMAIN strings /\ strings[k] # ""
        /\ Cardinality({j \in 1 .. k : strings[j] # ""}) <= MaxStrings
    BY Zenon DEF BeforeCut
  <2>2. PICK N \in Nat : DOMAIN strings = 1 .. N /\ k \in 1 .. N
    <3>1. Len(strings) \in Nat /\ DOMAIN strings = 1 .. Len(strings)
      BY LenProperties
    <3> QED
      BY <2>1, <3>1
  <2>3. \A j \in 1 .. k : j \in DOMAIN strings
    BY <2>2
  <2>4. FilledAt(strings) \intersect (1 .. k) = {j \in 1 .. k : strings[j] # ""}
    BY <2>3, Zenon DEF FilledAt
  <2> QED
    BY <2>1, <2>4, Zenon DEF FilledAt
<1>3. HasAt(rows, i, row)
  BY <1>1, <1>2, RowForEach, Zenon
<1> HIDE DEF i, row
<1>4. i \in DOMAIN rows /\ rows[i] = row
  BY <1>3, Zenon DEF HasAt
<1>5. CASE Len(rows) < MaxStrings
  <2>1. StringRows(strings) = rows
    BY <1>1, <1>5, Zenon DEF StringRows
  <2> QED
    BY <1>2, <1>4, <2>1, Zenon DEF row
<1>6. CASE ~(Len(rows) < MaxStrings)
  <2> DEFINE cut == SubSeq(rows, 1, MaxStrings)
             mark == Line("truncated", <<>>)
  <2>1. StringRows(strings) = cut \o mark
    BY <1>1, <1>6, Zenon DEF StringRows
  <2>2. PICK n \in 0 .. Len(rows) : n = MaxStrings
    <3>1. Len(rows) \in Nat
      BY LenProperties
    <3> QED
      BY <1>6, <3>1, DocumentAssumption
  <2>3. i \in 1 .. n
    <3>1. i \in 1 .. Len(rows)
      BY <1>4
    <3> QED
      BY <1>2, <2>2, <3>1
  <2>4. cut \in Seq(StringRow) /\ Len(cut) = n /\ cut[i] = rows[i] /\ i \in DOMAIN cut
    <3>1. n \in Nat
      BY <2>2
    <3>2. cut = SubSeq(rows, 1, n)
      BY <2>2
    <3>3. SubSeq(rows, 1, n) \in Seq(StringRow) /\ Len(SubSeq(rows, 1, n)) = n
          /\ \A j \in 1 .. n : SubSeq(rows, 1, n)[j] = rows[j]
      BY CutAt, Zenon
    <3> HIDE DEF cut
    <3>4. DOMAIN cut = 1 .. n
      BY <3>2, <3>3, LenProperties, Zenon
    <3> QED
      BY <2>3, <3>2, <3>3, <3>4, Zenon
  <2> HIDE DEF cut
  <2>5. Within(cut, cut \o mark)
    <3>1. PICK R : R = StringRow \union {Row("truncated", <<>>)}
      OBVIOUS
    <3>2. \A j \in DOMAIN cut : cut[j] \in R
      BY <2>4, <3>1, ElementsAre, Zenon
    <3>3. cut \in Seq(R)
      BY <2>4, <3>2, Wider, Zenon
    <3>4. mark \in Seq(R)
      <4>1. Row("truncated", <<>>) \in R
        BY <3>1
      <4>2. \A r \in R : <<r>> \in Seq(R)
        OBVIOUS
      <4> QED
        BY <4>1, <4>2, Zenon DEF Line
    <3> QED
      BY <3>3, <3>4, WithinJoin, Zenon
  <2>6. PICK j \in DOMAIN (cut \o mark) : (cut \o mark)[j] = cut[i]
    BY <2>4, <2>5, Zenon DEF Within
  <2> QED
    BY <1>2, <1>4, <2>1, <2>4, <2>6, Zenon DEF row
<1> QED
  BY <1>5, <1>6, Zenon

LEMMA StringsWithin ==
    ASSUME NEW dict \in DictionaryMessage, DictionaryOK(dict), NEW k \in BeforeCut(dict.strings)
    PROVE  \E i \in DOMAIN DictionaryRows(dict) :
               DictionaryRows(dict)[i].words = <<dict.strings[k]>>
<1> DEFINE rows == StringRows(dict.strings)
           title == Line("title", <<"String Table">>)
           m == Notices
<1>1. dict.strings \in Seq(STRING)
  BY TablesAre, Zenon
<1>2. k \in FilledAt(dict.strings)
      /\ \E i \in DOMAIN rows : rows[i] = Row("string", <<dict.strings[k]>>)
  BY <1>1, RowBeforeCut, Zenon
<1>3. PICK i \in DOMAIN rows : rows[i] = Row("string", <<dict.strings[k]>>)
  BY <1>2
<1>4. StringTable(dict) = title \o rows \o Blank
  <2>1. Len(dict.strings) > 1
    BY <1>1, <1>2, CutIsTooMany, Zenon DEF DictionaryOK
  <2> QED
    BY <2>1, Zenon DEF StringTable, Table
<1>5. PICK out : Reads(rows, m, out)
  <2>1. Row("truncated", <<>>) \in DOMAIN m
    <3>1. <<>> \in Seq(Words) /\ "truncated" \in {"truncated", "sample", "invalid"}
      BY EmptySeq
    <3> QED
      BY <3>1, NoticesReader, Zenon
  <2> QED
    BY <1>1, <2>1, StringRowsRead, NoticesReader, Zenon
<1>6. Reads(title, m, <<>>)
  <2>1. "title" \in QuietParts /\ "String Table" \in Literals
    BY Zenon DEF QuietParts, Literals
  <2> QED
    BY <2>1, LiteralQuiet, NoticesReader, Zenon
<1>7. Reads(Blank, m, <<>>)
  BY BlankQuiet, NoticesReader, Zenon
<1> HIDE DEF rows, title, m
<1>8. Reader(m, Parts)
  BY NoticesReader, Zenon DEF m
<1>9. PICK y : Reads(title \o rows, m, y)
  BY <1>5, <1>6, <1>8, ReadsJoin, Zenon
<1>10. PICK z : Reads(StringTable(dict), m, z)
  <2>1. PICK z : Reads(title \o rows \o Blank, m, z)
    BY <1>7, <1>8, <1>9, ReadsJoin, Zenon
  <2> QED
    BY <1>4, <2>1, Zenon
<1>11. Within(rows, StringTable(dict))
  <2>1. Within(rows, title \o rows) /\ Within(title \o rows, title \o rows \o Blank)
    BY <1>5, <1>6, <1>7, <1>9, ReadsWithin, Zenon
  <2> QED
    BY <1>4, <2>1, WithinTrans, Zenon
<1>12. PICK top, a, b, c : Around(dict, m, top, a, b, c)
  BY <1>8, DictionaryParts, Zenon
<1>13. /\ Reads(top, m, <<>>) /\ Reads(a, m, <<>>) /\ Reads(b, m, <<>>) /\ Reads(c, m, <<>>)
       /\ DictionaryRows(dict) = top \o StringTable(dict) \o a \o b \o c
  BY <1>12, Zenon DEF Around
<1> DEFINE p1 == top \o StringTable(dict)
           p2 == p1 \o a
           p3 == p2 \o b
<1>14. DictionaryRows(dict) = p3 \o c
  BY <1>13
<1>15. PICK u : Reads(p1, m, u)
  BY <1>8, <1>10, <1>13, ReadsJoin, Zenon
<1>16. Within(StringTable(dict), p1)
  BY <1>10, <1>13, ReadsWithin, Zenon
<1> HIDE DEF p1
<1>17. PICK v : Reads(p2, m, v)
  BY <1>8, <1>13, <1>15, ReadsJoin, Zenon
<1>18. Within(p1, p2)
  BY <1>13, <1>15, ReadsWithin, Zenon
<1> HIDE DEF p2
<1>19. PICK w : Reads(p3, m, w)
  BY <1>8, <1>13, <1>17, ReadsJoin, Zenon
<1>20. Within(p2, p3)
  BY <1>13, <1>17, ReadsWithin, Zenon
<1> HIDE DEF p3
<1>21. Within(p3, DictionaryRows(dict))
  <2>1. Within(p3, p3 \o c)
    BY <1>13, <1>19, ReadsWithin, Zenon
  <2> QED
    BY <1>14, <2>1, Zenon
<1>22. Within(rows, DictionaryRows(dict))
  BY <1>11, <1>16, <1>18, <1>20, <1>21, WithinTrans, Zenon
<1>23. PICK j \in DOMAIN DictionaryRows(dict) : DictionaryRows(dict)[j] = rows[i]
  BY <1>22, Zenon DEF Within
<1>24. \A words : Row("string", words).words = words
  BY DEF Row
<1> QED
  BY <1>3, <1>23, <1>24, Zenon

(* The strings up to the cut and the samples are on the page.               *)
LEMMA PageShows ==
    ASSUME NEW request \in RequestMessage,
           \A k \in DOMAIN request.dictionary : DictionaryOK(request.dictionary[k])
    PROVE  ShowsStringsAndSamples(request)
<1> DEFINE dict == request.dictionary
           page == Document(request)
           tables == Each(request.dictionary, DictionaryRows)
           rest == ResourcesRows(request)
<1>1. dict \in Seq(DictionaryMessage) /\ \A k \in DOMAIN dict : DictionaryOK(dict[k])
  BY Zenon DEF RequestMessage
<1>2. page = IF tables \o rest = <<>> THEN Line("empty", <<>>) ELSE tables \o rest
  BY DocumentIs, Zenon
<1>3. page # <<>>
  <2>1. Line("empty", <<>>) # <<>>
    <3>1. \A r : <<r>> # <<>>
      OBVIOUS
    <3> QED
      BY <3>1, Zenon DEF Line
  <2> QED
    BY <1>2, <2>1, Zenon
<1>4. Each(page, NoticeOn) = NoticesDue(request)
  BY PageNotices, Zenon
<1>5. PICK x, y : Reads(tables, Notices, x) /\ Reads(rest, Notices, y)
  BY <1>1, DictionariesRead, DueReads, ResourcesRead, NoticesReader, Zenon
<1>6. Within(tables, tables \o rest)
  BY <1>5, ReadsWithin, Zenon
<1> DEFINE f == [k \in DOMAIN dict |-> DictionaryRows(dict[k])]
<1>7. tables = FlattenSeq(f)
  BY Zenon DEF Each
<1> HIDE DEF dict, page, tables, rest
<1>8. ASSUME NEW n \in DOMAIN dict PROVE Within(DictionaryRows(dict[n]), page)
  <2>0. PICK R : R = DOMAIN Notices
    OBVIOUS
  <2>1. PICK N \in Nat : DOMAIN dict = 1 .. N
    BY <1>1, ElementsAre, Zenon
  <2>2. f \in [1 .. N -> Seq(R)]
    <3>1. \A j \in DOMAIN dict : dict[j] \in DictionaryMessage
      BY <1>1
    <3>2. ASSUME NEW j \in DOMAIN dict PROVE DictionaryRows(dict[j]) \in Seq(R)
      BY <1>1, <2>0, <3>1, DictionaryNotices, Zenon DEF Reads
    <3> QED
      BY <2>1, <3>2, Zenon
  <2>3. n \in 1 .. N /\ f[n] = DictionaryRows(dict[n])
    BY <2>1, Zenon
  <2> HIDE DEF f
  <2>4. Within(f[n], FlattenSeq(f))
    BY <2>2, <2>3, WithinFlatten, Zenon
  <2>5. Within(f[n], tables \o rest)
    BY <1>6, <1>7, <2>4, WithinTrans, Zenon
  <2>6. CASE tables \o rest = <<>>
    <3>1. DOMAIN <<>> = {}
      OBVIOUS
    <3> QED
      BY <2>3, <2>5, <2>6, <3>1, Zenon DEF Within
  <2>7. CASE tables \o rest # <<>>
    BY <1>2, <2>3, <2>5, <2>7, Zenon
  <2> QED
    BY <2>6, <2>7, Zenon
<1>9. ASSUME NEW d \in ToSet(dict), NEW k \in BeforeCut(d.strings)
      PROVE  d.strings[k] \in WordsOn(page)
  <2>1. PICK n \in DOMAIN dict : d = dict[n]
    BY <1>9, Zenon DEF ToSet
  <2>2. d \in DictionaryMessage /\ DictionaryOK(d)
    <3>1. \A j \in DOMAIN dict : dict[j] \in DictionaryMessage
      BY <1>1, ElementsAre, Zenon
    <3> QED
      BY <1>1, <2>1, <3>1, Zenon
  <2>3. PICK s : s = d.strings[k]
    OBVIOUS
  <2>4. PICK i \in DOMAIN DictionaryRows(d) : DictionaryRows(d)[i].words = <<s>>
    BY <1>9, <2>2, <2>3, StringsWithin, Zenon
  <2>5. PICK j \in DOMAIN page : page[j] = DictionaryRows(d)[i]
    BY <1>8, <2>1, Zenon DEF Within
  <2>6. s \in ToSet(page[j].words)
    <3>1. 1 \in DOMAIN <<s>> /\ <<s>>[1] = s
      BY OneElement, Zenon
    <3> QED
      BY <2>4, <2>5, <3>1, Zenon DEF ToSet
  <2> QED
    BY <2>3, <2>6, Zenon DEF WordsOn
<1> QED
  BY <1>3, <1>4, <1>9, Zenon DEF ShowsStringsAndSamples, dict, page

(* debug/ui.rs: whatever requests arrive, a page has the strings of its     *)
(* dictionary up to the cut and says where they are cut, and it has every   *)
(* sample and the references of its stack to nothing.                       *)
THEOREM PagesShowSamples == Spec => []StringsAndSamplesShown
<1>1. IInv => StringsAndSamplesShown
  <2> SUFFICES ASSUME IInv, NEW k \in DOMAIN requests PROVE PagesShow[requests[k]]
    BY Zenon DEF StringsAndSamplesShown
  <2>1. requests[k] \in Requests
    BY DEF IInv, PageOK
  <2>2. Decoded[requests[k]] \in RequestMessage
    BY <2>1, PagesAssumption, Zenon
  <2>3. \A j \in DOMAIN Decoded[requests[k]].dictionary :
            DictionaryOK(Decoded[requests[k]].dictionary[j])
    BY <2>1, PagesAssumption, Zenon
  <2>4. ShowsStringsAndSamples(Decoded[requests[k]])
    BY <2>2, <2>3, PageShows, Zenon
  <2> QED
    BY <2>1, <2>4, Zenon DEF PagesShow
<1> QED
  BY <1>1, IInvInit, IInvStep, PTL DEF Spec

----------------------------------------------------------------------------
(* Names and tags: the page has them from Dict, the receiver from functions *)
(* of its own.                                                              *)
LEMMA SameFunctions ==
    ASSUME NEW dict \in DictionaryMessage, NEW line \in Int
    PROVE  FuncName(line, dict) = ResolveFunctionName(line, dict)
<1>1. (line > 0 /\ ListedAt(line, dict.functions))
          <=> (line # 0 /\ ListedAt(line, dict.functions))
  BY DEF ListedAt
<1>2. \A place : NonEmpty(place, dict) <=> Str(place, dict) # ""
  BY Zenon DEF NonEmpty, Str
<1>3. \A place : NonEmpty(place, dict) => Str(place, dict) = At(place, dict.strings)
  BY Zenon DEF NonEmpty, Str
<1> QED
  BY <1>1, <1>2, <1>3, Zenon DEF FuncName, ResolveFunctionName

LEMMA SameMappings ==
    ASSUME NEW dict \in DictionaryMessage, NEW location \in LocationMessage
    PROVE  MappingName(location, dict) = ResolveMappingFilename(location, dict)
<1>1. (location.mapping > 0 /\ ListedAt(location.mapping, dict.mappings))
          <=> (location.mapping # 0 /\ ListedAt(location.mapping, dict.mappings))
  <2>1. \A i \in Int : (i > 0 /\ ListedAt(i, dict.mappings))
                           <=> (i # 0 /\ ListedAt(i, dict.mappings))
    BY DEF ListedAt
  <2> QED
    BY <2>1, LocationIs, Zenon
<1>2. \A place : NonEmpty(place, dict) <=> Str(place, dict) # ""
  BY Zenon DEF NonEmpty, Str
<1>3. \A place : NonEmpty(place, dict) => Str(place, dict) = At(place, dict.strings)
  BY Zenon DEF NonEmpty, Str
<1> QED
  BY <1>1, <1>2, <1>3, Zenon DEF MappingName, ResolveMappingFilename

LEMMA SameAttributes ==
    ASSUME NEW dict \in DictionaryMessage, NEW i \in Int
    PROVE  /\ i # 0 /\ ListedAt(i, dict.attributes) =>
                  /\ ToSet(GetAttr(i, dict)) = {At(i, dict.attributes)}
                  /\ GetAttr(i, dict)[1] = At(i, dict.attributes)
           /\ ~(i # 0 /\ ListedAt(i, dict.attributes)) => ToSet(GetAttr(i, dict)) = {}
<1>1. (i > 0 /\ ListedAt(i, dict.attributes)) <=> (i # 0 /\ ListedAt(i, dict.attributes))
  BY DEF ListedAt
<1>2. ToSet(<<>>) = {} /\ \A x : ToSet(<<x>>) = {x} /\ <<x>>[1] = x
  BY DEF ToSet
<1> QED
  BY <1>1, <1>2, Zenon DEF GetAttr

LEMMA SameTags ==
    ASSUME NEW dict \in DictionaryMessage, NEW location \in LocationMessage
    PROVE  FrameInfo(location, dict) = ResolveFrameType(location, dict)
<1> DEFINE indices == location.attributes
           types == {k \in DOMAIN indices :
                       \E a \in ToSet(GetAttr(indices[k], dict)) :
                           /\ Str(a.key, dict) = "profile.frame.type"
                           /\ a.value.kind = "string"}
           carriers == Carriers("profile.frame.type", indices, dict)
           raw == GetAttr(indices[Min(types)], dict)[1].value.text
           text == TextOf(indices[Min(carriers)], dict)
<1>1. indices \in Seq(Int)
  BY LocationIs, Zenon
<1>2. FrameInfo(location, dict) = IF types = {} THEN "Unknown"
                                  ELSE IF raw \in DOMAIN FrameType THEN FrameType[raw] ELSE raw
  BY Zenon DEF FrameInfo, FrameType
<1>3. ResolveFrameType(location, dict) =
          IF carriers = {} THEN "Unknown"
          ELSE IF text \in DOMAIN FrameType THEN FrameType[text] ELSE text
  BY Zenon DEF ResolveFrameType
<1> HIDE DEF indices
<1>4. PICK N \in Nat : DOMAIN indices = 1 .. N /\ \A k \in 1 .. N : indices[k] \in Int
  BY <1>1, ElementsAre, Zenon
<1>5. \A a : Str(a.key, dict) = KeyOf(a, dict)
  BY Zenon DEF Str, KeyOf
<1>6. types = carriers
  <2>1. ASSUME NEW k \in 1 .. N PROVE k \in types <=> k \in carriers
    <3>1. PICK i \in Int : i = indices[k]
      BY <1>4, Zenon
    <3>2. k \in types <=> \E a \in ToSet(GetAttr(i, dict)) :
              KeyOf(a, dict) = "profile.frame.type" /\ a.value.kind = "string"
      BY <1>4, <1>5, <3>1, Zenon
    <3>3. k \in carriers <=>
              /\ i # 0 /\ ListedAt(i, dict.attributes)
              /\ KeyOf(At(i, dict.attributes), dict) = "profile.frame.type"
              /\ At(i, dict.attributes).value.kind = "string"
      BY <1>4, <3>1, Zenon DEF Carriers
    <3> HIDE DEF types, carriers
    <3>4. CASE i # 0 /\ ListedAt(i, dict.attributes)
      <4>1. ToSet(GetAttr(i, dict)) = {At(i, dict.attributes)}
        BY <3>4, SameAttributes, Zenon
      <4> QED
        BY <3>2, <3>3, <3>4, <4>1, Zenon
    <3>5. CASE ~(i # 0 /\ ListedAt(i, dict.attributes))
      <4>1. ToSet(GetAttr(i, dict)) = {}
        BY <3>5, SameAttributes, Zenon
      <4> QED
        BY <3>2, <3>3, <3>5, <4>1, Zenon
    <3> QED
      BY <3>4, <3>5, Zenon
  <2>2. types \subseteq 1 .. N /\ carriers \subseteq 1 .. N
    BY <1>4, Zenon DEF Carriers
  <2> HIDE DEF types, carriers
  <2> QED
    BY <2>1, <2>2
<1>7. carriers # {} => raw = text
  <2> SUFFICES ASSUME carriers # {} PROVE raw = text
    OBVIOUS
  <2>1. carriers \in SUBSET (1 .. N)
    BY <1>4, Zenon DEF Carriers
  <2>2. Min(carriers) \in carriers
    <3> HIDE DEF carriers
    <3> QED
      BY <2>1, MinIsOf, Zenon
  <2>3. PICK i \in Int : i = indices[Min(carriers)]
    BY <1>4, <2>1, <2>2, Zenon
  <2>4. i # 0 /\ ListedAt(i, dict.attributes)
    BY <2>2, <2>3, Zenon DEF Carriers
  <2>5. GetAttr(i, dict)[1] = At(i, dict.attributes)
    BY <2>4, SameAttributes, Zenon
  <2>6. text = At(i, dict.attributes).value.text
    BY <2>3, Zenon DEF TextOf
  <2>7. raw = GetAttr(i, dict)[1].value.text
    <3> HIDE DEF types, carriers
    <3> QED
      BY <1>6, <2>3, Zenon
  <2> QED
    BY <2>5, <2>6, <2>7, Zenon
<1> HIDE DEF types, carriers, raw, text
<1>8. CASE carriers = {}
  BY <1>2, <1>3, <1>6, <1>8, Zenon
<1>9. CASE carriers # {}
  <2>1. raw = text
    BY <1>7, <1>9, Zenon
  <2> QED
    <3>1. types # {}
      BY <1>6, <1>9, Zenon
    <3>2. FrameInfo(location, dict) = IF raw \in DOMAIN FrameType THEN FrameType[raw] ELSE raw
      BY <1>2, <3>1, Zenon
    <3>3. ResolveFrameType(location, dict) =
              IF text \in DOMAIN FrameType THEN FrameType[text] ELSE text
      BY <1>3, <1>9, Zenon
    <3> QED
      BY <2>1, <3>2, <3>3
<1> QED
  BY <1>8, <1>9, Zenon

----------------------------------------------------------------------------
(* The frames of a location, which are lists of words, as both have them.   *)
Frame == Seq(Words)

LEMMA FramesAre ==
    /\ \A x \in Frame : <<x>> \in Seq(Frame) /\ Len(<<x>>) = 1
    /\ <<>> \in Seq(Frame)
    /\ SampleSign \in Frame
<1>1. "sample" \in Words
  <2>1. "sample" \in Literals
    BY DEF Literals
  <2> QED
    BY <2>1, TextsAre, Zenon
<1>2. PICK W : W = Words
  OBVIOUS
<1>3. <<"sample">> \in Seq(W)
  BY <1>1, <1>2
<1>4. PICK F : F = Frame
  OBVIOUS
<1>5. \A x \in F : <<x>> \in Seq(F) /\ Len(<<x>>) = 1
  OBVIOUS
<1>6. <<>> \in Seq(F)
  BY EmptySeq, Zenon
<1> QED
  BY <1>2, <1>3, <1>4, <1>5, <1>6, Zenon DEF Frame, SampleSign

(* The words of a line, and of a location without lines. *)
LineWords(location, k, dict) ==
    <<FuncName(location.lines[k], dict), FrameInfo(location, dict)>> \o Marked(k)

NativeWords(location, dict) ==
    <<MappingName(location, dict), "+", location.address, FrameInfo(location, dict)>>

LEMMA LineFrames ==
    ASSUME NEW dict \in DictionaryMessage, NEW location \in LocationMessage,
           location.lines # <<>>
    PROVE  FramesOf(location, dict) =
               [k \in DOMAIN location.lines |-> LineWords(location, k, dict)]
<1> DEFINE lines == location.lines
           tag == FrameInfo(location, dict)
           names == NamesOf(location, dict)
<1>1. lines \in Seq(Int)
  BY LocationIs, Zenon
<1>2. names = [k \in DOMAIN lines |-> FuncName(lines[k], dict)]
  <2>1. \A k \in DOMAIN lines : FuncName(lines[k], dict) = ResolveFunctionName(lines[k], dict)
    <3>1. \A k \in DOMAIN lines : lines[k] \in Int
      BY <1>1, ElementsAre, Zenon
    <3> QED
      BY <3>1, SameFunctions, Zenon
  <2> QED
    BY <2>1, Zenon DEF NamesOf
<1>3. names # <<>>
  <2>1. PICK k : k \in DOMAIN lines
    <3>1. \A s \in Seq(Int) : s # <<>> => 1 \in DOMAIN s
      OBVIOUS
    <3> QED
      BY <1>1, <3>1, Zenon
  <2>2. DOMAIN names # {} /\ DOMAIN <<>> = {}
    <3>1. DOMAIN names = DOMAIN lines
      BY <1>2, Zenon
    <3>2. DOMAIN <<>> = {}
      OBVIOUS
    <3> QED
      BY <2>1, <3>1, <3>2, Zenon
  <2> QED
    BY <2>2, Zenon
<1>4. ResolveFrameType(location, dict) = tag
  BY SameTags, Zenon
<1>5. FramesOf(location, dict) = [k \in DOMAIN names |-> <<names[k], tag>> \o Marked(k)]
  BY <1>3, <1>4, Zenon DEF FramesOf
<1>6. /\ DOMAIN names = DOMAIN lines
      /\ \A k \in DOMAIN lines : <<names[k], tag>> \o Marked(k) = LineWords(location, k, dict)
  BY <1>2, Zenon DEF LineWords
<1> HIDE DEF names, tag
<1> QED
  BY <1>5, <1>6, Zenon

LEMMA LineWordsAre ==
    ASSUME NEW dict \in DictionaryMessage, NEW location \in LocationMessage,
           NEW k \in DOMAIN location.lines
    PROVE  /\ LineWords(location, k, dict) \in Frame
           /\ Symbolized(LineWords(location, k, dict)) = <<LineWords(location, k, dict)>>
<1>1. LineWords(location, k, dict) \in Frame
  BY FrameWords, Zenon DEF LineWords, Frame, Marked
<1>2. \A a, b : Len(<<a, b>> \o Marked(k)) # 4
  <2>1. ASSUME NEW a, NEW b PROVE Len(<<a, b>> \o Marked(k)) # 4
    <3> DEFINE T == {a, b, "inline"}
    <3>1. /\ <<a, b>> \in Seq(T) /\ Len(<<a, b>>) = 2
          /\ <<"inline">> \in Seq(T) /\ Len(<<"inline">>) = 1
          /\ <<>> \in Seq(T) /\ Len(<<>>) = 0
      OBVIOUS
    <3> HIDE DEF T
    <3>2. Len(<<a, b>> \o <<>>) = 2 + 0 /\ Len(<<a, b>> \o <<"inline">>) = 2 + 1
      BY <3>1, ConcatProperties
    <3>3. Marked(k) = <<>> \/ Marked(k) = <<"inline">>
      BY Zenon DEF Marked
    <3>4. 2 + 0 # 4 /\ 2 + 1 # 4
      OBVIOUS
    <3> QED
      BY <3>2, <3>3, <3>4, Zenon
  <2> QED
    BY <2>1, Zenon
<1>3. \A words : Len(words) # 4 => Symbolized(words) = <<words>>
  BY Zenon DEF Symbolized
<1> QED
  BY <1>1, <1>2, <1>3, Zenon DEF LineWords

LEMMA NativeFrames ==
    ASSUME NEW dict \in DictionaryMessage, NEW location \in LocationMessage,
           location.lines = <<>>
    PROVE  Symbolized(NativeWords(location, dict)) = FramesOf(location, dict)
<1> DEFINE words == NativeWords(location, dict)
           tag == FrameInfo(location, dict)
           found == Symbols[MappingName(location, dict), location.address]
           names == IF tag = "Native" THEN found ELSE <<>>
<1>1. \A a, b, c, d : /\ Len(<<a, b, c, d>>) = 4 /\ <<a, b, c, d>>[1] = a
                      /\ <<a, b, c, d>>[3] = c /\ <<a, b, c, d>>[4] = d
  OBVIOUS
<1>2. /\ Len(words) = 4 /\ words[1] = MappingName(location, dict)
      /\ words[3] = location.address /\ words[4] = tag
  BY <1>1, Zenon DEF NativeWords
<1>3. ResolveFrameType(location, dict) = tag
  BY SameTags, Zenon
<1>4. Symbolize(location, dict) = found /\ ResolveMappingFilename(location, dict) = MappingName(location, dict)
  BY SameMappings, Zenon DEF Symbolize
<1>5. FramesOf(location, dict) =
          IF names # <<>> THEN [k \in DOMAIN names |-> <<names[k], tag>> \o Marked(k)]
          ELSE <<words>>
  BY <1>3, <1>4, Zenon DEF FramesOf, NativeWords
<1>6. Symbolized(words) =
          IF names = <<>> THEN <<words>>
          ELSE [k \in DOMAIN names |-> <<names[k], "Native">> \o Marked(k)]
  BY <1>2, Zenon DEF Symbolized
<1>7. CASE names = <<>>
  <2> HIDE DEF names
  <2> QED
    BY <1>5, <1>6, <1>7, Zenon
<1>8. CASE names # <<>>
  <2>1. tag = "Native"
    BY <1>8, Zenon
  <2> HIDE DEF names, tag
  <2> QED
    BY <1>5, <1>6, <1>8, <2>1, Zenon
<1> QED
  BY <1>7, <1>8, Zenon

(* They are lists of words, whatever names the store has. *)
LEMMA FramesOfAre ==
    ASSUME NEW dict \in DictionaryMessage, NEW location \in LocationMessage,
           Symbolize(location, dict) \in Seq(STRING)
    PROVE  FramesOf(location, dict) \in Seq(Frame)
<1> DEFINE lines == location.lines
           tag == FrameInfo(location, dict)
           found == Symbolize(location, dict)
           native == [k \in DOMAIN found |-> <<found[k], tag>> \o Marked(k)]
<1>1. PICK F : F = Frame
  OBVIOUS
<1>2. CASE lines # <<>>
  <2>1. PICK N \in Nat : DOMAIN lines = 1 .. N
    BY LocationIs, ElementsAre, Zenon
  <2>2. FramesOf(location, dict) = [k \in 1 .. N |-> LineWords(location, k, dict)]
    BY <1>2, <2>1, LineFrames, Zenon
  <2>3. \A k \in 1 .. N : LineWords(location, k, dict) \in F
    BY <1>1, <2>1, LineWordsAre, Zenon
  <2>4. FramesOf(location, dict) \in [1 .. N -> F]
    BY <2>2, <2>3, Zenon
  <2>5. FramesOf(location, dict) \in Seq(F)
    BY <2>4, IntervalIsSeq, Zenon
  <2> QED
    BY <1>1, <2>5, Zenon
<1>3. CASE lines = <<>>
  <2>1. ResolveFrameType(location, dict) = tag
    BY SameTags, Zenon
  <2>2. FramesOf(location, dict) = native \/ FramesOf(location, dict) = <<NativeWords(location, dict)>>
    <3>1. FramesOf(location, dict) =
            IF (IF tag = "Native" THEN found ELSE <<>>) # <<>>
            THEN [k \in DOMAIN (IF tag = "Native" THEN found ELSE <<>>) |->
                     <<(IF tag = "Native" THEN found ELSE <<>>)[k], tag>> \o Marked(k)]
            ELSE <<NativeWords(location, dict)>>
      BY <1>3, <2>1, SameMappings, Zenon DEF FramesOf, NativeWords
    <3> HIDE DEF tag, found
    <3>2. CASE tag = "Native"
      BY <3>1, <3>2, Zenon
    <3>3. CASE tag # "Native"
      BY <3>1, <3>3, Zenon
    <3> QED
      BY <3>2, <3>3, Zenon
  <2>3. <<NativeWords(location, dict)>> \in Seq(F)
    <3>1. NativeWords(location, dict) \in Frame
      BY FrameWords, Zenon DEF NativeWords, Frame
    <3> QED
      BY <1>1, <3>1, FramesAre, Zenon
  <2>4. native \in Seq(F)
    <3>1. PICK N \in Nat : DOMAIN found = 1 .. N
      BY ElementsAre, Zenon
    <3>2. \A k \in 1 .. N : found[k] \in Words
      <4>1. \A k \in DOMAIN found : found[k] \in STRING
        BY ElementsAre, Zenon
      <4> QED
        BY <3>1, <4>1, TextsAre, Zenon
    <3>3. tag \in Words /\ "inline" \in Words
      <4>1. "inline" \in Literals
        BY DEF Literals
      <4> QED
        BY <4>1, FrameInfoIsWord, TextsAre, Zenon
    <3>4. ASSUME NEW a \in Words, NEW k PROVE <<a, tag>> \o Marked(k) \in F
      <4>1. PICK W : W = Words
        OBVIOUS
      <4>2. \A x, y \in W : <<x, y>> \in Seq(W) /\ <<x>> \in Seq(W)
        OBVIOUS
      <4>3. <<>> \in Seq(W)
        BY EmptySeq, Zenon
      <4>4. <<a, tag>> \in Seq(W) /\ Marked(k) \in Seq(W)
        BY <3>3, <4>1, <4>2, <4>3, Zenon DEF Marked
      <4>5. <<a, tag>> \o Marked(k) \in Seq(W)
        BY <4>4, ConcatProperties, Zenon
      <4> QED
        BY <1>1, <4>1, <4>5, Zenon DEF Frame
    <3> HIDE DEF found, tag
    <3>5. native \in [1 .. N -> F]
      BY <3>1, <3>2, <3>4, Zenon
    <3> HIDE DEF native
    <3> QED
      BY <3>5, IntervalIsSeq, Zenon
  <2> HIDE DEF native
  <2> QED
    BY <1>1, <2>2, <2>3, <2>4, Zenon
<1> QED
  BY <1>2, <1>3, Zenon

----------------------------------------------------------------------------
(* What a page is read for: the frames of its samples. *)
FrameRow == {row \in PageRow : FramesOn(row) \in Seq(Frame)}

FramesShown == [row \in FrameRow |-> FramesOn(row)]

LEMMA FramesReader ==
    /\ Reader(FramesShown, Frame)
    /\ \A words \in Seq(Words) :
           /\ \A part \in {"truncated", "invalid"} :
                  Row(part, words) \in DOMAIN FramesShown /\ FramesShown[Row(part, words)] = <<>>
           /\ Row("sample", words) \in DOMAIN FramesShown
           /\ FramesShown[Row("sample", words)] = <<SampleSign>>
           /\ Symbolized(words) \in Seq(Frame) =>
                  /\ Row("frame", words) \in DOMAIN FramesShown
                  /\ FramesShown[Row("frame", words)] = Symbolized(words)
<1>1. /\ QuietParts \subseteq Parts /\ {"truncated", "sample", "invalid"} \subseteq Parts
      /\ "frame" \in Parts /\ "frame" # "sample"
      /\ \A part \in QuietParts \union {"truncated", "invalid"} :
             part # "sample" /\ part # "frame"
  BY DEF Parts, QuietParts
<1>2. ASSUME NEW part \in Parts, NEW words \in Seq(Words),
             NEW out \in Seq(Frame),
             out = IF part = "sample" THEN <<SampleSign>>
                   ELSE IF part = "frame" THEN Symbolized(words) ELSE <<>>
      PROVE  Row(part, words) \in DOMAIN FramesShown /\ FramesShown[Row(part, words)] = out
  <2>1. /\ Row(part, words) \in PageRow
        /\ Row(part, words).part = part /\ Row(part, words).words = words
    BY RowIs, Zenon
  <2>2. FramesOn(Row(part, words)) = out
    BY <1>2, <2>1, Zenon DEF FramesOn
  <2>3. Row(part, words) \in FrameRow
    BY <2>1, <2>2, Zenon DEF FrameRow
  <2> QED
    BY <2>2, <2>3, Zenon DEF FramesShown
<1>3. <<>> \in Seq(Frame) /\ <<SampleSign>> \in Seq(Frame)
  BY FramesAre, Zenon
<1>4. FramesShown \in [DOMAIN FramesShown -> Seq(Frame)]
  BY Zenon DEF FramesShown, FrameRow
<1>5. ASSUME NEW part \in QuietParts \union {"truncated", "invalid"}, NEW words \in Seq(Words)
      PROVE  Row(part, words) \in DOMAIN FramesShown /\ FramesShown[Row(part, words)] = <<>>
  <2>1. part \in Parts /\ part # "sample" /\ part # "frame"
    BY <1>1
  <2> QED
    BY <1>2, <1>3, <2>1, Zenon
<1>6. Reader(FramesShown, Frame)
  <2>1. QuietParts \subseteq QuietParts \union {"truncated", "invalid"}
    OBVIOUS
  <2> QED
    BY <1>4, <1>5, <2>1, Zenon DEF Reader
<1>7. ASSUME NEW words \in Seq(Words)
      PROVE  /\ Row("sample", words) \in DOMAIN FramesShown
             /\ FramesShown[Row("sample", words)] = <<SampleSign>>
  <2>1. "sample" \in Parts
    BY <1>1
  <2> QED
    BY <1>2, <1>3, <2>1, Zenon
<1>8. ASSUME NEW words \in Seq(Words), Symbolized(words) \in Seq(Frame)
      PROVE  /\ Row("frame", words) \in DOMAIN FramesShown
             /\ FramesShown[Row("frame", words)] = Symbolized(words)
  BY <1>1, <1>2, <1>8, Zenon
<1> QED
  BY <1>5, <1>6, <1>7, <1>8, Zenon

(* A location shows its frames; what is not a location, none. *)
ShownAt(i, dict) ==
    IF i > 0 /\ ListedAt(i, dict.locations) THEN FramesOf(At(i, dict.locations), dict)
    ELSE <<>>

LEMMA LocationOK ==
    ASSUME NEW dict \in DictionaryMessage, DictionaryOK(dict),
           NEW i \in Int, ListedAt(i, dict.locations)
    PROVE  /\ At(i, dict.locations) \in LocationMessage
           /\ Symbolize(At(i, dict.locations), dict) \in Seq(STRING)
<1>1. dict.locations \in Seq(LocationMessage)
  BY TablesAre, Zenon
<1>2. i + 1 \in DOMAIN dict.locations
  <2>1. \A s \in Seq(LocationMessage) : ListedAt(i, s) => i + 1 \in DOMAIN s
    BY DEF ListedAt
  <2> QED
    BY <1>1, <2>1, Zenon
<1>3. At(i, dict.locations) \in LocationMessage
  BY <1>1, AtIs, Zenon
<1> QED
  BY <1>2, <1>3, Zenon DEF DictionaryOK, At

LEMMA LocationFrames ==
    ASSUME NEW dict \in DictionaryMessage, DictionaryOK(dict), NEW i \in Int
    PROVE  Reads(LocationRows(i, dict), FramesShown, ShownAt(i, dict))
<1>1. CASE ~(i > 0 /\ ListedAt(i, dict.locations))
  <2>1. <<>> \in Seq(Words) /\ "invalid" \in {"truncated", "invalid"}
    BY EmptySeq
  <2>2. /\ Row("invalid", <<>>) \in DOMAIN FramesShown
        /\ FramesShown[Row("invalid", <<>>)] = <<>>
    BY <2>1, FramesReader, Zenon
  <2>3. Reads(<<Row("invalid", <<>>)>>, FramesShown, FramesShown[Row("invalid", <<>>)])
    BY <2>2, FramesReader, ReadsRow, Zenon
  <2>4. LocationRows(i, dict) = <<Row("invalid", <<>>)>>
    BY <1>1, Zenon DEF LocationRows, Line
  <2> QED
    BY <1>1, <2>2, <2>3, <2>4, Zenon DEF ShownAt
<1>2. CASE i > 0 /\ ListedAt(i, dict.locations)
  <2> DEFINE location == At(i, dict.locations)
             words == NativeWords(location, dict)
             wordsOf(k) == LineWords(location, k, dict)
             rows == [k \in DOMAIN location.lines |-> LineRow(location, k, dict)]
  <2>1. location \in LocationMessage /\ Symbolize(location, dict) \in Seq(STRING)
    BY <1>2, LocationOK, Zenon
  <2>2. ShownAt(i, dict) = FramesOf(location, dict) /\ FramesOf(location, dict) \in Seq(Frame)
    BY <1>2, <2>1, FramesOfAre, Zenon DEF ShownAt
  <2>3. LocationRows(i, dict) = IF location.lines = <<>> THEN <<Row("frame", words)>> ELSE rows
    BY <1>2, Zenon DEF LocationRows, Line, NativeWords
  <2>4. location.lines \in Seq(Int)
    BY <2>1, LocationIs, Zenon
  <2>5. \A k \in DOMAIN location.lines : LineRow(location, k, dict) = Row("frame", wordsOf(k))
    BY Zenon DEF LineRow, LineWords, Marked
  <2> HIDE DEF location
  <2>6. CASE location.lines = <<>>
    <3>1. Symbolized(words) = FramesOf(location, dict)
      BY <2>1, <2>6, NativeFrames, Zenon
    <3>2. words \in Seq(Words)
      BY <2>1, FrameWords, Zenon DEF NativeWords
    <3>3. /\ Row("frame", words) \in DOMAIN FramesShown
          /\ FramesShown[Row("frame", words)] = FramesOf(location, dict)
      BY <2>2, <3>1, <3>2, FramesReader, Zenon
    <3>4. Reads(<<Row("frame", words)>>, FramesShown, FramesOf(location, dict))
      BY <3>3, FramesReader, ReadsRow, Zenon
    <3> QED
      BY <2>2, <2>3, <2>6, <3>4, Zenon
  <2>7. CASE location.lines # <<>>
    <3>1. PICK R : R = DOMAIN FramesShown
      OBVIOUS
    <3>2. PICK N \in Nat : DOMAIN location.lines = 1 .. N
      BY <2>4, ElementsAre, Zenon
    <3>3. PICK w : w = [k \in 1 .. N |-> wordsOf(k)]
      BY Zenon
    <3>4. \A k \in 1 .. N : wordsOf(k) \in Frame /\ Symbolized(wordsOf(k)) = <<wordsOf(k)>>
      BY <2>1, <3>2, LineWordsAre, Zenon
    <3>5. \A k \in 1 .. N :
              LineRow(location, k, dict) \in R /\ FramesShown[LineRow(location, k, dict)] = <<w[k]>>
      <4>1. ASSUME NEW k \in 1 .. N
            PROVE  LineRow(location, k, dict) \in R
                       /\ FramesShown[LineRow(location, k, dict)] = <<w[k]>>
        <5>1. PICK x \in Frame : x = wordsOf(k)
          BY <3>4, Zenon
        <5>2. Symbolized(x) = <<x>> /\ <<x>> \in Seq(Frame) /\ x \in Seq(Words)
          BY <3>4, <5>1, FramesAre, Zenon DEF Frame
        <5>3. Row("frame", x) \in DOMAIN FramesShown /\ FramesShown[Row("frame", x)] = <<x>>
          BY <5>2, FramesReader, Zenon
        <5>4. LineRow(location, k, dict) = Row("frame", x) /\ w[k] = x
          BY <2>5, <3>2, <3>3, <5>1, Zenon
        <5> QED
          BY <3>1, <5>3, <5>4, Zenon
      <4> QED
        BY <4>1, Zenon
    <3>6. rows \in [1 .. N -> R]
      BY <3>2, <3>5, Zenon
    <3>7. rows \in Seq(R) /\ DOMAIN rows = 1 .. N
      BY <3>6, IntervalIsSeq, Zenon
    <3>8. [k \in DOMAIN rows |-> FramesShown[rows[k]]] = [k \in 1 .. N |-> <<w[k]>>]
      BY <3>2, <3>5, Zenon
    <3>9. FlattenSeq([k \in 1 .. N |-> <<w[k]>>]) = w
      <4>1. w \in [1 .. N -> Frame]
        BY <3>3, <3>4, Zenon
      <4> QED
        BY <4>1, FlattenSingles, Zenon
    <3>10. FlatMap(FramesShown, rows) = w
      BY <3>8, <3>9, Zenon DEF FlatMap
    <3>11. Reads(rows, FramesShown, w)
      BY <3>1, <3>7, <3>10, Zenon DEF Reads
    <3>12. w = FramesOf(location, dict)
      BY <2>1, <2>7, <3>2, <3>3, LineFrames, Zenon
    <3> QED
      BY <2>2, <2>3, <2>7, <3>11, <3>12, Zenon
  <2> QED
    BY <2>6, <2>7, Zenon
<1> QED
  BY <1>1, <1>2, Zenon

(* What a stack shows, and a sample. *)
LocationsShown(dict) == [i \in Int |-> ShownAt(i, dict)]

StackShown(sample, dict) == FlatMap(LocationsShown(dict), RootFirst(sample, dict))

ShownOf(dict) ==
    [s \in SampleMessage |-> <<SampleSign>> \o Each(dict, LAMBDA d : StackShown(s, d))]

LEMMA StackFrames ==
    ASSUME NEW dict \in DictionaryMessage, DictionaryOK(dict), NEW sample \in SampleMessage
    PROVE  Reads(StackRows(sample, dict), FramesShown, StackShown(sample, dict))
<1>1. PICK o : o = LocationsShown(dict)
  OBVIOUS
<1>2. \A i \in Int : Reads(LocationRows(i, dict), FramesShown, o[i])
  BY <1>1, LocationFrames, Zenon DEF LocationsShown
<1>3. Reads(StackRows(sample, dict), FramesShown, FlatMap(o, RootFirst(sample, dict)))
  BY <1>2, FramesReader, StackReads, Zenon
<1> QED
  BY <1>1, <1>3, Zenon DEF StackShown

LEMMA SampleFrames ==
    ASSUME NEW dict \in Seq(DictionaryMessage), NEW sample \in SampleMessage,
           \A k \in DOMAIN dict : DictionaryOK(dict[k])
    PROVE  Reads(SampleRows(sample, dict), FramesShown,
                 <<SampleSign>> \o Each(dict, LAMBDA d : StackShown(sample, d)))
<1> DEFINE w == [k \in DOMAIN dict |-> StackShown(sample, dict[k])]
<1>1. /\ Row("sample", sample.values) \in DOMAIN FramesShown
      /\ FramesShown[Row("sample", sample.values)] = <<SampleSign>>
  BY SampleIs, FramesReader, Zenon
<1>2. \A k \in DOMAIN dict : dict[k] \in DictionaryMessage
  BY ElementsAre, Zenon
<1>3. /\ w = [k \in DOMAIN dict |-> w[k]]
      /\ \A k \in DOMAIN dict : Reads(StackRows(sample, dict[k]), FramesShown, w[k])
  BY <1>2, StackFrames, Zenon
<1>4. Each(dict, LAMBDA d : StackShown(sample, d)) = FlattenSeq(w)
  BY Zenon DEF Each
<1> HIDE DEF w
<1>5. Reads(SampleRows(sample, dict), FramesShown,
            FramesShown[Row("sample", sample.values)] \o FlattenSeq(w))
  BY <1>1, <1>3, FramesReader, SampleReads, Zenon
<1> QED
  BY <1>1, <1>4, <1>5, Zenon

LEMMA ShownReads ==
    ASSUME NEW dict \in Seq(DictionaryMessage), \A k \in DOMAIN dict : DictionaryOK(dict[k])
    PROVE  /\ ShownOf(dict) \in [SampleMessage -> Seq(Frame)]
           /\ \A s \in SampleMessage :
                  Reads(SampleRows(s, dict), FramesShown, ShownOf(dict)[s])
<1> DEFINE shown(s) == <<SampleSign>> \o Each(dict, LAMBDA d : StackShown(s, d))
<1>1. \A s \in SampleMessage : Reads(SampleRows(s, dict), FramesShown, shown(s))
  BY SampleFrames, Zenon
<1>2. ShownOf(dict) = [s \in SampleMessage |-> shown(s)]
  BY Zenon DEF ShownOf
<1> HIDE DEF shown
<1>3. \A s \in SampleMessage : shown(s) \in Seq(Frame)
  BY <1>1, FramesReader, ReadsIsSeq, Zenon
<1> QED
  BY <1>1, <1>2, <1>3, Zenon

(* The tables of a dictionary show no frames. *)
LEMMA DictionaryFrames ==
    ASSUME NEW dict \in DictionaryMessage
    PROVE  Reads(DictionaryRows(dict), FramesShown, <<>>)
<1>1. dict.strings \in Seq(STRING)
  BY TablesAre, Zenon
<1>2. /\ Row("truncated", <<>>) \in DOMAIN FramesShown
      /\ FramesShown[Row("truncated", <<>>)] = <<>>
  <2>1. <<>> \in Seq(Words) /\ "truncated" \in {"truncated", "invalid"}
    BY EmptySeq
  <2> QED
    BY <2>1, FramesReader, Zenon
<1>3. Reads(Table("String Table", dict.strings, StringRows(dict.strings)), FramesShown,
            IF Len(dict.strings) > 1 /\ Len(FilledRows(dict.strings)) >= MaxStrings
            THEN FramesShown[Row("truncated", <<>>)] ELSE <<>>)
  BY <1>1, <1>2, FramesReader, StringTableReads, Zenon
<1>4. Reads(Table("String Table", dict.strings, StringRows(dict.strings)), FramesShown, <<>>)
  BY <1>2, <1>3, Zenon
<1> QED
  BY <1>4, FramesReader, DictionaryReads, Zenon DEF StringTable

LEMMA DictionariesShow ==
    ASSUME NEW dict \in Seq(DictionaryMessage)
    PROVE  Reads(Each(dict, DictionaryRows), FramesShown, <<>>)
<1> DEFINE f == [k \in DOMAIN dict |-> DictionaryRows(dict[k])]
<1>1. Each(dict, DictionaryRows) = FlattenSeq(f)
  BY Zenon DEF Each
<1>2. /\ f = [k \in DOMAIN dict |-> f[k]]
      /\ \A k \in DOMAIN dict : Reads(f[k], FramesShown, <<>>)
  <2>1. \A k \in DOMAIN dict : dict[k] \in DictionaryMessage
    BY ElementsAre, Zenon
  <2> QED
    BY <2>1, DictionaryFrames, Zenon
<1> HIDE DEF f
<1>3. Reads(FlattenSeq(f), FramesShown, <<>>)
  BY <1>2, FramesReader, QuietEach, Zenon
<1> QED
  BY <1>1, <1>3, Zenon

(* So a page shows, sample after sample, the frames of its stack. *)
LEMMA PageFrames ==
    ASSUME NEW request \in RequestMessage,
           \A k \in DOMAIN request.dictionary : DictionaryOK(request.dictionary[k])
    PROVE  /\ AllSamples(request) \in Seq(SampleMessage)
           /\ Each(Document(request), FramesOn) =
                  FlatMap(ShownOf(request.dictionary), AllSamples(request))
<1> DEFINE dict == request.dictionary
           samples == AllSamples(request)
           page == Document(request)
<1>1. dict \in Seq(DictionaryMessage) /\ \A k \in DOMAIN dict : DictionaryOK(dict[k])
  BY Zenon DEF RequestMessage
<1>2. PICK h : h = ShownOf(dict)
  OBVIOUS
<1>3. /\ h \in [SampleMessage -> Seq(Frame)]
      /\ \A s \in SampleMessage : Reads(SampleRows(s, request.dictionary), FramesShown, h[s])
  BY <1>1, <1>2, ShownReads, Zenon
<1>4. Reads(Each(request.dictionary, DictionaryRows), FramesShown, <<>>)
  BY <1>1, DictionariesShow, Zenon
<1>5. /\ samples \in Seq(SampleMessage)
      /\ Reads(page, FramesShown, <<>> \o FlatMap(h, samples))
  BY <1>3, <1>4, FramesReader, DocumentReads, Zenon
<1>6. <<>> \o FlatMap(h, samples) = FlatMap(h, samples)
  <2>1. FlatMap(h, samples) \in Seq(Frame)
    BY <1>3, <1>5, FlatMapIsSeq, Zenon
  <2> QED
    BY <2>1, ConcatEmptySeq, Zenon
<1> HIDE DEF page
<1>7. FlatMap(FramesShown, page) = Each(page, FramesOn)
  <2>1. PICK R : R = DOMAIN FramesShown
    OBVIOUS
  <2>2. page \in Seq(R)
    BY <1>5, <2>1, Zenon DEF Reads
  <2>3. \A k \in DOMAIN page : page[k] \in R
    BY <2>2, ElementsAre, Zenon
  <2>4. [k \in DOMAIN page |-> FramesShown[page[k]]] = [k \in DOMAIN page |-> FramesOn(page[k])]
    BY <2>1, <2>3, Zenon DEF FramesShown
  <2> QED
    BY <2>4, Zenon DEF FlatMap, Each
<1>8. Each(page, FramesOn) = FlatMap(h, samples)
  BY <1>5, <1>6, <1>7, Zenon DEF Reads
<1> QED
  BY <1>2, <1>5, <1>8, Zenon DEF page

----------------------------------------------------------------------------
(* The same of the receiver.  Frames are resolved from four of the tables.  *)
SameTables(d, e) ==
    /\ d.strings = e.strings /\ d.mappings = e.mappings
    /\ d.functions = e.functions /\ d.attributes = e.attributes

LEMMA SameFrames ==
    ASSUME NEW d, NEW e, SameTables(d, e), NEW location
    PROVE  FramesOf(location, d) = FramesOf(location, e)
<1>1. \A place : NonEmpty(place, d) <=> NonEmpty(place, e)
  BY Zenon DEF NonEmpty, SameTables
<1>2. \A line : ResolveFunctionName(line, d) = ResolveFunctionName(line, e)
  BY <1>1, Zenon DEF ResolveFunctionName, SameTables
<1>3. ResolveMappingFilename(location, d) = ResolveMappingFilename(location, e)
  BY <1>1, Zenon DEF ResolveMappingFilename, SameTables
<1>4. \A a : KeyOf(a, d) = KeyOf(a, e)
  BY Zenon DEF KeyOf, SameTables
<1>5. \A key, indices : Carriers(key, indices, d) = Carriers(key, indices, e)
  BY <1>4, Zenon DEF Carriers, SameTables
<1>6. \A i : TextOf(i, d) = TextOf(i, e)
  BY Zenon DEF TextOf, SameTables
<1>7. ResolveFrameType(location, d) = ResolveFrameType(location, e)
  BY <1>5, <1>6, Zenon DEF ResolveFrameType
<1>8. Symbolize(location, d) = Symbolize(location, e)
  BY <1>3, Zenon DEF Symbolize
<1>9. NamesOf(location, d) = NamesOf(location, e)
  BY <1>2, Zenon DEF NamesOf
<1> QED
  BY <1>3, <1>7, <1>8, <1>9, Zenon DEF FramesOf

LEMMA FlattenOne ==
    ASSUME NEW S, NEW x \in Seq(S)
    PROVE  FlattenSeq(<<x>>) = x
<1>1. PICK X : X = Seq(S)
  OBVIOUS
<1>2. <<x>> \in [1 .. 1 -> X] /\ <<x>>[1] = x /\ 1 \in Nat /\ 1 \in 1 .. 1 /\ 1 - 1 = 0
  BY <1>1
<1>3. PICK s : s = <<x>>
  OBVIOUS
<1>4. s \in [1 .. 1 -> Seq(S)]
  BY <1>1, <1>2, <1>3, Zenon
<1>5. /\ FlattenSeq(FirstOnes(s, 0)) = <<>> /\ FirstOnes(s, 1) = s
      /\ FlattenSeq(FirstOnes(s, 1)) = FlattenSeq(FirstOnes(s, 1 - 1)) \o s[1]
  <2>1. GrowsBy(s, 1, S)
    BY <1>2, <1>4, FlattenGrows, Zenon
  <2> QED
    BY <1>2, <2>1, Zenon DEF GrowsBy
<1>6. FlattenSeq(s) = <<>> \o x
  BY <1>2, <1>3, <1>5, Zenon
<1>7. <<>> \o x = x
  BY ConcatEmptySeq
<1> QED
  BY <1>3, <1>6, <1>7, Zenon

LEMMA WithoutNullIs ==
    ASSUME NEW stack \in Seq(Int)
    PROVE  /\ Reverse(stack) \in Seq(Int)
           /\ DOMAIN Reverse(WithoutNull(stack)) = DOMAIN Reverse(stack)
           /\ \A k \in DOMAIN Reverse(stack) :
                  Reverse(WithoutNull(stack))[k] =
                      IF Reverse(stack)[k] = 0 THEN -1 ELSE Reverse(stack)[k]
<1>1. Len(stack) \in Nat /\ DOMAIN stack = 1 .. Len(stack)
  OBVIOUS
<1>2. /\ Len(WithoutNull(stack)) = Len(stack)
      /\ \A j \in 1 .. Len(stack) :
             WithoutNull(stack)[j] = IF stack[j] = 0 THEN -1 ELSE stack[j]
  BY <1>1 DEF WithoutNull
<1>3. \A k \in 1 .. Len(stack) : Len(stack) - k + 1 \in 1 .. Len(stack)
  BY <1>1
<1> QED
  BY <1>1, <1>2, <1>3 DEF Reverse

(* The label of a reference that is not null is what the location shows.    *)
LEMMA LabelShows ==
    ASSUME NEW dict \in DictionaryMessage, DictionaryOK(dict), NEW i \in Int,
           NEW j, j = IF i = 0 THEN -1 ELSE i,
           NEW e, SameTables(e, dict), e.locations = dict.locations,
           NEW label, label = IF ListedAt(j, e.locations)
                              THEN <<FramesOf(At(j, e.locations), e)>> ELSE <<>>
    PROVE  label \in Seq(Seq(Frame)) /\ FlattenSeq(label) = ShownAt(i, dict)
<1>1. ListedAt(j, dict.locations) <=> i > 0 /\ ListedAt(i, dict.locations)
  BY DEF ListedAt
<1>2. PICK F : F = Seq(Frame)
  OBVIOUS
<1>3. CASE ListedAt(j, dict.locations)
  <2>1. i > 0 /\ ListedAt(i, dict.locations) /\ j = i
    <3>1. i > 0 => i # 0
      OBVIOUS
    <3> QED
      BY <1>1, <1>3, <3>1, Zenon
  <2>2. PICK x : x = FramesOf(At(i, dict.locations), dict)
    OBVIOUS
  <2>3. label = <<x>>
    BY <1>3, <2>1, <2>2, SameFrames, Zenon
  <2>4. x \in Seq(Frame)
    BY <2>1, <2>2, LocationOK, FramesOfAre, Zenon
  <2>5. <<x>> \in Seq(F)
    <3>1. x \in F
      BY <1>2, <2>4, Zenon
    <3> QED
      BY <3>1
  <2>6. FlattenSeq(<<x>>) = x
    BY <2>4, FlattenOne, Zenon
  <2> QED
    BY <1>2, <2>1, <2>2, <2>3, <2>5, <2>6, Zenon DEF ShownAt
<1>4. CASE ~ListedAt(j, dict.locations)
  <2>1. label = <<>> /\ ShownAt(i, dict) = <<>>
    BY <1>1, <1>4, Zenon DEF ShownAt
  <2>2. <<>> \in Seq(F) /\ Len(<<>>) = 0
    BY EmptySeq
  <2>3. FlattenSeq(<<>>) = <<>>
    BY <2>2, FlattenNothing, Zenon
  <2> QED
    BY <1>2, <2>1, <2>2, <2>3, Zenon
<1> QED
  BY <1>3, <1>4, Zenon

(* The labels of a stack, put after each other. *)
AreLabels(labels, out) == labels \in Seq(Seq(Frame)) /\ FlattenSeq(labels) = out

LEMMA LabelsShow ==
    ASSUME NEW dict \in DictionaryMessage, DictionaryOK(dict), NEW stack \in Seq(Int),
           NEW e, SameTables(e, dict), e.locations = dict.locations
    PROVE  AreLabels(Labels(WithoutNull(stack), e),
                     FlatMap(LocationsShown(dict), Reverse(stack)))
<1> DEFINE rooted == Reverse(WithoutNull(stack))
           Label(i) == IF ListedAt(i, e.locations)
                       THEN <<FramesOf(At(i, e.locations), e)>> ELSE <<>>
           f == [k \in DOMAIN rooted |-> Label(rooted[k])]
           list == Reverse(stack)
           g == [k \in DOMAIN list |-> ShownAt(list[k], dict)]
<1>1. Labels(WithoutNull(stack), e) = FlattenSeq(f)
  BY Zenon DEF Labels
<1>2. /\ list \in Seq(Int) /\ DOMAIN rooted = DOMAIN list
      /\ \A k \in DOMAIN list : rooted[k] = IF list[k] = 0 THEN -1 ELSE list[k]
  BY WithoutNullIs, Zenon
<1>3. PICK N \in Nat : DOMAIN list = 1 .. N /\ \A k \in 1 .. N : list[k] \in Int
  BY <1>2, ElementsAre, Zenon
<1>4. PICK F : F = Seq(Frame)
  OBVIOUS
<1>5. ASSUME NEW k \in 1 .. N
      PROVE  f[k] \in Seq(F) /\ FlattenSeq(f[k]) = g[k]
  <2>1. PICK i \in Int : i = list[k]
    BY <1>3, Zenon
  <2>2. PICK j : j = rooted[k]
    OBVIOUS
  <2>3. j = IF i = 0 THEN -1 ELSE i
    BY <1>2, <1>3, <2>1, <2>2, Zenon
  <2>4. PICK label : label = Label(j)
    OBVIOUS
  <2>5. label \in Seq(Seq(Frame)) /\ FlattenSeq(label) = ShownAt(i, dict)
    BY <2>3, <2>4, LabelShows, Zenon
  <2>6. f[k] = label /\ g[k] = ShownAt(i, dict)
    BY <1>2, <1>3, <2>1, <2>2, <2>4, Zenon
  <2> QED
    BY <1>4, <2>5, <2>6, Zenon
<1>6. f = [k \in 1 .. N |-> f[k]] /\ g = [k \in 1 .. N |-> g[k]]
  BY <1>2, <1>3, Zenon
<1>7. g = [k \in DOMAIN list |-> LocationsShown(dict)[list[k]]]
  <2>1. \A k \in DOMAIN list : LocationsShown(dict)[list[k]] = ShownAt(list[k], dict)
    BY <1>3, Zenon DEF LocationsShown
  <2> QED
    BY <2>1, Zenon
<1> HIDE DEF f, g, rooted, list
<1>8. f \in [1 .. N -> Seq(F)]
  BY <1>5, <1>6, Zenon
<1>9. f \in Seq(Seq(F)) /\ DOMAIN f = 1 .. N
  BY <1>8, IntervalIsSeq, Zenon
<1>10. g = [k \in DOMAIN f |-> FlattenSeq(f[k])]
  BY <1>5, <1>6, <1>9, Zenon
<1>11. FlattenSeq(FlattenSeq(f)) = FlattenSeq(g)
  BY <1>4, <1>9, <1>10, FlattenTwice, Zenon
<1>12. FlattenSeq(f) \in Seq(F)
  BY <1>8, FlattenIsSeq, Zenon
<1>13. FlattenSeq(g) = FlatMap(LocationsShown(dict), list)
  BY <1>7, Zenon DEF FlatMap
<1> QED
  BY <1>1, <1>4, <1>11, <1>12, <1>13, Zenon DEF AreLabels, list

(* A request without references to null is the same but for them.           *)
AsWithoutNulls(e, d) ==
    /\ SameTables(e, d) /\ e.locations = d.locations
    /\ e.stacks = [k \in DOMAIN d.stacks |-> WithoutNull(d.stacks[k])]

LEMMA NoNullsIs ==
    ASSUME NEW request \in RequestMessage
    PROVE  /\ AllSamples(NoNulls(request)) = AllSamples(request)
           /\ DOMAIN NoNulls(request).dictionary = DOMAIN request.dictionary
           /\ \A k \in DOMAIN request.dictionary :
                  AsWithoutNulls(NoNulls(request).dictionary[k], request.dictionary[k])
<1> DEFINE e == NoNulls(request)
           dict == request.dictionary
<1>1. DOMAIN request = {"dictionary", "resources"}
  <2>1. \A D, R : \A r \in [dictionary: D, resources: R] : DOMAIN r = {"dictionary", "resources"}
    OBVIOUS
  <2> QED
    BY <2>1, Zenon DEF RequestMessage
<1>2. e = [request EXCEPT !.dictionary = [k \in DOMAIN dict |-> WithoutNulls(dict[k])]]
  BY Zenon DEF NoNulls
<1>3. e.resources = request.resources /\ e.dictionary = [k \in DOMAIN dict |-> WithoutNulls(dict[k])]
  <2> HIDE DEF e
  <2> QED
    BY <1>1, <1>2
<1>4. AllSamples(e) = AllSamples(request)
  BY <1>3, Zenon DEF AllSamples
<1>5. ASSUME NEW k \in DOMAIN dict PROVE AsWithoutNulls(WithoutNulls(dict[k]), dict[k])
  <2>1. PICK d \in DictionaryMessage : d = dict[k]
    <3>1. dict \in Seq(DictionaryMessage)
      BY Zenon DEF RequestMessage
    <3> QED
      BY <3>1, ElementsAre, Zenon
  <2>2. DOMAIN d = {"strings", "mappings", "functions", "attributes", "locations", "stacks"}
    <3>1. \A A, B, C, D, E, F :
            \A r \in [strings: A, mappings: B, functions: C, attributes: D, locations: E, stacks: F] :
              DOMAIN r = {"strings", "mappings", "functions", "attributes", "locations", "stacks"}
      OBVIOUS
    <3> QED
      BY <3>1, Zenon DEF DictionaryMessage
  <2>3. PICK stacks : stacks = [j \in DOMAIN d.stacks |-> WithoutNull(d.stacks[j])]
    BY Zenon
  <2>4. PICK n : n = [d EXCEPT !.stacks = stacks]
    BY Zenon
  <2>5. /\ n.strings = d.strings /\ n.mappings = d.mappings /\ n.functions = d.functions
        /\ n.attributes = d.attributes /\ n.locations = d.locations /\ n.stacks = stacks
    BY <2>2, <2>4
  <2>6. WithoutNulls(dict[k]) = n
    BY <2>1, <2>3, <2>4, Zenon DEF WithoutNulls
  <2>7. AsWithoutNulls(n, d)
    BY <2>3, <2>5, Zenon DEF AsWithoutNulls, SameTables
  <2> QED
    BY <2>1, <2>6, <2>7, Zenon
<1>6. DOMAIN e.dictionary = DOMAIN dict /\ \A k \in DOMAIN dict : e.dictionary[k] = WithoutNulls(dict[k])
  BY <1>3, Zenon
<1> QED
  BY <1>4, <1>5, <1>6, Zenon

LEMMA StackWithoutNull ==
    ASSUME NEW dict \in DictionaryMessage, NEW sample \in SampleMessage,
           NEW e, AsWithoutNulls(e, dict)
    PROVE  /\ HasStack(sample, e) <=> HasStack(sample, dict)
           /\ HasStack(sample, dict) =>
                  /\ At(sample.stack, e.stacks) = WithoutNull(At(sample.stack, dict.stacks))
                  /\ At(sample.stack, dict.stacks) \in Seq(Int)
<1>1. sample.stack \in Int /\ dict.stacks \in Seq(Seq(Int))
  BY TablesAre, Zenon DEF SampleMessage
<1>2. PICK T : T = Seq(Int)
  OBVIOUS
<1>3. PICK s \in Seq(T) : s = dict.stacks
  BY <1>1, <1>2, Zenon
<1>4. PICK n : n = e.stacks
  OBVIOUS
<1>5. n = [k \in DOMAIN s |-> WithoutNull(s[k])]
  BY <1>3, <1>4, Zenon DEF AsWithoutNulls
<1>6. Len(n) = Len(s)
  BY <1>5
<1>7. HasStack(sample, e) <=> HasStack(sample, dict)
  BY <1>3, <1>4, <1>6, Zenon DEF HasStack, ListedAt
<1>8. ASSUME HasStack(sample, dict)
      PROVE  n[sample.stack + 1] = WithoutNull(s[sample.stack + 1]) /\ s[sample.stack + 1] \in T
  <2>1. sample.stack + 1 \in DOMAIN s
    BY <1>1, <1>3, <1>8 DEF HasStack, ListedAt
  <2>2. s[sample.stack + 1] \in T
    BY <2>1, ElementsAre, Zenon
  <2> QED
    BY <1>5, <2>1, <2>2, Zenon
<1> QED
  BY <1>2, <1>3, <1>4, <1>7, <1>8, Zenon DEF At

LEMMA TailOfJoin ==
    ASSUME NEW S, NEW s \in Seq(S), NEW x
    PROVE  Tail(<<x>> \o s) = s /\ <<x>> \o s # <<>>
OBVIOUS

(* What the receiver has for a sample is what its stack shows.              *)
LEMMA ReceivedOne ==
    ASSUME NEW dict \in DictionaryMessage, DictionaryOK(dict), NEW sample \in SampleMessage,
           NEW e, AsWithoutNulls(e, dict), NEW thread,
           NEW stack, stack = IF HasStack(sample, e)
                              THEN <<thread>> \o Labels(At(sample.stack, e.stacks), e)
                              ELSE <<>>
    PROVE  (IF stack # <<>> THEN FlattenSeq(Tail(stack)) ELSE <<>>) = StackShown(sample, dict)
<1>1. CASE HasStack(sample, dict)
  <2>1. PICK s \in Seq(Int) : s = At(sample.stack, dict.stacks)
    BY <1>1, StackWithoutNull, Zenon
  <2>2. PICK labels : labels = Labels(WithoutNull(s), e)
    OBVIOUS
  <2>3. stack = <<thread>> \o labels
    BY <1>1, <2>1, <2>2, StackWithoutNull, Zenon
  <2>4. AreLabels(labels, FlatMap(LocationsShown(dict), Reverse(s)))
    BY <2>2, LabelsShow, Zenon DEF AsWithoutNulls
  <2>5. Tail(stack) = labels /\ stack # <<>>
    <3>1. PICK F : labels \in Seq(F)
      BY <2>4, Zenon DEF AreLabels
    <3>2. Tail(<<thread>> \o labels) = labels /\ <<thread>> \o labels # <<>>
      BY <3>1, TailOfJoin, Zenon
    <3> QED
      BY <2>3, <3>2, Zenon
  <2>6. StackShown(sample, dict) = FlatMap(LocationsShown(dict), Reverse(s))
    BY <1>1, <2>1, Zenon DEF StackShown, RootFirst
  <2> QED
    BY <2>4, <2>5, <2>6, Zenon DEF AreLabels
<1>2. CASE ~HasStack(sample, dict)
  <2>1. stack = <<>>
    BY <1>2, StackWithoutNull, Zenon
  <2>2. StackShown(sample, dict) = <<>>
    BY <1>2, FlatMapNothing, Zenon DEF StackShown, RootFirst
  <2> QED
    BY <2>1, <2>2, Zenon
<1> QED
  BY <1>1, <1>2, Zenon

(* The receiver's stack of each sample, by the one dictionary there may be. *)
LEMMA StacksAre ==
    ASSUME NEW request \in RequestMessage, Len(request.dictionary) <= 1,
           \A k \in DOMAIN request.dictionary : DictionaryOK(request.dictionary[k]),
           AllSamples(request) \in Seq(SampleMessage),
           NEW k \in DOMAIN AllSamples(request),
           NEW stacks, stacks = Stacks(NoNulls(request))
    PROVE  (IF k \in DOMAIN stacks /\ stacks[k] # <<>> THEN FlattenSeq(Tail(stacks[k])) ELSE <<>>)
               = Each(request.dictionary, LAMBDA d : StackShown(AllSamples(request)[k], d))
<1> DEFINE dict == request.dictionary
           samples == AllSamples(request)
           shown == [j \in DOMAIN dict |-> StackShown(samples[k], dict[j])]
<1>1. dict \in Seq(DictionaryMessage)
  BY Zenon DEF RequestMessage
<1>2. PICK e : e = NoNulls(request)
  OBVIOUS
<1>3. /\ AllSamples(e) = samples /\ DOMAIN e.dictionary = DOMAIN dict
      /\ \A j \in DOMAIN dict : AsWithoutNulls(e.dictionary[j], dict[j])
  BY <1>2, NoNullsIs, Zenon
<1>4. Each(dict, LAMBDA d : StackShown(samples[k], d)) = FlattenSeq(shown)
  BY Zenon DEF Each
<1>5. DOMAIN <<>> = {}
  OBVIOUS
<1>6. CASE dict = <<>>
  <2>1. e.dictionary = <<>>
    <3>1. PICK t : t = e.dictionary
      OBVIOUS
    <3>2. DOMAIN t = {}
      BY <1>3, <1>5, <1>6, <3>1, Zenon
    <3>3. t = [j \in DOMAIN dict |-> WithoutNulls(dict[j])]
      <4>1. DOMAIN request = {"dictionary", "resources"}
        <5>1. \A D, R : \A r \in [dictionary: D, resources: R] :
                  DOMAIN r = {"dictionary", "resources"}
          OBVIOUS
        <5> QED
          BY <5>1, Zenon DEF RequestMessage
      <4>2. e = [request EXCEPT !.dictionary = [j \in DOMAIN dict |-> WithoutNulls(dict[j])]]
        BY <1>2, Zenon DEF NoNulls
      <4> QED
        BY <3>1, <4>1, <4>2
    <3>4. t \in [1 .. 0 -> {0}]
      BY <1>6, <3>3
    <3>5. t \in Seq({0}) /\ DOMAIN t = 1 .. 0
      BY <3>4, IntervalIsSeq, Zenon
    <3>6. \A s \in Seq({0}) : DOMAIN s = 1 .. 0 => s = <<>>
      OBVIOUS
    <3> QED
      BY <3>1, <3>5, <3>6, Zenon
  <2>2. stacks = <<>>
    BY <1>2, <2>1, Zenon DEF Stacks
  <2>3. shown \in [1 .. 0 -> {<<>>}]
    BY <1>6
  <2>4. FlattenSeq(shown) = <<>>
    <3> HIDE DEF shown
    <3> QED
      BY <2>3, FlattenNone, Zenon
  <2>5. k \notin DOMAIN stacks
    BY <1>5, <2>2, Zenon
  <2> QED
    BY <1>4, <2>4, <2>5, Zenon
<1>7. CASE dict # <<>>
  <2>1. DOMAIN dict = 1 .. 1
    BY <1>1, <1>7
  <2>2. 1 \in DOMAIN dict
    BY <2>1
  <2>3. PICK d \in DictionaryMessage : d = dict[1]
    BY <1>1, <2>2, ElementsAre, Zenon
  <2>4. PICK c : c = e.dictionary[1]
    OBVIOUS
  <2>5. AsWithoutNulls(c, d) /\ DictionaryOK(d)
    BY <1>3, <2>2, <2>3, <2>4, Zenon
  <2>6. e.dictionary # <<>>
    BY <1>3, <1>5, <2>2, Zenon
  <2>7. PICK sample \in SampleMessage : sample = samples[k]
    BY ElementsAre, Zenon
  <2>8. PICK thread : thread = <<ResolveThreadName(FirstOf(sample.stack, samples), c)>>
    OBVIOUS
  <2>9. /\ DOMAIN stacks = DOMAIN samples
        /\ stacks[k] = IF HasStack(sample, c)
                       THEN <<thread>> \o Labels(At(sample.stack, c.stacks), c)
                       ELSE <<>>
    <3>1. stacks = [j \in DOMAIN samples |->
                      IF HasStack(samples[j], c)
                      THEN << <<ResolveThreadName(FirstOf(samples[j].stack, samples), c)>> >>
                               \o Labels(At(samples[j].stack, c.stacks), c)
                      ELSE <<>>]
      BY <1>2, <1>3, <2>4, <2>6, Zenon DEF Stacks
    <3> QED
      BY <2>7, <2>8, <3>1, Zenon
  <2>10. PICK stack : stack = stacks[k]
    OBVIOUS
  <2>11. (IF stack # <<>> THEN FlattenSeq(Tail(stack)) ELSE <<>>) = StackShown(sample, d)
    BY <2>5, <2>9, <2>10, ReceivedOne, Zenon
  <2>12. FlattenSeq(shown) = StackShown(sample, d)
    <3>1. PICK x : x = StackShown(sample, d)
      OBVIOUS
    <3>2. x \in Seq(Frame)
      BY <2>5, <3>1, StackFrames, FramesReader, ReadsIsSeq, Zenon
    <3>3. shown = [j \in 1 .. 1 |-> x]
      <4>1. \A j \in 1 .. 1 : j = 1
        OBVIOUS
      <4> QED
        BY <2>1, <2>3, <2>7, <3>1, <4>1, Zenon
    <3>4. [j \in 1 .. 1 |-> x] = <<x>>
      OBVIOUS
    <3> QED
      BY <3>1, <3>2, <3>3, <3>4, FlattenOne, Zenon
  <2> QED
    BY <1>4, <2>9, <2>10, <2>11, <2>12, Zenon
<1> QED
  BY <1>6, <1>7, Zenon

LEMMA PageAgrees ==
    ASSUME NEW request \in RequestMessage, Len(request.dictionary) <= 1,
           \A k \in DOMAIN request.dictionary : DictionaryOK(request.dictionary[k])
    PROVE  Each(Document(request), FramesOn) = FramesReceived(request)
<1> DEFINE dict == request.dictionary
           samples == AllSamples(request)
           stacks == Stacks(NoNulls(request))
           Frames(k) == IF k \in DOMAIN stacks /\ stacks[k] # <<>>
                        THEN FlattenSeq(Tail(stacks[k])) ELSE <<>>
           shown(s) == Each(dict, LAMBDA d : StackShown(s, d))
<1>1. samples \in Seq(SampleMessage) /\ Each(Document(request), FramesOn) = FlatMap(ShownOf(dict), samples)
  BY PageFrames, Zenon
<1>2. FramesReceived(request) = FlattenSeq([k \in DOMAIN samples |-> <<SampleSign>> \o Frames(k)])
  BY Zenon DEF FramesReceived
<1>3. ASSUME NEW k \in DOMAIN samples
      PROVE  ShownOf(dict)[samples[k]] = <<SampleSign>> \o Frames(k)
  <2>1. samples[k] \in SampleMessage
    BY <1>1, ElementsAre, Zenon
  <2>2. Frames(k) = shown(samples[k])
    BY <1>1, StacksAre, Zenon
  <2>3. ShownOf(dict) = [s \in SampleMessage |-> <<SampleSign>> \o shown(s)]
    BY Zenon DEF ShownOf
  <2> HIDE DEF Frames, shown
  <2> QED
    BY <2>1, <2>2, <2>3, Zenon
<1> HIDE DEF Frames
<1>4. [k \in DOMAIN samples |-> ShownOf(dict)[samples[k]]]
          = [k \in DOMAIN samples |-> <<SampleSign>> \o Frames(k)]
  BY <1>3, Zenon
<1> QED
  BY <1>1, <1>2, <1>4, Zenon DEF FlatMap

(* Both modes resolve a request alike, whatever requests arrive: every page *)
(* shows the frames that the receiver resolves, in its order.               *)
THEOREM ModesAgree == Spec => []ViewsAgree
<1>1. IInv => ViewsAgree
  <2> SUFFICES ASSUME IInv, NEW k \in DOMAIN requests PROVE PagesAgree[requests[k]]
    BY Zenon DEF ViewsAgree
  <2>1. requests[k] \in Requests
    BY DEF IInv, PageOK
  <2>2. PICK request \in RequestMessage : request = Decoded[requests[k]]
    BY <2>1, PagesAssumption, Zenon
  <2>3. /\ Len(request.dictionary) <= 1
        /\ \A j \in DOMAIN request.dictionary : DictionaryOK(request.dictionary[j])
    BY <2>1, <2>2, PagesAssumption, Zenon
  <2>4. Each(Document(request), FramesOn) = FramesReceived(request)
    BY <2>3, PageAgrees, Zenon
  <2> QED
    BY <2>1, <2>2, <2>4, Zenon DEF PagesAgree
<1> QED
  BY <1>1, IInvInit, IInvStep, PTL DEF Spec
============================================================================
