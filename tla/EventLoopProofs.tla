--------------------------- MODULE EventLoopProofs -------------------------
(* Proofs about what the event loop drives. SymbolPipeline, for any names,  *)
(* files, threads and bound on the channel, and for any use of the keys:    *)
(* first the list and its order, then the three edits of the list, then the *)
(* actions one by one. At the end AppState, for any number of profiles.     *)
EXTENDS SymbolPipeline, AppState, OperatorProofs

USE TabAssumption

LEMMA NamesAreNumbers == \A n \in Name : n \in Int
OBVIOUS

(* A sequence of entries, and the cursor on one of them.                    *)
ListOK(l, c) == l \in Seq(Entry) /\ c \in 0 .. (IF l = <<>> THEN 0 ELSE Len(l) - 1)

LEMMA OrderIsTotal ==
    ASSUME NEW l \in Seq(Entry)
    PROVE  StrictTotalOrder(DOMAIN l, Order(l))
<1> DEFINE D == DOMAIN l
<1>1. \A i \in D : i \in Int /\ l[i].name \in Int
  <2>1. \A i \in D : i \in Int /\ l[i] \in Entry
    OBVIOUS
  <2>2. ASSUME NEW e \in Entry PROVE e.name \in Int
    <3>1. e.name \in Name
      BY DEF Entry
    <3>2. \A n \in Name : n \in Int
      BY NamesAreNumbers
    <3> QED
      BY ONLY <3>1, <3>2
  <2> QED
    BY <2>1, <2>2
<1>2. \A i, j \in D : <<i, j>> \in Order(l) <=> Precedes(l, i, j)
  BY DEF Order
<1>3. Order(l) \subseteq D \X D
  BY DEF Order
<1>4. \A i \in D : ~Precedes(l, i, i)
  BY <1>1 DEF Precedes
<1>5. \A i, j \in D : i # j => Precedes(l, i, j) \/ Precedes(l, j, i)
  BY <1>1 DEF Precedes
<1>6. \A i, j, k \in D :
          Precedes(l, i, j) /\ Precedes(l, j, k) => Precedes(l, i, k)
  BY <1>1 DEF Precedes
<1> QED
  BY <1>2, <1>3, <1>4, <1>5, <1>6 DEF StrictTotalOrder

(* sort_by moves entries and loses none.                                    *)
LEMMA SortedKeepsEntries ==
    ASSUME NEW l \in Seq(Entry)
    PROVE  /\ Sorted(l) \in Seq(Entry) /\ Len(Sorted(l)) = Len(l)
           /\ \A i \in DOMAIN l : \E k \in DOMAIN Sorted(l) : Sorted(l)[k] = l[i]
<1> DEFINE D == DOMAIN l
           order == Ranked(D, Order(l))
<1>1. D = 1 .. Len(l) /\ IsFiniteSet(D) /\ Cardinality(D) = Len(l)
  <2>1. D = 1 .. Len(l) /\ Len(l) \in Nat
    OBVIOUS
  <2>2. IsFiniteSet(1 .. Len(l)) /\ Cardinality(1 .. Len(l)) = Len(l)
    BY <2>1, FS_Interval
  <2> QED
    BY <2>1, <2>2
<1>2. /\ order \in [1 .. Cardinality(D) -> D]
      /\ \A i \in D : /\ Rank(D, Order(l), i) \in 1 .. Cardinality(D)
                      /\ order[Rank(D, Order(l), i)] = i
  <2> HIDE DEF D
  <2> QED
    BY <1>1, OrderIsTotal, RankedIsListing DEF D
<1>3. Sorted(l) = [k \in D |-> l[order[k]]]
  BY DEF Sorted
<1>4. \A k \in D : l[order[k]] \in Entry
  <2>1. \A k \in D : order[k] \in D
    <3> HIDE DEF order
    <3> QED
      BY <1>1, <1>2
  <2>2. \A i \in D : l[i] \in Entry
    OBVIOUS
  <2> QED
    BY <2>1, <2>2
<1>5. Sorted(l) \in Seq(Entry) /\ Len(Sorted(l)) = Len(l)
  BY <1>1, <1>3, <1>4
<1>6. ASSUME NEW i \in D PROVE \E k \in DOMAIN Sorted(l) : Sorted(l)[k] = l[i]
  <2>1. Rank(D, Order(l), i) \in D
    BY <1>1, <1>2
  <2>2. Sorted(l)[Rank(D, Order(l), i)] = l[i]
    BY <1>2, <1>3, <2>1
  <2> QED
    BY <1>3, <2>1, <2>2
<1> QED
  BY <1>5, <1>6

(* position and find return an entry with the name when there is one.       *)
LEMMA FirstIsNamed ==
    ASSUME NEW l \in Seq(Entry), NEW n, Named(l, n) # {}
    PROVE  First(l, n) \in DOMAIN l /\ l[First(l, n)].name = n
<1>1. Named(l, n) \subseteq 1 .. Len(l)
  BY DEF Named
<1>2. Named(l, n) \in SUBSET Int /\ IsFiniteSet(Named(l, n))
  <2>1. Len(l) \in Nat /\ IsFiniteSet(1 .. Len(l))
    BY FS_Interval
  <2> QED
    BY ONLY <1>1, <2>1, FS_Subset
<1>3. \E i \in Named(l, n) : \A j \in Named(l, n) : i <= j
  BY <1>2, LeastExists
<1>4. First(l, n) \in Named(l, n)
  BY <1>3 DEF First
<1> QED
  BY <1>4 DEF Named

(* sort_list keeps every entry and leaves the cursor on the name it was on. *)
LEMMA SortListSticks ==
    ASSUME NEW l \in Seq(Entry), ListOK(l, cursor), SortList(l)
    PROVE  /\ ListOK(list', cursor')
           /\ l # <<>> => list'[cursor' + 1].name = l[cursor + 1].name
           /\ \A n : Named(l, n) # {} => Named(list', n) # {}
<1>1. /\ list' = Sorted(l) /\ list' \in Seq(Entry) /\ Len(list') = Len(l)
      /\ \A i \in DOMAIN l : \E k \in DOMAIN list' : list'[k] = l[i]
  BY SortedKeepsEntries DEF SortList
<1>2. \A n : Named(l, n) # {} => Named(list', n) # {}
  BY <1>1 DEF Named
<1>3. CASE l = <<>>
  <2>1. cursor' = 0 /\ Len(list') = 0
    BY <1>1, <1>3 DEF SortList
  <2>2. list' = <<>>
    BY <1>1, <2>1
  <2> QED
    BY <1>1, <1>2, <1>3, <2>1, <2>2 DEF ListOK
<1>4. CASE l # <<>>
  <2>1. cursor + 1 \in DOMAIN l
    BY <1>4 DEF ListOK
  <2>2. Named(l, l[cursor + 1].name) # {}
    BY <2>1 DEF Named
  <2>3. /\ First(list', l[cursor + 1].name) \in DOMAIN list'
        /\ list'[First(list', l[cursor + 1].name)].name = l[cursor + 1].name
    BY <1>1, <1>2, <2>2, FirstIsNamed
  <2>4. cursor' = First(list', l[cursor + 1].name) - 1
    BY <1>1, <1>4 DEF SortList
  <2>5. cursor' + 1 \in DOMAIN list' /\ list' # <<>>
    BY <1>1, <1>4, <2>3, <2>4
  <2>6. cursor' + 1 = First(list', l[cursor + 1].name)
    BY <1>1, <2>3, <2>4
  <2>7. list'[cursor' + 1].name = l[cursor + 1].name
    BY <2>3, <2>6
  <2>8. ListOK(list', cursor')
    <3>1. cursor' \in 0 .. Len(list') - 1
      BY <1>1, <2>3, <2>4
    <3> QED
      BY <1>1, <2>5, <3>1 DEF ListOK
  <2> QED
    BY <1>2, <2>7, <2>8
<1> QED
  BY <1>3, <1>4

----------------------------------------------------------------------------
(* The three edits: entries are changed in place or pushed at the end, so   *)
(* the cursor is still on the name it was on when the list is sorted.       *)
Edited(l) ==
    /\ l \in Seq(Entry) /\ Len(list) <= Len(l)
    /\ \A i \in DOMAIN list : l[i].name = list[i].name

Sticks ==
    /\ ListOK(list', cursor')
    /\ list # <<>> => list'[cursor' + 1].name = Selected.name
    /\ \A n : Named(list, n) # {} => Named(list', n) # {}

LEMMA EditSticks ==
    ASSUME ListOK(list, cursor), NEW l, Edited(l), SortList(l)
    PROVE  Sticks
<1>1. /\ l \in Seq(Entry) /\ Len(l) \in Nat /\ Len(list) \in Nat
      /\ Len(list) <= Len(l) /\ DOMAIN l = 1 .. Len(l)
      /\ DOMAIN list = 1 .. Len(list)
  BY DEF Edited, ListOK
<1>2. ListOK(l, cursor)
  <2>1. list # <<>> => l # <<>> /\ Len(list) # 0
    BY <1>1 DEF ListOK
  <2>2. CASE list = <<>>
    <3>1. cursor = 0 /\ (l # <<>> => Len(l) # 0)
      BY <1>1, <2>2 DEF ListOK
    <3> QED
      BY <1>1, <3>1 DEF ListOK
  <2>3. CASE list # <<>>
    BY <1>1, <2>1, <2>3 DEF ListOK
  <2> QED
    BY <2>2, <2>3
<1>3. /\ ListOK(list', cursor')
      /\ l # <<>> => list'[cursor' + 1].name = l[cursor + 1].name
      /\ \A n : Named(l, n) # {} => Named(list', n) # {}
  BY <1>1, <1>2, SortListSticks
<1>4. ASSUME list # <<>> PROVE list'[cursor' + 1].name = Selected.name
  <2>1. cursor + 1 \in DOMAIN list
    BY <1>1, <1>4 DEF ListOK
  <2>2. l # <<>>
    BY <1>1, <2>1
  <2>3. l[cursor + 1].name = list[cursor + 1].name
    BY <2>1 DEF Edited
  <2> QED
    BY <1>3, <2>2, <2>3 DEF Selected
<1>5. \A n : Named(list, n) # {} => Named(l, n) # {}
  BY <1>1 DEF Named, Edited
<1> QED
  BY <1>3, <1>4, <1>5 DEF Sticks

(* The names that are pushed: none is listed, and none comes twice. *)
NewNames(names) == Picked(names, Unlisted(list, names))

LEMMA NewNamesAre ==
    ASSUME NEW names \in Seq(Name)
    PROVE  /\ NewNames(names) \in Seq(Name) /\ Distinct(NewNames(names))
           /\ \A k \in DOMAIN NewNames(names) : Named(list, NewNames(names)[k]) = {}
<1> DEFINE places == Unlisted(list, names)
           new == Picked(names, places)
<1>1. Len(names) \in Nat /\ DOMAIN names = 1 .. Len(names)
  OBVIOUS
<1>2. /\ places \in SUBSET (DOMAIN names)
      /\ \A i \in places : Named(list, names[i]) = {}
      /\ \A i \in places : \A j \in 1 .. i - 1 : names[j] # names[i]
  BY DEF Unlisted
<1>3. \A i, j \in places : names[i] = names[j] => i = j
  <2> SUFFICES ASSUME NEW i \in places, NEW j \in places, names[i] = names[j], i < j
               PROVE  FALSE
    BY <1>1, <1>2
  <2>1. i \in 1 .. j - 1
    BY <1>1, <1>2
  <2> QED
    BY <1>2, <2>1
<1> HIDE DEF places
<1>4. new \in Seq(Name) /\ ToSet(new) = {names[i] : i \in places} /\ Distinct(new)
  BY <1>2, <1>3, PickedIs
<1>5. ASSUME NEW k \in DOMAIN new PROVE Named(list, new[k]) = {}
  <2>1. new[k] \in ToSet(new)
    BY DEF ToSet
  <2> QED
    BY <1>2, <1>4, <2>1
<1> QED
  BY <1>4, <1>5 DEF NewNames, places

(* Each new name is pushed with no file.                                    *)
LEMMA PushedIsEdit ==
    ASSUME ListOK(list, cursor), NEW names \in Seq(Name)
    PROVE  Edited(Pushed(list, names))
<1> DEFINE s == NewNames(names)
           new == [k \in DOMAIN s |-> [name |-> s[k], file |-> NoFile]]
<1>1. s \in Seq(Name)
  BY NewNamesAre
<1>2. Pushed(list, names) = list \o new
  BY DEF Pushed, NewNames
<1> HIDE DEF s
<1>3. Len(s) \in Nat /\ DOMAIN s = 1 .. Len(s) /\ \A k \in DOMAIN s : s[k] \in Name
  BY <1>1
<1>4. new \in Seq(Entry)
  <2>1. \A k \in 1 .. Len(s) : new[k] \in Entry
    BY <1>3 DEF Entry
  <2>2. new \in [1 .. Len(s) -> Entry]
    BY <1>3, <2>1
  <2> HIDE DEF new
  <2> QED
    BY <1>3, <2>2
<1> HIDE DEF new
<1>5. list \o new \in Seq(Entry) /\ Len(list \o new) = Len(list) + Len(new)
  BY <1>4 DEF ListOK
<1>6. \A i \in DOMAIN list : (list \o new)[i] = list[i]
  BY <1>4 DEF ListOK
<1> QED
  BY <1>2, <1>4, <1>5, <1>6 DEF Edited, ListOK

LEMMA MergeSticks ==
    ASSUME ListOK(list, cursor), NEW names \in Seq(Name),
           MergeDiscoveredMappings(names)
    PROVE  Sticks
BY PushedIsEdit, EditSticks DEF MergeDiscoveredMappings

LEMMA ReplacedIsEdit ==
    ASSUME ListOK(list, cursor), NEW n, Named(list, n) # {},
           NEW f \in FileId \union {NoFile}
    PROVE  Edited([list EXCEPT ![First(list, n)].file = f])
<1> DEFINE k == First(list, n)
           l == [list EXCEPT ![k].file = f]
<1>1. list \in Seq(Entry) /\ k \in DOMAIN list
  BY FirstIsNamed DEF ListOK
<1> HIDE DEF k
<1>2. /\ list[k] \in Entry
      /\ [list[k] EXCEPT !.file = f] \in Entry
      /\ [list[k] EXCEPT !.file = f].name = list[k].name
  <2>1. ASSUME NEW e \in Entry
        PROVE  [e EXCEPT !.file = f] \in Entry /\ [e EXCEPT !.file = f].name = e.name
    BY DEF Entry
  <2>2. list[k] \in Entry
    BY <1>1
  <2> QED
    BY <2>1, <2>2
<1>3. l = [list EXCEPT ![k] = [list[k] EXCEPT !.file = f]]
  BY <1>1
<1>4. l \in Seq(Entry) /\ Len(l) = Len(list)
  BY <1>1, <1>2, <1>3
<1>5. \A i \in DOMAIN list : l[i].name = list[i].name
  BY <1>1, <1>2, <1>3
<1> QED
  BY <1>1, <1>4, <1>5 DEF Edited, k

LEMMA UpdateSticks ==
    ASSUME ListOK(list, cursor), NEW n \in Name, NEW f \in FileId,
           NEW fileName \in Name, UpdateSymbolized(n, f, fileName)
    PROVE  Sticks
<1>1. CASE Named(list, n) # {}
  BY <1>1, ReplacedIsEdit, EditSticks DEF UpdateSymbolized
<1>2. CASE Named(list, n) = {}
  <2> DEFINE e == [name |-> fileName, file |-> f]
  <2>1. e \in Entry
    BY DEF Entry
  <2> HIDE DEF e
  <2>2. Edited(Append(list, e))
    BY <2>1 DEF Edited, ListOK
  <2> QED
    BY <1>2, <2>2, EditSticks DEF UpdateSymbolized, e
<1> QED
  BY <1>1, <1>2

LEMMA ClearSticks ==
    ASSUME ListOK(list, cursor), NEW n \in Name, ClearSymbols(n)
    PROVE  Sticks
<1>1. Edited(list)
  BY DEF Edited, ListOK
<1>2. CASE Named(list, n) # {}
  BY <1>2, ReplacedIsEdit, EditSticks DEF ClearSymbols
<1>3. CASE Named(list, n) = {}
  BY <1>1, <1>3, EditSticks DEF ClearSymbols
<1> QED
  BY <1>2, <1>3

----------------------------------------------------------------------------
(* What the threads carry and the channel holds: the answer of a load names *)
(* the file and its basename, and every answer names the entry it is for.   *)
JobsOK ==
    \A w \in Worker :
        /\ phase[w] # "idle" => target[w] \in Name
        /\ phase[w] \in {"loading", "stored"} => name[w] \in Name
        /\ phase[w] = "stored" => file[w] \in FileId

QueueOK ==
    \A i \in DOMAIN queue :
        queue[i].kind = "loaded" =>
            queue[i].file \in FileId /\ queue[i].fileName \in Name

StateOK ==
    /\ prompt \in [active: BOOLEAN, target: Name \union {NoName}]
    /\ status \in [kind: {"none", "loading", "removing", "loaded", "loadFailed",
                          "removed", "removeFailed"},
                   name: Name \union {NoName}]
    /\ hidden \subseteq Name

StoreOK ==
    /\ catalog \in [FileId -> Name \union {NoName}]
    /\ phase \in [Worker -> {"idle", "loading", "stored", "removing", "dropped", "failed"}]
    /\ name \in [Worker -> Name \union {NoName}]
    /\ file \in [Worker -> FileId \union {NoFile}]
    /\ target \in [Worker -> Name \union {NoName}]
    /\ JobsOK

ChannelOK == queue \in Seq(Event \union Discovery) /\ QueueOK

IInv == /\ ListOK(list, cursor) /\ StateOK /\ StoreOK /\ ChannelOK
        /\ PromptTargetListed

LEMMA IInvImpliesTypeOK == IInv => TypeOK
BY DEF IInv, ListOK, StateOK, StoreOK, ChannelOK, TypeOK, TabTypeOK

LEMMA IInvInit == Init => IInv
<1> SUFFICES ASSUME Init PROVE IInv
  OBVIOUS
<1> USE DEF Init, TabInit, Store!Init
<1>1. ListOK(list, cursor)
  BY DEF ListOK
<1>2. StateOK /\ PromptTargetListed
  BY DEF StateOK, Closed, NoStatus, PromptTargetListed
<1>3. StoreOK
  BY DEF StoreOK, JobsOK
<1>4. ChannelOK
  BY DEF ChannelOK, QueueOK
<1> QED
  BY <1>1, <1>2, <1>3, <1>4 DEF IInv

----------------------------------------------------------------------------
(* Keys. They leave the list alone. *)
LEMMA SelectedIsEntry ==
    ASSUME ListOK(list, cursor), list # <<>>
    PROVE  /\ cursor + 1 \in DOMAIN list /\ Selected \in Entry
           /\ Selected.name \in Name /\ Selected.file \in FileId \union {NoFile}
           /\ Named(list, Selected.name) # {}
<1>1. cursor + 1 \in DOMAIN list
  BY DEF ListOK
<1>2. list[cursor + 1] \in Entry
  BY <1>1 DEF ListOK
<1>3. ASSUME NEW e \in Entry
      PROVE  e.name \in Name /\ e.file \in FileId \union {NoFile}
  BY DEF Entry
<1> QED
  BY <1>1, <1>2, <1>3 DEF Selected, Named

LEMMA TabKeyKeeps == IInv /\ TabKey => IInv'
<1> SUFFICES ASSUME IInv, TabKey PROVE IInv'
  OBVIOUS
<1>1. UNCHANGED <<list, catalog, phase, name, file, target, queue, status, hidden>>
  BY DEF TabKey, Keys, Down, Up, OpenForSelected, OpenForNew, ClosePrompt,
         stored, loop
<1>2. ListOK(list', cursor')
  BY <1>1 DEF IInv, ListOK, TabKey, Keys, Down, Up, OpenForSelected,
              OpenForNew, ClosePrompt
<1>3. /\ prompt' \in [active: BOOLEAN, target: Name \union {NoName}]
      /\ prompt'.target # NoName => Named(list, prompt'.target) # {}
  <2>1. CASE Down \/ Up
    BY <2>1 DEF Down, Up, IInv, StateOK, PromptTargetListed
  <2>2. CASE OpenForSelected
    <3> DEFINE n == Selected.name
    <3>1. n \in Name /\ Named(list, n) # {}
      BY <2>2, SelectedIsEntry DEF OpenForSelected, IInv
    <3>2. prompt' = [active |-> TRUE, target |-> n]
      BY <2>2 DEF OpenForSelected
    <3> HIDE DEF n
    <3> QED
      BY <3>1, <3>2
  <2>3. CASE OpenForNew \/ ClosePrompt
    <3>1. PICK a \in BOOLEAN : prompt' = [active |-> a, target |-> NoName]
      BY <2>3 DEF OpenForNew, ClosePrompt, Closed
    <3>2. prompt'.target = NoName
      BY <3>1
    <3> QED
      BY <3>1, <3>2
  <2> QED
    BY <2>1, <2>2, <2>3 DEF TabKey, Keys
<1>4. StateOK' /\ PromptTargetListed'
  BY <1>1, <1>3 DEF IInv, StateOK, PromptTargetListed, Named
<1>5. StoreOK' /\ ChannelOK'
  BY <1>1 DEF IInv, StoreOK, JobsOK, ChannelOK, QueueOK
<1> QED
  BY <1>2, <1>4, <1>5 DEF IInv

LEMMA SubmitKeeps ==
    ASSUME IInv, NEW w \in Worker, NEW n \in Name, SubmitPath(w, n)
    PROVE  IInv'
<1> DEFINE display == IF prompt.target = NoName THEN n ELSE prompt.target
<1>1. display \in Name
  BY DEF IInv, StateOK
<1>2. /\ UNCHANGED <<list, cursor, catalog, file, queue, hidden>>
      /\ prompt' = Closed
      /\ phase' = [phase EXCEPT ![w] = "loading"]
      /\ name' = [name EXCEPT ![w] = n]
      /\ target' = [target EXCEPT ![w] = display]
      /\ status' = [kind |-> "loading", name |-> display]
  BY DEF SubmitPath, ClosePrompt, Store!BeginLoad, Store!To
<1> HIDE DEF display
<1>3. StateOK' /\ PromptTargetListed'
  BY <1>1, <1>2 DEF IInv, StateOK, Closed, PromptTargetListed
<1>4. StoreOK'
  BY <1>1, <1>2 DEF IInv, StoreOK, JobsOK
<1>5. ListOK(list', cursor') /\ ChannelOK'
  BY <1>2 DEF IInv, ListOK, ChannelOK, QueueOK
<1> QED
  BY <1>3, <1>4, <1>5 DEF IInv

LEMMA PressRemoveKeeps ==
    ASSUME IInv, NEW w \in Worker, PressRemove(w)
    PROVE  IInv'
<1>1. Selected.name \in Name /\ Selected.file \in FileId \union {NoFile}
  BY SelectedIsEntry DEF PressRemove, CanRemove, IInv
<1>2. /\ UNCHANGED <<list, cursor, prompt, catalog, name, queue, hidden>>
      /\ phase' = [phase EXCEPT ![w] = "removing"]
      /\ file' = [file EXCEPT ![w] = Selected.file]
      /\ target' = [target EXCEPT ![w] = Selected.name]
      /\ status' = [kind |-> "removing", name |-> Selected.name]
  BY DEF PressRemove, Store!BeginRemove, Store!To, tab
<1>3. StateOK' /\ PromptTargetListed'
  BY <1>1, <1>2 DEF IInv, StateOK, PromptTargetListed, Named
<1>4. StoreOK'
  BY <1>1, <1>2 DEF IInv, StoreOK, JobsOK
<1>5. ListOK(list', cursor') /\ ChannelOK'
  BY <1>2 DEF IInv, ListOK, ChannelOK, QueueOK
<1> QED
  BY <1>3, <1>4, <1>5 DEF IInv

----------------------------------------------------------------------------
(* Threads. *)
LEMMA WorkKeeps ==
    ASSUME IInv, NEW w \in Worker, Work(w)
    PROVE  IInv'
<1>1. UNCHANGED <<list, cursor, prompt, target, queue, status, hidden>>
  BY DEF Work, tab, loop
<1>2. StoreOK'
  <2>1. CASE \E f \in FileId : Store!Identify(w, f)
    BY <1>1, <2>1 DEF IInv, StoreOK, JobsOK, Store!Identify
  <2>2. CASE Store!Put(w)
    BY <1>1, <2>2 DEF IInv, StoreOK, JobsOK, Store!Put, Store!To
  <2>3. CASE Store!Drop(w)
    BY <1>1, <2>3 DEF IInv, StoreOK, JobsOK, Store!Drop, Store!To
  <2>4. CASE Store!Fail(w)
    BY <1>1, <2>4 DEF IInv, StoreOK, JobsOK, Store!Fail, Store!To
  <2> QED
    BY <2>1, <2>2, <2>3, <2>4 DEF Work
<1>3. StateOK' /\ PromptTargetListed' /\ ListOK(list', cursor') /\ ChannelOK'
  BY <1>1 DEF IInv, StateOK, PromptTargetListed, Named, ListOK, ChannelOK, QueueOK
<1> QED
  BY <1>2, <1>3 DEF IInv

(* Sending keeps what is in the channel. *)
LEMMA SendKeeps ==
    ASSUME ChannelOK, NEW e \in Event \union Discovery,
           e.kind = "loaded" => e.file \in FileId /\ e.fileName \in Name,
           queue' = Append(queue, e)
    PROVE  ChannelOK'
<1>1. queue' \in Seq(Event \union Discovery)
  BY DEF ChannelOK
<1>2. ASSUME NEW i \in DOMAIN queue'
      PROVE  (i \in DOMAIN queue /\ queue'[i] = queue[i]) \/ queue'[i] = e
  BY <1>2 DEF ChannelOK
<1> QED
  BY <1>1, <1>2 DEF ChannelOK, QueueOK

LEMMA AnswerKeeps ==
    ASSUME IInv, NEW w \in Worker, Answer(w)
    PROVE  IInv'
<1> DEFINE e == [kind |-> AnswerKind(w), name |-> target[w],
                 file |-> file[w], fileName |-> name[w]]
<1>1. /\ UNCHANGED <<list, cursor, prompt, catalog, status, hidden>>
      /\ phase[w] \in {"stored", "dropped", "failed"}
      /\ phase' = [phase EXCEPT ![w] = "idle"]
      /\ name' = [name EXCEPT ![w] = NoName]
      /\ file' = [file EXCEPT ![w] = NoFile]
      /\ target' = [target EXCEPT ![w] = NoName]
      /\ queue' = Append(queue, e)
  BY DEF Answer, Store!End, Store!To, tab
<1>2. /\ AnswerKind(w) \in {"loaded", "loadFailed", "removed", "removeFailed"}
      /\ AnswerKind(w) = "loaded" => phase[w] = "stored"
  BY <1>1 DEF AnswerKind
<1>3. e \in Event
  BY <1>1, <1>2 DEF IInv, StoreOK, JobsOK, Event
<1>4. e.kind = "loaded" => e.file \in FileId /\ e.fileName \in Name
  BY <1>2 DEF IInv, StoreOK, JobsOK
<1> HIDE DEF e
<1>5. ChannelOK'
  BY <1>1, <1>3, <1>4, SendKeeps DEF IInv
<1>6. StoreOK'
  BY <1>1 DEF IInv, StoreOK, JobsOK
<1>7. StateOK' /\ PromptTargetListed' /\ ListOK(list', cursor')
  BY <1>1 DEF IInv, StateOK, PromptTargetListed, Named, ListOK
<1> QED
  BY <1>5, <1>6, <1>7 DEF IInv

LEMMA DiscoverKeeps ==
    ASSUME IInv, NEW names \in Mappings, Discover(names)
    PROVE  IInv'
<1> DEFINE e == [kind |-> "discovered", names |-> names]
<1>1. /\ UNCHANGED <<list, cursor, prompt, catalog, phase, name, file, target,
                     status, hidden>>
      /\ queue' = Append(queue, e)
  BY DEF Discover, tab, stored
<1>2. names \in Seq(Name)
  <2>1. ASSUME NEW m \in Name, NEW n \in Name
        PROVE  <<n>> \in Seq(Name) /\ <<m, n>> \in Seq(Name)
    OBVIOUS
  <2>2. CASE names \in {<<n>> : n \in Name}
    BY <2>1, <2>2
  <2>3. CASE names \in {<<m, n>> : m, n \in Name}
    <3>1. PICK m \in Name, n \in Name : names = <<m, n>>
      BY ONLY <2>3
    <3> QED
      BY <2>1, <3>1
  <2> QED
    BY <2>2, <2>3 DEF Mappings
<1>3. e \in Discovery /\ e.kind # "loaded"
  BY <1>2 DEF Discovery
<1> HIDE DEF e
<1>4. ChannelOK'
  BY <1>1, <1>3, SendKeeps DEF IInv
<1>5. StoreOK'
  BY <1>1 DEF IInv, StoreOK, JobsOK
<1>6. StateOK' /\ PromptTargetListed' /\ ListOK(list', cursor')
  BY <1>1 DEF IInv, StateOK, PromptTargetListed, Named, ListOK
<1> QED
  BY <1>4, <1>5, <1>6 DEF IInv

----------------------------------------------------------------------------
(* Events. Each edit of the list keeps the cursor and the target listed.    *)
LEMMA HeadIsSound ==
    ASSUME ChannelOK, queue # <<>>
    PROVE  /\ Head(queue) \in Event \union Discovery
           /\ Head(queue).kind = "loaded" =>
                  Head(queue).file \in FileId /\ Head(queue).fileName \in Name
           /\ Head(queue).kind = "discovered" => Head(queue).names \in Seq(Name)
           /\ Head(queue).kind # "discovered" => Head(queue) \in Event
<1>1. 1 \in DOMAIN queue /\ Head(queue) = queue[1]
  BY DEF ChannelOK
<1>2. queue[1] \in Event \union Discovery
  BY <1>1 DEF ChannelOK
<1>3. ASSUME NEW e \in Event PROVE e.kind # "discovered"
  BY DEF Event
<1>4. ASSUME NEW e \in Discovery
      PROVE  e.kind = "discovered" /\ e.names \in Seq(Name)
  BY DEF Discovery
<1> QED
  BY <1>1, <1>2, <1>3, <1>4 DEF ChannelOK, QueueOK

LEMMA TakeKeeps ==
    ASSUME ChannelOK, queue # <<>>, queue' = Tail(queue)
    PROVE  ChannelOK'
<1>1. queue' \in Seq(Event \union Discovery)
  BY DEF ChannelOK
<1>2. ASSUME NEW i \in DOMAIN queue'
      PROVE  i + 1 \in DOMAIN queue /\ queue'[i] = queue[i + 1]
  BY <1>2 DEF ChannelOK
<1> QED
  BY <1>1, <1>2 DEF ChannelOK, QueueOK

(* What an event leaves to show once the list is known to stick. *)
LEMMA EventKeeps ==
    ASSUME IInv, queue # <<>>, Take, Sticks,
           status' = status \/ \E e \in Event : Report(e),
           hidden' \subseteq Name
    PROVE  IInv'
<1>1. UNCHANGED <<prompt, catalog, phase, name, file, target>>
  BY DEF Take, stored
<1>2. ChannelOK'
  BY TakeKeeps DEF IInv, Take
<1>3. StoreOK'
  BY <1>1 DEF IInv, StoreOK, JobsOK
<1>4. StateOK'
  <2>1. ASSUME NEW e \in Event, Report(e)
        PROVE  status' \in [kind: {"none", "loading", "removing", "loaded",
                                   "loadFailed", "removed", "removeFailed"},
                            name: Name \union {NoName}]
    BY <2>1 DEF Report, Event
  <2> QED
    BY <1>1, <2>1 DEF IInv, StateOK
<1>5. PromptTargetListed' /\ ListOK(list', cursor')
  BY <1>1 DEF IInv, PromptTargetListed, Sticks
<1> QED
  BY <1>2, <1>3, <1>4, <1>5 DEF IInv

LEMMA UnmovedSticks ==
    ASSUME ListOK(list, cursor), UNCHANGED <<list, cursor>>
    PROVE  Sticks
BY DEF Sticks, Selected, ListOK

LEMMA EventSticks ==
    ASSUME IInv, HandleEvent
    PROVE  Sticks /\ IInv'
<1> DEFINE e == Head(queue)
<1>1. queue # <<>> /\ Take /\ ListOK(list, cursor) /\ hidden \subseteq Name
  BY DEF HandleEvent, MappingsDiscovered, SymbolsLoaded, LoadError,
         SymbolsRemoved, Arrived, IInv, StateOK
<1>2. /\ e.kind = "loaded" => e.file \in FileId /\ e.fileName \in Name
      /\ e.kind = "discovered" => e.names \in Seq(Name)
      /\ e.kind # "discovered" => e \in Event
  BY <1>1, HeadIsSound DEF IInv
<1>3. e \in Event => e.name \in Name
  <2>1. ASSUME NEW ev \in Event PROVE ev.name \in Name
    BY DEF Event
  <2> QED
    BY <2>1
<1>4. CASE MappingsDiscovered
  <2>1. Sticks
    BY <1>1, <1>2, <1>4, MergeSticks DEF MappingsDiscovered, Arrived
  <2>2. status' = status /\ hidden' = hidden
    BY <1>4 DEF MappingsDiscovered
  <2> QED
    BY <1>1, <2>1, <2>2, EventKeeps
<1>5. CASE SymbolsLoaded
  <2>1. /\ e.kind = "loaded" /\ UpdateSymbolized(e.name, e.file, e.fileName)
        /\ Report(e) /\ hidden' = hidden \ {e.name}
    BY <1>5 DEF SymbolsLoaded, Arrived
  <2>2. Sticks
    BY <1>1, <1>2, <1>3, <2>1, UpdateSticks
  <2> QED
    BY <1>1, <1>2, <2>1, <2>2, EventKeeps
<1>6. CASE LoadError
  <2>1. /\ e.kind = "loadFailed" /\ Report(e)
        /\ UNCHANGED <<list, cursor, hidden>>
    BY <1>6 DEF LoadError, Arrived
  <2>2. Sticks
    BY <1>1, <2>1, UnmovedSticks
  <2> QED
    BY <1>1, <1>2, <2>1, <2>2, EventKeeps
<1>7. CASE SymbolsRemoved
  <2>1. /\ e.kind \in {"removed", "removeFailed"} /\ ClearSymbols(e.name)
        /\ Report(e) /\ hidden' \subseteq hidden \union {e.name}
    BY <1>7 DEF SymbolsRemoved, Arrived
  <2>2. Sticks
    BY <1>1, <1>2, <1>3, <2>1, ClearSticks
  <2>3. hidden' \subseteq Name
    BY <1>1, <1>2, <1>3, <2>1
  <2> QED
    BY <1>1, <1>2, <2>1, <2>2, <2>3, EventKeeps
<1> QED
  BY <1>4, <1>5, <1>6, <1>7 DEF HandleEvent

----------------------------------------------------------------------------
(* The list a start begins with has the stored files only. *)
LEMMA ListedFilesAreEntries ==
    ASSUME catalog \in [FileId -> Name \union {NoName}]
    PROVE  ListFiles \in Seq(Entry)
<1> DEFINE complete == {f \in FileId : catalog[f] # NoName}
           ids == Ranked(complete, Smaller(complete))
<1>1. complete \in SUBSET Int /\ IsFiniteSet(complete)
  <2>1. complete \in SUBSET FileId /\ FileId \subseteq Int
    OBVIOUS
  <2> HIDE DEF complete
  <2> QED
    BY <2>1, FS_Subset
<1>2. /\ Cardinality(complete) \in Nat
      /\ ids \in [1 .. Cardinality(complete) -> complete]
  <2> HIDE DEF complete
  <2> QED
    BY <1>1, FS_CardinalityType, SmallerIsTotal, RankedIsListing
<1>3. ASSUME NEW f \in complete
      PROVE  [name |-> catalog[f], file |-> f] \in Entry
  BY DEF Entry
<1>4. ListFiles = [i \in DOMAIN ids |-> [name |-> catalog[ids[i]], file |-> ids[i]]]
  BY DEF ListFiles
<1> HIDE DEF ids, complete
<1>5. ListFiles \in [1 .. Cardinality(complete) -> Entry]
  BY <1>2, <1>3, <1>4
<1> QED
  BY <1>2, <1>5

LEMMA RestartKeeps ==
    ASSUME IInv, Restart
    PROVE  IInv'
<1>1. /\ list' = ListFiles /\ cursor' = 0 /\ prompt' = Closed
      /\ queue' = <<>> /\ status' = NoStatus /\ hidden' = {}
      /\ catalog' = catalog
      /\ phase' = [w \in Worker |-> "idle"]
      /\ name' = [w \in Worker |-> NoName]
      /\ file' = [w \in Worker |-> NoFile]
      /\ target' = [w \in Worker |-> NoName]
  BY DEF Restart, Store!Restart
<1>2. list' \in Seq(Entry)
  BY <1>1, ListedFilesAreEntries DEF IInv, StoreOK
<1>3. ListOK(list', cursor')
  BY <1>1, <1>2 DEF ListOK
<1>4. StateOK' /\ PromptTargetListed'
  BY <1>1 DEF StateOK, PromptTargetListed, Closed, NoStatus
<1>5. StoreOK' /\ ChannelOK'
  BY <1>1 DEF IInv, StoreOK, JobsOK, ChannelOK, QueueOK
<1> QED
  BY <1>3, <1>4, <1>5 DEF IInv

LEMMA IInvStep == IInv /\ [Next]_vars => IInv'
<1> SUFFICES ASSUME IInv, [Next]_vars PROVE IInv'
  OBVIOUS
<1>1. CASE UNCHANGED vars
  <2>1. UNCHANGED <<list, cursor, prompt, status, hidden>>
        /\ UNCHANGED <<catalog, phase, name, file, target, queue>>
    BY <1>1 DEF vars
  <2> QED
    BY <2>1 DEF IInv, ListOK, StateOK, StoreOK, JobsOK, ChannelOK, QueueOK,
                PromptTargetListed, Named
<1> QED
  BY <1>1, TabKeyKeeps, SubmitKeeps, PressRemoveKeeps, WorkKeeps, AnswerKeeps,
     DiscoverKeeps, EventSticks, RestartKeeps DEF Next

LEMMA IInvHolds == Spec => []IInv
BY IInvInit, IInvStep, PTL DEF Spec

----------------------------------------------------------------------------
(* Type correctness of list, cursor, prompt, threads and channel.           *)
THEOREM TypeCorrect == Spec => []TypeOK
BY IInvHolds, IInvImpliesTypeOK, PTL

(* handle_path_input_key with merge, update and clear: the entry a prompt   *)
(* was opened for is listed as long as the prompt is open.                  *)
THEOREM PromptListed == Spec => []PromptTargetListed
<1>1. IInv => PromptTargetListed
  BY DEF IInv
<1> QED
  BY <1>1, IInvHolds, PTL

(* sort_list: whichever event re-sorts the list, the cursor stays on the    *)
(* name it was on.                                                          *)
THEOREM CursorStays == Spec => CursorSticks
<1>1. IInv /\ [Next]_vars =>
         [HandleEvent /\ list # <<>> => list'[cursor' + 1].name = Selected.name]_vars
  BY EventSticks DEF Sticks
<1> QED
  BY <1>1, IInvHolds, PTL DEF Spec, CursorSticks

----------------------------------------------------------------------------
(* Orderly use. An entry shows no file but that of its own name, and no     *)
(* name is listed twice.                                                    *)
Shown(l, f) == \E i \in DOMAIN l : l[i].file = f

ListOwn(l) ==
    /\ \A i, j \in DOMAIN l : l[i].name = l[j].name => i = j
    /\ \A i \in DOMAIN l : l[i].file \in {NoFile, l[i].name}

(* Sorting neither doubles an entry nor shows or hides a file. *)
LEMMA SortedOwn ==
    ASSUME NEW l \in Seq(Entry), ListOwn(l)
    PROVE  ListOwn(Sorted(l)) /\ \A f : Shown(Sorted(l), f) <=> Shown(l, f)
<1> DEFINE D == DOMAIN l
           order == Ranked(D, Order(l))
<1>1. D = 1 .. Len(l) /\ IsFiniteSet(D) /\ Cardinality(D) = Len(l)
  <2>1. D = 1 .. Len(l) /\ Len(l) \in Nat
    OBVIOUS
  <2>2. IsFiniteSet(1 .. Len(l)) /\ Cardinality(1 .. Len(l)) = Len(l)
    BY <2>1, FS_Interval
  <2> QED
    BY <2>1, <2>2
<1>2. StrictTotalOrder(D, Order(l))
  BY OrderIsTotal
<1>3. Sorted(l) = [k \in D |-> l[order[k]]]
  BY DEF Sorted
<1> HIDE DEF D
<1>4. \A k \in D : order[k] \in D
  <2>1. order \in [1 .. Cardinality(D) -> D]
    BY <1>1, <1>2, RankedIsListing
  <2> HIDE DEF order
  <2> QED
    BY <1>1, <2>1
<1>5. \A j, k \in D : order[j] = order[k] => j = k
  BY <1>1, <1>2, RankedIsInjective
<1> HIDE DEF order
<1>6. ListOwn(Sorted(l))
  BY <1>3, <1>4, <1>5 DEF ListOwn, D
<1>7. ASSUME NEW f, Shown(l, f) PROVE Shown(Sorted(l), f)
  <2>1. PICK i \in DOMAIN l : l[i].file = f
    BY <1>7 DEF Shown
  <2>2. PICK k \in DOMAIN Sorted(l) : Sorted(l)[k] = l[i]
    BY SortedKeepsEntries
  <2> QED
    BY <2>1, <2>2 DEF Shown
<1>8. ASSUME NEW f, Shown(Sorted(l), f) PROVE Shown(l, f)
  BY <1>3, <1>4, <1>8 DEF Shown, D
<1> QED
  BY <1>6, <1>7, <1>8

(* The list after an event is the edited list, sorted. *)
LEMMA SortListOwn ==
    ASSUME NEW l \in Seq(Entry), ListOwn(l), SortList(l)
    PROVE  ListOwn(list') /\ \A f : Shown(list', f) <=> Shown(l, f)
BY SortedOwn DEF SortList

LEMMA UpdateOwn ==
    ASSUME ListOK(list, cursor), ListOwn(list), NEW n \in Name, n \in FileId,
           UpdateSymbolized(n, n, n)
    PROVE  /\ ListOwn(list') /\ Shown(list', n)
           /\ \A f \in FileId \ {n} : Shown(list', f) <=> Shown(list, f)
<1>1. CASE Named(list, n) # {}
  <2> DEFINE k == First(list, n)
             l == [list EXCEPT ![k].file = n]
  <2>1. list \in Seq(Entry) /\ k \in DOMAIN list /\ list[k].name = n
    BY <1>1, FirstIsNamed DEF ListOK
  <2>2. Edited(l) /\ SortList(l)
    BY <1>1, ReplacedIsEdit DEF UpdateSymbolized
  <2> HIDE DEF k
  <2>3. list[k] = [name |-> n, file |-> list[k].file]
    <3>1. list[k] \in Entry
      BY <2>1
    <3> QED
      BY <2>1, <3>1 DEF Entry
  <2>4. /\ DOMAIN l = DOMAIN list
        /\ \A i \in DOMAIN list : i # k => l[i] = list[i]
        /\ l[k] = [name |-> n, file |-> n]
    BY <2>1, <2>3
  <2>5. list[k].file \in {NoFile, n}
    BY <2>1 DEF ListOwn
  <2> HIDE DEF l
  <2>6. ListOwn(l)
    BY <2>1, <2>4 DEF ListOwn
  <2>7. Shown(l, n) /\ \A f \in FileId \ {n} : Shown(l, f) <=> Shown(list, f)
    BY <2>1, <2>4, <2>5 DEF Shown
  <2> QED
    BY <2>2, <2>6, <2>7, SortListOwn DEF Edited
<1>2. CASE Named(list, n) = {}
  <2> DEFINE e == [name |-> n, file |-> n]
             l == Append(list, e)
  <2>1. e \in Entry
    BY DEF Entry
  <2>2. SortList(l)
    BY <1>2 DEF UpdateSymbolized
  <2>3. /\ l \in Seq(Entry) /\ DOMAIN l = 1 .. Len(list) + 1
        /\ DOMAIN list = 1 .. Len(list) /\ Len(list) \in Nat
        /\ \A i \in DOMAIN list : l[i] = list[i]
        /\ l[Len(list) + 1] = e
    <3> HIDE DEF e
    <3> QED
      BY <2>1 DEF ListOK
  <2> HIDE DEF l
  <2>4. \A i \in DOMAIN l : i \in DOMAIN list \/ i = Len(list) + 1
    BY <2>3
  <2>5. \A i \in DOMAIN list : list[i].name # n
    BY <1>2 DEF Named
  <2>6. ListOwn(l)
    BY <2>3, <2>4, <2>5 DEF ListOwn
  <2>7. Shown(l, n) /\ \A f \in FileId \ {n} : Shown(l, f) <=> Shown(list, f)
    BY <2>3, <2>4 DEF Shown
  <2> QED
    BY <2>2, <2>3, <2>6, <2>7, SortListOwn
<1> QED
  BY <1>1, <1>2

LEMMA ClearOwn ==
    ASSUME ListOK(list, cursor), ListOwn(list), NEW n \in Name, ClearSymbols(n)
    PROVE  /\ ListOwn(list') /\ (n \in FileId => ~Shown(list', n))
           /\ \A f \in FileId \ {n} : Shown(list', f) <=> Shown(list, f)
<1>1. CASE Named(list, n) # {}
  <2> DEFINE k == First(list, n)
             l == [list EXCEPT ![k].file = NoFile]
  <2>1. list \in Seq(Entry) /\ k \in DOMAIN list /\ list[k].name = n
    BY <1>1, FirstIsNamed DEF ListOK
  <2>2. Edited(l) /\ SortList(l)
    BY <1>1, ReplacedIsEdit DEF ClearSymbols
  <2> HIDE DEF k
  <2>3. list[k] = [name |-> n, file |-> list[k].file]
    <3>1. list[k] \in Entry
      BY <2>1
    <3> QED
      BY <2>1, <3>1 DEF Entry
  <2>4. /\ DOMAIN l = DOMAIN list
        /\ \A i \in DOMAIN list : i # k => l[i] = list[i]
        /\ l[k] = [name |-> n, file |-> NoFile]
    BY <2>1, <2>3
  <2>5. \A i \in DOMAIN list : i # k => list[i].name # n
    BY <2>1 DEF ListOwn
  <2>6. \A i \in DOMAIN list : list[i].file \in {NoFile, list[i].name}
    BY DEF ListOwn
  <2> HIDE DEF l
  <2>7. ListOwn(l)
    BY <2>1, <2>4 DEF ListOwn
  <2>8. /\ n \in FileId => ~Shown(l, n)
        /\ \A f \in FileId \ {n} : Shown(l, f) <=> Shown(list, f)
    BY <2>1, <2>4, <2>5, <2>6 DEF Shown
  <2> QED
    BY <2>2, <2>7, <2>8, SortListOwn DEF Edited
<1>2. CASE Named(list, n) = {}
  <2>1. SortList(list) /\ list \in Seq(Entry)
    BY <1>2 DEF ClearSymbols, ListOK
  <2>2. n \in FileId => ~Shown(list, n)
    BY <1>2 DEF Shown, Named, ListOwn
  <2> QED
    BY <2>1, <2>2, SortListOwn
<1> QED
  BY <1>1, <1>2

(* What was not listed is pushed once, with no file. *)
LEMMA MergeOwn ==
    ASSUME ListOK(list, cursor), ListOwn(list), NEW names \in Seq(Name),
           MergeDiscoveredMappings(names)
    PROVE  /\ ListOwn(list')
           /\ \A f \in FileId : Shown(list', f) <=> Shown(list, f)
<1> DEFINE s == NewNames(names)
           N == Len(s)
           new == [k \in DOMAIN s |-> [name |-> s[k], file |-> NoFile]]
           l == Pushed(list, names)
<1>1. /\ s \in Seq(Name) /\ Distinct(s)
      /\ \A k \in DOMAIN s : Named(list, s[k]) = {}
  BY NewNamesAre
<1>2. \A k \in DOMAIN s : \A i \in DOMAIN list : list[i].name # s[k]
  BY <1>1 DEF Named
<1>3. Edited(l) /\ SortList(l)
  BY PushedIsEdit DEF MergeDiscoveredMappings
<1>4. l = list \o new
  BY DEF Pushed, NewNames
<1> HIDE DEF s, l
<1>0. N \in Nat /\ DOMAIN s = 1 .. N /\ \A k \in DOMAIN s : s[k] \in Name
  BY <1>1
<1> HIDE DEF N
<1>5. /\ DOMAIN new = 1 .. N /\ Len(new) = N
      /\ new \in Seq([name : Name, file : {NoFile}])
  <2> DEFINE Row == [name : Name, file : {NoFile}]
  <2>1. \A k \in 1 .. N : [name |-> s[k], file |-> NoFile] \in Row
    BY <1>0
  <2> HIDE DEF Row
  <2>2. new \in [1 .. N -> Row]
    BY <1>0, <2>1
  <2> HIDE DEF new
  <2>3. new \in Seq(Row)
    BY <1>0, <2>2
  <2>4. Len(new) = N
    BY <1>0, <2>2, <2>3
  <2> QED
    BY <2>2, <2>3, <2>4 DEF Row
<1>6. \A k \in DOMAIN new : new[k].name = s[k] /\ new[k].file = NoFile
  OBVIOUS
<1> HIDE DEF new
<1>7. /\ Len(list) \in Nat /\ DOMAIN list = 1 .. Len(list)
      /\ DOMAIN l = 1 .. Len(list) + N
      /\ \A i \in DOMAIN list : l[i] = list[i]
      /\ \A i \in DOMAIN l : i \notin DOMAIN list =>
             i - Len(list) \in DOMAIN new /\ l[i] = new[i - Len(list)]
  <2>1. list \in Seq(Entry) /\ Len(list) \in Nat /\ DOMAIN list = 1 .. Len(list)
    BY DEF ListOK
  <2>2. /\ Len(list \o new) = Len(list) + N
        /\ DOMAIN (list \o new) = 1 .. Len(list) + N
    BY <1>5, <2>1
  <2>3. \A i \in DOMAIN list : (list \o new)[i] = list[i]
    BY <1>5, <2>1
  <2>4. \A i \in 1 .. Len(list) + N : i \notin 1 .. Len(list) =>
            i - Len(list) \in 1 .. N /\ (list \o new)[i] = new[i - Len(list)]
    BY <1>0, <1>5, <2>1
  <2> QED
    BY <1>4, <1>5, <2>1, <2>2, <2>3, <2>4
<1>8. \A i \in DOMAIN l : i \notin DOMAIN list =>
          /\ i - Len(list) \in DOMAIN s
          /\ l[i].name = s[i - Len(list)] /\ l[i].file = NoFile
  BY <1>0, <1>5, <1>6, <1>7
<1>9. ListOwn(l)
  <2>1. ASSUME NEW i \in DOMAIN l, NEW j \in DOMAIN l, l[i].name = l[j].name
        PROVE  i = j
    <3>1. CASE i \in DOMAIN list /\ j \in DOMAIN list
      BY <1>7, <2>1, <3>1 DEF ListOwn
    <3>2. CASE i \notin DOMAIN list /\ j \notin DOMAIN list
      <4>1. s[i - Len(list)] = s[j - Len(list)]
        BY <1>8, <2>1, <3>2
      <4>2. i - Len(list) = j - Len(list)
        BY <1>1, <1>8, <3>2, <4>1 DEF Distinct
      <4> QED
        BY <1>0, <1>7, <4>2
    <3>3. CASE ~(i \in DOMAIN list <=> j \in DOMAIN list)
      BY <1>2, <1>7, <1>8, <2>1, <3>3
    <3> QED
      BY <3>1, <3>2, <3>3
  <2>2. \A i \in DOMAIN l : l[i].file \in {NoFile, l[i].name}
    BY <1>7, <1>8 DEF ListOwn
  <2> QED
    BY <2>1, <2>2 DEF ListOwn
<1>10. \A f \in FileId : Shown(l, f) <=> Shown(list, f)
  BY <1>0, <1>7, <1>8 DEF Shown
<1> QED
  BY <1>3, <1>9, <1>10, SortListOwn DEF Edited

----------------------------------------------------------------------------
(* The agreement of list and store on one file, when no job of that name    *)
(* stands between them, and what each stage of a job knows of it instead.   *)
Agrees(f) ==
    IF f \in hidden THEN ~Shown(list, f) /\ catalog[f] # NoName
    ELSE Shown(list, f) <=> catalog[f] # NoName

ThreadAgrees(w) ==
    /\ phase[w] \in {"loading", "removing", "failed"} => Agrees(target[w])
    /\ phase[w] = "stored" => catalog[target[w]] # NoName
    /\ phase[w] \in {"removing", "failed"} /\ Removing(w) =>
           catalog[target[w]] # NoName
    /\ phase[w] = "dropped" => catalog[target[w]] = NoName

IsAnswer(e) == e.kind # "discovered"

AnswerAgrees(e) ==
    /\ e.kind = "loadFailed" => Agrees(e.name)
    /\ e.kind \in {"loaded", "removeFailed"} => catalog[e.name] # NoName
    /\ e.kind = "removed" => catalog[e.name] = NoName

Truth(f) ==
    /\ ~JobsFor(f) => Agrees(f)
    /\ \A w \in Worker : target[w] = f => ThreadAgrees(w)
    /\ \A i \in DOMAIN queue :
           IsAnswer(queue[i]) /\ queue[i].name = f => AnswerAgrees(queue[i])

(* Names, files and targets go together, and a name has one job at a time.  *)
CatalogOwn == \A f \in FileId : catalog[f] \in {NoName, f}

ThreadOwn(w) ==
    \/ /\ phase[w] = "idle"
       /\ target[w] = NoName /\ name[w] = NoName /\ file[w] = NoFile
    \/ /\ phase[w] \in {"loading", "stored", "failed"}
       /\ name[w] = target[w] /\ file[w] \in {NoFile, target[w]}
    \/ /\ phase[w] \in {"removing", "dropped", "failed"}
       /\ name[w] = NoName /\ file[w] = target[w]

EventOwn(e) == e.kind = "loaded" => e.file = e.name /\ e.fileName = e.name

OneJob ==
    /\ \A v, w \in Worker : target[v] = target[w] /\ target[v] # NoName => v = w
    /\ \A w \in Worker : \A i \in DOMAIN queue :
           IsAnswer(queue[i]) => target[w] # queue[i].name
    /\ \A i, j \in DOMAIN queue :
           IsAnswer(queue[i]) /\ IsAnswer(queue[j]) /\ queue[i].name = queue[j].name
               => i = j

JobsOwn ==
    /\ CatalogOwn /\ OneJob
    /\ \A w \in Worker : ThreadOwn(w)
    /\ \A i \in DOMAIN queue : EventOwn(queue[i])

Agreed == ListOwn(list) /\ JobsOwn /\ \A f \in FileId : Truth(f)

OInv == IInv /\ Agreed

(* A step that is not about a file leaves what is known of it.              *)
SameFor(f) ==
    /\ Shown(list', f) <=> Shown(list, f)
    /\ f \in hidden' <=> f \in hidden
    /\ catalog'[f] = catalog[f]

SameJobs(f) ==
    /\ \A w \in Worker : target'[w] = f \/ target[w] = f =>
           target'[w] = target[w] /\ phase'[w] = phase[w] /\ name'[w] = name[w]
    /\ \A i \in DOMAIN queue' : IsAnswer(queue'[i]) /\ queue'[i].name = f =>
           \E j \in DOMAIN queue : queue[j] = queue'[i]
    /\ \A j \in DOMAIN queue : IsAnswer(queue[j]) /\ queue[j].name = f =>
           \E i \in DOMAIN queue' : queue'[i] = queue[j]

LEMMA SameAgrees ==
    ASSUME NEW f, SameFor(f)
    PROVE  Agrees(f) <=> Agrees(f)'
BY DEF Agrees, SameFor

LEMMA TruthKept ==
    ASSUME NEW f, Truth(f), SameFor(f), SameJobs(f)
    PROVE  Truth(f)'
<1>1. Agrees(f) <=> Agrees(f)'
  BY SameAgrees
<1>2. JobsFor(f) => JobsFor(f)'
  BY DEF JobsFor, SameJobs, IsAnswer
<1>3. catalog'[f] = catalog[f]
  BY DEF SameFor
<1>4. ASSUME NEW w \in Worker, target'[w] = f PROVE ThreadAgrees(w)'
  <2>1. target[w] = f /\ phase'[w] = phase[w] /\ name'[w] = name[w]
    BY <1>4 DEF SameJobs
  <2>2. ThreadAgrees(w)
    BY <2>1 DEF Truth
  <2> QED
    BY <1>1, <1>3, <1>4, <2>1, <2>2 DEF ThreadAgrees, Removing
<1>5. ASSUME NEW i \in DOMAIN queue', IsAnswer(queue'[i]), queue'[i].name = f
      PROVE  AnswerAgrees(queue[i])'
  <2>1. PICK j \in DOMAIN queue : queue[j] = queue'[i]
    BY <1>5 DEF SameJobs
  <2>2. AnswerAgrees(queue[j])
    BY <1>5, <2>1 DEF Truth
  <2> QED
    BY <1>1, <1>3, <1>5, <2>1, <2>2 DEF AnswerAgrees
<1> QED
  BY <1>1, <1>2, <1>4, <1>5 DEF Truth, IsAnswer

(* Nothing about list, store or jobs changes. *)
LEMMA IdleAgreed ==
    ASSUME Agreed, UNCHANGED <<list, stored, target, queue, hidden>>
    PROVE  Agreed'
<1>1. UNCHANGED <<list, catalog, phase, name, file, target, queue, hidden>>
  BY DEF stored
<1>2. ASSUME NEW f \in FileId PROVE Truth(f)'
  <2>1. SameFor(f) /\ SameJobs(f) /\ Truth(f)
    BY <1>1 DEF SameFor, SameJobs, Shown, Agreed
  <2> QED
    BY <2>1, TruthKept
<1> QED
  BY <1>1, <1>2 DEF Agreed, ListOwn, JobsOwn, CatalogOwn, OneJob, ThreadOwn, EventOwn

(* A thread starts for a name nobody works on. *)
LEMMA StartAgreed ==
    ASSUME OInv, NEW w \in Worker, NEW n \in Name, ~JobsFor(n),
           phase[w] = "idle", UNCHANGED <<list, catalog, queue, hidden>>,
           target' = [target EXCEPT ![w] = n],
           ThreadOwn(w)', n \in FileId /\ Agrees(n) => ThreadAgrees(w)',
           \A v \in Worker \ {w} :
               phase'[v] = phase[v] /\ name'[v] = name[v] /\ file'[v] = file[v]
    PROVE  Agreed'
<1>1. /\ target[w] = NoName /\ n # NoName /\ target'[w] = n
      /\ \A v \in Worker \ {w} : target'[v] = target[v] /\ target[v] # n
  BY DEF OInv, IInv, StoreOK, Agreed, JobsOwn, ThreadOwn, JobsFor
<1>2. \A i \in DOMAIN queue : IsAnswer(queue[i]) => queue[i].name # n
  BY DEF JobsFor, IsAnswer
<1>3. ASSUME NEW f \in FileId, f # n PROVE Truth(f)'
  <2>1. SameFor(f)
    BY DEF SameFor, Shown
  <2>2. SameJobs(f)
    BY <1>1, <1>3 DEF SameJobs
  <2> QED
    BY <2>1, <2>2, TruthKept DEF OInv, Agreed
<1>4. ASSUME n \in FileId PROVE Truth(n)'
  <2>1. Agrees(n)
    BY <1>4 DEF OInv, Agreed, Truth
  <2>2. ThreadAgrees(w)' /\ JobsFor(n)'
    BY <1>1, <1>4, <2>1 DEF JobsFor
  <2>3. \A v \in Worker : target'[v] = n => v = w
    BY <1>1
  <2> QED
    BY <1>2, <2>2, <2>3 DEF Truth, IsAnswer
<1>5. JobsOwn'
  <2>1. CatalogOwn' /\ \A i \in DOMAIN queue' : EventOwn(queue'[i])
    BY DEF OInv, Agreed, JobsOwn, CatalogOwn, EventOwn
  <2>2. OneJob'
    BY <1>1, <1>2 DEF OInv, Agreed, JobsOwn, OneJob, IsAnswer
  <2>3. ASSUME NEW v \in Worker \ {w} PROVE ThreadOwn(v)'
    BY <1>1 DEF OInv, Agreed, JobsOwn, ThreadOwn
  <2> QED
    BY <2>1, <2>2, <2>3 DEF JobsOwn
<1>6. ListOwn(list')
  BY DEF OInv, Agreed
<1> QED
  BY <1>3, <1>4, <1>5, <1>6 DEF Agreed, ListOwn

LEMMA SubmitAgreed ==
    ASSUME OInv, OrderlyStep, NEW w \in Worker, NEW n \in Name, SubmitPath(w, n)
    PROVE  Agreed'
<1> DEFINE display == IF prompt.target = NoName THEN n ELSE prompt.target
<1>1. /\ UNCHANGED <<list, catalog, file, queue, hidden>>
      /\ phase[w] = "idle"
      /\ phase' = [phase EXCEPT ![w] = "loading"]
      /\ name' = [name EXCEPT ![w] = n]
      /\ target' = [target EXCEPT ![w] = display]
  BY DEF SubmitPath, ClosePrompt, Store!BeginLoad, Store!To
<1> HIDE DEF display
<1>2. /\ phase'[w] = "loading" /\ name'[w] = n /\ target'[w] = display
      /\ \A v \in Worker \ {w} :
             phase'[v] = phase[v] /\ name'[v] = name[v] /\ file'[v] = file[v]
  BY <1>1 DEF OInv, IInv, StoreOK
<1>3. display = n
  BY <1>2 DEF OrderlyStep
<1>4. target[w] = NoName /\ file[w] = NoFile
  BY <1>1 DEF OInv, Agreed, JobsOwn, ThreadOwn
<1>5. ~JobsFor(n)
  BY <1>2, <1>3, <1>4 DEF OrderlyStep
<1>6. ThreadOwn(w)'
  BY <1>1, <1>2, <1>3, <1>4 DEF ThreadOwn
<1>7. ASSUME Agrees(n) PROVE ThreadAgrees(w)'
  <2>1. Agrees(n)'
    BY <1>1, <1>7 DEF Agrees, Shown
  <2>2. ~Removing(w)'
    BY <1>2 DEF Removing
  <2> QED
    BY <1>2, <1>3, <2>1, <2>2 DEF ThreadAgrees
<1> QED
  BY <1>1, <1>2, <1>3, <1>5, <1>6, <1>7, StartAgreed

LEMMA PressRemoveAgreed ==
    ASSUME OInv, OrderlyStep, NEW w \in Worker, PressRemove(w)
    PROVE  Agreed'
<1>0. PICK n : n = Selected.name
  OBVIOUS
<1>1. /\ n \in Name /\ cursor + 1 \in DOMAIN list /\ Selected = list[cursor + 1]
      /\ Selected.file \in FileId
  BY <1>0, SelectedIsEntry DEF PressRemove, CanRemove, Symbolised, OInv, IInv, Selected
<1>2. Selected.file = n
  BY <1>0, <1>1 DEF OInv, Agreed, ListOwn
<1>3. /\ UNCHANGED <<list, catalog, name, queue, hidden>>
      /\ phase[w] = "idle"
      /\ phase' = [phase EXCEPT ![w] = "removing"]
      /\ file' = [file EXCEPT ![w] = Selected.file]
      /\ target' = [target EXCEPT ![w] = n]
  BY <1>0 DEF PressRemove, Store!BeginRemove, Store!To, tab
<1>4. Shown(list, n)
  BY <1>1, <1>2 DEF Shown
<1>5. /\ phase'[w] = "removing" /\ file'[w] = n /\ target'[w] = n
      /\ \A v \in Worker \ {w} :
             phase'[v] = phase[v] /\ name'[v] = name[v] /\ file'[v] = file[v]
  BY <1>2, <1>3 DEF OInv, IInv, StoreOK
<1>6. target[w] = NoName /\ name[w] = NoName
  BY <1>3 DEF OInv, Agreed, JobsOwn, ThreadOwn
<1>7. ~JobsFor(n)
  BY <1>1, <1>5, <1>6 DEF OrderlyStep
<1>8. ThreadOwn(w)'
  BY <1>3, <1>5, <1>6 DEF ThreadOwn
<1>9. ASSUME Agrees(n) PROVE ThreadAgrees(w)'
  <2>1. Agrees(n)' /\ catalog'[n] # NoName
    BY <1>3, <1>4, <1>9 DEF Agrees, Shown
  <2> QED
    BY <1>5, <2>1 DEF ThreadAgrees
<1> QED
  BY <1>1, <1>3, <1>5, <1>7, <1>8, <1>9, StartAgreed

(* A thread works on, or commits. *)
LEMMA WorkAgreed ==
    ASSUME OInv, OrderlyStep, NEW w \in Worker, Work(w)
    PROVE  Agreed'
<1> DEFINE n == target[w]
<1>1. UNCHANGED <<list, target, queue, hidden, name>>
  BY DEF Work, tab, loop, Store!Identify, Store!Put, Store!Drop, Store!Fail
<1>2. phase[w] # "idle" /\ n \in Name /\ n # NoName /\ ThreadOwn(w)
  BY DEF Work, Store!Identify, Store!Put, Store!Drop, Store!Fail, OInv, IInv,
         StoreOK, JobsOK, Agreed, JobsOwn
<1>3. /\ \A v \in Worker \ {w} : phase'[v] = phase[v] /\ file'[v] = file[v]
      /\ \A f \in FileId \ {n} : catalog'[f] = catalog[f]
      /\ CatalogOwn' /\ ThreadOwn(w)'
      /\ n \in FileId /\ ThreadAgrees(w) => ThreadAgrees(w)'
  <2>1. CASE \E f \in FileId : Store!Identify(w, f)
    <3>1. PICK f \in FileId : Store!Identify(w, f)
      BY <2>1
    <3>2. /\ phase' = phase /\ catalog' = catalog /\ phase[w] = "loading"
          /\ file' = [file EXCEPT ![w] = f]
      BY <3>1 DEF Store!Identify
    <3>3. file'[w] = f /\ f # NoFile /\ name[w] = n
      BY <1>2, <3>2 DEF OInv, IInv, StoreOK, ThreadOwn
    <3>4. f = n
      BY <1>1, <1>2, <3>3 DEF OrderlyStep, OwnFile
    <3>5. ThreadOwn(w)'
      BY <1>1, <3>2, <3>3, <3>4 DEF ThreadOwn
    <3>6. ThreadAgrees(w) => ThreadAgrees(w)'
      BY <1>1, <3>2 DEF ThreadAgrees, Agrees, Removing, Shown
    <3> QED
      BY <1>1, <3>2, <3>5, <3>6 DEF OInv, IInv, StoreOK, Agreed, JobsOwn, CatalogOwn
  <2>2. CASE Store!Put(w)
    <3>1. /\ phase' = [phase EXCEPT ![w] = "stored"] /\ phase[w] = "loading"
          /\ catalog' = [catalog EXCEPT ![file[w]] = name[w]]
          /\ file' = file /\ file[w] # NoFile
      BY <2>2 DEF Store!Put, Store!To
    <3>2. name[w] = n /\ file[w] = n /\ n \in FileId /\ phase'[w] = "stored"
      BY <1>2, <3>1 DEF ThreadOwn, OInv, IInv, StoreOK
    <3>3. catalog' = [catalog EXCEPT ![n] = n]
      BY <3>1, <3>2
    <3>4. ThreadOwn(w)' /\ ThreadAgrees(w)'
      BY <1>1, <1>2, <3>1, <3>2, <3>3 DEF ThreadOwn, ThreadAgrees, OInv, IInv, StoreOK
    <3> HIDE DEF n
    <3> QED
      BY <3>1, <3>2, <3>3, <3>4 DEF OInv, IInv, StoreOK, Agreed, JobsOwn, CatalogOwn
  <2>3. CASE Store!Drop(w)
    <3>1. /\ phase' = [phase EXCEPT ![w] = "dropped"] /\ phase[w] = "removing"
          /\ catalog' = [catalog EXCEPT ![file[w]] = NoName]
          /\ file' = file
      BY <2>3 DEF Store!Drop, Store!To
    <3>2. name[w] = NoName /\ file[w] = n /\ phase'[w] = "dropped"
      BY <1>2, <3>1 DEF ThreadOwn, OInv, IInv, StoreOK
    <3>3. catalog' = [catalog EXCEPT ![n] = NoName]
      BY <3>1, <3>2
    <3>4. ThreadOwn(w)' /\ (n \in FileId => ThreadAgrees(w)')
      BY <1>1, <1>2, <3>1, <3>2, <3>3 DEF ThreadOwn, ThreadAgrees, OInv, IInv, StoreOK
    <3> HIDE DEF n
    <3> QED
      BY <3>1, <3>2, <3>3, <3>4 DEF OInv, IInv, StoreOK, Agreed, JobsOwn, CatalogOwn
  <2>4. CASE Store!Fail(w)
    <3>1. /\ phase' = [phase EXCEPT ![w] = "failed"] /\ catalog' = catalog
          /\ phase[w] \in {"loading", "removing"} /\ file' = file
      BY <2>4 DEF Store!Fail, Store!To
    <3>2. phase'[w] = "failed"
      BY <3>1 DEF OInv, IInv, StoreOK
    <3>3. ThreadOwn(w)'
      BY <1>1, <1>2, <3>1, <3>2 DEF ThreadOwn
    <3>4. phase[w] = "loading" => ~Removing(w)
      BY <1>2 DEF ThreadOwn, Removing
    <3>5. ThreadAgrees(w) => ThreadAgrees(w)'
      BY <1>1, <3>1, <3>2, <3>4 DEF ThreadAgrees, Agrees, Removing, Shown
    <3> QED
      BY <3>1, <3>3, <3>5 DEF OInv, IInv, StoreOK, Agreed, JobsOwn, CatalogOwn
  <2> QED
    BY <2>1, <2>2, <2>3, <2>4 DEF Work
<1>4. ASSUME NEW f \in FileId, f # n PROVE Truth(f)'
  <2>1. SameFor(f)
    BY <1>1, <1>3, <1>4 DEF SameFor, Shown
  <2>2. SameJobs(f)
    BY <1>1, <1>3, <1>4 DEF SameJobs
  <2> QED
    BY <2>1, <2>2, TruthKept DEF OInv, Agreed
<1>5. ASSUME n \in FileId PROVE Truth(n)'
  <2>1. ThreadAgrees(w)
    BY <1>5 DEF OInv, Agreed, Truth
  <2>2. ThreadAgrees(w)' /\ JobsFor(n)'
    BY <1>1, <1>3, <1>5, <2>1 DEF JobsFor
  <2>3. /\ \A v \in Worker : target'[v] = n => v = w
        /\ \A i \in DOMAIN queue' : IsAnswer(queue'[i]) => queue'[i].name # n
    BY <1>1, <1>2 DEF OInv, Agreed, JobsOwn, OneJob
  <2> QED
    BY <1>1, <2>2, <2>3 DEF Truth, IsAnswer
<1>6. JobsOwn'
  <2>1. OneJob' /\ \A i \in DOMAIN queue' : EventOwn(queue'[i])
    BY <1>1 DEF OInv, Agreed, JobsOwn, OneJob, EventOwn
  <2>2. ASSUME NEW v \in Worker PROVE ThreadOwn(v)'
    BY <1>1, <1>3 DEF OInv, Agreed, JobsOwn, ThreadOwn
  <2> QED
    BY <1>3, <2>1, <2>2 DEF JobsOwn
<1> QED
  BY <1>1, <1>4, <1>5, <1>6 DEF OInv, Agreed, ListOwn

----------------------------------------------------------------------------
(* The channel: an answer takes over what its thread knew, and the loop     *)
(* turns it into agreement.                                                 *)
LEMMA AnswersAreNamed ==
    ASSUME ChannelOK, NEW i \in DOMAIN queue, IsAnswer(queue[i])
    PROVE  queue[i] \in Event /\ queue[i].name \in Name /\ queue[i].name # NoName
<1>1. queue[i] \in Event \union Discovery
  BY DEF ChannelOK
<1>2. ASSUME NEW e \in Event PROVE e.name \in Name
  BY DEF Event
<1>3. ASSUME NEW e \in Discovery PROVE e.kind = "discovered"
  BY DEF Discovery
<1> QED
  BY <1>1, <1>2, <1>3 DEF IsAnswer

LEMMA AppendedEvents ==
    ASSUME ChannelOK, NEW e, queue' = Append(queue, e)
    PROVE  /\ \A i \in DOMAIN queue : i \in DOMAIN queue' /\ queue'[i] = queue[i]
           /\ \A i \in DOMAIN queue' :
                  \/ i \in DOMAIN queue /\ queue'[i] = queue[i]
                  \/ i = Len(queue) + 1 /\ queue'[i] = e
           /\ Len(queue) + 1 \in DOMAIN queue' /\ queue'[Len(queue) + 1] = e
BY DEF ChannelOK

LEMMA DiscoverAgreed ==
    ASSUME OInv, NEW names \in Mappings, Discover(names)
    PROVE  Agreed'
<1> DEFINE e == [kind |-> "discovered", names |-> names]
<1>1. /\ UNCHANGED <<list, catalog, phase, name, file, target, hidden>>
      /\ queue' = Append(queue, e)
  BY DEF Discover, tab, stored
<1>2. ~IsAnswer(e) /\ EventOwn(e)
  BY DEF IsAnswer, EventOwn
<1> HIDE DEF e
<1>3. /\ \A i \in DOMAIN queue : i \in DOMAIN queue' /\ queue'[i] = queue[i]
      /\ \A i \in DOMAIN queue' :
             \/ i \in DOMAIN queue /\ queue'[i] = queue[i]
             \/ queue'[i] = e
  BY <1>1, AppendedEvents DEF OInv, IInv
<1>4. ASSUME NEW f \in FileId PROVE Truth(f)'
  <2>1. SameFor(f)
    BY <1>1 DEF SameFor, Shown
  <2>2. SameJobs(f)
    BY <1>1, <1>2, <1>3 DEF SameJobs
  <2> QED
    BY <2>1, <2>2, TruthKept DEF OInv, Agreed
<1>5. \A i \in DOMAIN queue' : IsAnswer(queue'[i]) =>
          i \in DOMAIN queue /\ queue'[i] = queue[i]
  BY <1>2, <1>3
<1>6. OneJob'
  BY <1>1, <1>5 DEF OInv, Agreed, JobsOwn, OneJob, IsAnswer
<1>7. \A i \in DOMAIN queue' : EventOwn(queue'[i])
  BY <1>2, <1>3 DEF OInv, Agreed, JobsOwn
<1>8. CatalogOwn' /\ \A w \in Worker : ThreadOwn(w)'
  BY <1>1 DEF OInv, Agreed, JobsOwn, CatalogOwn, ThreadOwn
<1> QED
  BY <1>1, <1>4, <1>6, <1>7, <1>8 DEF OInv, Agreed, ListOwn, JobsOwn, EventOwn

LEMMA AnswerAgreed ==
    ASSUME OInv, NEW w \in Worker, Answer(w)
    PROVE  Agreed'
<1> DEFINE e == [kind |-> AnswerKind(w), name |-> target[w],
                 file |-> file[w], fileName |-> name[w]]
<1>0. PICK n : n = target[w]
  OBVIOUS
<1>1. /\ UNCHANGED <<list, catalog, hidden>>
      /\ phase[w] \in {"stored", "dropped", "failed"}
      /\ phase' = [phase EXCEPT ![w] = "idle"]
      /\ name' = [name EXCEPT ![w] = NoName]
      /\ file' = [file EXCEPT ![w] = NoFile]
      /\ target' = [target EXCEPT ![w] = NoName]
      /\ queue' = Append(queue, e)
  BY DEF Answer, Store!End, Store!To, tab
<1>2. ThreadOwn(w) /\ n \in Name /\ n # NoName
  BY <1>0, <1>1 DEF OInv, IInv, StoreOK, JobsOK, Agreed, JobsOwn
<1>3. e.name = n /\ IsAnswer(e) /\ EventOwn(e)
  <2>1. e.kind = AnswerKind(w) /\ e.name = n /\ e.file = file[w] /\ e.fileName = name[w]
    BY <1>0
  <2>2. /\ AnswerKind(w) # "discovered"
        /\ AnswerKind(w) = "loaded" => phase[w] = "stored"
    BY <1>1 DEF AnswerKind
  <2>3. phase[w] = "stored" => file[w] \in FileId
    BY DEF OInv, IInv, StoreOK, JobsOK
  <2> HIDE DEF e
  <2> QED
    BY <1>0, <1>2, <2>1, <2>2, <2>3 DEF EventOwn, IsAnswer, ThreadOwn
<1>4. ASSUME ThreadAgrees(w) PROVE AnswerAgrees(e)
  <2>1. e.kind = AnswerKind(w) /\ e.name = target[w]
    OBVIOUS
  <2> HIDE DEF e
  <2>2. CASE phase[w] = "stored"
    BY <1>4, <2>1, <2>2 DEF ThreadAgrees, AnswerAgrees, AnswerKind
  <2>3. CASE phase[w] = "dropped"
    BY <1>4, <2>1, <2>3 DEF ThreadAgrees, AnswerAgrees, AnswerKind
  <2>4. CASE phase[w] = "failed" /\ Removing(w)
    BY <1>4, <2>1, <2>4 DEF ThreadAgrees, AnswerAgrees, AnswerKind
  <2>5. CASE phase[w] = "failed" /\ ~Removing(w)
    BY <1>4, <2>1, <2>5 DEF ThreadAgrees, AnswerAgrees, AnswerKind
  <2> QED
    BY <1>1, <2>2, <2>3, <2>4, <2>5
<1>5. PICK a : a = e
  OBVIOUS
<1> HIDE DEF e
<1>6. queue' = Append(queue, a) /\ a.name = n /\ IsAnswer(a) /\ EventOwn(a)
      /\ (ThreadAgrees(w) => AnswerAgrees(a))
  BY <1>1, <1>3, <1>4, <1>5
<1>7. /\ \A i \in DOMAIN queue : i \in DOMAIN queue' /\ queue'[i] = queue[i]
      /\ \A i \in DOMAIN queue' :
             \/ i \in DOMAIN queue /\ queue'[i] = queue[i]
             \/ i = Len(queue) + 1 /\ queue'[i] = a
      /\ Len(queue) + 1 \in DOMAIN queue' /\ queue'[Len(queue) + 1] = a
  BY <1>6, AppendedEvents DEF OInv, IInv
<1>8. /\ target'[w] = NoName /\ phase'[w] = "idle"
      /\ name'[w] = NoName /\ file'[w] = NoFile
      /\ \A v \in Worker \ {w} :
             /\ phase'[v] = phase[v] /\ name'[v] = name[v] /\ file'[v] = file[v]
             /\ target'[v] = target[v] /\ target[v] # n
  BY <1>0, <1>1, <1>2 DEF OInv, IInv, StoreOK, Agreed, JobsOwn, OneJob
<1>9. \A i \in DOMAIN queue : IsAnswer(queue[i]) => queue[i].name # n
  BY <1>0 DEF OInv, Agreed, JobsOwn, OneJob
<1>10. ASSUME NEW f \in FileId, f # n PROVE Truth(f)'
  <2>1. SameFor(f)
    BY <1>1 DEF SameFor, Shown
  <2>2. SameJobs(f)
    BY <1>0, <1>6, <1>7, <1>8, <1>10 DEF SameJobs
  <2> QED
    BY <2>1, <2>2, TruthKept DEF OInv, Agreed
<1>11. ASSUME n \in FileId PROVE Truth(n)'
  <2>1. ThreadAgrees(w)
    BY <1>0, <1>11 DEF OInv, Agreed, Truth
  <2>2. AnswerAgrees(a)'
    BY <1>1, <1>6, <2>1 DEF AnswerAgrees, Agrees, Shown
  <2>3. JobsFor(n)'
    BY <1>6, <1>7 DEF JobsFor, IsAnswer
  <2>4. \A v \in Worker : target'[v] # n
    BY <1>2, <1>8
  <2>5. \A i \in DOMAIN queue' :
            IsAnswer(queue'[i]) /\ queue'[i].name = n => queue'[i] = a
    BY <1>7, <1>9
  <2>6. \A i \in DOMAIN queue' :
            IsAnswer(queue'[i]) /\ queue'[i].name = n => AnswerAgrees(queue[i])'
    BY <2>2, <2>5 DEF AnswerAgrees
  <2> QED
    BY <2>3, <2>4, <2>6 DEF Truth, IsAnswer
<1>12. OneJob'
  <2>1. \A u, v \in Worker : target'[u] = target'[v] /\ target'[u] # NoName => u = v
    BY <1>8 DEF OInv, Agreed, JobsOwn, OneJob
  <2>2. \A v \in Worker : \A i \in DOMAIN queue' :
            IsAnswer(queue'[i]) => target'[v] # queue'[i].name
    <3>1. ASSUME NEW v \in Worker, NEW i \in DOMAIN queue, IsAnswer(queue[i])
          PROVE  target'[v] # queue[i].name
      <4>1. queue[i].name # NoName
        BY <3>1, AnswersAreNamed DEF OInv, IInv
      <4> QED
        BY <1>8, <3>1, <4>1 DEF OInv, Agreed, JobsOwn, OneJob
    <3> QED
      BY <1>2, <1>6, <1>7, <1>8, <3>1
  <2>3. \A i, j \in DOMAIN queue' :
            IsAnswer(queue'[i]) /\ IsAnswer(queue'[j]) /\ queue'[i].name = queue'[j].name
                => i = j
    BY <1>6, <1>7, <1>9 DEF OInv, Agreed, JobsOwn, OneJob
  <2> QED
    BY <2>1, <2>2, <2>3 DEF OneJob, IsAnswer
<1>13. /\ CatalogOwn'
       /\ \A i \in DOMAIN queue' : EventOwn(queue[i])'
  BY <1>1, <1>6, <1>7 DEF OInv, Agreed, JobsOwn, CatalogOwn, EventOwn
<1>14. ASSUME NEW v \in Worker PROVE ThreadOwn(v)'
  BY <1>8 DEF OInv, Agreed, JobsOwn, ThreadOwn
<1> QED
  BY <1>1, <1>10, <1>11, <1>12, <1>13, <1>14 DEF OInv, Agreed, ListOwn, JobsOwn

(* One turn of the loop: other files see nothing of it, and the file of an  *)
(* answer agrees when it is over.                                           *)
LEMMA TakeAgreed ==
    ASSUME OInv, queue # <<>>, Take, ListOwn(list'), NEW e, e = Head(queue),
           \A f \in FileId : (IsAnswer(e) => f # e.name) => SameFor(f),
           IsAnswer(e) /\ e.name \in FileId => Agrees(e.name)'
    PROVE  Agreed'
<1>1. UNCHANGED <<catalog, phase, name, file, target>> /\ queue' = Tail(queue)
  BY DEF Take, stored
<1>2. /\ Len(queue) \in Nat /\ DOMAIN queue = 1 .. Len(queue)
      /\ 1 \in DOMAIN queue /\ queue[1] = e
      /\ \A i \in DOMAIN queue' : i + 1 \in DOMAIN queue /\ queue'[i] = queue[i + 1]
      /\ \A i \in DOMAIN queue : i # 1 => i - 1 \in DOMAIN queue' /\ queue'[i - 1] = queue[i]
      /\ DOMAIN queue' \subseteq Nat \ {0}
  BY <1>1 DEF OInv, IInv, ChannelOK
<1>3. ASSUME NEW f \in FileId, IsAnswer(e) => f # e.name PROVE Truth(f)'
  <2>1. SameFor(f)
    BY <1>3
  <2>2. \A i \in DOMAIN queue' : \E j \in DOMAIN queue : queue[j] = queue'[i]
    BY <1>2
  <2>3. ASSUME NEW j \in DOMAIN queue, IsAnswer(queue[j]), queue[j].name = f
        PROVE  \E i \in DOMAIN queue' : queue'[i] = queue[j]
    BY <1>2, <1>3, <2>3
  <2>4. SameJobs(f)
    BY <1>1, <2>2, <2>3 DEF SameJobs
  <2> QED
    BY <2>1, <2>4, TruthKept DEF OInv, Agreed
<1>4. ASSUME IsAnswer(e), e.name \in FileId PROVE Truth(e.name)'
  <2>1. PICK n : n = e.name
    OBVIOUS
  <2>2. \A w \in Worker : target'[w] # n
    BY <1>1, <1>2, <1>4, <2>1 DEF OInv, Agreed, JobsOwn, OneJob
  <2>3. \A i \in DOMAIN queue' : IsAnswer(queue'[i]) => queue'[i].name # n
    BY <1>2, <1>4, <2>1 DEF OInv, Agreed, JobsOwn, OneJob
  <2>4. Agrees(n)'
    BY <1>4, <2>1
  <2> QED
    BY <2>1, <2>2, <2>3, <2>4 DEF Truth
<1>5. OneJob'
  <2>1. \A i, j \in DOMAIN queue' : i + 1 = j + 1 => i = j
    BY <1>2
  <2> QED
    BY <1>1, <1>2, <2>1 DEF OInv, Agreed, JobsOwn, OneJob, IsAnswer
<1>6. /\ CatalogOwn' /\ \A w \in Worker : ThreadOwn(w)'
      /\ \A i \in DOMAIN queue' : EventOwn(queue[i])'
  BY <1>1, <1>2 DEF OInv, Agreed, JobsOwn, CatalogOwn, ThreadOwn, EventOwn
<1> QED
  BY <1>3, <1>4, <1>5, <1>6 DEF Agreed, JobsOwn, ListOwn

LEMMA EventAgreed ==
    ASSUME OInv, HandleEvent
    PROVE  Agreed'
<1>0. PICK e : e = Head(queue)
  OBVIOUS
<1>1. /\ queue # <<>> /\ Take /\ ListOK(list, cursor) /\ ListOwn(list)
      /\ catalog' = catalog
  BY DEF HandleEvent, MappingsDiscovered, SymbolsLoaded, LoadError,
         SymbolsRemoved, Arrived, OInv, IInv, Agreed, Take, stored
<1>2. 1 \in DOMAIN queue /\ queue[1] = e
  BY <1>0, <1>1 DEF OInv, IInv, ChannelOK
<1>3. /\ e.kind = "loaded" => e.file \in FileId
      /\ e.kind = "discovered" => e.names \in Seq(Name)
      /\ IsAnswer(e) => e.name \in Name
  BY <1>0, <1>1, <1>2, HeadIsSound, AnswersAreNamed DEF OInv, IInv
<1>4. /\ e.kind = "loaded" => e.file = e.name /\ e.fileName = e.name
      /\ IsAnswer(e) /\ e.name \in FileId => AnswerAgrees(e)
  BY <1>2 DEF OInv, Agreed, JobsOwn, EventOwn, Truth
<1>5. CASE MappingsDiscovered
  <2>1. ~IsAnswer(e) /\ hidden' = hidden /\ MergeDiscoveredMappings(e.names)
    BY <1>0, <1>5 DEF MappingsDiscovered, Arrived, IsAnswer
  <2>2. ListOwn(list') /\ \A f \in FileId : Shown(list', f) <=> Shown(list, f)
    BY <1>1, <1>3, <2>1, MergeOwn DEF IsAnswer
  <2>3. \A f \in FileId : SameFor(f)
    BY <1>1, <2>1, <2>2 DEF SameFor
  <2> QED
    BY <1>0, <1>1, <2>1, <2>2, <2>3, TakeAgreed
<1>6. CASE SymbolsLoaded
  <2>1. /\ e.kind = "loaded" /\ IsAnswer(e) /\ hidden' = hidden \ {e.name}
        /\ UpdateSymbolized(e.name, e.file, e.fileName)
    BY <1>0, <1>6 DEF SymbolsLoaded, Arrived, IsAnswer
  <2>2. PICK n \in Name : n = e.name
    BY <1>3, <2>1
  <2>3. n \in FileId /\ UpdateSymbolized(n, n, n) /\ catalog[n] # NoName
    BY <1>3, <1>4, <2>1, <2>2 DEF AnswerAgrees
  <2>4. /\ ListOwn(list') /\ Shown(list', n)
        /\ \A f \in FileId \ {n} : Shown(list', f) <=> Shown(list, f)
    BY <1>1, <2>2, <2>3, UpdateOwn
  <2>5. \A f \in FileId : f # n => SameFor(f)
    BY <1>1, <2>1, <2>2, <2>4 DEF SameFor
  <2>6. Agrees(n)'
    BY <1>1, <2>1, <2>2, <2>3, <2>4 DEF Agrees
  <2> QED
    BY <1>0, <1>1, <2>1, <2>2, <2>4, <2>5, <2>6, TakeAgreed
<1>7. CASE LoadError
  <2>1. e.kind = "loadFailed" /\ IsAnswer(e) /\ UNCHANGED <<list, hidden>>
    BY <1>0, <1>7 DEF LoadError, Arrived, IsAnswer
  <2>2. \A f \in FileId : SameFor(f)
    BY <1>1, <2>1 DEF SameFor
  <2>3. PICK n : n = e.name
    OBVIOUS
  <2>4. n \in FileId => Agrees(n)
    BY <1>4, <2>1, <2>3 DEF AnswerAgrees
  <2>5. n \in FileId => Agrees(n)'
    BY <2>2, <2>4, SameAgrees
  <2>6. ListOwn(list')
    BY <1>1, <2>1 DEF ListOwn
  <2> QED
    BY <1>0, <1>1, <2>1, <2>2, <2>3, <2>5, <2>6, TakeAgreed
<1>8. CASE SymbolsRemoved
  <2>1. /\ e.kind \in {"removed", "removeFailed"} /\ IsAnswer(e)
        /\ ClearSymbols(e.name)
        /\ hidden' = IF e.kind = "removed" THEN hidden \ {e.name}
                     ELSE hidden \union {e.name}
    BY <1>0, <1>8 DEF SymbolsRemoved, Arrived, IsAnswer
  <2>2. PICK n \in Name : n = e.name
    BY <1>3, <2>1
  <2>3. /\ ListOwn(list') /\ (n \in FileId => ~Shown(list', n))
        /\ \A f \in FileId \ {n} : Shown(list', f) <=> Shown(list, f)
    BY <1>1, <2>1, <2>2, ClearOwn
  <2>4. \A f \in FileId : f # n => SameFor(f)
    BY <1>1, <2>1, <2>2, <2>3 DEF SameFor
  <2>5. n \in FileId => Agrees(n)'
    BY <1>1, <1>4, <2>1, <2>2, <2>3 DEF Agrees, AnswerAgrees
  <2> QED
    BY <1>0, <1>1, <2>1, <2>2, <2>3, <2>4, <2>5, TakeAgreed
<1> QED
  BY <1>5, <1>6, <1>7, <1>8 DEF HandleEvent

----------------------------------------------------------------------------
(* A start lists every stored file under its own name, and nothing is left  *)
(* to be answered.                                                          *)
LEMMA RestartAgreed ==
    ASSUME OInv, Restart
    PROVE  Agreed'
<1> DEFINE complete == {f \in FileId : catalog[f] # NoName}
           ids == Ranked(complete, Smaller(complete))
<1>1. /\ list' = ListFiles /\ queue' = <<>> /\ hidden' = {} /\ catalog' = catalog
      /\ phase' = [w \in Worker |-> "idle"]
      /\ name' = [w \in Worker |-> NoName]
      /\ file' = [w \in Worker |-> NoFile]
      /\ target' = [w \in Worker |-> NoName]
  BY DEF Restart, Store!Restart
<1>2. /\ ids \in [1 .. Cardinality(complete) -> complete]
      /\ \A f \in complete : \E i \in 1 .. Cardinality(complete) : ids[i] = f
      /\ \A i, j \in 1 .. Cardinality(complete) : ids[i] = ids[j] => i = j
  <2>1. complete \in SUBSET FileId /\ FileId \subseteq Int
    OBVIOUS
  <2> HIDE DEF complete
  <2>2. complete \in SUBSET Int /\ IsFiniteSet(complete)
    BY <2>1, FS_Subset
  <2>3. StrictTotalOrder(complete, Smaller(complete))
    BY <2>2, SmallerIsTotal
  <2> QED
    BY <2>2, <2>3, RankedIsListing, RankedIsInjective
<1>3. \A f \in complete : f \in FileId /\ catalog[f] = f
  BY DEF OInv, Agreed, JobsOwn, CatalogOwn
<1>4. ListFiles = [i \in DOMAIN ids |-> [name |-> catalog[ids[i]], file |-> ids[i]]]
  BY DEF ListFiles
<1> HIDE DEF ids
<1>5. /\ DOMAIN list' = 1 .. Cardinality(complete)
      /\ \A i \in DOMAIN list' : list'[i].name = ids[i] /\ list'[i].file = ids[i]
  <2> HIDE DEF complete
  <2> QED
    BY <1>1, <1>2, <1>3, <1>4
<1>6. ListOwn(list')
  BY <1>2, <1>5 DEF ListOwn
<1>7. ASSUME NEW f \in FileId PROVE Truth(f)'
  <2>1. Shown(list', f) <=> f \in complete
    <3> HIDE DEF complete
    <3> QED
      BY <1>2, <1>5 DEF Shown
  <2>2. Agrees(f)'
    BY <1>1, <2>1 DEF Agrees
  <2>3. \A w \in Worker : target'[w] # f
    BY <1>1
  <2> QED
    BY <1>1, <2>2, <2>3 DEF Truth
<1>8. JobsOwn'
  BY <1>1 DEF OInv, Agreed, JobsOwn, CatalogOwn, OneJob, ThreadOwn
<1> QED
  BY <1>6, <1>7, <1>8 DEF Agreed, ListOwn

LEMMA OInvInit == Init => OInv
<1> SUFFICES ASSUME Init PROVE Agreed
  BY IInvInit DEF OInv
<1> USE DEF Init, TabInit, Store!Init
<1>1. ListOwn(list)
  BY DEF ListOwn
<1>2. JobsOwn
  BY DEF JobsOwn, CatalogOwn, OneJob, ThreadOwn
<1>3. ASSUME NEW f \in FileId PROVE Truth(f)
  <2>1. Agrees(f) /\ \A w \in Worker : target[w] # f
    BY DEF Agrees, Shown
  <2> QED
    BY <2>1 DEF Truth
<1> QED
  BY <1>1, <1>2, <1>3 DEF Agreed

LEMMA OInvStep == OInv /\ [OrderlyNext]_vars => OInv'
<1> SUFFICES ASSUME OInv, [OrderlyNext]_vars PROVE Agreed'
  BY IInvStep DEF OInv, OrderlyNext
<1>1. CASE UNCHANGED vars
  BY <1>1, IdleAgreed DEF OInv, vars, stored
<1>2. CASE TabKey
  <2>1. UNCHANGED <<list, stored, target, queue, hidden>>
    BY <1>2 DEF TabKey, Keys, Down, Up, OpenForSelected, OpenForNew,
                ClosePrompt, loop
  <2> QED
    BY <2>1, IdleAgreed DEF OInv
<1> QED
  BY <1>1, <1>2, SubmitAgreed, PressRemoveAgreed, WorkAgreed, AnswerAgreed,
     DiscoverAgreed, EventAgreed, RestartAgreed DEF OrderlyNext, Next

LEMMA AgreedImpliesListAgrees == OInv => ListAgrees
<1> SUFFICES ASSUME OInv, NEW f \in FileId, ~JobsFor(f)
             PROVE  LET shown == {list[i].name :
                                     i \in {j \in DOMAIN list : list[j].file = f}}
                    IN IF f \in hidden THEN shown = {} /\ catalog[f] # NoName
                       ELSE shown = {catalog[f]} \ {NoName}
  BY DEF ListAgrees, OwnFile
<1> DEFINE shown == {list[i].name : i \in {j \in DOMAIN list : list[j].file = f}}
<1>1. Agrees(f) /\ catalog[f] \in {NoName, f}
  BY DEF OInv, Agreed, Truth, JobsOwn, CatalogOwn
<1>2. \A i \in DOMAIN list : list[i].file = f => list[i].name = f
  BY DEF OInv, Agreed, ListOwn
<1>3. IF Shown(list, f) THEN shown = {f} ELSE shown = {}
  BY <1>2 DEF Shown
<1> HIDE DEF shown
<1>4. IF f \in hidden THEN shown = {} /\ catalog[f] # NoName
      ELSE shown = {catalog[f]} \ {NoName}
  BY <1>1, <1>3 DEF Agrees
<1> QED
  BY <1>4 DEF shown

(* update_symbolized, clear_symbols and list_files against the store: in    *)
(* orderly use, however many threads and answers are under way, the list    *)
(* shows what is stored, but for a job of that name or a failed removal.    *)
THEOREM ListShowsStore == OrderlySpec => []ListAgrees
BY OInvInit, OInvStep, AgreedImpliesListAgrees, PTL DEF OrderlySpec

----------------------------------------------------------------------------
(* AppState: the tab on the screen, and the profiles both tabs hold.        *)
AppInv == AppTypeOK /\ OverlayOnScreen /\ TabsShowSameProfiles

USE AppAssumption DEF AppInv, AppTypeOK, OverlayOnScreen, TabsShowSameProfiles

LEMMA AppInvInit == AppInit => AppInv
<1> SUFFICES ASSUME AppInit PROVE AppInv
  OBVIOUS
<1>1. arrived \in 0 .. MaxProfiles /\ lastReset \in 0 .. arrived
  BY DEF AppInit
<1>2. sampled = {} /\ graph = {} /\ heatmap = {}
  BY DEF AppInit
<1>3. running \in BOOLEAN /\ frozen \in BOOLEAN
  BY DEF AppInit
<1>4. activeTab \in Tab /\ overlay \subseteq Tab /\ OverlayOnScreen
  BY DEF AppInit, Tab
<1> QED
  BY <1>1, <1>2, <1>3, <1>4

(* A profile reaches both tabs or, when frozen, neither. *)
LEMMA ProfileKeeps == AppInv /\ ProfileUpdate => AppInv'
<1> SUFFICES ASSUME AppInv, ProfileUpdate PROVE AppInv'
  OBVIOUS
<1> USE DEF ProfileUpdate, Recorded, Merged
<1>1. AppTypeOK'
  OBVIOUS
<1>2. OverlayOnScreen'
  OBVIOUS
<1>3. TabsShowSameProfiles'
  <2> SUFFICES ASSUME NEW p \in lastReset + 1 .. arrived + 1
               PROVE  p \in graph' <=> p \in heatmap'
    OBVIOUS
  <2>1. CASE p = arrived + 1
    BY <2>1
  <2>2. CASE p \in lastReset + 1 .. arrived
    BY <2>2
  <2> QED
    BY <2>1, <2>2
<1> QED
  BY <1>1, <1>2, <1>3

(* The keys that end the program, switch tabs or open and close overlays:   *)
(* the tab on the screen changes only while no overlay is open.             *)
LEMMA ScreenKeysKeep ==
    AppInv /\ (CtrlC \/ PressQ \/ PressTab \/ OpenOverlay \/ CloseOverlay) => AppInv'
<1> SUFFICES ASSUME AppInv,
                    CtrlC \/ PressQ \/ PressTab \/ OpenOverlay \/ CloseOverlay
             PROVE  AppInv'
  OBVIOUS
<1>1. UNCHANGED profiles
  BY DEF CtrlC, PressQ, PressTab, OpenOverlay, CloseOverlay
<1>2. activeTab' \in Tab /\ overlay' \subseteq {activeTab'}
  BY DEF CtrlC, PressQ, PressTab, OpenOverlay, CloseOverlay, OverlayActive,
         NextTab, Tab
<1>3. running' \in BOOLEAN /\ UNCHANGED frozen
  BY DEF CtrlC, PressQ, PressTab, OpenOverlay, CloseOverlay
<1> QED
  BY <1>1, <1>2, <1>3 DEF profiles

(* Freezing moves no profile, and a reset starts both tabs afresh. *)
LEMMA TabKeysKeep ==
    AppInv /\ (ToggleFreeze \/ ResetGraph \/ ResetHeatmap) => AppInv'
<1> SUFFICES ASSUME AppInv, ToggleFreeze \/ ResetGraph \/ ResetHeatmap
             PROVE  AppInv'
  OBVIOUS
<1>1. CASE ToggleFreeze
  BY <1>1 DEF ToggleFreeze, profiles
<1>2. CASE ResetGraph
  BY <1>2 DEF ResetGraph
<1>3. CASE ResetHeatmap
  BY <1>3 DEF ResetHeatmap
<1> QED
  BY <1>1, <1>2, <1>3

LEMMA AppInvStep == AppInv /\ [AppNext]_AppVars => AppInv'
<1> SUFFICES ASSUME AppInv, [AppNext]_AppVars PROVE AppInv'
  OBVIOUS
<1>1. CASE UNCHANGED AppVars
  BY <1>1 DEF AppVars, profiles
<1> QED
  BY <1>1, ProfileKeeps, ScreenKeysKeep, TabKeysKeep DEF AppNext, Key

LEMMA AppInvHolds == AppSpec => []AppInv
BY AppInvInit, AppInvStep, PTL DEF AppSpec

----------------------------------------------------------------------------
(* State's overlay tests, in every reachable state: the only overlay that   *)
(* may be open is that of the tab on the screen.                            *)
THEOREM OverlaySeen == AppSpec => []OverlayOnScreen
<1>1. AppInv => OverlayOnScreen
  OBVIOUS
<1> QED
  BY <1>1, AppInvHolds, PTL

(* The event loop and merge agree about every profile: since the last reset *)
(* both tabs show the same ones.                                            *)
THEOREM SameProfiles == AppSpec => []TabsShowSameProfiles
<1>1. AppInv => TabsShowSameProfiles
  OBVIOUS
<1> QED
  BY <1>1, AppInvHolds, PTL

(* render, with State's keys: an overlay on the screen means that a key     *)
(* reaches nothing but that overlay, so the tab stays active, and the flame *)
(* graph keeps its weight; profiles only add to it.                         *)
LEMMA OverlayStaysStep ==
    ASSUME AppInv, [AppNext]_AppVars, NEW t \in DrawnOverlays, t \in overlay'
    PROVE  t \in DrawnOverlays'
<1>1. t \in overlay /\ t = activeTab /\ ~Waiting
  BY DEF DrawnOverlays
<1>2. CASE UNCHANGED AppVars
  BY <1>1, <1>2 DEF AppVars, profiles, DrawnOverlays, Waiting
<1>3. CASE ProfileUpdate
  <2>1. UNCHANGED <<activeTab, overlay>>
    BY <1>3 DEF ProfileUpdate
  <2>2. graph \subseteq graph' /\ sampled \subseteq sampled'
    BY <1>3 DEF ProfileUpdate, Merged
  <2> QED
    BY <1>1, <2>1, <2>2 DEF DrawnOverlays, Waiting
<1>4. CASE CtrlC \/ CloseOverlay
  BY <1>1, <1>4 DEF CtrlC, CloseOverlay, profiles, DrawnOverlays, Waiting
<1>5. ~(PressQ \/ PressTab)
  BY <1>1 DEF PressQ, PressTab, OverlayActive
<1>6. ~(OpenOverlay \/ ToggleFreeze \/ ResetGraph \/ ResetHeatmap)
  BY <1>1 DEF OpenOverlay, ToggleFreeze, ResetGraph, ResetHeatmap, Reaches
<1> QED
  BY <1>2, <1>3, <1>4, <1>5, <1>6 DEF AppNext, Key

(* A drawn overlay stays on the screen until it is closed. *)
THEOREM OverlayStays == AppSpec => OverlayStaysDrawn
<1>1. AppInv /\ [AppNext]_AppVars =>
         [\A t \in DrawnOverlays : t \in overlay' => t \in DrawnOverlays']_AppVars
  BY OverlayStaysStep
<1> QED
  BY <1>1, AppInvHolds, PTL DEF AppSpec, OverlayStaysDrawn
============================================================================
