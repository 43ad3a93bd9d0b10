---------------------------- MODULE FlamegraphTab --------------------------
(* The Flamegraph tab: the merged graph, freezing, the cursor, zooming, the *)
(* thread search, and what a draw adjusts.  The text typed into the search  *)
(* is the set of thread names that contain it.                              *)
EXTENDS FlameGraph

CONSTANTS Exports,      \* profiles that arrive: sequences of weighted stacks
          Names,        \* names of their frames
          ThreadNames,  \* first elements of their stacks
          Width,        \* columns and rows of the graph area
          Height,
          MaxProfiles   \* bound: profiles merged since the last reset

(* process_export counts a sample once at least, and a stack begins with    *)
(* the name of the thread.                                                  *)
ASSUME TabAssumption ==
    /\ Exports \subseteq Seq([stack: Seq(Names) \ {<<>>}, value: Nat \ {0}])
    /\ \A export \in Exports : \A k \in DOMAIN export :
           export[k].stack[1] \in ThreadNames
    /\ Width \in Nat \ (0 .. 3) /\ Height \in Nat \ {0, 1}  \* or nothing is drawn
    /\ MaxProfiles \in Nat

VARIABLES graph, frozen, profiles, samples,
          cursor,  \* cursor_path
          zoom,    \* zoom_path
          scroll,  \* scroll_y
          search,
          selection,  \* what the detail bar shows: it is drawn before Draw
                      \* looks at the cursor
          drawn,      \* nothing has happened since the last draw
          merged      \* history: the samples in the graph
vars == <<graph, frozen, profiles, samples, cursor, zoom, scroll, search, selection,
          drawn, merged>>
view == <<cursor, zoom, scroll>>
data == <<graph, profiles, samples, merged>>

Closed == [active |-> FALSE, matches |-> <<>>, cursor |-> 1]

NoSelection == [name |-> "", self |-> 0, total |-> 0, depth |-> 0]

Init ==
    /\ graph = Root /\ profiles = 0 /\ samples = 0 /\ merged = <<>>
    /\ frozen = FALSE
    /\ cursor = <<>> /\ zoom = <<>> /\ scroll = 0
    /\ search = Closed
    /\ selection = NoSelection /\ drawn = FALSE

ZoomRoot == GetZoomNode(graph, zoom)

NodeName(p) == IF p = <<>> THEN "all" ELSE Last(p)

----------------------------------------------------------------------------
(* merge: a profile that arrives while frozen is dropped. *)
Receive(export) ==
    IF frozen THEN UNCHANGED <<data, frozen, view, search>>
    ELSE /\ profiles < MaxProfiles
         /\ graph' = SortRecursive(MergeNode(graph, GraphOf(export)))
         /\ profiles' = profiles + 1
         /\ samples' = samples + WeightOf(export)
         /\ merged' = merged \o export
         /\ UNCHANGED <<frozen, view, search>>

(* render_flamegraph, at every turn of the loop: the deepest row drawn.     *)
Layout == LayoutFrames(graph, ZoomRoot, Width)

Deepest == LET depths == {f.depth : f \in Layout}
           IN CHOOSE d \in depths \union {0} : \A e \in depths : e <= d

Frame(path) ==
    LET p == GetNode(graph, ZoomRoot, path)
    IN [name |-> NodeName(p), self |-> graph[p].self, total |-> graph[p].total,
        depth |-> Len(path)]

(* Mutant of Selected: the numbers of a frame selected already are kept. *)
SelectedOnMove(path) ==
    IF ~Resolves(graph, ZoomRoot, path) \/ selection.name = Frame(path).name
    THEN selection ELSE Frame(path)

(* The frame the cursor leads to, if it leads to one. *)
Selected(path) ==
    IF Resolves(graph, ZoomRoot, path) THEN Frame(path) ELSE selection

Draw ==
    /\ graph[ZoomRoot].total > 0
    /\ scroll' = Scrolled(scroll, Len(cursor), Deepest, Height)
    /\ selection' = Selected(cursor)
    /\ drawn' = TRUE
    /\ UNCHANGED <<data, frozen, cursor, zoom, search>>

----------------------------------------------------------------------------
(* Keys, with the search closed. *)
ToggleFreeze ==
    /\ frozen' = ~frozen
    /\ UNCHANGED <<data, view, search>>

CursorTo(path) ==
    /\ cursor' = path
    /\ UNCHANGED <<data, frozen, zoom, scroll, search>>

MoveDown ==
    /\ graph[GetNode(graph, ZoomRoot, cursor)].names # <<>>
    /\ CursorTo(Append(cursor, 1))

MoveUp == cursor # <<>> /\ CursorTo(Front(cursor))

MoveLeft ==
    /\ cursor # <<>> /\ Last(cursor) > 1
    /\ CursorTo(Front(cursor) \o <<Last(cursor) - 1>>)

(* Mutant of RightLimit: one past the last sibling. *)
RightOvershoot(parent) == Len(graph[parent].names) + 1

RightLimit(parent) == Len(graph[parent].names)

MoveRight ==
    /\ cursor # <<>>
    /\ Last(cursor) + 1 <= RightLimit(GetNode(graph, ZoomRoot, Front(cursor)))
    /\ CursorTo(Front(cursor) \o <<Last(cursor) + 1>>)

ZoomTo(path) ==
    /\ zoom' = path /\ cursor' = <<>> /\ scroll' = 0
    /\ UNCHANGED <<data, frozen>>

ZoomIn ==
    /\ cursor # <<>>
    /\ ZoomTo(zoom \o CollectPathNames(graph, ZoomRoot, cursor))
    /\ UNCHANGED search

ZoomOut == zoom # <<>> /\ ZoomTo(Front(zoom)) /\ UNCHANGED search

(* Mutant of Emptied: the zoom survives the reset. *)
EmptiedBelowZoom == cursor' = <<>> /\ scroll' = 0 /\ UNCHANGED zoom

Emptied == cursor' = <<>> /\ scroll' = 0 /\ zoom' = <<>>

(* "r": a frozen tab stays frozen. *)
Reset ==
    /\ graph' = Root /\ profiles' = 0 /\ samples' = 0 /\ merged' = <<>>
    /\ Emptied
    /\ UNCHANGED <<frozen, search>>

----------------------------------------------------------------------------
(* refresh_search: the threads, in the order of the graph, that match. *)
Matching(text) ==
    LET names == graph[<<>>].names
    IN Picked(names, {i \in DOMAIN names : names[i] \in text})

SetSearch(matches) ==
    /\ search' = [active |-> TRUE, matches |-> matches, cursor |-> 1]
    /\ UNCHANGED <<data, frozen, view>>

OpenSearch == SetSearch(Matching(ThreadNames))

TypeSearch(text) == SetSearch(Matching(text))

SearchUp ==
    /\ search.cursor > 1
    /\ search' = [search EXCEPT !.cursor = @ - 1]
    /\ UNCHANGED <<data, frozen, view>>

SearchDown ==
    /\ search.cursor + 1 <= Len(search.matches)
    /\ search' = [search EXCEPT !.cursor = @ + 1]
    /\ UNCHANGED <<data, frozen, view>>

(* Enter zooms into the thread, from the root; Esc, or Enter on an empty    *)
(* list, just closes.                                                       *)
PickThread ==
    /\ search.matches # <<>>
    /\ ZoomTo(<<search.matches[search.cursor]>>)
    /\ search' = Closed

CloseSearch == search' = Closed /\ UNCHANGED <<data, frozen, view>>

(* A key finds the tab drawn, for the loop draws before it takes an event;  *)
(* profiles also arrive while another tab is on the screen.                 *)
Key == /\ drawn \/ graph[ZoomRoot].total <= 0
       /\ \/ /\ ~search.active
             /\ \/ ToggleFreeze \/ MoveDown \/ MoveUp \/ MoveLeft \/ MoveRight
                \/ ZoomIn \/ ZoomOut \/ Reset \/ OpenSearch
          \/ /\ search.active
             /\ \/ \E text \in SUBSET ThreadNames : TypeSearch(text)
                \/ SearchUp \/ SearchDown \/ PickThread \/ CloseSearch

Event == /\ (\E export \in Exports : Receive(export)) \/ Key
         /\ drawn' = FALSE
         /\ UNCHANGED selection

Next == Draw \/ Event

Spec == Init /\ [][Next]_vars

----------------------------------------------------------------------------
(* What the samples at the given places weigh together. *)
Weigh(received, places) ==
    SumOf([k \in DOMAIN received |-> IF k \in places THEN received[k].value ELSE 0])

(* Samples whose stack begins with p. *)
Through(received, p) == {k \in DOMAIN received : IsPrefix(p, received[k].stack)}
EndingAt(received, p) == {k \in DOMAIN received : received[k].stack = p}

(* Building, merging and sorting neither lose nor misplace a sample: every  *)
(* node weighs in total what the stacks through it weigh, and by itself     *)
(* what the stacks that end in it weigh, there is no node but those on the  *)
(* stacks, and the tab counts all samples.                                  *)
WeightsConserved ==
    /\ DOMAIN graph =
           {<<>>} \union UNION {Prefixes(merged[k].stack) : k \in DOMAIN merged}
    /\ \A p \in DOMAIN graph :
           /\ graph[p].total = Weigh(merged, Through(merged, p))
           /\ graph[p].self = Weigh(merged, EndingAt(merged, p))
    /\ samples = graph[<<>>].total

(* After every merge, at every level: a node has every child there is under *)
(* it, and has it once, its index leads to the place the child has, and     *)
(* children come heaviest first.                                            *)
IndexedAndSorted ==
    \A p \in DOMAIN graph :
        LET names == graph[p].names
            Child(i) == Append(p, names[i])
        IN /\ {q \in DOMAIN graph : q # <<>> /\ Front(q) = p} = {Child(i) : i \in DOMAIN names}
           /\ DOMAIN graph[p].index = ToSet(names)
           /\ \A i \in DOMAIN names : graph[p].index[names[i]] = i
           /\ \A i, j \in DOMAIN names :
                  i < j => graph[Child(i)].total >= graph[Child(j)].total

(* The zoom always leads to a node, through any merging, searching and      *)
(* resetting: get_zoom_node never has to skip a name.                       *)
ZoomResolves == zoom \in DOMAIN graph /\ ZoomRoot = zoom

(* No key takes the cursor off the graph; only an arriving profile, which   *)
(* reorders children under a cursor of positions, can.                      *)
KeysKeepCursor ==
    [][Key /\ Resolves(graph, ZoomRoot, cursor) =>
           Resolves(graph, ZoomRoot, cursor)']_vars

(* In spite of the rounding at every sum: the callees of one caller follow  *)
(* each other from left to right in the order of its children, share no     *)
(* column, and leave none out from the first column of their caller on.     *)
FramesInOrder ==
    LET frames == Layout
    IN \A p \in DOMAIN graph :
           LET callees == {f \in frames : f.depth > 0 /\ Front(f.path) = p}
               Child(f) == graph[p].index[Last(f.path)]
           IN /\ \A f, g \in callees : Child(f) < Child(g) => f.x + f.width <= g.x
              /\ \A caller \in frames, f \in callees :
                     caller.path = p =>
                         \A column \in caller.x .. f.x :
                             \E g \in callees : column \in g.x .. g.x + g.width - 1

(* The frame that the keys act on. *)
Drawn(path) ==
    /\ Resolves(graph, ZoomRoot, path)
    /\ \E f \in Layout : f.path = GetNode(graph, ZoomRoot, path)

(* The frame drawn highlighted is found by its row and column.  The one the *)
(* keys act on is found, unless it is too narrow to be drawn, for the       *)
(* column of the cursor is summed in the same order as those of the frames; *)
(* and no other callee of its caller is found with it.                      *)
HighlightShowsCursor ==
    Drawn(cursor) =>
        LET p == GetNode(graph, ZoomRoot, cursor)
            found == {f \in Layout :
                         /\ f.depth = Len(cursor)
                         /\ f.x = CursorColumn(graph, ZoomRoot, cursor, Width)}
        IN /\ \E f \in found : f.path = p
           /\ \A f \in found : f.path # p => Front(f.path) # Front(p)

(* What the detail bar shows at the next draw when nothing happens until    *)
(* then: the frame of the cursor, as it weighs now; and when profiles have  *)
(* moved the graph away under the cursor, still a frame inside the zoom, of *)
(* the depth shown and no lighter than shown, never one that a reset or a   *)
(* zoom has left behind.                                                    *)
SelectionIsCurrent ==
    drawn =>
        IF Resolves(graph, ZoomRoot, cursor) THEN selection = Frame(cursor)
        ELSE \E p \in DOMAIN graph :
                 /\ IsPrefix(zoom, p) /\ Len(p) - Len(zoom) = selection.depth
                 /\ NodeName(p) = selection.name
                 /\ graph[p].total >= selection.total

(* A draw leaves the row of the cursor on the screen. *)
DrawShowsCursor ==
    [][Draw /\ Drawn(cursor) =>
           Len(cursor) \in scroll' .. scroll' + Height - 1]_vars
============================================================================
