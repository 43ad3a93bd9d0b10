----------------------------- MODULE FlameGraph ----------------------------
(* The weighted call tree of flamegraph.rs: building it from stacks,        *)
(* merging, sorting, walking it, and laying it out in columns.  The tree is *)
(* a function on its nodes, and a node is the sequence of names from the    *)
(* root to it: a parent has one child of a name, for a child is pushed only *)
(* when the name is not indexed.  Positions count from 1, from 0 in the     *)
(* code.                                                                    *)
EXTENDS FlamegraphLayout, Ranking, Iteration, SequencesExt

NewNode == [total |-> 0, self |-> 0, names |-> <<>>, index |-> <<>>]

Root == [p \in {<<>>} |-> NewNode]

(* Where a child stands, found by looking through the children ... *)
PlaceOf(names, name) == CHOOSE i \in DOMAIN names : names[i] = name

(* ... and the child that the index leads to. *)
HasChild(node, name) == name \in DOMAIN node.index
ChildByName(node, name) == node.names[node.index[name]]

(* Children are pushed, and indexed at the place they get. *)
PushChildren(node, fresh) ==
    LET names == node.names \o fresh
    IN [node EXCEPT !.names = names,
                    !.index = [name \in DOMAIN node.index \union ToSet(fresh) |->
                                  IF HasChild(node, name) THEN node.index[name]
                                  ELSE PlaceOf(names, name)]]

(* What add_stack and merge do to a node they come by: it weighs more, and  *)
(* gets the children among `names` that it has not.                         *)
Extended(node, total, self, names) ==
    PushChildren([node EXCEPT !.total = @ + total, !.self = @ + self],
                 Picked(names, {i \in DOMAIN names : ~HasChild(node, names[i])}))

----------------------------------------------------------------------------
(* The weight is the own weight of the node the stack ends at. *)
AddStack(g, stack, value) ==
    [p \in DOMAIN g \union Prefixes(stack) |->
        IF p \notin Prefixes(stack) THEN g[p]
        ELSE Extended(IF p \in DOMAIN g THEN g[p] ELSE NewNode,
                      value, IF p = stack THEN value ELSE 0,
                      IF p = stack THEN <<>> ELSE <<stack[Len(p) + 1]>>)]

(* Mutant of Merged: the weight of the other's own samples is forgotten. *)
MergedTotal(node, other) == Extended(node, other.total, 0, other.names)

Merged(node, other) == Extended(node, other.total, other.self, other.names)

(* A child both trees have is merged in place, any other is moved over with *)
(* all that is below it.                                                    *)
MergeNode(g, other) ==
    [p \in DOMAIN g \union DOMAIN other |->
        IF p \notin DOMAIN other THEN g[p]
        ELSE IF p \notin DOMAIN g THEN other[p]
        ELSE Merged(g[p], other[p])]

(* sort_by is stable: children of equal weight keep their order. *)
Heaviest(g, p) ==
    LET kids == DOMAIN g[p].names
        Weight(i) == g[Append(p, g[p].names[i])].total
    IN {pair \in kids \X kids :
           \/ Weight(pair[1]) > Weight(pair[2])
           \/ Weight(pair[1]) = Weight(pair[2]) /\ pair[1] < pair[2]}

(* Mutant of RebuildIndex: the index of before the sort is kept. *)
KeepIndex(node) == node.index

RebuildIndex(node) == [name \in ToSet(node.names) |-> PlaceOf(node.names, name)]

SortRecursive(g) ==
    [p \in DOMAIN g |->
        LET order == Ranked(DOMAIN g[p].names, Heaviest(g, p))
            sorted == [g[p] EXCEPT !.names = [k \in DOMAIN @ |-> @[order[k]]]]
        IN [sorted EXCEPT !.index = RebuildIndex(sorted)]]

(* process_export: a graph of its own for every export. *)
GraphOf(samples) ==
    LET built[k \in 0 .. Len(samples)] ==
            IF k = 0 THEN Root
            ELSE AddStack(built[k - 1], samples[k].stack, samples[k].value)
    IN built[Len(samples)]

WeightOf(samples) == SumOf([k \in DOMAIN samples |-> samples[k].value])

----------------------------------------------------------------------------
(* get_zoom_node and get_node skip a step that leads nowhere. *)
GetZoomNode(g, names) ==
    Walk(<<>>, [k \in DOMAIN names |-> [p \in DOMAIN g |->
                   IF HasChild(g[p], names[k])
                   THEN Append(p, ChildByName(g[p], names[k])) ELSE p]])[Len(names)]

(* The nodes on the way of a path of positions. *)
Steps(g, from, path) ==
    Walk(from, [k \in DOMAIN path |-> [p \in DOMAIN g |->
                   IF path[k] \in DOMAIN g[p].names
                   THEN Append(p, g[p].names[path[k]]) ELSE p]])

GetNode(g, from, path) == Steps(g, from, path)[Len(path)]

(* The first k steps lead to a child each. *)
Leads(g, from, path, k) ==
    \A j \in 1 .. k : path[j] \in DOMAIN g[Steps(g, from, path)[j - 1]].names

Resolves(g, from, path) == Leads(g, from, path, Len(path))

(* collect_path_names stops at the first step that leads nowhere. *)
CollectPathNames(g, from, path) ==
    LET taken == {k \in 0 .. Len(path) : Leads(g, from, path, k)}
        last == CHOOSE k \in taken : \A j \in taken : j <= k
    IN [k \in 1 .. last |-> Last(Steps(g, from, path)[k])]

----------------------------------------------------------------------------
(* The weights of the children before the i-th. *)
Before(g, p, i) == [j \in 1 .. i - 1 |-> g[Append(p, g[p].names[j])].total]

(* layout_recursive: where a node starts, under `from`.  Each caller on the *)
(* way starts past the children before it, weight after weight.             *)
FrameStart(g, from, p, scale) ==
    Walk(0, [k \in 1 .. Len(p) - Len(from) |-> [x \in Nat |->
                LET q == SubSeq(p, 1, Len(from) + k - 1)
                IN Advanced(x, Before(g, q, PlaceOf(g[q].names, p[Len(from) + k])),
                            scale)]])[Len(p) - Len(from)]

FrameOf(g, from, p, scale) ==
    LET x == FrameStart(g, from, p, scale)
    IN [path |-> p, depth |-> Len(p) - Len(from),
        x |-> Round(x), width |-> Columns(x, g[p].total, scale)]

(* A frame that gets no column is left out with all that is below it.       *)
LayoutFrames(g, from, width) ==
    IF g[from].total <= 0 THEN {}
    ELSE LET scale == Scale(width, g[from].total)
             frames == {FrameOf(g, from, p, scale) : p \in {q \in DOMAIN g : IsPrefix(from, q)}}
         IN {f \in frames : \A caller \in frames :
                 IsPrefix(caller.path, f.path) => caller.width > 0}

(* Mutant of CursorStart: weights are summed before they are scaled. *)
CursorSummed(g, from, path, scale) ==
    Walk(0, [k \in DOMAIN path |-> [x \in Nat |->
                Edge(x, SumOf(Before(g, Steps(g, from, path)[k - 1], path[k])),
                     scale)]])[Len(path)]

(* cursor_frame_rect: where the cursor's frame starts. *)
CursorStart(g, from, path, scale) ==
    Walk(0, [k \in DOMAIN path |-> [x \in Nat |->
                Advanced(x, Before(g, Steps(g, from, path)[k - 1], path[k]),
                         scale)]])[Len(path)]

CursorColumn(g, from, path, width) ==
    Round(CursorStart(g, from, path, Scale(width, g[from].total)))
============================================================================
