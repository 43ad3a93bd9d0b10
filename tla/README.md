# eprofiler-tui in TLA+

eprofiler-tui receives OpenTelemetry profiles over gRPC and shows them in the
terminal: as a live flame graph, as a flamescope (a heatmap of sample times) and,
with symbols loaded from ELF files, with inline frames. A second mode shows each
request as it came. These modules model its state and everything that changes
it; TLC checks them on small instances and TLAPS proves the most important
properties for every instance. Paths below are relative to
the repository.

## 1. The system

One process: the main thread runs a loop (`main.rs:99-182`) that draws, takes one
event from an mpsc channel and handles it. The events come from

- an input thread (`tui/event.rs`): keys, ticks, resizes;
- the gRPC server (`grpc.rs`): every export is answered at once and processed by
  a blocking task of its own, several at a time;
- one thread for each load or removal of symbols (`main.rs:106-143`), which works
  on the symbol store and sends one answer.

Shared between threads: the symbol store (`storage.rs`, three partitions of an
LSM tree, and an in-memory index behind a lock), `known_basenames` (behind a lock),
and the channel. The state of the tabs belongs to the main thread alone, but is
fed with events of the others.

| component | its state | its operations | what makes it correct |
|---|---|---|---|
| symbol ranges (`storage.rs`, `symbolizer.rs`) | keys (file, address, inline depth) with a length | extract, store, look an address up by a backward scan | the scan finds every range that covers the address, as one inline chain |
| symbol store (`storage.rs`) | partitions `ranges`, `strings`, `files`; `basename_index` | open, store, remove, look up, list | a listed file is complete; index and metadata agree; loads and removals look atomic |
| executables tab (`tui/state/executables.rs`) | entries, cursor, path prompt | merge discovered names, update, clear, keys | the cursor stays on its executable; what the list shows is stored |
| event loop (`main.rs`) | the channel, the threads, the status line | start a thread, handle each event | answers reach the right entry and always come |
| profiles server (`grpc.rs`) | `known_basenames`, one task per export | resolve and group samples, announce names, send the profile | no name is lost; names precede profiles; samples go to their thread |
| flame graph (`flamegraph.rs`) | a tree with child indices | add a stack, merge, sort, walk, lay out | weights are conserved; indices are right; callees stand in order and share no column |
| flamegraph tab (`tui/state/flamegraph.rs`, `tui/ui.rs`) | graph, cursor path, zoom path, scroll, search, freeze | merge, keys, draw | paths lead to nodes although merges reorder them |
| flamescope tab (`tui/state/flamescope.rs`, `tui/flamescope_layout.rs`, `tui/ui.rs`) | heatmaps of all and of each thread, filter, cursor, window | record, keys, draw | every sample is counted where it belongs; the cell of the cursor is on the screen |
| application state (`tui/state/mod.rs`) | active tab, overlays | dispatch a key, dispatch a profile | keys reach the tab on the screen; both profile tabs get the same profiles |
| debug inspector (`debug/`) | requests, page, scroll, search | receive, keys, draw | the page shows the frames the receiver makes of the request; hits belong to it; jumps show their hit |

Hard to get right, and hard to test: the store's batch and index are two steps,
a removal's scans and its batch are three, and threads overlap in any way; the
process may end in the middle of each; answers of threads arrive in another
order than their commits; tasks check and update `known_basenames` under two
locks; profiles reorder the tree under a cursor that is a path of positions;
samples arrive out of order, in hash-map order, older than the epoch; draws
adjust what keys read, on a terminal of any size; references of a request are
resolved twice, by code that shares nothing. `PROJECT.json` lists each of these hazards at its line,
with the properties that would show it.

## 2. The modules

Properties and proofs aside, an action is a whole handler: what a handler calls
(a trailing sort, the clamp of the next draw) is in it. Definitions keep the
names of the code. Operators commented "Mutant of X" are a plausible bug each,
which the property it was written for finds; nothing else uses them.

**RangeLookup** (`symbolizer.rs:25-72`, `storage.rs:159-237`). `Extract` is the
callback of the extractor, `Persist` the batch, `RemoveFile` the deletion;
`Lookup` is the backward scan with its saturating end and its stop at the first
key of depth 0. What symblib reports (`reported`) has depths of any size; what is
pushed for it (`extracted`) has them cut to `DepthModulus` (2^16 in the code), and what
the batch stores (`table`) has one range of each key, any of them where cut depths
make keys equal (`Written`). The ranges reported are `WellNested`: keys differ, ranges of
one depth do not overlap, an inlined range lies in one of each smaller depth. This is
the shape debug information has; it comes from symblib, which is not in the
repository, and it is what the scan needs: with arbitrary ranges it stops at a depth-0
key that does not cover the address and misses one further down that does. So it does
where a cut depth reads as 0; the properties that ask for every range are for addresses that are
`Shallow`: nothing that starts between the start of the function around the address and
the address was cut. What is found covers the address in any case.

**SymbolStore** (`storage.rs:111-305`, the threads of `main.rs:106-143`, the lookups
of `grpc.rs:199-214`). One process counter per thread; `StoreCommit` and
`IndexInsert`, `ScanRanges`, `ScanStrings`, `RemoveCommit` and `IndexRetain`,
`ReadIndex`, `ScanFrames` and `ResolveString` are steps of their own because the
code takes no lock across them. Every load, removal, scan and read may fail.
`Restart` ends the process anywhere and rebuilds the index as `open` does. A
file's ranges are one unit here. History variables: `raced` (a load and a removal
of the file overlapped), `contested` (a name took over another file's entry),
`overtaken` (a lookup's file was removed after its range scan); no action's guard
reads them.

**SymbolCatalog** is the abstract specification: executables are there with all
their symbols or not at all, and a load or removal takes effect in one step.
**SymbolStoreRefinement** maps the store to it (in the catalog when metadata,
ranges and strings are all there) and states `ImplementsCatalog`.

**Ranking** gives the elements of a finite set in the order of a strict total
order, by their ranks: what `sort_by` and the iteration of an ordered partition
give, and (`Picked`) what a filter keeps of a sequence. **Iteration** is what a loop has
come to after its turns: sums (`SumOf`), and where steps lead (`Walk`), as recursive
functions on numbers. Neither has a recursive operator, so that what is built on them can
be proved about.

**ExecutablesTab** (`executables.rs`) has no specification of its own;
**SymbolPipeline** (`main.rs:75-182`) EXTENDS it and composes it with the catalog,
the threads, the channel and the status line. Names are numbers, in the order of
the alphabet, because the list is sorted by them. A path counts by its basename.
Names found by exports come from outside (`Discover`). History: `hidden`, the names
whose entry was cleared although the removal failed.

**ProfilesServer** (`grpc.rs:12-195`). A task walks its mapping table: `CheckKnown`
under the read lock, `InsertKnown` under the write lock, then `SendMappings`,
`SendUpdate`. What it makes of the samples (`ThreadWeights`, `ThreadTimes`) are
operators. `Handle` is the loop's end of the channel.

**ProfilesRequest** (the messages of `src/proto/src/gen`, as far as anything reads
them) is a decoded request: tables, and references into them that may be zero, out of
range or negative. Two modules go through it, as two parts of the program do:
**ProfileResolver** (`grpc.rs:53-138`, `199-328`) makes stacks of frame labels of its
samples, inline frames, symbols of the store and threads included;
**RequestDocument** (`debug/ui.rs:101-414`) makes the lines of the debug page. A line is
the part of the page it belongs to and its words.

**FlamegraphLayout** (`flamegraph.rs:154-196`, `ui.rs:416-430`): the floating-point
arithmetic of the columns, and the row a draw scrolls to. A number is one of the listed
`Fractions`, counted in parts of a column (`Unit`); weights, the scale, products and sums
are each rounded to the nearest of them, ties to even, as IEEE arithmetic does, and sums
are made one after another, as the code makes them (`Edge`, `Advanced`). Only then is
an end rounded to a column (`Round`). **FlameGraph** (`flamegraph.rs`) EXTENDS it. A child is pushed under a name
only when the name is not indexed, so a node is given by the names that lead to it, and the
tree is a function from these paths to nodes: weight, own weight, the names of the
children in their order, and the index of those names, which is a part of the state and
may be wrong. What the code does by recursion into the children is then done at every
path of names: `AddStack` to the prefixes of the stack, `MergeNode` to the paths both
trees have, `SortRecursive` to all, and the layout starts a frame where the
steps of its path lead: past the siblings before it, at each step (`FrameStart`).
`cursor_frame_rect` adds up the same along the positions of the cursor (`CursorStart`). **FlamegraphTab** EXTENDS that:
every key, merging, freezing, the search, the scrolling of a draw, and the selection
it leaves for the detail bar of the next one (`drawn`: no event since the last draw).

**FlamescopeLayout** (`flamescope_layout.rs:18-55`, `ui.rs:704-720`): cell sizes,
padding, positions, and what of a cell is painted inside the area. **FlamescopeTab**
(`flamescope.rs`, `ui.rs:626-645`) EXTENDS it: times count rows, not nanoseconds;
`RecordTimestamps` takes threads in any order, as a HashMap does; each draw may find
an area of another size.

**AppState** (`state/mod.rs`, `main.rs:146-155`, `ui.rs:20-147`): a tab counts by its
overlay and the profiles it holds. `Waiting` and `DrawnOverlays` are what the next
draw shows: a flame graph without weight gives way to the waiting screen, and its
overlay with it.

**DebugInspector** (`debug/mod.rs`, `debug/ui.rs:437-502`): a line counts by the
patterns it contains; each action ends with the clamp of the draw after it.
**DebugPages** composes it with the two readings of a request: `Decoded` gives what each
request that arrives says, the page of a request is its `Document`, and next to it stands
what `Stacks` makes of the same request. A page is compared by the signs it is read for:
`FramesOn` reads samples and frames off its rows, `NoticeOn` what it says it leaves out.

The MC modules hold instances: requests, profiles, updates, symmetry, views.

## 3. What TLC checks

All passing runs are exhaustive. Times are for two workers of a laptop.

| run | instance | checked | states |
|---|---|---|---|
| `range_lookup` | addresses 0..4, lengths to 4, depths to 3, at most 4 ranges, depth modulus 2 | `TypeOK`, `LookupIsExact`, `FramesAreInlineChain` | 50 k, 3 s |
| `store` | 2 threads, 2 files of 1 name, any restarts | `TypeOK`, `ListedIsComplete`, `IndexNamesStored`, `StoredIsIndexed`, `OrphansAreRaced`, `UnknownIsOvertaken`, `ImplementsCatalog` | 670 k, 20 s |
| `pipeline_orderly` | 2 threads, 2 files, 2 names, channel of 2, orderly use | `TypeOK`, `ListAgrees`, `PromptTargetListed`, `CursorSticks`, `StatusIsAnswered` | 94 k, 85 s |
| `flamegraph` | 4 profiles of two threads, 3 merges, 6 columns, 2 rows, mantissas of 4 bits | `WeightsConserved`, `IndexedAndSorted`, `ZoomResolves`, `KeysKeepCursor`, `FramesInOrder`, `HighlightShowsCursor`, `SelectionIsCurrent`, `DrawShowsCursor` | 56 k, 90 s |
| `flamescope` | 3 updates of two threads, 6 samples, 3 rows a second, 3 columns, 6 sizes of the screen | `TypeOK`, `HeatmapExact`, `NamesSorted`, `FilterHasData`, `DrawShowsCursor` | 45 k, 18 s |
| `server` | 2 tasks, 3 requests, channel of 6 | `TypeOK`, `NothingForgotten`, `NamesComeFirst`, `TabsAgreeOnThreads`, `AcceptedIsListed` | 164 k, 17 s |
| `debug` | 3 requests, the first of 3,027 decoded ones, 4 lines on the screen | `HitsAreCurrent`, `ViewsAgree`, `StringsAndSamplesShown`, `JumpShowsHit` | 85 k, 27 s |
| `app_state` | 3 profiles, with or without samples | `OverlayOnScreen`, `TabsShowSameProfiles`, `OverlayStaysDrawn` | 11 k |

What the properties say is written above them in the modules. The types of
AppState, and those of the list, the channel and the threads of SymbolPipeline in any
use, are proved (section 4).

**Why the bounds are enough.** Two threads are what a race in the store takes,
two files of one name what shadowing takes; more threads, files and names are
covered by the theorems below. Two events, waiting or still to be sent, let an
answer meet a discovery or an answer of another name; what the keys and events of
longer queues do to cursor and prompt is proved for all of them. Three merges let a
profile be heavier than a sum of two before it, so siblings change places twice. Six columns
and numbers of four bits make rounding matter at every sum: callees that stick out of
their callers occur, frames too narrow to be drawn, and frames of two callers in
one column. Depths to 3 with a modulus of 2 give a cut depth that reads as 0 and stops
the scan, one that reads as 1, and cut depths that overwrite a key. Six samples give updates before, on and after the epoch, for
both threads, and a heatmap of four columns, one more than the screen has. The areas
of `flamescope` are too small for a layout, too small for the grid, just large enough, and
larger by what cells and margins divide unevenly. Six events are a full send of two
tasks with two left over. The requests of `debug` are one of each combination of lines (none, named, nameless, inlined, out of range), frame type (none,
known, unknown, by reference, twice), mapping, stack and samples; keys meet three of them,
which are longer and shorter than the screen and hold a pattern several times,
once and not at all.

**What the bounds hold back.** The channels of the code have no limit. `MaxQueue`
holds back new exports and new threads, never an answer or a send, so nobody
waits for room that the code would not wait for. `MaxProfiles`, `MaxSamples`,
`MaxRequests` and `MaxRanges` hold back arrivals.

In `debug` requests of every kind come before anything else has happened, and the
three that keys meet come at any time: what the page of a request is does not depend on
the keys before it. `MaxStrings` is 7 in the model and 200 in the code.

`store` uses symmetry of threads and names, not of files, which are ordered by the
rebuild of the index. Deadlock is allowed in `debug` and `app_state` only: quitting
ends them.

**Orderly use** (`OrderlyNext`) says what a user must do for the list to agree with
the store: load for an entry the file of that entry, with content no other
entry has, and one job per name at a time. Loads and removals may fail. Without it
`ListAgrees` fails in the ways section 6 describes.

**Fairness.** `StatusIsAnswered` assumes that while there are threads some thread
is scheduled and extraction and commits end (one WF for all threads), and that
the loop keeps taking events (WF of `HandleEvent`). The first is what the
operating system gives threads that take no lock of each other across a step;
the second holds as the loop blocks on nothing but the channel. Keys,
exports and restarts are never assumed. `AcceptedIsListed` assumes that each
blocking task goes on (WF of each `TaskStep`), as tokio runs it on a thread of its
own and its locks are held for one statement, and that the loop takes events.

## 4. What TLAPS proves

For every value of the constants, from the assumptions each module names
(`RangeAssumption`, `StoreAssumption`, `ServerAssumption`, `InspectorAssumption`,
`AppAssumption`, `LayoutAssumption`, `FractionAssumption`, `ScopeAssumption`, `DocumentAssumption`,
`PagesAssumption`, and `TabAssumption` of the Executables and of the Flamegraph tab).

**RangeLookupProofs.** `ScanIsExact`: of well-nested ranges, cut and written in any order
of equal keys, the scan finds only ranges that contain the address, and all of them
where the address is `Shallow`. That it finds no other is
`SaturationIsHarmless`: for addresses below u64::MAX a saturated end is as good as the true one.
That it finds all: a range that contains the address lies in a depth-0 range (`RootOf`),
which then contains it too (`RootCovers`); ranges from there on were not cut, so they are stored as they
were reported and no key among them is overwritten (`ShallowIsStored`); and no other
depth-0 range starts between the two without overlapping the first, so the scan
reaches it (`ScanReaches`). The damage of a cut depth is therefore local: it reaches to the end
of the function it is in, and no lookup in another function sees it. `FramesFormChain`: one
frame of each depth, none missing, where nothing was cut. The invariant `StoredAsPushed` (what is reported is well
typed and well nested, what is pushed is its cut, and the table is empty or one of the
ways to write that) carries this to `TypeCorrect`, `LookupExact` and `InlineChain`: since
the depths found are distinct and leave none out, the frame that sorting puts at place k
has depth k - 1 (`SortedChainIsCounted`).

**SymbolStoreProofs.** The invariant `IInv` strengthens the checked ones by what a
thread in the middle of its work relies on: `JobKnown` (it knows its file or name),
`ScanHolds` (a scan that found nothing is still right unless the file is `raced`),
`CommitHolds` (between a commit and its index update the metadata is as the commit
left it, unless `raced`), `FramesHold` (a lookup that found ranges finds the strings,
unless overtaken). Without them a removal could delete half a file, as far as
`ListedIsComplete` and `OrphansAreRaced` alone can tell. From it follow `TypeCorrect`,
`ListedComplete`, `IndexSound`, `IndexComplete`, `OrphansRaced` and `UnknownOvertaken`.
`RebuiltNamesStored` needs that a non-empty set of ids has a greatest one
(`GreatestId`, by well-foundedness of the subsets of a finite set).

In the same module, `StoreImplementsCatalog`: initial states map to
initial states, each commit to `Put` or `Drop`, everything after it to a stutter.
Beyond `IInv` it needs `ArgumentsClean` (an idle thread has no arguments, a load no
file before it has read one).

**ProfilesServerProofs.** `TypeCorrect`, `NoneForgotten` and `NamesFirst`. The last is not
inductive: that a profile is shown after its names depends on the order of the
channel, so the invariant says of each profile waiting there that its names are
listed or announced by an event further ahead (`NamesAhead`), and of each task about
to send its profile that its names are listed or announced (`NamesSent`). `WorkKnown`
says that a task between its two locks is at a mapping with a basename. `TabsAgree`
needs no more than that a profile is made of samples in one step: a thread's weight and
its times are sums over the same samples, for both go by the first frame of the cached
stack, and of each sample the weight is at least the number of its times
(`TimesAreCounted`). That a sum of greater terms is greater (`SumsCompare`) is shown by
the least prefix for which it would not be, in place of an induction.

**DebugInspectorProofs.** `HitsCurrent`, with the facts that the page is one of the
requests (`PageOK`) and that without a request every pattern is early and only
patterns are (`PatternOK`). `JumpShows`, an action property, needs `CursorOK` (the hit
cursor is on a hit) and that hits are lines of the page: then the line jumped to, and
what the clamp of the next draw makes of it, both leave the hit within the height of
the screen.

In the same module, the two readings of a request, for requests of any size, tables of any
length and references of any value: `ModesAgree` and `PagesShowSamples`. Both
read a page for something, a function from rows to what they say (`Reader`), under
which most parts of a page say nothing (`QuietParts`). What a page says is then what its
parts say, one after another, for reading goes through joins and lists of lists
(`ReadsJoin`, `ReadsEach`, `ReadsThrough`); so `DocumentReads` leaves two questions, the
table of strings and one sample, and each theorem answers them for its reader.
`FramesReader` asks for frames. `frame_info`, `mapping_name` and `func_name` of the page give
the words that the resolvers of the receiver give, though one of them tests for a positive
reference where the other tests for one that is not 0 once cast (`SameFunctions`, `SameMappings`,
`SameTags`); so a location shows the frames of its label (`LocationFrames`), and the labels of a
stack, put after each other, are what its locations show (`LabelsShow`).
`NoticesReader` asks for notices; every filled string has a row in its table as far as
`StringRows` keeps it (`RowBeforeCut`), and that table is on the page (`StringsWithin`). `PagesAssumption` says that requests are
decoded ones with at most one dictionary, that the first string is empty, as the protocol
demands (a table of one entry is not shown), and that what the store has for a location is
a list of names. References to location 0 are apart (section 6).

**OperatorProofs.** What the operators shared by several modules do. Ranking is right:
for a strict total order on a finite set the ranks are the numbers 1 to its size, each
taken once, by an injection from a finite set into one of its size (`RankIsTaken`); so
`Ranked` lists every element once (`RankedIsListing`) and in order (`RankedIsOrdered`),
and `Picked` only what was there (`PickedIsFrom`). A non-empty finite set of
integers has a least element (`LeastExists`), and so has a part of an interval
(`LeastOfInterval`), which stands in for induction wherever a recursive function is
reasoned about. Sums and walks are what their recursion says
(`SumIsLast`, `WalkMoves`): that the recursive function exists is shown by the least
number up to which it would not. `FlattenSeq` of joined lists is the join of what each flattens
to (`FlattenJoin`), flattening twice is flattening the parts first (`FlattenTwice`), and
mapping the elements to lists passes through both (`FlatMapJoin`, `FlatMapFlatten`).

**FlamegraphTabProofs.** All eight properties of the flamegraph run, for exports of any
number and stacks of any depth. The invariant of `TabInvariant` has three parts.

- `GraphInv` says that the tree is what has been merged. `TreeOK`: its nodes are sequences
  of names, closed under callers; a child is there exactly if its caller lists its name, once,
  and the index has it at its place. `Weighed`: there is a node for each stack of the samples
  merged and each of its prefixes and no other, and it weighs what the samples through it
  weigh. `Sorted`: children come heaviest first. An export is built sample by
  sample (`StackIsWeighed`), the first one after which the graph would not be weighed
  standing in for induction (`GraphIsWeighed`); a merge is weighed by the samples of both,
  for a weight is a sum over samples and a sum over joined sequences splits
  (`WeighJoined`, `MergeIsWeighed`); a sort puts each child at its rank and rebuilds the
  index there (`SortKeepsTree`). Without `TreeOK` neither merging nor sorting could be told to
  keep weights: a stale index would make a second child of a name.
- `ViewInv`: the zoom is a node, and the matches of an open search are threads of the graph.
  `ZoomResolves` alone is not inductive, for the search zooms into a match that was
  found before later profiles came: it stays a thread because nodes never vanish but by a
  reset, which no key reaches while the search is open (`GraphGrows`, `CloseKeepsView`).
- `SelectionInv`: the detail bar is the cursor's frame after a draw that nothing followed, and
  unless the cursor is at the zoom itself it is a node under the zoom at all times, since
  weights only grow (`ReceiveKeepsSelection`). A reset, or a zoom, puts the cursor back to
  the zoom, where the next draw finds it.

From it follow `NoSampleLost`, `ChildrenInOrder`, `ZoomStays`, `DetailIsCurrent` and
`KeysStayOnGraph`, in which each key of the cursor is one step of a path forth, back
or aside (`NextStep`, `StepBack`).

Of the layout only what rounding cannot take away is proved, for any precision
(`Fractions`), any width and any weights; `FractionAssumption` says that the numbers held are listed in
order, 0 first, and that 1.0 is one of them. Rounding is monotone and leaves a held number
as it is (`NearestIsHeld`, `NearestIsNoLess`): a sum is never rounded below what is added to
(`SumIsNoLess`). So callees start one after the other, none before its caller, whatever is
lost on the way (`CalleesAdvance`), and a callee ends at the very number the next one
starts at; after `Round`, which is monotone as well, they share no column
(`CalleesInOrder`). None is left out (`CalleesAdjoin`): a column up to the start of a callee belongs to the
first callee that ends past it, for that one starts where the one before
it ends. `FramesStayInOrder` puts them together.
`cursor_frame_rect` takes the cursor's path through the same sums as the layout takes the
frame's (`CursorIsStart`: both are one `Walk`), and no two callees of one caller start at one
column (`OneOfCallees`): `CursorIsHighlighted`. That callees stay within their caller, and
frames of two callers apart, is not so (section 6). `DrawScrolls` joins the arithmetic of
the scrolling (`ScrollShowsRow`) to the depth of the row, which is no deeper than the
deepest drawn.

**FlamescopeTabProofs.** All five properties of its run. The invariant has a part for each
group of variables. `HeatOK` says of the columns of all threads, and of those of each,
that every cell holds the number of samples recorded since the last reset that belong
there, that the columns reach to the latest, and that the names are sorted
and those of the heatmaps; it is stated of a record of the four
variables and of the history of samples (`Heat`), because `record_timestamps` goes through
an update one sample at a time: that one sample keeps it (`OneSample`: padding adds
columns of zeros, counting adds one to the cell of the sample alone, inserting at the
number of smaller names keeps them sorted) carries over to all of them by the first
sample that would not (`ManySamples`). `FilterOK` and `SearchOK` tie the filter and the
matches of an open search to threads with samples, which only a reset drops, and a reset drops them
too. `WindowOK` gives the ranges of cursor and window. `CountsAreExact`,
`NamesStaySorted`, `FilterNeverEmpty` and `TypeCorrect` follow. `CursorIsShown` is about the step
of a draw: the cursor is pulled into the data, the window after it, and cells are
apart, whatever the widths and margins of the area (`CellsAreApart`). `ScopeAssumption`
asks that an update lists no thread without times: `grpc.rs:141-146` makes an entry for a
thread only with times to put into it.

**EventLoopProofs.** Of SymbolPipeline, `TypeCorrect`, `PromptListed` and `CursorStays`, for the specification
without orderly use: any names, files and threads, a channel of any length, jobs of
one name at a time or not, removals that fail. `CursorStays` rests on `RankedIsListing`:
sorting loses no entry, so the name under the cursor is still there to be found.
`PromptListed` needs that every event keeps every name in the list; no entry is ever
dropped. The invariant is the type invariant with `JobsOK` and `QueueOK`: what a thread
carries at each step of its work, and what its answer does, because a load that was
started for a new name adds an entry from its answer. `TabAssumption` asks that the file
ids are finite, as the store lists them in order, and that no id is the value that stands
for no name.

`ListShowsStore` is about orderly use. The list and the store meet only through answers
that may still be on their way, so its invariant says of each name where the
truth is: with nothing under way list and store agree (`Agrees`); while a thread works,
what it has committed and the list has not seen is what its step tells
(`ThreadAgrees`); and an answer in the channel, the only one of its name, says what the
store holds by then. Entries show their own file or none, and no two have one
name (`ListOwn`), which sorting keeps (`SortedOwn`).

Of AppState, `OverlaySeen`, `SameProfiles` and `OverlayStays`; with the types the
first two are inductive as they stand, and the third follows from them: what is drawn is
on the active tab, which keys cannot change while it has an overlay, and only a reset
empties the graph, which an open search keeps from happening.

Only model-checked is liveness under fairness (`StatusIsAnswered`, `AcceptedIsListed`), out
of the prover's reach.

## 5. What is not modelled

- The input thread and ticks (`tui/event.rs`): timing, and keys can come at any time
  in the models anyway.
- Widgets, colours, palettes, popups, headers and key hints (`tui/ui.rs`,
  `debug/ui.rs`); the second scroll offset of the Executables table, two clamps no
  key reads.
- The text of prompts and searches: a search text is the set of names that contain
  it, a path its basename. Completion of paths, a listing of the file system, is left out.
- Numbers, times and widths in labels and lines: formatting. A label is its words.
- The link table, entities, units and line numbers of a request: shown or skipped, read
  by nothing.
- The rest of the generated code: client and server stubs.
- Terminal set-up, the command line, `error.rs`, the debug mode's server: input and output.
- Overflow of sample values and growth of memory: no stated behaviour.
- symblib, the LSM tree and tokio are external: a batch is atomic and survives a
  crash once committed, a scan sees the partition as it was when it began, a channel
  keeps order.

## 6. Where the code and its description part

Four runs are expected to find a violation.

- `store_shadowed`, `StoredNamesResolve`: the index has one file per basename. When a
  second file of the same basename is loaded and removed again, the first is still
  stored and listed, and its basename resolves to nothing until the next start
  (`storage.rs:284`).
- `pipeline_resolves`, `LoadedResolves`: the prompt of an entry takes any path. The
  symbols are stored under the basename of the path, the answer goes to the entry:
  it shows as loaded, and lookups of its name find nothing (`main.rs:117`).
- `server_grouped`, `GroupedByThread`: the stack cache is keyed by the stack index
  alone but its value starts with the thread: samples of a second thread with the
  same stack are counted for the first (`grpc.rs:118`).
- `debug_inline`, `CallerIsNotInlined`: the protocol puts the caller last among the lines
  of a location; both views mark every line but the first as inlined, so the caller is
  marked and the innermost callee is not (`grpc.rs:86`, `debug/ui.rs:404`). Symbols of the
  store come caller first, and are marked right.

Seen while modelling, without a run:

- The protocol says a sample with values and timestamps has one value for each
  timestamp; `grpc.rs:141-146` counts the timestamps and ignores the values.
- `README.md:72` says "Each page shows the complete request"; the page cuts the
  string table after 200 filled strings and says so, also when there are exactly 200 and
  nothing is missing (`debug/ui.rs:262-264`), and of the link table it has the number of
  entries only. `StringsAndSamplesShown` says what a page does have.
- Rounding adds up (`flamegraph.rs:154-196`). With 6 columns and a total of 692, four
  threads of 173, and callees of 113 and 60 in the first: 173 times the scale is just below 1.5
  and ends the thread at column 1; 113 and 60 times the scale, added as f64, are 1.5, so the second
  callee has column 1, outside its caller and shared with the first callee of the next thread.
  Both start there, so a highlight found by row and column may mark both (`ui.rs:457-459`).
- `README.md:101` lists `q` and `Tab` as global keys; a search opened on the waiting screen
  is not drawn (`ui.rs:23-26`), and takes `q` for text and ignores `Tab` until Esc or
  Enter.
- A thread name or frame type given as a reference to the string table
  (`StringValueStrindex`) counts as none (`grpc.rs:277`, `321`), though the debug page
  shows its text as an attribute.
- A stack that refers to location 0 gets a frame in the flame graph and `<invalid>`
  on the debug page.

The exceptions in the invariants name what else can happen, in use that is
possible but not orderly. A load whose index insert comes after the retain of an
overlapping removal leaves a basename that resolves to a file no longer stored,
and a removal whose scans ran before an overlapping load's commit leaves ranges
and strings without metadata (`raced`). Two entries loaded from
the same content share its symbols, and removing one leaves the other shown as
loaded. A removal that fails clears its entry all the same, until the name is loaded
again or the program started again (`hidden`). Where two entries have one name, a sort
puts the cursor on the first of them. A
pattern confirmed before the first request arrives finds nothing in it until the
user navigates (`early`).

## 7. The plan

The order was: the store first, as it is what persists and what threads share
(RangeLookup, SymbolStore, SymbolCatalog and the refinement between them, with
proofs); then what uses it (ExecutablesTab, SymbolPipeline); then the path of a
profile (ProfilesServer, FlameGraph, FlamegraphTab, FlamescopeTab); then AppState and
DebugInspector; then what these left out: the requests themselves and their two
readings (ProfilesRequest, ProfileResolver, RequestDocument), the selection of the detail
bar, the layout of the heatmap, the waiting screen; then the proofs of SymbolPipeline
in any use, and in orderly use; then those of FlamescopeTab, of jumps, inline chains and
times, and of the rows and the rounded columns of the flame graph; then the tree as a function on
paths, and the proofs of FlamegraphTab; then those of the pages of any request. All of
these are written. What more could be done:

1. Composition: the server and the pipeline share one channel; tasks of the server
   are the threads that look up in the store; ProfilesServer with decoded requests.
2. The completions of the path prompt, over a small file system.
