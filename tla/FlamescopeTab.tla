---------------------------- MODULE FlamescopeTab --------------------------
(* The Flamescope tab: a heatmap of sample times, one column per second of  *)
(* rows of a fraction of a second, kept for all threads together and for    *)
(* each thread, with a thread filter, a cursor and a scrolled window.       *)
(* Times count rows, not nanoseconds.                                       *)
EXTENDS FlamescopeLayout, Ranking, SequencesExt

CONSTANTS Thread,      \* thread names, as their ranks in the alphabet
          NoThread,    \* None of the filter
          Time,        \* timestamps, in rows since some moment
          NoTime,      \* None of epoch_ns
          Areas,       \* what a terminal leaves for the tab
          Updates,     \* the entries of profile updates: thread -> timestamps
          MaxSamples   \* bound: samples recorded since the last reset

ASSUME ScopeAssumption ==
    /\ Thread \subseteq Nat /\ NoThread \notin Thread
    /\ Time \subseteq Nat /\ NoTime \notin Time
    /\ MaxSamples \in Nat /\ Areas \subseteq [width : Nat, height : Nat]
    /\ \A u \in Updates :
           /\ IsFiniteSet(DOMAIN u) /\ DOMAIN u \subseteq Thread
           /\ \A t \in DOMAIN u : u[t] \in Seq(Time) \ {<<>>}

VARIABLES epoch,        \* time of the first sample recorded
          columns,      \* counts of all samples
          threads,      \* the same for each thread that has any
          threadNames,  \* sorted
          filter, autoScroll, scrollX, cursorCol, cursorRow, search,
          recorded      \* history: <<thread, time>> of every sample
vars == <<epoch, columns, threads, threadNames, filter, autoScroll, scrollX,
          cursorCol, cursorRow, search, recorded>>
heatmap == <<epoch, columns, threads, threadNames, recorded>>
window == <<scrollX, cursorCol, cursorRow>>

Closed == [active |-> FALSE, matches |-> <<>>, cursor |-> 1]

Init ==
    /\ epoch = NoTime /\ columns = <<>> /\ threads = <<>> /\ threadNames = <<>>
    /\ filter = NoThread /\ autoScroll = TRUE
    /\ scrollX = 0 /\ cursorCol = 0 /\ cursorRow = 0
    /\ search = Closed
    /\ recorded = <<>>

----------------------------------------------------------------------------
(* Mutant of Offset: a sample before the epoch counts as far after it. *)
Distance(first, time) == IF time < first THEN first - time ELSE time - first

(* saturating_sub: a sample older than the epoch falls on it. *)
Offset(first, time) == IF time < first THEN 0 ELSE time - first

Blank == [row \in 0 .. Rows - 1 |-> 0]

Padded(cols, col) ==
    IF Len(cols) > col THEN cols
    ELSE cols \o [i \in 1 .. col + 1 - Len(cols) |-> Blank]

Counted(cols, col, row) == [Padded(cols, col) EXCEPT ![col + 1][row] = @ + 1]

(* Mutant of Inserted: new threads go last. *)
Queued(names, thread) == Append(names, thread)

(* binary_search and insert: before the first greater name. *)
Inserted(names, thread) ==
    LET smaller == {i \in DOMAIN names : names[i] < thread}
    IN InsertAt(names, Cardinality(smaller) + 1, thread)

RecordOne(s, sample) ==
    LET thread == sample[1]
        time == sample[2]
        first == IF s.epoch = NoTime THEN time ELSE s.epoch
        col == Offset(first, time) \div Rows
        row == Offset(first, time) % Rows
        known == thread \in DOMAIN s.threads
        own == IF known THEN s.threads[thread] ELSE <<>>
    IN [epoch |-> first,
        columns |-> Counted(s.columns, col, row),
        threads |-> [t \in DOMAIN s.threads \union {thread} |->
                        IF t = thread THEN Counted(own, col, row) ELSE s.threads[t]],
        threadNames |-> IF known THEN s.threadNames
                        ELSE Inserted(s.threadNames, thread)]

(* The samples of an update, thread by thread: the order in which a HashMap *)
(* iterates is any.                                                         *)
Orders(update) == SetToSeqs(DOMAIN update)

SamplesIn(update, order) ==
    FlattenSeq([k \in DOMAIN order |->
        [i \in DOMAIN update[order[k]] |-> <<order[k], update[order[k]][i]>>]])

Recorded(start, samples) ==
    LET after[k \in 0 .. Len(samples)] ==
            IF k = 0 THEN start ELSE RecordOne(after[k - 1], samples[k])
    IN after[Len(samples)]

RecordTimestamps(update) ==
    \E order \in Orders(update) :
        LET samples == SamplesIn(update, order)
            after == Recorded([epoch |-> epoch, columns |-> columns,
                               threads |-> threads, threadNames |-> threadNames],
                              samples)
        IN /\ Len(recorded) + Len(samples) <= MaxSamples
           /\ epoch' = after.epoch /\ columns' = after.columns
           /\ threads' = after.threads /\ threadNames' = after.threadNames
           /\ recorded' = recorded \o samples
           /\ UNCHANGED <<filter, autoScroll, window, search>>

VisibleColumns ==
    IF filter = NoThread THEN columns
    ELSE IF filter \in DOMAIN threads THEN threads[filter] ELSE <<>>

----------------------------------------------------------------------------
(* render_flamescope, at every turn of the loop on this tab: the cursor is  *)
(* pulled into the data, or to its end, and the window after the cursor.    *)
DrawnCol ==
    LET total == Len(VisibleColumns)
    IN IF total = 0 THEN cursorCol
       ELSE IF autoScroll \/ cursorCol > total - 1 THEN total - 1 ELSE cursorCol

(* Mutant of DrawnScroll: the window follows to the left only. *)
ScrollLeftOnly(col) == IF col < scrollX THEN col ELSE scrollX

DrawnScroll(col) ==
    IF col < scrollX THEN col
    ELSE IF col >= scrollX + GridCols THEN col + 1 - GridCols ELSE scrollX

(* The terminal may have any size, and another one than at the last draw.   *)
Draw(area) ==
    /\ HasLayout(area)
    /\ cursorCol' = DrawnCol
    /\ scrollX' = DrawnScroll(DrawnCol)
    /\ UNCHANGED <<heatmap, filter, autoScroll, cursorRow, search>>

----------------------------------------------------------------------------
(* Keys, with the search closed. *)
Right ==
    /\ autoScroll' = FALSE
    /\ cursorCol' = IF cursorCol + 1 < Len(VisibleColumns)
                    THEN cursorCol + 1 ELSE cursorCol
    /\ UNCHANGED <<heatmap, filter, scrollX, cursorRow, search>>

Left ==
    /\ autoScroll' = FALSE
    /\ cursorCol' = IF cursorCol > 0 THEN cursorCol - 1 ELSE 0
    /\ UNCHANGED <<heatmap, filter, scrollX, cursorRow, search>>

RowTo(row) ==
    /\ cursorRow' = row
    /\ UNCHANGED <<heatmap, filter, autoScroll, scrollX, cursorCol, search>>

(* Mutant of Down: one past the last row. *)
DownPastEnd == cursorRow < Rows /\ RowTo(cursorRow + 1)

Down == cursorRow + 1 < Rows /\ RowTo(cursorRow + 1)

Up == cursorRow > 0 /\ RowTo(cursorRow - 1)

(* Esc drops the filter and follows the newest column again. *)
ClearFilter ==
    /\ filter' = NoThread /\ autoScroll' = TRUE
    /\ UNCHANGED <<heatmap, window, search>>

Follow ==
    /\ autoScroll' = TRUE
    /\ UNCHANGED <<heatmap, filter, window, search>>

(* Mutant of Unfiltered: the filter survives the reset. *)
KeepFilter == UNCHANGED filter

Unfiltered == filter' = NoThread

(* "r" *)
Reset ==
    /\ epoch' = NoTime /\ columns' = <<>> /\ threads' = <<>> /\ threadNames' = <<>>
    /\ recorded' = <<>>
    /\ Unfiltered
    /\ autoScroll' = TRUE /\ scrollX' = 0 /\ cursorCol' = 0 /\ cursorRow' = 0
    /\ search' = Closed

----------------------------------------------------------------------------
(* The thread search: the text typed is the set of names that contain it. *)
SetSearch(text) ==
    /\ search' = [active |-> TRUE, cursor |-> 1,
                  matches |-> Picked(threadNames, {i \in DOMAIN threadNames :
                                                      threadNames[i] \in text})]
    /\ UNCHANGED <<heatmap, filter, autoScroll, window>>

SearchTo(place) ==
    /\ place \in 1 .. Len(search.matches)
    /\ search' = [search EXCEPT !.cursor = place]
    /\ UNCHANGED <<heatmap, filter, autoScroll, window>>

PickThread ==
    /\ search.matches # <<>>
    /\ filter' = search.matches[search.cursor]
    /\ autoScroll' = TRUE /\ scrollX' = 0 /\ cursorCol' = 0
    /\ search' = Closed
    /\ UNCHANGED <<heatmap, cursorRow>>

CloseSearch ==
    /\ search' = Closed
    /\ UNCHANGED <<heatmap, filter, autoScroll, window>>

Key == \/ /\ ~search.active
          /\ \/ Right \/ Left \/ Down \/ Up \/ ClearFilter \/ Follow \/ Reset
             \/ SetSearch(Thread)
       \/ /\ search.active
          /\ \/ \E text \in SUBSET Thread : SetSearch(text)
             \/ SearchTo(search.cursor - 1) \/ SearchTo(search.cursor + 1)
             \/ PickThread \/ CloseSearch

Next == (\E update \in Updates : RecordTimestamps(update)) \/ (\E area \in Areas : Draw(area)) \/ Key

Spec == Init /\ [][Next]_vars

----------------------------------------------------------------------------
Counts == Seq([0 .. Rows - 1 -> Nat])

TypeOK ==
    /\ epoch \in Time \union {NoTime}
    /\ columns \in Counts
    /\ DOMAIN threads \subseteq Thread
    /\ \A t \in DOMAIN threads : threads[t] \in Counts
    /\ threadNames \in Seq(Thread)
    /\ filter \in Thread \union {NoThread}
    /\ autoScroll \in BOOLEAN
    /\ scrollX \in Nat /\ cursorCol \in Nat /\ cursorRow \in 0 .. Rows - 1
    /\ search.active \in BOOLEAN /\ search.matches \in Seq(Thread)
    /\ search.cursor \in 1 .. (IF search.matches = <<>> THEN 1
                               ELSE Len(search.matches))
    /\ recorded \in Seq(Thread \X Time)

(* The reference: of a history r of samples, the time of the k-th after     *)
(* that of the first one.                                                   *)
Since(r, k) == LET first == r[1][2]
               IN IF r[k][2] >= first THEN r[k][2] - first ELSE 0

(* The samples that fall into one cell of the heatmap, of chosen threads. *)
SamplesAt(r, chosen, col, row) ==
    {k \in DOMAIN r : r[k][1] \in chosen /\ Since(r, k) = col * Rows + row}

CountsOf(r, cols, chosen) ==
    /\ \A c \in DOMAIN cols, row \in 0 .. Rows - 1 :
           cols[c][row] = Cardinality(SamplesAt(r, chosen, c - 1, row))
    /\ \A k \in DOMAIN r : r[k][1] \in chosen => Since(r, k) < Len(cols) * Rows

(* Every recorded sample is counted once, in the cell of its distance from  *)
(* the first sample ever (in the first cell if it is older), in the heatmap *)
(* of all threads and in that of its own: the two never drift apart.        *)
HeatmapExact ==
    /\ CountsOf(recorded, columns, Thread)
    /\ \A t \in DOMAIN threads : CountsOf(recorded, threads[t], {t})
    /\ DOMAIN threads = {recorded[k][1] : k \in DOMAIN recorded}

(* The thread list names every thread that has samples once, in order: the  *)
(* binary search that inserts into it needs it sorted.                      *)
NamesSorted ==
    /\ ToSet(threadNames) = DOMAIN threads
    /\ \A i, j \in DOMAIN threadNames : i < j => threadNames[i] < threadNames[j]

(* A filter always selects a thread that has samples: "No data for this     *)
(* thread" is never drawn, and picking from an open search never picks a    *)
(* thread that is gone.                                                     *)
FilterHasData ==
    /\ filter # NoThread => filter \in DOMAIN threads /\ threads[filter] # <<>>
    /\ ToSet(search.matches) \subseteq DOMAIN threads

(* A draw highlights the cursor: its column exists, also when the filter    *)
(* has just changed to a shorter heatmap, its cell is in the window and     *)
(* wholly inside an area the grid fits, and no other cell is painted over   *)
(* it. It settles in one draw: the detail bar, drawn from the state before, *)
(* names the highlighted cell at the next.                                  *)
DrawShowsCursor ==
    [][\A area \in Areas : Draw(area) /\ VisibleColumns # <<>> =>
           LET offset == cursorCol' - scrollX'
               cell == Painted(area, offset, cursorRow)
               others == ((0 .. GridCols - 1) \X (0 .. Rows - 1))
                           \ {<<offset, cursorRow>>}
           IN /\ cursorCol' \in 0 .. Len(VisibleColumns) - 1
              /\ offset \in 0 .. GridCols - 1
              /\ GridFits(area) =>
                     Cardinality(cell) = CellWidth(area) * CellHeight(area)
              /\ \A other \in others :
                     cell \cap Painted(area, other[1], other[2]) = {}
              /\ DrawnCol' = cursorCol']_vars
============================================================================
