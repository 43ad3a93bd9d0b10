--------------------------- MODULE ExecutablesTab --------------------------
(* The Executables tab: the list of executables, its cursor and the path    *)
(* prompt.  num_ranges is set and cleared together with file_id, so an      *)
(* entry is symbolised when it has a file.  What is typed into the prompt,  *)
(* and its completions, is left out: a submitted path counts by its         *)
(* basename.                                                                *)
EXTENDS Ranking, SequencesExt

CONSTANTS Name,    \* basenames, as their ranks in the alphabet
          FileId, NoFile, NoName

ASSUME TabAssumption ==
    /\ Name \subseteq Nat /\ NoName \notin Name
    /\ FileId \subseteq Nat /\ IsFiniteSet(FileId)
    /\ NoFile \notin FileId /\ NoName \notin FileId

VARIABLES list,    \* entries, in the order shown
          cursor,  \* 0-based, as in the code
          prompt   \* PathInput: whether it is open, and for which entry
tab == <<list, cursor, prompt>>

Entry == [name: Name, file: FileId \union {NoFile}]
Closed == [active |-> FALSE, target |-> NoName]

TabTypeOK ==
    /\ list \in Seq(Entry)
    /\ cursor \in 0 .. (IF list = <<>> THEN 0 ELSE Len(list) - 1)
    /\ prompt \in [active: BOOLEAN, target: Name \union {NoName}]

(* From<Vec<ExecutableInfo>>: in the order list_files gives, not sorted. *)
TabInit(stored) ==
    /\ list = stored
    /\ cursor = 0
    /\ prompt = Closed

----------------------------------------------------------------------------
Selected == list[cursor + 1]

Symbolised(e) == e.file # NoFile

(* The comparison of sort_list; equal entries keep their order. *)
Precedes(l, i, j) ==
    \/ Symbolised(l[i]) /\ ~Symbolised(l[j])
    \/ /\ Symbolised(l[i]) <=> Symbolised(l[j])
       /\ \/ l[i].name < l[j].name
          \/ l[i].name = l[j].name /\ i < j

Order(l) == {p \in (DOMAIN l) \X (DOMAIN l) : Precedes(l, p[1], p[2])}

Sorted(l) == [k \in DOMAIN l |-> l[Ranked(DOMAIN l, Order(l))[k]]]

Named(l, n) == {i \in DOMAIN l : l[i].name = n}

(* iter().position, iter_mut().find: the first entry with the name. *)
First(l, n) == CHOOSE i \in Named(l, n) : \A j \in Named(l, n) : i <= j

(* Mutant of SortList: the cursor stays at its position. *)
SortInPlace(l) == list' = Sorted(l) /\ UNCHANGED cursor

(* sort_list on the edited list: the cursor goes to the first entry that    *)
(* has the name it was on.                                                  *)
SortList(l) ==
    LET sorted == Sorted(l)
    IN /\ list' = sorted
       /\ cursor' = IF l = <<>> THEN 0
                    ELSE First(sorted, l[cursor + 1].name) - 1

(* Where a new name stands in the export for the first time.                *)
Unlisted(l, names) ==
    {i \in DOMAIN names : /\ Named(l, names[i]) = {}
                          /\ \A j \in 1 .. i - 1 : names[j] # names[i]}

(* Each new name is pushed once, in the order of the export: a cursor on    *)
(* an empty list comes to the first of them.                                *)
Pushed(l, names) ==
    LET new == Picked(names, Unlisted(l, names))
    IN l \o [k \in DOMAIN new |-> [name |-> new[k], file |-> NoFile]]

MergeDiscoveredMappings(names) == SortList(Pushed(list, names))

UpdateSymbolized(target, f, fileName) ==
    SortList(IF Named(list, target) # {}
             THEN [list EXCEPT ![First(list, target)].file = f]
             ELSE Append(list, [name |-> fileName, file |-> f]))

(* Mutants of ClearSymbols: nothing is cleared; the whole entry goes. *)
NothingCleared(n) == SortList(list)
EntryDropped(n) == list' = SelectSeq(list, LAMBDA e : e.name # n) /\ cursor' = 0

ClearSymbols(n) ==
    SortList(IF Named(list, n) # {}
             THEN [list EXCEPT ![First(list, n)].file = NoFile]
             ELSE list)

----------------------------------------------------------------------------
(* Mutant of Down: one past the last entry. *)
DownPastEnd == /\ ~prompt.active
               /\ cursor < Len(list)
               /\ cursor' = cursor + 1
               /\ UNCHANGED <<list, prompt>>

(* Keys, with the prompt closed. *)
Down == /\ ~prompt.active
        /\ cursor + 1 < Len(list)
        /\ cursor' = cursor + 1
        /\ UNCHANGED <<list, prompt>>

Up == /\ ~prompt.active
      /\ cursor > 0
      /\ cursor' = cursor - 1
      /\ UNCHANGED <<list, prompt>>

(* Enter asks for the path of the selected entry, "/" for a new one. *)
OpenForSelected ==
    /\ ~prompt.active /\ list # <<>>
    /\ prompt' = [active |-> TRUE, target |-> Selected.name]
    /\ UNCHANGED <<list, cursor>>

OpenForNew ==
    /\ ~prompt.active
    /\ prompt' = [active |-> TRUE, target |-> NoName]
    /\ UNCHANGED <<list, cursor>>

(* "r" hands the entry over to a thread and leaves the list alone. *)
CanRemove == ~prompt.active /\ list # <<>> /\ Symbolised(Selected)

(* Keys, with the prompt open: Enter submits a path, or like Esc, when the  *)
(* path is blank, just closes.                                              *)
ClosePrompt ==
    /\ prompt.active
    /\ prompt' = Closed
    /\ UNCHANGED <<list, cursor>>

Keys == Down \/ Up \/ OpenForSelected \/ OpenForNew \/ ClosePrompt
============================================================================
