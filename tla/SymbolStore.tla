---------------------------- MODULE SymbolStore ----------------------------
(* The persistent symbol store: three LSM partitions written by atomic      *)
(* batches, an in-memory basename index kept beside them, and the threads   *)
(* that load, remove and look up symbols.  A batch and the index update     *)
(* after it are two steps, and so are the scans of a removal and its batch. *)
(*                                                                          *)
(* The symbols of a file are one unit per partition (RangeLookup looks      *)
(* inside): every file is taken to have at least one range and one string.  *)
EXTENDS Integers, FiniteSets

CONSTANTS Worker,   \* threads: load, remove, and export tasks that look up
          FileId,   \* content hashes, compared as numbers
          Name,     \* basenames of executables
          NoFile,   \* None of Option<FileId>
          NoName    \* absent key of the files partition

ASSUME StoreAssumption ==
    /\ FileId \subseteq Nat /\ IsFiniteSet(FileId)
    /\ NoFile \notin FileId
    /\ NoName \notin Name

VARIABLES ranges,   \* files with keys in the ranges partition
          strings,  \* files with keys in the strings partition
          files,    \* files partition: the name each stored file has
          index,    \* basename_index
          pc,       \* next step of each thread
          jobName,  \* name a load stores under, or a lookup asks for
          jobFile,  \* file a thread works on
          saw,      \* partitions in which a scan of the thread found keys
          (* history, read by no action of the code *)
          raced,     \* files a load and a removal overlapped on
          contested, \* names whose index entry replaced another file's
          overtaken  \* lookups whose file was removed after their range scan

store == <<ranges, strings, files, index>>
thread == <<pc, jobName, jobFile, saw>>
history == <<raced, contested, overtaken>>
vars == <<ranges, strings, files, index, pc, jobName, jobFile, saw,
          raced, contested, overtaken>>

LoadSteps == {"extract", "store", "insert", "loaded", "loadFailed"}
RemoveSteps ==
    {"scanRanges", "scanStrings", "remove", "retain", "removed", "removeFailed"}
LookupSteps ==
    {"readIndex", "scanFrames", "resolve", "resolved", "unresolved", "unknown"}
Ended == {"loaded", "loadFailed", "removed", "removeFailed",
          "resolved", "unresolved", "unknown"}

Goto(w, step) == pc' = [pc EXCEPT ![w] = step]

----------------------------------------------------------------------------
Init ==
    /\ ranges = {} /\ strings = {}
    /\ files = [f \in FileId |-> NoName]
    /\ index = [n \in Name |-> NoFile]
    /\ pc = [w \in Worker |-> "idle"]
    /\ jobName = [w \in Worker |-> NoName]
    /\ jobFile = [w \in Worker |-> NoFile]
    /\ saw = [w \in Worker |-> {}]
    /\ raced = {} /\ contested = {} /\ overtaken = {}

----------------------------------------------------------------------------
(* Loading: extract_symbols, then store_file_symbols. *)

StartLoad(w, n) ==
    /\ pc[w] = "idle"
    /\ Goto(w, "extract")
    /\ jobName' = [jobName EXCEPT ![w] = n]
    /\ UNCHANGED <<store, jobFile, saw, history>>

(* The id is a hash of the content, which any path may hold. *)
Extract(w, f) ==
    /\ pc[w] = "extract"
    /\ Goto(w, "store")
    /\ jobFile' = [jobFile EXCEPT ![w] = f]
    /\ UNCHANGED <<store, jobName, saw, history>>

(* The removals that have scanned for f and not yet cleaned the index. *)
RemovalUnderWay(f) ==
    \E v \in Worker : /\ pc[v] \in {"scanStrings", "remove", "retain"}
                      /\ jobFile[v] = f

(* batch.commit: strings, ranges and metadata in one atomic write. *)
StoreCommit(w) ==
    LET f == jobFile[w]
    IN /\ pc[w] = "store"
       /\ Goto(w, "insert")
       /\ ranges' = ranges \union {f}
       /\ strings' = strings \union {f}
       /\ files' = [files EXCEPT ![f] = jobName[w]]
       /\ raced' = IF RemovalUnderWay(f) THEN raced \union {f} ELSE raced
       /\ UNCHANGED <<index, jobName, jobFile, saw, contested, overtaken>>

(* Mutant of Indexed: the name is stored where the id belongs. *)
IndexedByName(n, f) == [index EXCEPT ![n] = n]

Indexed(n, f) == [index EXCEPT ![n] = f]

(* Then, under the index lock, basename -> file id. *)
IndexInsert(w) ==
    LET n == jobName[w]
        f == jobFile[w]
    IN /\ pc[w] = "insert"
       /\ Goto(w, "loaded")
       /\ index' = Indexed(n, f)
       /\ contested' = IF index[n] \notin {NoFile, f}
                       THEN contested \union {n} ELSE contested
       /\ UNCHANGED <<ranges, strings, files, jobName, jobFile, saw,
                      raced, overtaken>>

(* An unreadable path, an extraction error, a failed commit. *)
LoadFail(w) ==
    /\ pc[w] \in {"extract", "store"}
    /\ Goto(w, "loadFailed")
    /\ UNCHANGED <<store, jobName, jobFile, saw, history>>

----------------------------------------------------------------------------
(* Removing: remove_file_symbols. *)

StartRemove(w, f) ==
    /\ pc[w] = "idle"
    /\ Goto(w, "scanRanges")
    /\ jobFile' = [jobFile EXCEPT ![w] = f]
    /\ UNCHANGED <<store, jobName, saw, history>>

(* What a scan found, it found at the moment its iterator was opened. *)
ScanRanges(w) ==
    /\ pc[w] = "scanRanges"
    /\ Goto(w, "scanStrings")
    /\ saw' = [saw EXCEPT ![w] = IF jobFile[w] \in ranges THEN {"ranges"} ELSE {}]
    /\ UNCHANGED <<store, jobName, jobFile, history>>

ScanStrings(w) ==
    /\ pc[w] = "scanStrings"
    /\ Goto(w, "remove")
    /\ saw' = [saw EXCEPT ![w] =
           @ \union (IF jobFile[w] \in strings THEN {"strings"} ELSE {})]
    /\ UNCHANGED <<store, jobName, jobFile, history>>

LoadUnindexed(f) == \E v \in Worker : pc[v] = "insert" /\ jobFile[v] = f

(* Mutants of Deleted: a batch that removes the keys of one partition only. *)
RangesDeleted(part, label, w) ==
    IF label = "ranges" THEN part \ {jobFile[w]} ELSE part
StringsDeleted(part, label, w) ==
    IF label = "strings" THEN part \ {jobFile[w]} ELSE part

(* A partition without the keys the scan of it found. *)
Deleted(part, label, w) ==
    IF label \in saw[w] THEN part \ {jobFile[w]} ELSE part

(* Mutant of Unlisted: the metadata key is left out of the batch. *)
StillListed(f) == files

Unlisted(f) == [files EXCEPT ![f] = NoName]

(* batch.commit: the keys the scans found, and the metadata key. *)
RemoveCommit(w) ==
    LET f == jobFile[w]
    IN /\ pc[w] = "remove"
       /\ Goto(w, "retain")
       /\ ranges' = Deleted(ranges, "ranges", w)
       /\ strings' = Deleted(strings, "strings", w)
       /\ files' = Unlisted(f)
       /\ raced' = IF LoadUnindexed(f) THEN raced \union {f} ELSE raced
       /\ overtaken' = overtaken \union
              {v \in Worker : pc[v] = "resolve" /\ jobFile[v] = f}
       /\ UNCHANGED <<index, jobName, jobFile, saw, contested>>

(* Mutant of Retained: the names of the file stay in the index. *)
AllRetained(f) == index

Retained(f) == [n \in Name |-> IF index[n] = f THEN NoFile ELSE index[n]]

(* Then, under the index lock, drop every name that maps to the file. *)
IndexRetain(w) ==
    /\ pc[w] = "retain"
    /\ Goto(w, "removed")
    /\ index' = Retained(jobFile[w])
    /\ UNCHANGED <<ranges, strings, files, jobName, jobFile, saw, history>>

(* A failed scan or commit. *)
RemoveFail(w) ==
    /\ pc[w] \in {"scanRanges", "scanStrings", "remove"}
    /\ Goto(w, "removeFailed")
    /\ UNCHANGED <<store, jobName, jobFile, saw, history>>

----------------------------------------------------------------------------
(* Looking up, as symbolize_native does: the index, then the ranges, then   *)
(* the string of each range found, each read on its own.                    *)

StartLookup(w, n) ==
    /\ pc[w] = "idle"
    /\ Goto(w, "readIndex")
    /\ jobName' = [jobName EXCEPT ![w] = n]
    /\ UNCHANGED <<store, jobFile, saw, history>>

ReadIndex(w) ==
    /\ pc[w] = "readIndex"
    /\ jobFile' = [jobFile EXCEPT ![w] = index[jobName[w]]]
    /\ Goto(w, IF index[jobName[w]] = NoFile THEN "unresolved" ELSE "scanFrames")
    /\ UNCHANGED <<store, jobName, saw, history>>

ScanFrames(w) ==
    /\ pc[w] = "scanFrames"
    /\ Goto(w, IF jobFile[w] \in ranges THEN "resolve" ELSE "unresolved")
    /\ overtaken' = overtaken \ {w}
    /\ UNCHANGED <<store, jobName, jobFile, saw, raced, contested>>

(* resolve_string: "[unknown]" when the string is gone. *)
ResolveString(w) ==
    /\ pc[w] = "resolve"
    /\ Goto(w, IF jobFile[w] \in strings THEN "resolved" ELSE "unknown")
    /\ UNCHANGED <<store, jobName, jobFile, saw, history>>

(* No range covers the address, or a read failed. *)
LookupFail(w) ==
    /\ pc[w] \in {"scanFrames", "resolve"}
    /\ Goto(w, "unresolved")
    /\ UNCHANGED <<store, jobName, jobFile, saw, history>>

----------------------------------------------------------------------------
(* The thread hands over its result and is gone. *)
Finish(w) ==
    /\ pc[w] \in Ended
    /\ Goto(w, "idle")
    /\ jobName' = [jobName EXCEPT ![w] = NoName]
    /\ jobFile' = [jobFile EXCEPT ![w] = NoFile]
    /\ saw' = [saw EXCEPT ![w] = {}]
    /\ UNCHANGED <<store, history>>

StoredAs(n) == {f \in FileId : files[f] = n}

(* Files some partition holds and some other does not. *)
Orphaned ==
    {f \in FileId : ~(/\ f \in ranges <=> f \in strings
                      /\ f \in ranges <=> files[f] # NoName)}

(* Mutant of RebuiltIndex: the next run starts with an empty index. *)
IndexNotRebuilt == [n \in Name |-> NoFile]

(* open: list_files runs in file-id order, so the last insert is that of    *)
(* the greatest id.                                                         *)
RebuiltIndex ==
    [n \in Name |->
        IF StoredAs(n) = {} THEN NoFile
        ELSE CHOOSE f \in StoredAs(n) : \A g \in StoredAs(n) : g <= f]

(* The process ends, by quitting or by a crash, with all its threads.  The  *)
(* partitions survive; the next run rebuilds the index.                     *)
Restart ==
    /\ index' = RebuiltIndex
    /\ pc' = [w \in Worker |-> "idle"]
    /\ jobName' = [w \in Worker |-> NoName]
    /\ jobFile' = [w \in Worker |-> NoFile]
    /\ saw' = [w \in Worker |-> {}]
    /\ raced' = raced \intersect Orphaned
    /\ contested' = {n \in Name : \E f, g \in StoredAs(n) : f # g}
    /\ overtaken' = {}
    /\ UNCHANGED <<ranges, strings, files>>

LoadStep(w) == \/ \E f \in FileId : Extract(w, f)
               \/ StoreCommit(w)
               \/ IndexInsert(w)
               \/ LoadFail(w)

RemoveStep(w) == \/ ScanRanges(w)
                 \/ ScanStrings(w)
                 \/ RemoveCommit(w)
                 \/ IndexRetain(w)
                 \/ RemoveFail(w)

LookupStep(w) == \/ ReadIndex(w)
                 \/ ScanFrames(w)
                 \/ ResolveString(w)
                 \/ LookupFail(w)

Start(w) == \/ \E n \in Name : StartLoad(w, n) \/ StartLookup(w, n)
            \/ \E f \in FileId : StartRemove(w, f)

Next == \/ \E w \in Worker :
               Start(w) \/ LoadStep(w) \/ RemoveStep(w) \/ LookupStep(w) \/ Finish(w)
        \/ Restart

Spec == Init /\ [][Next]_vars

----------------------------------------------------------------------------
TypeOK ==
    /\ ranges \subseteq FileId /\ strings \subseteq FileId
    /\ files \in [FileId -> Name \union {NoName}]
    /\ index \in [Name -> FileId \union {NoFile}]
    /\ pc \in [Worker -> {"idle"} \union LoadSteps \union RemoveSteps \union LookupSteps]
    /\ jobName \in [Worker -> Name \union {NoName}]
    /\ jobFile \in [Worker -> FileId \union {NoFile}]
    /\ saw \in [Worker -> SUBSET {"ranges", "strings"}]
    /\ raced \subseteq FileId /\ contested \subseteq Name /\ overtaken \subseteq Worker

(* Whatever loads, removals and restarts overlap, an executable list_files  *)
(* shows has its ranges and its strings: a removal never takes the symbols  *)
(* of a file it leaves listed.                                              *)
ListedIsComplete ==
    \A f \in FileId : files[f] # NoName => f \in ranges /\ f \in strings

(* file_id_for_basename names a file that is stored, except between the     *)
(* commit of a removal and its retain, and for a file whose load and        *)
(* removal overlapped.                                                      *)
IndexNamesStored ==
    \A n \in Name : LET f == index[n] IN
        f # NoFile /\ files[f] = NoName =>
            \/ f \in raced
            \/ \E w \in Worker : pc[w] = "retain" /\ jobFile[w] = f

(* A stored file is found under the name it is listed by, except between    *)
(* its commit and its index insert, when another file took over the name,   *)
(* or when its load and a removal overlapped.                               *)
StoredIsIndexed ==
    \A f \in FileId : LET n == files[f] IN
        n # NoName /\ index[n] # f =>
            \/ n \in contested
            \/ f \in raced
            \/ \E w \in Worker : pc[w] = "insert" /\ jobFile[w] = f /\ jobName[w] = n

(* Symbols no listed file owns are left behind only by a load that          *)
(* overlapped a removal of the same file, across any number of restarts.    *)
OrphansAreRaced == Orphaned \subseteq raced

(* lookup writes "[unknown]" for a frame only when the file's removal was   *)
(* committed between its range scan and its string read, or had raced with  *)
(* a load.                                                                  *)
UnknownIsOvertaken ==
    \A w \in Worker :
        pc[w] = "unknown" => w \in overtaken \/ jobFile[w] \in raced
=============================================================================
