----------------------- MODULE SymbolStoreRefinement -----------------------
(* SymbolStore implements SymbolCatalog: an executable is in the catalog    *)
(* when its metadata, its ranges and its strings are all stored; the index  *)
(* and the lookups are invisible.                                           *)
EXTENDS SymbolStore

PhaseOf(step) ==
    CASE step \in {"extract", "store"} -> "loading"
      [] step \in {"insert", "loaded"} -> "stored"
      [] step \in {"scanRanges", "scanStrings", "remove"} -> "removing"
      [] step \in {"retain", "removed"} -> "dropped"
      [] step \in {"loadFailed", "removeFailed"} -> "failed"
      [] OTHER -> "idle"

Catalog == INSTANCE SymbolCatalog WITH
    catalog <- [f \in FileId |->
                   IF f \in ranges /\ f \in strings THEN files[f] ELSE NoName],
    phase <- [w \in Worker |-> PhaseOf(pc[w])],
    name <- [w \in Worker |-> IF pc[w] \in LookupSteps THEN NoName ELSE jobName[w]],
    file <- [w \in Worker |-> IF pc[w] \in LookupSteps THEN NoFile ELSE jobFile[w]]

(* Every load and every removal appears to happen at once, or not at all,   *)
(* whatever else runs and whenever the process ends: batch.commit is the    *)
(* moment, and neither the scans before it nor the index update after it    *)
(* can be told from outside.                                                *)
ImplementsCatalog == Catalog!Spec
============================================================================
