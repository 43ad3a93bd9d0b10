--------------------------- MODULE MCSymbolStore ---------------------------
(* SymbolStore for TLC.  File ids are numbers, ordered by the rebuild of    *)
(* the index, and are not interchangeable.                                  *)
EXTENDS SymbolStoreRefinement, TLC

Interchangeable == Permutations(Worker) \union Permutations(Name)

AtRest == \A w \in Worker : pc[w] = "idle"

(* file_id_for_basename resolves the basename of every stored file, once no *)
(* load or removal is under way.                                            *)
StoredNamesResolve ==
    AtRest => \A f \in FileId : files[f] # NoName => index[files[f]] # NoFile
=============================================================================
