--------------------------- MODULE SymbolCatalog ---------------------------
(* What the symbol store promises its callers: a catalog of executables,    *)
(* each with all of its symbols or not there at all.  A load or a removal   *)
(* takes effect once, in one step, between its call and its answer; one     *)
(* that fails, or that the end of the process cuts off, either took effect  *)
(* as a whole or did nothing.                                               *)
CONSTANTS Worker, FileId, Name, NoFile, NoName

VARIABLES catalog,  \* name of each complete executable, NoName if absent
          phase,    \* how far the operation of each thread is
          name,     \* its arguments
          file
vars == <<catalog, phase, name, file>>

Init ==
    /\ catalog = [f \in FileId |-> NoName]
    /\ phase = [w \in Worker |-> "idle"]
    /\ name = [w \in Worker |-> NoName]
    /\ file = [w \in Worker |-> NoFile]

To(w, p) == phase' = [phase EXCEPT ![w] = p]

BeginLoad(w, n) ==
    /\ phase[w] = "idle"
    /\ To(w, "loading")
    /\ name' = [name EXCEPT ![w] = n]
    /\ UNCHANGED <<catalog, file>>

(* The file a load is about is known once its content has been read. *)
Identify(w, f) ==
    /\ phase[w] = "loading" /\ file[w] = NoFile
    /\ file' = [file EXCEPT ![w] = f]
    /\ UNCHANGED <<catalog, phase, name>>

Put(w) ==
    /\ phase[w] = "loading" /\ file[w] # NoFile
    /\ To(w, "stored")
    /\ catalog' = [catalog EXCEPT ![file[w]] = name[w]]
    /\ UNCHANGED <<name, file>>

BeginRemove(w, f) ==
    /\ phase[w] = "idle"
    /\ To(w, "removing")
    /\ file' = [file EXCEPT ![w] = f]
    /\ UNCHANGED <<catalog, name>>

Drop(w) ==
    /\ phase[w] = "removing"
    /\ To(w, "dropped")
    /\ catalog' = [catalog EXCEPT ![file[w]] = NoName]
    /\ UNCHANGED <<name, file>>

Fail(w) ==
    /\ phase[w] \in {"loading", "removing"}
    /\ To(w, "failed")
    /\ UNCHANGED <<catalog, name, file>>

End(w) ==
    /\ phase[w] \in {"stored", "dropped", "failed"}
    /\ To(w, "idle")
    /\ name' = [name EXCEPT ![w] = NoName]
    /\ file' = [file EXCEPT ![w] = NoFile]
    /\ UNCHANGED catalog

Restart ==
    /\ phase' = [w \in Worker |-> "idle"]
    /\ name' = [w \in Worker |-> NoName]
    /\ file' = [w \in Worker |-> NoFile]
    /\ UNCHANGED catalog

Next ==
    \/ \E w \in Worker :
           \/ \E n \in Name : BeginLoad(w, n)
           \/ \E f \in FileId : Identify(w, f) \/ BeginRemove(w, f)
           \/ Put(w) \/ Drop(w) \/ Fail(w) \/ End(w)
    \/ Restart

Spec == Init /\ [][Next]_vars
============================================================================
