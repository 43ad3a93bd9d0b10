--------------------------- MODULE SymbolPipeline --------------------------
(* The event loop of main.rs around the Executables tab and the symbol      *)
(* store: keys spawn threads that load and remove symbols, the threads send *)
(* one event each when done, the gRPC side sends discovered mappings, and   *)
(* the loop applies the events in the order they were sent.  The store is   *)
(* the catalog SymbolStore implements.                                      *)
EXTENDS ExecutablesTab

CONSTANTS Worker,    \* bound: threads at a time
          MaxQueue   \* bound: events in the channel or still to be answered

VARIABLES catalog, phase, name, file,  \* of SymbolCatalog
          target,  \* entry a thread's answer is for
          queue,   \* the mpsc channel
          status,  \* status line of the tab
          hidden   \* history: names cleared although their removal failed
vars == <<list, cursor, prompt, catalog, phase, name, file, target,
          queue, status, hidden>>
loop == <<queue, status, hidden>>

Store == INSTANCE SymbolCatalog
stored == <<catalog, phase, name, file>>

Event == [kind: {"loaded", "loadFailed", "removed", "removeFailed"},
          name: Name, file: FileId \union {NoFile}, fileName: Name \union {NoName}]
Discovery == [kind: {"discovered"}, names: Seq(Name)]

NoStatus == [kind |-> "none", name |-> NoName]

(* list_files: in the order of the file ids. *)
ListFiles ==
    LET complete == {f \in FileId : catalog[f] # NoName}
        ids == Ranked(complete, Smaller(complete))
    IN [i \in DOMAIN ids |-> [name |-> catalog[ids[i]], file |-> ids[i]]]

Init ==
    /\ Store!Init
    /\ TabInit(<<>>)
    /\ target = [w \in Worker |-> NoName]
    /\ queue = <<>>
    /\ status = NoStatus
    /\ hidden = {}

----------------------------------------------------------------------------
(* The channel has no limit in the code.  The bound holds back new threads  *)
(* and new exports, never the answer of a thread.                           *)
Room == Len(queue) + Cardinality({w \in Worker : phase[w] # "idle"}) < MaxQueue

(* A key that stays in the tab. *)
TabKey == Keys /\ UNCHANGED <<stored, target, loop>>

(* Enter in the prompt: Action::LoadSymbols, for a path with basename n. *)
SubmitPath(w, n) ==
    LET display == IF prompt.target = NoName THEN n ELSE prompt.target
    IN /\ Room
       /\ ClosePrompt
       /\ Store!BeginLoad(w, n)
       /\ target' = [target EXCEPT ![w] = display]
       /\ status' = [kind |-> "loading", name |-> display]
       /\ UNCHANGED <<queue, hidden>>

(* "r": Action::RemoveSymbols. *)
PressRemove(w) ==
    /\ Room
    /\ CanRemove
    /\ Store!BeginRemove(w, Selected.file)
    /\ target' = [target EXCEPT ![w] = Selected.name]
    /\ status' = [kind |-> "removing", name |-> Selected.name]
    /\ UNCHANGED <<tab, queue, hidden>>

(* The threads, up to their answer. *)
Work(w) ==
    /\ \/ \E f \in FileId : Store!Identify(w, f)
       \/ Store!Put(w)
       \/ Store!Drop(w)
       \/ Store!Fail(w)
    /\ UNCHANGED <<tab, target, loop>>

Removing(w) == name[w] = NoName

AnswerKind(w) ==
    CASE phase[w] = "stored" -> "loaded"
      [] phase[w] = "dropped" -> "removed"
      [] phase[w] = "failed" -> IF Removing(w) THEN "removeFailed" ELSE "loadFailed"

(* The last thing a thread does is to send its answer. *)
Answer(w) ==
    /\ Store!End(w)
    /\ queue' = Append(queue, [kind |-> AnswerKind(w), name |-> target[w],
                               file |-> file[w], fileName |-> name[w]])
    /\ target' = [target EXCEPT ![w] = NoName]
    /\ UNCHANGED <<tab, status, hidden>>

(* process_export announces the basenames of paths it has not met; another  *)
(* path may have had the same basename before.                              *)
Discover(names) ==
    /\ Room
    /\ queue' = Append(queue, [kind |-> "discovered", names |-> names])
    /\ UNCHANGED <<tab, stored, target, status, hidden>>

----------------------------------------------------------------------------
(* One turn of the loop for each kind of event. *)
Arrived(kind) == queue # <<>> /\ Head(queue).kind = kind

Take == /\ queue' = Tail(queue)
        /\ UNCHANGED <<prompt, stored, target>>

(* Mutant of Report: the answer is not shown. *)
Unreported(e) == UNCHANGED status

Report(e) == status' = [kind |-> e.kind, name |-> e.name]

MappingsDiscovered ==
    /\ Arrived("discovered") /\ Take
    /\ MergeDiscoveredMappings(Head(queue).names)
    /\ UNCHANGED <<status, hidden>>

SymbolsLoaded ==
    /\ Arrived("loaded") /\ Take
    /\ LET e == Head(queue)
       IN /\ Report(e)
          /\ UpdateSymbolized(e.name, e.file, e.fileName)
          /\ hidden' = hidden \ {e.name}

LoadError ==
    /\ Arrived("loadFailed") /\ Take
    /\ Report(Head(queue))
    /\ UNCHANGED <<list, cursor, hidden>>

(* The entry is cleared whether or not the removal succeeded. *)
SymbolsRemoved ==
    /\ Arrived("removed") \/ Arrived("removeFailed")
    /\ Take
    /\ LET e == Head(queue)
       IN /\ Report(e)
          /\ ClearSymbols(e.name)
          /\ hidden' = IF e.kind = "removed" THEN hidden \ {e.name}
                       ELSE hidden \union {e.name}

HandleEvent == MappingsDiscovered \/ SymbolsLoaded \/ LoadError \/ SymbolsRemoved

(* Quitting, or a crash, takes the threads and the queue; the next run      *)
(* lists what was stored.                                                   *)
Restart ==
    /\ Store!Restart
    /\ list' = ListFiles /\ cursor' = 0 /\ prompt' = Closed
    /\ target' = [w \in Worker |-> NoName]
    /\ queue' = <<>> /\ status' = NoStatus /\ hidden' = {}

Mappings == {<<n>> : n \in Name} \union {<<m, n>> : m, n \in Name}

Next == \/ TabKey
        \/ \E w \in Worker :
               \/ \E n \in Name : SubmitPath(w, n)
               \/ PressRemove(w)
               \/ Work(w)
               \/ Answer(w)
        \/ \E names \in Mappings : Discover(names)
        \/ HandleEvent
        \/ Restart

Spec == Init /\ [][Next]_vars

(* While there are threads, one of them is scheduled, extraction and commits *)
(* end, and the loop keeps taking events; no key is ever pressed for sure.   *)
Fairness == /\ WF_vars(\E w \in Worker : Work(w) \/ Answer(w))
            /\ WF_vars(HandleEvent)

----------------------------------------------------------------------------
(* Orderly use: each name has content of its own, a prompt opened for an    *)
(* entry gets the path of that entry, and a name has one job at a time.     *)
OwnFile(n) == n

JobsFor(n) == \/ \E w \in Worker : target[w] = n
              \/ \E i \in DOMAIN queue :
                     queue[i].kind # "discovered" /\ queue[i].name = n

OrderlyStep ==
    \A w \in Worker :
        /\ target[w] = NoName /\ target'[w] # NoName => ~JobsFor(target'[w])
        /\ name'[w] # NoName => target'[w] = name'[w]
        /\ name'[w] # NoName /\ file'[w] # NoFile => file'[w] = OwnFile(name'[w])

OrderlyNext == Next /\ OrderlyStep

OrderlySpec == Init /\ [][OrderlyNext]_vars /\ Fairness

----------------------------------------------------------------------------
TypeOK ==
    /\ TabTypeOK
    /\ catalog \in [FileId -> Name \union {NoName}]
    /\ phase \in [Worker -> {"idle", "loading", "stored", "removing", "dropped", "failed"}]
    /\ name \in [Worker -> Name \union {NoName}]
    /\ file \in [Worker -> FileId \union {NoFile}]
    /\ target \in [Worker -> Name \union {NoName}]
    /\ queue \in Seq(Event \union Discovery)
    /\ status \in [kind: {"none", "loading", "removing", "loaded", "loadFailed",
                          "removed", "removeFailed"},
                   name: Name \union {NoName}]
    /\ hidden \subseteq Name

(* Events of background threads re-sort the list under the user, yet the    *)
(* entry under the cursor keeps its name: Enter and "r" act on the          *)
(* executable the user was looking at.                                      *)
CursorSticks ==
    [][HandleEvent /\ list # <<>> => list'[cursor' + 1].name = Selected.name]_vars

(* The open prompt stays bound to the entry it was opened for, and that     *)
(* entry stays listed, whatever arrives while the path is typed.            *)
PromptTargetListed ==
    prompt.target # NoName => Named(list, prompt.target) # {}

(* In orderly use the list agrees with the store: no entry shows a file     *)
(* that is not stored, and one that is stored is shown by the entry of its  *)
(* name. The excuses are a job of that name still under way, and a removal  *)
(* that failed: it clears the entry all the same, and the file stays stored *)
(* and unseen until the name is loaded again or the program restarted.      *)
ListAgrees ==
    \A f \in FileId :
        \/ JobsFor(OwnFile(f))
        \/ LET shown == {list[i].name : i \in {j \in DOMAIN list : list[j].file = f}}
           IN IF OwnFile(f) \in hidden THEN shown = {} /\ catalog[f] # NoName
              ELSE shown = {catalog[f]} \ {NoName}

(* In orderly use "Loading" or "Removing" never stays the status for ever,  *)
(* however many jobs are started before the first is answered.              *)
StatusIsAnswered == []<>(status.kind \notin {"loading", "removing"})

AtRest == queue = <<>> /\ \A w \in Worker : phase[w] = "idle"

(* What an entry shows as loaded for a name is what lookups of that name    *)
(* find: loading for the selected executable symbolises that executable.    *)
LoadedResolves ==
    AtRest => \A i \in DOMAIN list :
        Symbolised(list[i]) =>
            \E f \in FileId : catalog[f] = list[i].name
============================================================================
