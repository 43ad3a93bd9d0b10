--------------------------- MODULE ProfilesServer --------------------------
(* The OTLP receiver: every export is answered at once and processed by a   *)
(* blocking task of its own.  The tasks share known_basenames and send to   *)
(* the event loop.  Resolving frames against the symbol store changes       *)
(* nothing here (SymbolStore has the lookups): a stack is its index.        *)
EXTENDS Iteration, SequencesExt

CONSTANTS Task,     \* bound: exports processed at a time
          Path,     \* full paths of mappings
          Name,     \* basenames
          NoName,
          BaseOf,   \* basename of a path; NoName if empty or in brackets
          Requests, \* requests that carry a dictionary
          NoRequest,
          MaxQueue  \* bound: events that wait or are about to be sent

ASSUME ServerAssumption ==
    /\ NoName \notin Name
    /\ BaseOf \in [Path -> Name \union {NoName}]
    /\ MaxQueue \in Nat
    /\ NoRequest \notin Requests
    /\ \A r \in Requests :
           /\ r.mappings \in Seq(Path)
           /\ Len(r.samples) \in Nat /\ DOMAIN r.samples = 1 .. Len(r.samples)
           /\ \A k \in DOMAIN r.samples :
                  r.samples[k].times \in Nat /\ r.samples[k].sum \in Int

VARIABLES pc,       \* next step of each task
          request,  \* what it processes
          at,       \* place in the mapping table
          found,    \* names it will announce
          known,    \* known_basenames: full paths, in spite of its name
          channel,  \* the mpsc channel to the event loop
          listed,   \* names in the Executables tab
          (* history *)
          accepted, \* basenames of the mappings of every accepted request
          outrun    \* a profile was shown before names its task had found
vars == <<pc, request, at, found, known, channel, listed, accepted, outrun>>

Init ==
    /\ pc = [t \in Task |-> "idle"]
    /\ request = [t \in Task |-> NoRequest]
    /\ at = [t \in Task |-> 1]
    /\ found = [t \in Task |-> <<>>]
    /\ known = {} /\ channel = <<>> /\ listed = {}
    /\ accepted = {} /\ outrun = FALSE

Goto(t, step) == pc' = [pc EXCEPT ![t] = step]

----------------------------------------------------------------------------
(* What process_export makes of the samples.  A sample is a stack index, 0  *)
(* for none, the thread.name attribute, how many timestamps it has, and the *)
(* sum of its values, 0 for none.                                           *)

FirstWith(samples, stack) ==
    CHOOSE k \in DOMAIN samples :
        /\ samples[k].stack = stack
        /\ \A j \in 1 .. k - 1 : samples[j].stack # stack

(* stack_cache: the thread of the first sample of a stack is put in front   *)
(* of the frames, and the cached stack serves every later sample of it.     *)
ThreadOf(samples, k) == samples[FirstWith(samples, samples[k].stack)].thread

AtLeastOne(n) == IF n < 1 THEN 1 ELSE n

Value(sample) == IF sample.times > 0 THEN sample.times ELSE AtLeastOne(sample.sum)

Kept(samples) == {k \in DOMAIN samples : samples[k].stack # 0}

Times(sample) == sample.times

Total(samples, chosen, Weight(_)) ==
    SumOf([k \in DOMAIN samples |->
              IF k \in Kept(samples) \cap chosen THEN Weight(samples[k]) ELSE 0])

ThreadsOf(samples) == {samples[k].thread : k \in DOMAIN samples}

(* The children of the root of the flame graph, with their weights. *)
ThreadWeights(samples) ==
    [n \in ThreadsOf(samples) |->
        Total(samples, {k \in DOMAIN samples : ThreadOf(samples, k) = n}, Value)]

(* Mutant of TimeKey: the thread the sample itself names. *)
OwnThread(samples, k) == samples[k].thread

(* thread_timestamps is keyed by stack[0]. *)
TimeKey(samples, k) == ThreadOf(samples, k)

ThreadTimes(samples) ==
    [n \in ThreadsOf(samples) |->
        Total(samples, {k \in DOMAIN samples : TimeKey(samples, k) = n}, Times)]

Discovered(names) == [kind |-> "MappingsDiscovered", names |-> names]

(* The names and the samples are carried along for the properties only. *)
ProfileUpdate(t) ==
    [kind |-> "ProfileUpdate", names |-> found[t],
     weights |-> ThreadWeights(request[t].samples),
     times |-> ThreadTimes(request[t].samples),
     samples |-> request[t].samples]

----------------------------------------------------------------------------
BasesOf(r) == {BaseOf[r.mappings[i]] : i \in DOMAIN r.mappings} \ {NoName}

Busy == {t \in Task : pc[t] # "idle"}

(* export: the answer is sent before the request is looked at.  A request   *)
(* without a dictionary leaves no trace.  The channel has no limit in the   *)
(* code: it is the exports that the bound holds back, never a send.         *)
Export(t, r) ==
    /\ pc[t] = "idle"
    /\ Len(channel) + 2 * (Cardinality(Busy) + 1) <= MaxQueue
    /\ Goto(t, "check")
    /\ request' = [request EXCEPT ![t] = r]
    /\ accepted' = accepted \union BasesOf(r)
    /\ UNCHANGED <<at, found, known, channel, listed, outrun>>

Mapping(t) == request[t].mappings[at[t]]

(* Mutant of Remaining: the last mapping is skipped. *)
RemainingShort(t) == at[t] < Len(request[t].mappings)

Remaining(t) == at[t] <= Len(request[t].mappings)

(* unknown_basenames, under the read lock. *)
CheckKnown(t) ==
    /\ pc[t] = "check" /\ Remaining(t)
    /\ IF Mapping(t) \in known \/ BaseOf[Mapping(t)] = NoName
       THEN at' = [at EXCEPT ![t] = @ + 1] /\ UNCHANGED pc
       ELSE Goto(t, "insert") /\ UNCHANGED at
    /\ UNCHANGED <<request, found, known, channel, listed, accepted, outrun>>

(* Mutants of Noted: the answer of insert is read the wrong way round; the  *)
(* path is reported instead of its basename.                                *)
NotedIfPresent(t) ==
    IF Mapping(t) \in known THEN Append(found[t], BaseOf[Mapping(t)]) ELSE found[t]
NotedByPath(t) == Append(found[t], Mapping(t))

Noted(t) == Append(found[t], BaseOf[Mapping(t)])

(* Then, under the write lock, which another task may have had in between.  *)
InsertKnown(t) ==
    /\ pc[t] = "insert"
    /\ Goto(t, "check")
    /\ known' = known \union {Mapping(t)}
    /\ found' = [found EXCEPT ![t] = Noted(t)]
    /\ at' = [at EXCEPT ![t] = @ + 1]
    /\ UNCHANGED <<request, channel, listed, accepted, outrun>>

(* Mutant of SendMappings: the event is not sent. *)
SendNothing(t) ==
    /\ pc[t] = "check" /\ ~Remaining(t)
    /\ Goto(t, "send")
    /\ UNCHANGED <<request, at, found, known, channel, listed, accepted, outrun>>

SendMappings(t) ==
    /\ pc[t] = "check" /\ ~Remaining(t)
    /\ Goto(t, "send")
    /\ IF found[t] = <<>> THEN UNCHANGED channel
       ELSE channel' = Append(channel, Discovered(found[t]))
    /\ UNCHANGED <<request, at, found, known, listed, accepted, outrun>>

SendUpdate(t) ==
    /\ pc[t] = "send"
    /\ channel' = Append(channel, ProfileUpdate(t))
    /\ Goto(t, "idle")
    /\ request' = [request EXCEPT ![t] = NoRequest]
    /\ at' = [at EXCEPT ![t] = 1]
    /\ found' = [found EXCEPT ![t] = <<>>]
    /\ UNCHANGED <<known, listed, accepted, outrun>>

(* The event loop takes the next event. *)
Handle ==
    /\ channel # <<>>
    /\ channel' = Tail(channel)
    /\ LET e == Head(channel)
       IN IF e.kind = "MappingsDiscovered"
          THEN listed' = listed \union ToSet(e.names) /\ UNCHANGED outrun
          ELSE /\ outrun' = (outrun \/ ~(ToSet(e.names) \subseteq listed))
               /\ UNCHANGED listed
    /\ UNCHANGED <<pc, request, at, found, known, accepted>>

TaskStep(t) == CheckKnown(t) \/ InsertKnown(t) \/ SendMappings(t) \/ SendUpdate(t)

Next == \/ \E t \in Task : (\E r \in Requests : Export(t, r)) \/ TaskStep(t)
        \/ Handle

Spec == Init /\ [][Next]_vars

(* Blocking tasks are run to their end, the loop keeps taking events. *)
FairSpec == Spec /\ (\A t \in Task : WF_vars(TaskStep(t))) /\ WF_vars(Handle)

----------------------------------------------------------------------------
TypeOK ==
    /\ pc \in [Task -> {"idle", "check", "insert", "send"}]
    /\ request \in [Task -> Requests \union {NoRequest}]
    /\ at \in [Task -> Nat \ {0}]
    /\ found \in [Task -> Seq(Name)]
    /\ known \subseteq Path
    /\ \A i \in DOMAIN channel : channel[i].names \in Seq(Name)
    /\ listed \subseteq Name /\ accepted \subseteq Name /\ outrun \in BOOLEAN

Announced(n) == \E i \in DOMAIN channel :
    channel[i].kind = "MappingsDiscovered" /\ n \in ToSet(channel[i].names)

(* A path is remembered as known before its name is on its way, and nobody  *)
(* looks at it again: so its name is listed, or in the channel, or held by  *)
(* a task that has still to send it.                                        *)
NothingForgotten ==
    \A p \in known :
        \/ BaseOf[p] \in listed
        \/ Announced(BaseOf[p])
        \/ \E t \in Task : pc[t] # "send" /\ BaseOf[p] \in ToSet(found[t])

(* A profile is never shown before the names its own export discovered are  *)
(* listed.                                                                  *)
NamesComeFirst == ~outrun

(* Every executable of an accepted export gets listed, whichever tasks ran  *)
(* into each other on the way.                                              *)
AcceptedIsListed == \A n \in Name : n \in accepted ~> n \in listed

(* The Flamescope counts the times of a thread under the thread the flame   *)
(* graph shows them for.                                                    *)
TabsAgreeOnThreads ==
    \A i \in DOMAIN channel : channel[i].kind = "ProfileUpdate" =>
        \A n \in DOMAIN channel[i].times :
            channel[i].times[n] <= channel[i].weights[n]

(* Samples are grouped by their thread.name attribute. *)
GroupedByThread ==
    \A i \in DOMAIN channel : channel[i].kind = "ProfileUpdate" =>
        LET samples == channel[i].samples
        IN \A n \in ThreadsOf(samples) :
               channel[i].weights[n] =
                   Total(samples, {k \in DOMAIN samples : samples[k].thread = n}, Value)
============================================================================
