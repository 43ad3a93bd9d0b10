------------------------ MODULE ProfilesServerProofs -----------------------
(* Proofs about ProfilesServer for any number of tasks, any requests and    *)
(* any bound on the channel.                                                *)
EXTENDS ProfilesServer, OperatorProofs

(* What the properties need to know of the channel: it is a sequence, of    *)
(* events that carry names.                                                 *)
ChannelOK ==
    /\ \E S : channel \in Seq(S)
    /\ \A i \in DOMAIN channel :
           /\ channel[i].kind \in {"MappingsDiscovered", "ProfileUpdate"}
           /\ channel[i].names \in Seq(Name)

StateOK ==
    /\ pc \in [Task -> {"idle", "check", "insert", "send"}]
    /\ request \in [Task -> Requests \union {NoRequest}]
    /\ at \in [Task -> Nat \ {0}]
    /\ found \in [Task -> Seq(Name)]
    /\ known \subseteq Path
    /\ listed \subseteq Name
    /\ accepted \subseteq Name
    /\ outrun \in BOOLEAN

(* A task at work has a request; between its two locks it is at a mapping   *)
(* that has a basename.                                                     *)
WorkKnown ==
    \A t \in Task :
        /\ pc[t] # "idle" => request[t] \in Requests
        /\ pc[t] = "insert" => Remaining(t) /\ BaseOf[Mapping(t)] # NoName

(* The name is listed by the time the i-th event of the channel is taken.   *)
ListedBefore(n, i) ==
    \/ n \in listed
    \/ \E j \in DOMAIN channel :
           /\ j < i
           /\ channel[j].kind = "MappingsDiscovered"
           /\ n \in ToSet(channel[j].names)

(* Every profile in the channel comes after the names its task found ...    *)
NamesAhead ==
    \A i \in DOMAIN channel : channel[i].kind = "ProfileUpdate" =>
        \A n \in ToSet(channel[i].names) : ListedBefore(n, i)

(* ... which the task announced before it gets to send its profile.         *)
NamesSent ==
    \A t \in Task : pc[t] = "send" =>
        \A n \in ToSet(found[t]) : n \in listed \/ Announced(n)

IInv ==
    /\ StateOK /\ ChannelOK /\ WorkKnown
    /\ NothingForgotten /\ NamesAhead /\ NamesSent /\ NamesComeFirst

USE ServerAssumption

LEMMA IInvInit == Init => IInv
<1> SUFFICES ASSUME Init PROVE IInv
  OBVIOUS
<1>1. StateOK
  <2>1. <<>> \in Seq(Name)
    BY EmptySeq
  <2>2. found \in [Task -> Seq(Name)]
    BY <2>1 DEF Init
  <2>3. at \in [Task -> Nat \ {0}] /\ request \in [Task -> Requests \union {NoRequest}]
    BY DEF Init
  <2>4. pc \in [Task -> {"idle", "check", "insert", "send"}]
    BY DEF Init
  <2>5. known = {} /\ listed = {} /\ accepted = {} /\ outrun = FALSE
    BY DEF Init
  <2> QED
    BY <2>2, <2>3, <2>4, <2>5 DEF StateOK
<1>2. channel = <<>> /\ channel \in Seq({}) /\ DOMAIN channel = {}
  BY DEF Init
<1>3. WorkKnown /\ NamesSent
  BY DEF Init, WorkKnown, NamesSent
<1>4. NothingForgotten /\ NamesComeFirst
  BY DEF Init, NothingForgotten, NamesComeFirst
<1> QED
  BY <1>1, <1>2, <1>3, <1>4 DEF IInv, ChannelOK, NamesAhead

----------------------------------------------------------------------------
(* A task's place in the mapping table: a full path, with a name or none.   *)
LEMMA MappingIsPath ==
    ASSUME StateOK, NEW t \in Task, request[t] \in Requests, Remaining(t)
    PROVE  Mapping(t) \in Path /\ BaseOf[Mapping(t)] \in Name \union {NoName}
<1>1. request[t].mappings \in Seq(Path)
  OBVIOUS
<1>2. at[t] \in 1 .. Len(request[t].mappings)
  BY <1>1 DEF StateOK, Remaining
<1>3. Mapping(t) \in Path
  BY <1>1, <1>2, ElementOfSeq DEF Mapping
<1> QED
  BY <1>3

(* Sending leaves the events before the new one in their places.            *)
LEMMA Sent ==
    ASSUME ChannelOK, NEW e, channel' = Append(channel, e)
    PROVE  /\ DOMAIN channel' = DOMAIN channel \union {Len(channel) + 1}
           /\ DOMAIN channel = 1 .. Len(channel)
           /\ Len(channel) \in Nat
           /\ \A i \in DOMAIN channel : channel'[i] = channel[i]
           /\ channel'[Len(channel) + 1] = e
           /\ \E S : channel' \in Seq(S)
<1>1. PICK S : channel \in Seq(S)
  BY DEF ChannelOK
<1>2. channel \in Seq(S \union {e})
  BY <1>1
<1>3. channel' \in Seq(S \union {e}) /\ Len(channel') = Len(channel) + 1
  BY <1>2, AppendProperties
<1>4. /\ \A i \in 1 .. Len(channel) : channel'[i] = channel[i]
      /\ channel'[Len(channel) + 1] = e
  BY <1>2, AppendProperties
<1>5. /\ DOMAIN channel = 1 .. Len(channel) /\ Len(channel) \in Nat
      /\ DOMAIN channel' = 1 .. Len(channel')
  BY <1>2, <1>3, LenProperties
<1> QED
  BY <1>3, <1>4, <1>5

(* Taking the head moves every other event one place forward.               *)
LEMMA Taken ==
    ASSUME ChannelOK, channel # <<>>, channel' = Tail(channel)
    PROVE  /\ 1 \in DOMAIN channel /\ Head(channel) = channel[1]
           /\ DOMAIN channel \subseteq Nat \ {0}
           /\ DOMAIN channel' = {i \in Nat \ {0} : i + 1 \in DOMAIN channel}
           /\ \A i \in DOMAIN channel' : channel'[i] = channel[i + 1]
           /\ \E S : channel' \in Seq(S)
<1>1. PICK S : channel \in Seq(S)
  BY DEF ChannelOK
<1>2. /\ channel' \in Seq(S) /\ Len(channel') = Len(channel) - 1
      /\ \A i \in 1 .. Len(channel') : channel'[i] = channel[i + 1]
      /\ Head(channel) = channel[1]
  BY <1>1, HeadTailProperties
<1>3. /\ Len(channel) \in Nat /\ Len(channel) # 0
      /\ DOMAIN channel = 1 .. Len(channel)
      /\ DOMAIN channel' = 1 .. Len(channel')
  BY <1>1, <1>2, LenProperties, EmptySeq
<1> QED
  BY <1>2, <1>3

(* The events and the names they carry. *)
LEMMA EventNames ==
    /\ \A names : /\ Discovered(names).kind = "MappingsDiscovered"
                  /\ Discovered(names).names = names
    /\ \A t \in Task : /\ ProfileUpdate(t).kind = "ProfileUpdate"
                        /\ ProfileUpdate(t).names = found[t]
BY DEF Discovered, ProfileUpdate

(* A step that leaves channel and list alone leaves what is said of them.   *)
LEMMA ChannelUntouched ==
    ASSUME IInv, UNCHANGED <<channel, listed, outrun>>
    PROVE  ChannelOK' /\ NamesAhead' /\ NamesComeFirst'
BY DEF IInv, ChannelOK, NamesAhead, ListedBefore, NamesComeFirst

----------------------------------------------------------------------------
LEMMA ExportKeeps ==
    ASSUME IInv, NEW t \in Task, NEW r \in Requests, Export(t, r)
    PROVE  IInv'
<1> USE DEF IInv, Export, Goto
<1>1. BasesOf(r) \subseteq Name
  <2>1. r.mappings \in Seq(Path)
    OBVIOUS
  <2>2. \A i \in DOMAIN r.mappings : r.mappings[i] \in Path
    BY <2>1, LenProperties, ElementOfSeq
  <2> QED
    BY <2>2 DEF BasesOf
<1>2. StateOK'
  BY <1>1 DEF StateOK
<1>3. WorkKnown'
  BY DEF WorkKnown, StateOK, Remaining, Mapping
<1>4. NothingForgotten'
  BY DEF NothingForgotten, Announced, StateOK
<1>5. NamesSent'
  BY DEF NamesSent, Announced, StateOK
<1> QED
  BY <1>2, <1>3, <1>4, <1>5, ChannelUntouched

LEMMA CheckKeeps ==
    ASSUME IInv, NEW t \in Task, CheckKnown(t)
    PROVE  IInv'
<1> USE DEF IInv, CheckKnown, Goto
<1>1. StateOK'
  <2>1. at' \in [Task -> Nat \ {0}]
    BY DEF StateOK
  <2>2. pc' \in [Task -> {"idle", "check", "insert", "send"}]
    BY DEF StateOK
  <2> QED
    BY <2>1, <2>2 DEF StateOK
<1>2. WorkKnown'
  BY DEF WorkKnown, StateOK, Remaining, Mapping
<1>3. NothingForgotten'
  BY DEF NothingForgotten, Announced, StateOK
<1>4. NamesSent'
  BY DEF NamesSent, Announced, StateOK
<1> QED
  BY <1>1, <1>2, <1>3, <1>4, ChannelUntouched

(* The new path is covered by the name the task now holds. *)
LEMMA InsertKeeps ==
    ASSUME IInv, NEW t \in Task, InsertKnown(t)
    PROVE  IInv'
<1> USE DEF IInv, InsertKnown, Goto
<1> DEFINE p == Mapping(t)
<1>1. p \in Path /\ BaseOf[p] \in Name
  BY MappingIsPath DEF WorkKnown
<1>2. /\ found'[t] \in Seq(Name)
      /\ ToSet(found'[t]) = ToSet(found[t]) \union {BaseOf[p]}
      /\ \A u \in Task \ {t} : found'[u] = found[u]
  <2>1. found[t] \in Seq(Name) /\ found'[t] = Append(found[t], BaseOf[p])
    BY DEF StateOK, Noted
  <2>2. /\ found'[t] \in Seq(Name) /\ Len(found'[t]) = Len(found[t]) + 1
        /\ \A i \in 1 .. Len(found[t]) : found'[t][i] = found[t][i]
        /\ found'[t][Len(found[t]) + 1] = BaseOf[p]
    <3> HIDE DEF p
    <3> QED
      BY ONLY <1>1, <2>1, AppendProperties
  <2>3. /\ DOMAIN found[t] = 1 .. Len(found[t]) /\ Len(found[t]) \in Nat
        /\ DOMAIN found'[t] = 1 .. Len(found'[t])
    BY <2>1, <2>2, LenProperties
  <2>4. ToSet(found'[t]) = ToSet(found[t]) \union {BaseOf[p]}
    <3>1. \A i \in DOMAIN found'[t] :
              found'[t][i] \in ToSet(found[t]) \union {BaseOf[p]}
      <4>1. ASSUME NEW i \in 1 .. Len(found[t]) PROVE found'[t][i] \in ToSet(found[t])
        BY <2>2, <2>3 DEF ToSet
      <4>2. \A i \in DOMAIN found'[t] :
                i \in 1 .. Len(found[t]) \/ i = Len(found[t]) + 1
        BY <2>2, <2>3
      <4> QED
        BY <2>2, <4>1, <4>2
    <3>2. /\ \A i \in DOMAIN found[t] : found[t][i] \in ToSet(found'[t])
          /\ BaseOf[p] \in ToSet(found'[t])
      BY <2>2, <2>3 DEF ToSet
    <3> QED
      BY <3>1, <3>2 DEF ToSet
  <2> QED
    BY <2>2, <2>4 DEF StateOK
<1> HIDE DEF p
<1>3. known' = known \union {p}
  BY DEF p
<1>4. StateOK'
  <2>1. found' \in [Task -> Seq(Name)]
    BY <1>2 DEF StateOK
  <2> QED
    BY <1>1, <1>3, <2>1 DEF StateOK
<1>5. WorkKnown'
  BY DEF WorkKnown, StateOK, Remaining, Mapping
<1>6. NothingForgotten'
  <2> SUFFICES ASSUME NEW q \in known'
               PROVE  \/ BaseOf[q] \in listed
                      \/ Announced(BaseOf[q])
                      \/ \E u \in Task : pc'[u] # "send" /\ BaseOf[q] \in ToSet(found'[u])
    BY DEF NothingForgotten, Announced
  <2>1. pc'[t] # "send" /\ \A u \in Task \ {t} : pc'[u] = pc[u]
    BY DEF StateOK
  <2>2. CASE q = p
    BY <1>2, <2>1, <2>2
  <2>3. CASE q \in known
    BY <1>2, <2>1, <2>3 DEF NothingForgotten
  <2> QED
    BY <1>3, <2>2, <2>3
<1>7. NamesSent'
  BY <1>2 DEF NamesSent, Announced, StateOK
<1> QED
  BY <1>4, <1>5, <1>6, <1>7, ChannelUntouched

(* What the task found is on its way before it turns to its profile. *)
LEMMA MappingsKeeps ==
    ASSUME IInv, NEW t \in Task, SendMappings(t)
    PROVE  IInv'
<1> USE DEF IInv, SendMappings, Goto
<1>1. StateOK' /\ WorkKnown' /\ NamesComeFirst'
  BY DEF StateOK, WorkKnown, Remaining, Mapping, NamesComeFirst
<1>2. /\ pc'[t] = "send" /\ UNCHANGED <<found, known, listed>>
      /\ \A u \in Task \ {t} : pc'[u] = pc[u]
  BY DEF StateOK
<1>3. CASE found[t] = <<>>
  <2>1. UNCHANGED channel /\ ToSet(found[t]) = {}
    BY <1>3 DEF ToSet
  <2>2. ChannelOK' /\ NamesAhead'
    BY <1>2, <2>1 DEF ChannelOK, NamesAhead, ListedBefore
  <2>3. NothingForgotten'
    BY <1>2, <2>1 DEF NothingForgotten, Announced
  <2>4. NamesSent'
    BY <1>2, <2>1 DEF NamesSent, Announced
  <2> QED
    BY <1>1, <2>2, <2>3, <2>4
<1>4. CASE found[t] # <<>>
  <2> DEFINE e == Discovered(found[t])
             last == Len(channel) + 1
  <2>1. e.kind = "MappingsDiscovered" /\ e.names = found[t]
    BY EventNames
  <2>2. channel' = Append(channel, e)
    BY <1>4
  <2> HIDE DEF e
  <2>3. /\ DOMAIN channel' = DOMAIN channel \union {last}
        /\ DOMAIN channel = 1 .. Len(channel) /\ Len(channel) \in Nat
        /\ \A i \in DOMAIN channel : channel'[i] = channel[i]
        /\ channel'[last] = e
        /\ \E S : channel' \in Seq(S)
    BY <2>2, Sent
  <2> HIDE DEF last
  <2>4. \A n : Announced(n)' <=> Announced(n) \/ n \in ToSet(found[t])
    BY <2>1, <2>3 DEF Announced
  <2>5. ChannelOK'
    BY <2>1, <2>3 DEF ChannelOK, StateOK
  <2>6. NamesAhead'
    BY <1>2, <2>1, <2>3 DEF NamesAhead, ListedBefore
  <2>7. NothingForgotten'
    BY <1>2, <2>4 DEF NothingForgotten
  <2>8. NamesSent'
    BY <1>2, <2>4 DEF NamesSent
  <2> QED
    BY <1>1, <2>5, <2>6, <2>7, <2>8
<1> QED
  BY <1>3, <1>4

(* A profile joins the channel after the names of its task.                 *)
LEMMA UpdateKeeps ==
    ASSUME IInv, NEW t \in Task, SendUpdate(t)
    PROVE  IInv'
<1> USE DEF IInv, SendUpdate, Goto
<1> DEFINE e == ProfileUpdate(t)
<1>1. e.kind = "ProfileUpdate" /\ e.names = found[t]
  BY EventNames
<1>2. channel' = Append(channel, e)
  OBVIOUS
<1> HIDE DEF e
<1>3. PICK last : /\ DOMAIN channel' = DOMAIN channel \union {last}
                  /\ \A i \in DOMAIN channel : i < last
                  /\ \A i \in DOMAIN channel : channel'[i] = channel[i]
                  /\ channel'[last] = e
                  /\ \E S : channel' \in Seq(S)
  <2>1. PICK last : last = Len(channel) + 1
    OBVIOUS
  <2> QED
    BY <1>2, <2>1, Sent
<1>4. /\ pc[t] = "send" /\ pc'[t] = "idle" /\ UNCHANGED <<known, listed, outrun>>
      /\ \A u \in Task \ {t} : pc'[u] = pc[u] /\ found'[u] = found[u]
  BY DEF StateOK
<1>5. \A n : Announced(n)' <=> Announced(n)
  BY <1>1, <1>3 DEF Announced
<1>6. StateOK'
  <2>1. <<>> \in Seq(Name)
    BY EmptySeq
  <2>2. found' \in [Task -> Seq(Name)]
    BY <2>1 DEF StateOK
  <2>3. at' \in [Task -> Nat \ {0}]
    BY DEF StateOK
  <2> QED
    BY <2>2, <2>3 DEF StateOK
<1>7. WorkKnown'
  BY DEF WorkKnown, StateOK, Remaining, Mapping
<1>8. ChannelOK'
  BY <1>1, <1>3 DEF ChannelOK, StateOK
<1>9. NothingForgotten'
  BY <1>4, <1>5 DEF NothingForgotten
<1>10. NamesAhead'
  <2>1. \A n \in ToSet(found[t]) : n \in listed \/ Announced(n)
    BY <1>4 DEF NamesSent
  <2>2. \A n \in ToSet(found[t]) : ListedBefore(n, last)'
    BY <1>3, <1>4, <2>1 DEF Announced, ListedBefore
  <2>3. ASSUME NEW i \in DOMAIN channel, NEW n, ListedBefore(n, i)
        PROVE  ListedBefore(n, i)'
    BY <1>3, <1>4, <2>3 DEF ListedBefore
  <2> QED
    BY <1>1, <1>3, <2>2, <2>3 DEF NamesAhead
<1>11. NamesSent'
  BY <1>4, <1>5 DEF NamesSent
<1>12. NamesComeFirst'
  BY <1>4 DEF NamesComeFirst
<1> QED
  BY <1>6, <1>7, <1>8, <1>9, <1>10, <1>11, <1>12

(* The loop lists the names of the head, or shows a profile whose names     *)
(* are listed by then.                                                      *)
LEMMA HandleKeeps ==
    ASSUME IInv, Handle
    PROVE  IInv'
<1> USE DEF IInv, Handle
<1> DEFINE e == channel[1]
<1>1. /\ 1 \in DOMAIN channel /\ Head(channel) = e
      /\ DOMAIN channel \subseteq Nat \ {0}
      /\ DOMAIN channel' = {i \in Nat \ {0} : i + 1 \in DOMAIN channel}
      /\ \A i \in DOMAIN channel' : channel'[i] = channel[i + 1]
      /\ \E S : channel' \in Seq(S)
  BY Taken
<1>2. e.names \in Seq(Name) /\ ToSet(e.names) \subseteq Name
  <2>1. e.names \in Seq(Name)
    BY <1>1 DEF ChannelOK
  <2> QED
    BY <2>1, LenProperties, ElementOfSeq DEF ToSet
<1>3. listed' = IF e.kind = "MappingsDiscovered"
                THEN listed \union ToSet(e.names) ELSE listed
  BY <1>1
<1>4. StateOK' /\ WorkKnown'
  BY <1>2, <1>3 DEF StateOK, WorkKnown, Remaining, Mapping
<1>5. ChannelOK'
  BY <1>1 DEF ChannelOK
<1>6. ASSUME NEW n, Announced(n) PROVE n \in listed' \/ Announced(n)'
  <2>1. PICK i \in DOMAIN channel : /\ channel[i].kind = "MappingsDiscovered"
                                    /\ n \in ToSet(channel[i].names)
    BY <1>6 DEF Announced
  <2>2. CASE i = 1
    BY <1>3, <2>1, <2>2
  <2>3. CASE i # 1
    <3>1. i - 1 \in DOMAIN channel' /\ channel'[i - 1] = channel[i]
      BY <1>1, <2>3
    <3> QED
      BY <2>1, <3>1 DEF Announced
  <2> QED
    BY <2>2, <2>3
<1>7. NothingForgotten' /\ NamesSent'
  BY <1>3, <1>6 DEF NothingForgotten, NamesSent
<1>8. NamesAhead'
  <2> SUFFICES ASSUME NEW i \in DOMAIN channel', channel'[i].kind = "ProfileUpdate",
                      NEW n \in ToSet(channel'[i].names)
               PROVE  ListedBefore(n, i)'
    BY DEF NamesAhead
  <2>1. ListedBefore(n, i + 1)
    BY <1>1 DEF NamesAhead
  <2>2. CASE n \in listed
    BY <1>3, <2>2 DEF ListedBefore
  <2>3. ASSUME NEW j \in DOMAIN channel, j < i + 1,
               channel[j].kind = "MappingsDiscovered", n \in ToSet(channel[j].names)
        PROVE  ListedBefore(n, i)'
    <3>1. CASE j = 1
      BY <1>3, <2>3, <3>1 DEF ListedBefore
    <3>2. CASE j # 1
      <4>1. j - 1 \in DOMAIN channel' /\ channel'[j - 1] = channel[j] /\ j - 1 < i
        BY <1>1, <2>3, <3>2
      <4> QED
        BY <2>3, <4>1 DEF ListedBefore
    <3> QED
      BY <3>1, <3>2
  <2> QED
    BY <2>1, <2>2, <2>3 DEF ListedBefore
<1>9. NamesComeFirst'
  <2>1. CASE e.kind = "MappingsDiscovered"
    BY <1>1, <2>1 DEF NamesComeFirst
  <2>2. CASE e.kind # "MappingsDiscovered"
    <3>1. outrun' = (outrun \/ ~(ToSet(e.names) \subseteq listed))
      BY <1>1, <2>2
    <3>2. ToSet(e.names) \subseteq listed
      BY <1>1, <2>2 DEF NamesAhead, ListedBefore, ChannelOK
    <3> QED
      BY <3>1, <3>2 DEF NamesComeFirst
  <2> QED
    BY <2>1, <2>2
<1> QED
  BY <1>4, <1>5, <1>7, <1>8, <1>9

----------------------------------------------------------------------------
LEMMA IInvStep == IInv /\ [Next]_vars => IInv'
<1> SUFFICES ASSUME IInv, [Next]_vars PROVE IInv'
  OBVIOUS
<1>1. CASE \E t \in Task, r \in Requests : Export(t, r)
  BY <1>1, ExportKeeps
<1>2. CASE \E t \in Task : TaskStep(t)
  BY <1>2, CheckKeeps, InsertKeeps, MappingsKeeps, UpdateKeeps DEF TaskStep
<1>3. CASE Handle
  BY <1>3, HandleKeeps
<1>4. CASE UNCHANGED vars
  BY <1>4 DEF vars, IInv, StateOK, ChannelOK, WorkKnown, Remaining, Mapping,
              NothingForgotten, Announced, NamesAhead, ListedBefore, NamesSent,
              NamesComeFirst
<1> QED
  BY <1>1, <1>2, <1>3, <1>4 DEF Next

LEMMA IInvHolds == Spec => []IInv
BY IInvInit, IInvStep, PTL DEF Spec

----------------------------------------------------------------------------
(* Variables and events have their types, for any tasks and requests. *)
THEOREM TypeCorrect == Spec => []TypeOK
<1>1. IInv => TypeOK
  BY DEF IInv, StateOK, ChannelOK, TypeOK
<1> QED
  BY <1>1, IInvHolds, PTL

(* However unknown_basenames of concurrent exports interleaves between its  *)
(* two locks, a name whose path is known is listed, on its way, or held by  *)
(* a task that will send it.                                                *)
THEOREM NoneForgotten == Spec => []NothingForgotten
<1>1. IInv => NothingForgotten
  BY DEF IInv
<1> QED
  BY <1>1, IInvHolds, PTL

(* process_export sends names first and the channel keeps order: the loop   *)
(* never shows a profile before the names found with it.                    *)
THEOREM NamesFirst == Spec => []NamesComeFirst
<1>1. IInv => NamesComeFirst
  BY DEF IInv
<1> QED
  BY <1>1, IInvHolds, PTL

----------------------------------------------------------------------------
LEMMA TimesAreCounted ==
    ASSUME NEW r \in Requests, NEW n \in ThreadsOf(r.samples)
    PROVE  ThreadTimes(r.samples)[n] <= ThreadWeights(r.samples)[n]
<1> DEFINE s == r.samples
           N == Len(s)
           chosen == {k \in DOMAIN s : ThreadOf(s, k) = n}
           kept == Kept(s) \cap chosen
           times == [k \in DOMAIN s |-> IF k \in kept THEN Times(s[k]) ELSE 0]
           weights == [k \in DOMAIN s |-> IF k \in kept THEN Value(s[k]) ELSE 0]
<1>1. /\ N \in Nat /\ DOMAIN s = 1 .. N
      /\ \A k \in 1 .. N : s[k].times \in Nat /\ s[k].sum \in Int
  OBVIOUS
<1>2. ASSUME NEW k \in 1 .. N
      PROVE  /\ Times(s[k]) \in Nat /\ Value(s[k]) \in Nat
             /\ Times(s[k]) <= Value(s[k])
  BY <1>1 DEF Times, Value, AtLeastOne
<1> HIDE DEF s, N, kept
<1>3. /\ times \in [1 .. N -> Nat] /\ weights \in [1 .. N -> Nat]
      /\ \A k \in 1 .. N : times[k] <= weights[k]
  BY <1>1, <1>2
<1>4. SumOf(times) <= SumOf(weights)
  <2> HIDE DEF times, weights
  <2> QED
    BY <1>1, <1>3, SumsCompare
<1>5. ThreadTimes(s)[n] = SumOf(times)
  <2>1. ThreadTimes(s)[n] = Total(s, {k \in DOMAIN s : TimeKey(s, k) = n}, Times)
    BY DEF ThreadTimes, s
  <2> QED
    BY <2>1, Zenon DEF Total, TimeKey, kept
<1>6. ThreadWeights(s)[n] = SumOf(weights)
  <2>1. ThreadWeights(s)[n] = Total(s, chosen, Value)
    BY DEF ThreadWeights, s
  <2> QED
    BY <2>1, Zenon DEF Total, kept
<1> QED
  BY <1>4, <1>5, <1>6 DEF s

LEMMA AgreeStep == IInv /\ TabsAgreeOnThreads /\ [Next]_vars => TabsAgreeOnThreads'
<1> SUFFICES ASSUME IInv, TabsAgreeOnThreads, [Next]_vars PROVE TabsAgreeOnThreads'
  OBVIOUS
<1>1. ASSUME UNCHANGED channel PROVE TabsAgreeOnThreads'
  BY <1>1 DEF TabsAgreeOnThreads
<1>2. ASSUME NEW e, channel' = Append(channel, e),
             e.kind = "ProfileUpdate" => \A n \in DOMAIN e.times : e.times[n] <= e.weights[n]
      PROVE  TabsAgreeOnThreads'
  BY <1>2, Sent DEF IInv, TabsAgreeOnThreads
<1>3. CASE \E t \in Task, r \in Requests : Export(t, r)
  BY <1>1, <1>3 DEF Export
<1>4. ASSUME NEW t \in Task, CheckKnown(t) \/ InsertKnown(t) PROVE TabsAgreeOnThreads'
  BY <1>1, <1>4 DEF CheckKnown, InsertKnown
<1>5. ASSUME NEW t \in Task, SendMappings(t) PROVE TabsAgreeOnThreads'
  <2>1. CASE found[t] = <<>>
    BY <1>1, <1>5, <2>1 DEF SendMappings
  <2>2. CASE found[t] # <<>>
    <3>1. channel' = Append(channel, Discovered(found[t]))
      BY <1>5, <2>2 DEF SendMappings
    <3>2. Discovered(found[t]).kind = "MappingsDiscovered"
      BY DEF Discovered
    <3> QED
      BY <1>2, <3>1, <3>2
  <2> QED
    BY <2>1, <2>2
<1>6. ASSUME NEW t \in Task, SendUpdate(t) PROVE TabsAgreeOnThreads'
  <2> DEFINE e == ProfileUpdate(t)
             samples == request[t].samples
  <2>1. request[t] \in Requests /\ channel' = Append(channel, e)
    BY <1>6 DEF SendUpdate, IInv, WorkKnown
  <2>2. e.times = ThreadTimes(samples) /\ e.weights = ThreadWeights(samples)
    BY DEF ProfileUpdate
  <2>3. DOMAIN e.times = ThreadsOf(samples)
    BY <2>2 DEF ThreadTimes
  <2>4. \A n \in DOMAIN e.times : e.times[n] <= e.weights[n]
    BY <2>1, <2>2, <2>3, TimesAreCounted
  <2> HIDE DEF e
  <2> QED
    BY <1>2, <2>1, <2>4
<1>7. CASE Handle
  <2>1. channel # <<>> /\ channel' = Tail(channel)
    BY <1>7 DEF Handle
  <2> QED
    BY <2>1, Taken DEF IInv, TabsAgreeOnThreads
<1>8. CASE UNCHANGED vars
  BY <1>1, <1>8 DEF vars
<1> QED
  BY <1>3, <1>4, <1>5, <1>6, <1>7, <1>8 DEF Next, TaskStep

(* thread_timestamps and the flame graph are keyed by the same first frame  *)
(* of the cached stack, for any samples: no thread of the Flamescope has    *)
(* more times than the flame graph has weight for it.                       *)
THEOREM TabsAgree == Spec => []TabsAgreeOnThreads
<1>1. Init => TabsAgreeOnThreads
  BY DEF Init, TabsAgreeOnThreads
<1> QED
  BY <1>1, AgreeStep, IInvHolds, PTL DEF Spec
============================================================================
