----------------------------- MODULE DebugPages ----------------------------
(* The debug mode with the pages of decoded requests, next to what the      *)
(* receiver makes of the same requests.                                     *)
EXTENDS DebugInspector, ProfileResolver, RequestDocument

CONSTANT Decoded  \* what each request says

(* The patterns of a line are those among its words. *)
PatternsOf(page) == [k \in DOMAIN page |-> Pattern \intersect ToSet(page[k].words)]

(* The null string comes first ("string_table[0] must always be "" and      *)
(* present"), and what the store has for a location is a list of names.     *)
DictionaryOK(dict) ==
    /\ dict.strings = <<>> \/ dict.strings[1] = ""
    /\ \A k \in DOMAIN dict.locations :
           Symbolize(dict.locations[k], dict) \in Seq(STRING)

ASSUME PagesAssumption ==
    /\ Decoded \in [Requests -> RequestMessage]
    /\ Lines = [r \in Requests |-> PatternsOf(Document(Decoded[r]))]
    /\ \A r \in Requests :
           /\ Len(Decoded[r].dictionary) <= 1
           /\ \A k \in DOMAIN Decoded[r].dictionary :
                  DictionaryOK(Decoded[r].dictionary[k])

----------------------------------------------------------------------------
(* Reading a page: a sign for each sample, and the frames of its stack.     *)

SampleSign == <<"sample">>

(* The names the store has for a row that shows the address of native code. *)
Symbolized(words) ==
    LET names == IF Len(words) = 4 /\ words[4] = "Native"
                 THEN Symbols[words[1], words[3]] ELSE <<>>
    IN IF names = <<>> THEN <<words>>
       ELSE [k \in DOMAIN names |-> <<names[k], "Native">> \o Marked(k)]

FramesOn(row) ==
    IF row.part = "sample" THEN <<SampleSign>>
    ELSE IF row.part = "frame" THEN Symbolized(row.words)
    ELSE <<>>

(* References to the null location made references to nothing. *)
WithoutNull(stack) == [j \in DOMAIN stack |-> IF stack[j] = 0 THEN -1 ELSE stack[j]]

WithoutNulls(dict) ==
    [dict EXCEPT !.stacks = [k \in DOMAIN @ |-> WithoutNull(@[k])]]

NoNulls(request) ==
    [request EXCEPT !.dictionary = [d \in DOMAIN @ |-> WithoutNulls(@[d])]]

(* The same of the receiver: the frames of each stack but for the thread.   *)
FramesReceived(request) ==
    LET stacks == Stacks(NoNulls(request))
        Frames(k) == IF k \in DOMAIN stacks /\ stacks[k] # <<>>
                     THEN FlattenSeq(Tail(stacks[k])) ELSE <<>>
    IN FlattenSeq([k \in DOMAIN AllSamples(request) |-> <<SampleSign>> \o Frames(k)])

PagesAgree ==
    [r \in Requests |->
        Each(Document(Decoded[r]), FramesOn) = FramesReceived(Decoded[r])]

(* Both modes resolve a request alike, in code written twice: the page has  *)
(* the samples in the order the receiver takes them, and its rows of each   *)
(* are the frames of the stack, root first, with the tags, names and inline *)
(* marks the flame graph has, and addresses where it has symbols, for every *)
(* reference that is negative, past its table or to a message without a     *)
(* name.  The null location is apart: grpc.rs resolves it, the page says    *)
(* <invalid>.                                                               *)
ViewsAgree == \A k \in DOMAIN requests : PagesAgree[requests[k]]

----------------------------------------------------------------------------
(* What a page says of what it does not show. *)

NoticeOn(row) ==
    IF row.part \in {"truncated", "sample", "invalid"} THEN <<row.part>> ELSE <<>>

TooMany(strings) == Cardinality({k \in DOMAIN strings : strings[k] # ""}) >= MaxStrings

(* Of a stack, root first: one notice for each reference to nothing. *)
Missing(sample, dict) ==
    LET stack == IF HasStack(sample, dict) THEN Reverse(At(sample.stack, dict.stacks))
                 ELSE <<>>
        Notice(i) == IF i = 0 \/ ~ListedAt(i, dict.locations) THEN <<"invalid">> ELSE <<>>
    IN FlattenSeq([j \in DOMAIN stack |-> Notice(stack[j])])

NoticesDue(request) ==
    Each(request.dictionary,
         LAMBDA d : IF TooMany(d.strings) THEN <<"truncated">> ELSE <<>>)
    \o Each(AllSamples(request),
            LAMBDA s : <<"sample">> \o Each(request.dictionary, LAMBDA d : Missing(s, d)))

WordsOn(page) == UNION {ToSet(page[k].words) : k \in DOMAIN page}

(* Where a table that is cut has the strings it is left with. *)
BeforeCut(strings) ==
    {k \in DOMAIN strings : /\ strings[k] # ""
                            /\ Cardinality({j \in 1 .. k : strings[j] # ""}) <= MaxStrings}

ShowsStringsAndSamples(request) ==
    LET page == Document(request)
    IN /\ page # <<>>
       /\ Each(page, NoticeOn) = NoticesDue(request)
       /\ \A d \in ToSet(request.dictionary) : \A k \in BeforeCut(d.strings) :
              d.strings[k] \in WordsOn(page)

PagesShow == [r \in Requests |-> ShowsStringsAndSamples(Decoded[r])]

(* What a page shows of strings and samples: the filled strings of the      *)
(* dictionary up to the cut, and that it is cut if there are that many or   *)
(* more; every sample, with or without a dictionary; and below it, for      *)
(* every reference of its stack to nothing, a row that says so.  The other  *)
(* tables are no part of this: of the links a page has only the number.     *)
StringsAndSamplesShown == \A k \in DOMAIN requests : PagesShow[requests[k]]
============================================================================
