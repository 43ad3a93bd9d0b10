-------------------------- MODULE MCDebugInspector -------------------------
(* The debug mode for TLC, with the pages of decoded requests, next to what *)
(* the receiver makes of the same requests.  A request is named by what it  *)
(* has of each: the lines, the attribute and the mapping of one location,   *)
(* the stack of the samples, and the samples.                               *)
EXTENDS DebugPages

MCBaseOf == [s \in {"usr/bin/x", "x"} |-> "x"]

(* The store has an inlined call at one address of one mapping. *)
MCSymbols ==
    [at \in {"x", Unknown} \X {"", "0x1", "0x2"} |->
        IF at = <<"x", "0x1">> THEN <<"main", "inner">> ELSE <<>>]

Strings == <<"", "profile.frame.type", "native", "thread.name", "worker",
             "usr/bin/x", "f", "g", "unused">>

Attributes ==
    <<Attribute(0, NoValue), Attribute(1, Text("native")), Attribute(1, Text("wasm")),
      Attribute(1, TextAt(2)), Attribute(99, Text("native")), Attribute(1, NoValue),
      Attribute(3, Text("worker")), Attribute(3, Text("")), Attribute(3, TextAt(4)),
      Attribute(6, Other("1"))>>

(* The functions that exist are f, one without a name, and one whose name   *)
(* is past the strings.                                                     *)
Functions ==
    <<Function(0, 0, 0), Function(6, 7, 5), Function(0, 0, 0), Function(99, -1, 99)>>

Mappings == <<Mapping(0, <<>>), Mapping(5, <<9>>), Mapping(0, <<0>>), Mapping(-1, <<-1>>)>>

LineKinds == {<<>>, <<1>>, <<2>>, <<3>>, <<1, 3>>, <<0, 99>>, <<-1, 1>>}
TypeKinds == {<<>>, <<1>>, <<2>>, <<3, 1>>, <<4>>, <<5, 0, 99, 1>>}
MappingKinds == {-1, 0, 1, 2, 3, 99}

Locations(lines, types, mapping) ==
    <<Location(0, "", <<>>, <<>>), Location(mapping, "0x1", lines, types),
      Location(1, "0x2", <<>>, <<1>>), Location(1, "0x1", <<>>, <<1>>)>>

StackKinds == {<<>>, <<1>>, <<1, 2>>, <<2, 99, 1>>, <<-1, 1, 3>>, <<0, 1>>}

(* Samples of a stack that is not there, of one stack, of two threads.      *)
SampleKinds ==
    {<<Sample(0, <<6>>, <<"1">>), Sample(-1, <<6>>, <<>>), Sample(9, <<>>, <<>>)>>,
     <<Sample(1, <<7, 8, 6, 9>>, <<"1">>), Sample(1, <<-1, 0, 99>>, <<>>), Sample(0, <<>>, <<>>)>>}

Profile(samples) ==
    [NoProfile EXCEPT !.samples = samples, !.id = "id", !.types = << <<6, 7>> >>,
                      !.period = "1", !.format = "pprof", !.attributes = <<9>>]

Resources(samples) ==
    <<ResourceProfiles(<<Attribute("host", Text("h")), Attribute("os", TextAt(6))>>, "url",
        <<ScopeProfiles(<<>>, <<Profile(samples)>>),
          ScopeProfiles(<<Scope("scope", "")>>, <<NoProfile>>)>>)>>

RequestOf(lines, types, mapping, stack, samples) ==
    Request(<<Dictionary(Strings, Mappings, Functions, Attributes,
                         Locations(lines, types, mapping), <<<<>>, stack>>)>>,
            Resources(samples))

----------------------------------------------------------------------------
(* Three requests that come again and again: one with an inlined call, one  *)
(* without a dictionary, and one with nothing in it.                        *)
OneSample == <<Sample(1, <<6>>, <<"1">>)>>

Small ==
    Request(<<Dictionary(<<"", "f">>, <<Mapping(0, <<>>)>>,
                         <<Function(0, 0, 0), Function(1, 0, 0)>>, <<Attribute(0, NoValue)>>,
                         Locations(<<1, 2>>, <<>>, 0), <<<<>>, <<1>>>>)>>,
            <<ResourceProfiles(<<>>, "",
                <<ScopeProfiles(<<>>, <<[NoProfile EXCEPT !.samples = OneSample]>>)>>)>>)

NoDictionary == Request(<<>>, Resources(OneSample))

Empty == Request(<<>>, <<>>)

Kind == LineKinds \X TypeKinds \X MappingKinds \X StackKinds \X SampleKinds

Again == {"small", "no dictionary", "empty"}

MCRequests == {<<name>> : name \in Again} \union Kind

Message(r) ==
    IF r = <<"small">> THEN Small
    ELSE IF r = <<"no dictionary">> THEN NoDictionary
    ELSE IF r = <<"empty">> THEN Empty
    ELSE RequestOf(r[1], r[2], r[3], r[4], r[5])

MCDecoded == [r \in MCRequests |-> Message(r)]

MCLines == [r \in MCRequests |-> PatternsOf(Document(Message(r)))]

(* Requests of every kind arrive first, when nothing has happened yet; the  *)
(* three come at any time, under any keys.                                  *)
MCNext ==
    \/ \E name \in Again : NewRequest(<<name>>)
    \/ vars = <<<<>>, 0, 0, TRUE, NoSearch, FALSE>> /\ \E kind \in Kind : NewRequest(kind)
    \/ (\A k \in DOMAIN requests : requests[k] \notin Kind) /\ Key

MCSpec == Init /\ [][MCNext]_vars

----------------------------------------------------------------------------
(* The protocol definition, in Location: "the last entry represents the     *)
(* caller into which the preceding entries were inlined".  So the last line *)
(* is not marked inline.                                                    *)
CallerOutermost(dict) ==
    \A k \in DOMAIN dict.locations :
        LET lines == dict.locations[k].lines
            frames == FramesOf(dict.locations[k], dict)
        IN Len(lines) > 1 => Last(Last(frames)) # "inline"

(* The caller of an inlined call is not shown as the inlined one.           *)
CallerIsNotInlined ==
    \A k \in DOMAIN requests :
        \A d \in ToSet(Decoded[requests[k]].dictionary) : CallerOutermost(d)
============================================================================
