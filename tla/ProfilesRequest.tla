-------------------------- MODULE ProfilesRequest --------------------------
(* An export request as it is decoded, and how its messages refer to each   *)
(* other: by place in the tables of the dictionary, places counting from 0. *)
(* The first entry of a table is the zero message, which 0 refers to as     *)
(* "none".  A negative place is, cast to usize, past the end of any table.  *)
(* An optional message is a sequence of at most one; what is only shown is  *)
(* a word, "" where the field is not set, or left out, as times, links,     *)
(* address ranges and line numbers are.                                     *)
EXTENDS Integers, SequencesExt

CONSTANT BaseOf  \* what follows the last slash of each file name

ListedAt(place, table) == place >= 0 /\ place < Len(table)

At(place, table) == table[place + 1]

Unknown == "[unknown]"

----------------------------------------------------------------------------
(* Messages.  The zero message of a kind is what its fields say by default. *)

(* The kinds that are shown as they are, numbers, lists and bytes, are one. *)
AnyValue(kind, text, place) == [kind |-> kind, text |-> text, place |-> place]
Text(text) == AnyValue("string", text, 0)
TextAt(place) == AnyValue("strindex", "", place)
Other(text) == AnyValue("other", text, 0)
NoValue == AnyValue("none", "", 0)

Attribute(key, value) == [key |-> key, value |-> value]

Mapping(filename, attributes) == [filename |-> filename, attributes |-> attributes]

(* A line is the function it is in; system name and file of a function are  *)
(* strings of the table as well.                                            *)
Function(name, system, file) == [name |-> name, system |-> system, file |-> file]

Location(mapping, address, lines, attributes) ==
    [mapping |-> mapping, address |-> address, lines |-> lines,
     attributes |-> attributes]

(* A stack is a sequence of places of locations, leaf first. *)
Dictionary(strings, mappings, functions, attributes, locations, stacks) ==
    [strings |-> strings, mappings |-> mappings, functions |-> functions,
     attributes |-> attributes, locations |-> locations, stacks |-> stacks]

Sample(stack, attributes, values) ==
    [stack |-> stack, attributes |-> attributes, values |-> values]

NoProfile ==
    [id |-> "", time |-> "", duration |-> "", types |-> <<>>, period |-> "",
     dropped |-> "", format |-> "", attributes |-> <<>>, samples |-> <<>>]

Scope(name, version) == [name |-> name, version |-> version]

ScopeProfiles(scope, profiles) == [scope |-> scope, profiles |-> profiles]

ResourceProfiles(attributes, schema, scopes) ==
    [attributes |-> attributes, schema |-> schema, scopes |-> scopes]

Request(dictionary, resources) ==
    [dictionary |-> dictionary, resources |-> resources]

----------------------------------------------------------------------------
(* What a decoded message of each kind may be.  Times, sizes and counts are *)
(* words here; a value type is two references.                              *)
ValueMessage ==
    [kind: {"string", "strindex", "other", "none"}, text: STRING, place: Int]

AttributeMessage == [key: Int, value: ValueMessage]

(* Of a resource, whose attributes do not refer to a dictionary. *)
KeyValueMessage == [key: STRING, value: ValueMessage]

MappingMessage == [filename: Int, attributes: Seq(Int)]

FunctionMessage == [name: Int, system: Int, file: Int]

LocationMessage ==
    [mapping: Int, address: STRING, lines: Seq(Int), attributes: Seq(Int)]

DictionaryMessage ==
    [strings: Seq(STRING), mappings: Seq(MappingMessage),
     functions: Seq(FunctionMessage), attributes: Seq(AttributeMessage),
     locations: Seq(LocationMessage), stacks: Seq(Seq(Int))]

SampleMessage == [stack: Int, attributes: Seq(Int), values: Seq(STRING)]

ProfileMessage ==
    [id: STRING, time: STRING, duration: STRING, types: Seq(Int \X Int),
     period: STRING, dropped: STRING, format: STRING, attributes: Seq(Int),
     samples: Seq(SampleMessage)]

ScopeMessage == [name: STRING, version: STRING]

ScopeProfilesMessage == [scope: Seq(ScopeMessage), profiles: Seq(ProfileMessage)]

ResourceMessage ==
    [attributes: Seq(KeyValueMessage), schema: STRING,
     scopes: Seq(ScopeProfilesMessage)]

RequestMessage ==
    [dictionary: Seq(DictionaryMessage), resources: Seq(ResourceMessage)]

----------------------------------------------------------------------------
SamplesOf(profiles) ==
    FlattenSeq([k \in DOMAIN profiles |-> profiles[k].samples])

(* The samples of a request, in the order both programs go through them.    *)
AllSamples(request) ==
    FlattenSeq([i \in DOMAIN request.resources |->
        LET scopes == request.resources[i].scopes
        IN FlattenSeq([j \in DOMAIN scopes |-> SamplesOf(scopes[j].profiles)])])
============================================================================
