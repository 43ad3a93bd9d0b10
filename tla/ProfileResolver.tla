-------------------------- MODULE ProfileResolver --------------------------
(* How the receiver turns the samples of a request into stacks of names.    *)
(* A frame is its words: name and tag, or, where there is no name, mapping, *)
(* "+", address and tag; an inlined one ends with "inline".  A location has *)
(* several frames where calls were inlined, joined into one label.          *)
EXTENDS ProfilesRequest

CONSTANT Symbols  \* names the store has for the native code at a mapping and
                  \* an address: a sequence, empty for none

----------------------------------------------------------------------------
KeyOf(attribute, dict) ==
    IF ListedAt(attribute.key, dict.strings) THEN At(attribute.key, dict.strings)
    ELSE ""

(* Which of the references are to an attribute with the key and a text.  A  *)
(* value that refers to the string table is not a text.                     *)
Carriers(key, indices, dict) ==
    {k \in DOMAIN indices :
        /\ indices[k] # 0 /\ ListedAt(indices[k], dict.attributes)
        /\ KeyOf(At(indices[k], dict.attributes), dict) = key
        /\ At(indices[k], dict.attributes).value.kind = "string"}

TextOf(i, dict) == At(i, dict.attributes).value.text

FrameType ==
    [native |-> "Native", kernel |-> "Kernel", jvm |-> "JVM", cpython |-> "Python",
     php |-> "PHP", phpjit |-> "PHP", ruby |-> "Ruby", perl |-> "Perl",
     v8js |-> "JS", dotnet |-> ".NET", beam |-> "Beam", go |-> "Go"]

(* resolve_frame_type. *)
ResolveFrameType(location, dict) ==
    LET indices == location.attributes
        carriers == Carriers("profile.frame.type", indices, dict)
        text == TextOf(indices[Min(carriers)], dict)
    IN IF carriers = {} THEN "Unknown"
       ELSE IF text \in DOMAIN FrameType THEN FrameType[text] ELSE text

(* resolve_thread_name. *)
ResolveThreadName(sample, dict) ==
    LET indices == sample.attributes
        named == {k \in Carriers("thread.name", indices, dict) :
                      TextOf(indices[k], dict) # ""}
    IN IF named = {} THEN Unknown ELSE TextOf(indices[Min(named)], dict)

NonEmpty(place, dict) ==
    ListedAt(place, dict.strings) /\ At(place, dict.strings) # ""

(* resolve_function_name. *)
ResolveFunctionName(line, dict) ==
    IF /\ line # 0 /\ ListedAt(line, dict.functions)
       /\ NonEmpty(At(line, dict.functions).name, dict)
    THEN At(At(line, dict.functions).name, dict.strings)
    ELSE Unknown

(* resolve_mapping_filename. *)
ResolveMappingFilename(location, dict) ==
    IF /\ location.mapping # 0 /\ ListedAt(location.mapping, dict.mappings)
       /\ NonEmpty(At(location.mapping, dict.mappings).filename, dict)
    THEN BaseOf[At(At(location.mapping, dict.mappings).filename, dict.strings)]
    ELSE Unknown

----------------------------------------------------------------------------
(* Every line of a location but the first is marked. *)
Marked(k) == IF k > 1 THEN <<"inline">> ELSE <<>>

(* symbolize_native; a lookup that fails counts as one that finds nothing.  *)
Symbolize(location, dict) ==
    Symbols[ResolveMappingFilename(location, dict), location.address]

NamesOf(location, dict) ==
    [k \in DOMAIN location.lines |-> ResolveFunctionName(location.lines[k], dict)]

(* pre_resolve_locations. *)
FramesOf(location, dict) ==
    LET tag == ResolveFrameType(location, dict)
        names == IF location.lines # <<>> THEN NamesOf(location, dict)
                 ELSE IF tag = "Native" THEN Symbolize(location, dict)
                 ELSE <<>>
    IN IF names # <<>>
       THEN [k \in DOMAIN names |-> <<names[k], tag>> \o Marked(k)]
       ELSE << <<ResolveMappingFilename(location, dict), "+", location.address, tag>> >>

(* The labels of the frames of a stack, root first; a location that is not  *)
(* in the table is passed over.                                             *)
Labels(stack, dict) ==
    LET rooted == Reverse(stack)
        Label(i) == IF ListedAt(i, dict.locations)
                    THEN <<FramesOf(At(i, dict.locations), dict)>> ELSE <<>>
    IN FlattenSeq([k \in DOMAIN rooted |-> Label(rooted[k])])

HasStack(sample, dict) == sample.stack # 0 /\ ListedAt(sample.stack, dict.stacks)

(* stack_cache: the first sample of a stack in the request names the thread *)
(* that goes in front of it.                                                *)
FirstOf(stack, samples) ==
    samples[CHOOSE k \in DOMAIN samples :
                /\ samples[k].stack = stack
                /\ \A j \in 1 .. k - 1 : samples[j].stack # stack]

(* The stack process_export hands to add_stack for each sample, empty where *)
(* it hands over none; without a dictionary, none for any.                  *)
Stacks(request) ==
    LET samples == AllSamples(request)
        StackOf(sample, dict) ==
            IF HasStack(sample, dict)
            THEN << <<ResolveThreadName(FirstOf(sample.stack, samples), dict)>> >>
                     \o Labels(At(sample.stack, dict.stacks), dict)
            ELSE <<>>
    IN IF request.dictionary = <<>> THEN <<>>
       ELSE [k \in DOMAIN samples |-> StackOf(samples[k], request.dictionary[1])]
============================================================================
