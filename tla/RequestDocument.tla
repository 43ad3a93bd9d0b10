-------------------------- MODULE RequestDocument --------------------------
(* The page the debug mode renders a request into.  A line is the part of   *)
(* the page it belongs to, and its words; numbering, widths and colours are *)
(* left out, and words that say "not set" are "".                           *)
EXTENDS ProfilesRequest

CONSTANT MaxStrings  \* filled strings after which the table is cut

ASSUME DocumentAssumption == MaxStrings \in Nat \ {0}

Row(part, words) == [part |-> part, words |-> words]

Line(part, words) == <<Row(part, words)>>

Blank == Line("blank", <<>>)

Each(list, Rows(_)) == FlattenSeq([k \in DOMAIN list |-> Rows(list[k])])

(* kv_ne. *)
Filled(label, value) == IF value = "" THEN <<>> ELSE Line("field", <<label, value>>)

----------------------------------------------------------------------------
(* Dict: what the tables have for a reference. *)

Str(place, dict) ==
    IF ListedAt(place, dict.strings) THEN At(place, dict.strings) ELSE ""

GetAttr(place, dict) ==
    IF place > 0 /\ ListedAt(place, dict.attributes)
    THEN <<At(place, dict.attributes)>> ELSE <<>>

(* any_val; fmt_any_val where there is no dictionary to look in. *)
Word(value, dict) ==
    IF value.kind # "strindex" THEN value.text
    ELSE IF dict = <<>> \/ Str(value.place, dict[1]) = "" THEN "strindex"
    ELSE Str(value.place, dict[1])

AttributeWords(attribute, dict) ==
    <<Str(attribute.key, dict), Word(attribute.value, <<dict>>)>>

(* frame_info. *)
FrameInfo(location, dict) ==
    LET indices == location.attributes
        types == {k \in DOMAIN indices :
                    \E a \in ToSet(GetAttr(indices[k], dict)) :
                        /\ Str(a.key, dict) = "profile.frame.type"
                        /\ a.value.kind = "string"}
        raw == GetAttr(indices[Min(types)], dict)[1].value.text
        known == [native |-> "Native", kernel |-> "Kernel", jvm |-> "JVM",
                  cpython |-> "Python", php |-> "PHP", phpjit |-> "PHP",
                  ruby |-> "Ruby", perl |-> "Perl", v8js |-> "JS",
                  dotnet |-> ".NET", beam |-> "Beam", go |-> "Go"]
    IN IF types = {} THEN "Unknown"
       ELSE IF raw \in DOMAIN known THEN known[raw] ELSE raw

MappingName(location, dict) ==
    IF location.mapping > 0 /\ ListedAt(location.mapping, dict.mappings)
    THEN LET name == Str(At(location.mapping, dict.mappings).filename, dict)
         IN IF name = "" THEN Unknown ELSE BaseOf[name]
    ELSE Unknown

FuncName(line, dict) ==
    IF line > 0 /\ ListedAt(line, dict.functions)
    THEN LET name == Str(At(line, dict.functions).name, dict)
         IN IF name = "" THEN Unknown ELSE name
    ELSE Unknown

AttributeRows(indices, dict) ==
    Each(indices, LAMBDA i : Each(GetAttr(i, dict),
         LAMBDA a : Line("attribute", AttributeWords(a, dict))))

----------------------------------------------------------------------------
(* A table of no more than the zero entry is left out. *)
Table(title, table, rows) ==
    IF Len(table) > 1 THEN Line("title", <<title>>) \o rows \o Blank ELSE <<>>

(* Empty strings are passed over. *)
FilledRows(strings) ==
    Each(strings, LAMBDA s : IF s = "" THEN <<>> ELSE Line("string", <<s>>))

(* Mutant of StringRows: the table is cut without a word. *)
StringRowsCut(strings) ==
    LET rows == FilledRows(strings)
    IN IF Len(rows) < MaxStrings THEN rows ELSE SubSeq(rows, 1, MaxStrings)

StringRows(strings) ==
    LET rows == FilledRows(strings)
    IN IF Len(rows) < MaxStrings THEN rows
       ELSE SubSeq(rows, 1, MaxStrings) \o Line("truncated", <<>>)

MappingRows(mapping, dict) ==
    Line("mapping", <<Str(mapping.filename, dict)>>) \o Line("memory", <<>>)
        \o AttributeRows(mapping.attributes, dict)

FunctionRow(function, dict) ==
    Line("function", <<Str(function.name, dict)>> \o
        Each(<<Str(function.system, dict), Str(function.file, dict)>>,
             LAMBDA s : IF s = "" THEN <<>> ELSE <<s>>))

DictionaryRows(dict) ==
    Line("section", <<"Dictionary">>) \o Line("counts", <<>>) \o Line("counts", <<>>)
    \o Blank
    \o Table("String Table", dict.strings, StringRows(dict.strings))
    \o Table("Mapping Table", dict.mappings,
             Each(Tail(dict.mappings), LAMBDA m : MappingRows(m, dict)))
    \o Table("Attribute Table", dict.attributes,
             Each(Tail(dict.attributes),
                  LAMBDA a : Line("attribute", AttributeWords(a, dict))))
    \o Table("Function Table", dict.functions,
             Each(Tail(dict.functions), LAMBDA f : FunctionRow(f, dict)))

----------------------------------------------------------------------------
LineRow(location, k, dict) ==
    Row("frame", <<FuncName(location.lines[k], dict), FrameInfo(location, dict)>>
                     \o (IF k > 1 THEN <<"inline">> ELSE <<>>))

LocationRows(place, dict) ==
    IF ~(place > 0 /\ ListedAt(place, dict.locations)) THEN Line("invalid", <<>>)
    ELSE LET location == At(place, dict.locations)
         IN IF location.lines = <<>>
            THEN Line("frame", <<MappingName(location, dict), "+", location.address,
                                 FrameInfo(location, dict)>>)
            ELSE [k \in DOMAIN location.lines |-> LineRow(location, k, dict)]

(* Mutant of StackRows: leaf first. *)
StackRowsLeafFirst(sample, dict) ==
    IF sample.stack > 0 /\ sample.stack < Len(dict.stacks)
    THEN Each(At(sample.stack, dict.stacks), LAMBDA i : LocationRows(i, dict))
    ELSE <<>>

StackRows(sample, dict) ==
    IF sample.stack > 0 /\ sample.stack < Len(dict.stacks)
    THEN Each(Reverse(At(sample.stack, dict.stacks)), LAMBDA i : LocationRows(i, dict))
    ELSE <<>>

SampleRows(sample, dict) ==
    Line("sample", sample.values)
    \o Each(dict, LAMBDA d : AttributeRows(sample.attributes, d)
                             \o StackRows(sample, d))
    \o Blank

(* A value type is two strings of the table. *)
TypeRows(types, dict) ==
    Each(types, LAMBDA t : Line("field", <<Str(t[1], dict), Str(t[2], dict)>>))

ProfileRows(profile, dict) ==
    Line("section", <<"Profile">>)
    \o Filled("id", profile.id) \o Filled("time", profile.time)
    \o Filled("duration", profile.duration)
    \o Each(dict, LAMBDA d : TypeRows(profile.types, d))
    \o Filled("period", profile.period)
    \o Line("samples", <<>>)
    \o Filled("dropped_attributes", profile.dropped)
    \o Filled("original_format", profile.format)
    \o (IF profile.format = "" THEN <<>> ELSE Line("field", <<"original_payload">>))
    \o Each(dict, LAMBDA d : AttributeRows(profile.attributes, d))
    \o Blank
    \o (IF profile.samples = <<>> THEN <<>> ELSE Line("title", <<"Samples">>))
    \o Each(profile.samples, LAMBDA s : SampleRows(s, dict))

ScopeRows(scope) ==
    Line("title", <<"Scope">>) \o Filled("name", scope.name)
    \o Filled("version", scope.version) \o Blank

ResourceRows(resource, dict) ==
    Line("section", <<"Resource">>)
    \o Each(resource.attributes,
            LAMBDA a : Line("attribute", <<a.key, Word(a.value, <<>>)>>))
    \o Filled("schema_url", resource.schema)
    \o Blank
    \o Each(resource.scopes,
            LAMBDA s : Each(s.scope, ScopeRows)
                       \o Each(s.profiles, LAMBDA p : ProfileRows(p, dict)))

(* from_request. *)
Document(request) ==
    LET rows == Each(request.dictionary, DictionaryRows)
                \o Each(request.resources,
                        LAMBDA r : ResourceRows(r, request.dictionary))
    IN IF rows = <<>> THEN Line("empty", <<>>) ELSE rows
============================================================================
