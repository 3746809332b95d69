----------------------------- MODULE Identifiers -----------------------------
(***************************************************************************)
(* graph.ts of codegen: what the names and the keys of a document become   *)
(* in generated code, as declarations, string literals and field accesses. *)
(* A text is a sequence of characters, of an alphabet with a letter in     *)
(* both cases, digits, and whatever the generators treat apart.            *)
(***************************************************************************)
EXTENDS JsonPointer

UpperCase == "a" :> "A" @@ "v" :> "V"
Lower == DOMAIN UpperCase
Upper == {UpperCase[c] : c \in Lower}
Digit == {"0", "1"}
Alphanumeric == Lower \cup Upper \cup Digit

\* One word that is reserved in lower case, and in Python one like True.
TS_RESERVED_WORDS == {<<"a", "a">>}
PY_RESERVED_WORDS == {<<"a", "a">>, <<"A", "a">>}
\* "value" and "Value", the names of what has none
value == <<"v">>
Value == <<"V">>

-----------------------------------------------------------------------------
(* Identifiers *)

Spelled(name, marks) ==
    /\ name # <<>> /\ Head(name) \notin Digit
    /\ ToSet(name) \subseteq Alphanumeric \cup marks
isValidTsIdentifier(name) == Spelled(name, {"_", "$"}) /\ name \notin TS_RESERVED_WORDS
isValidPyIdentifier(name) == Spelled(name, {"_"}) /\ name \notin PY_RESERVED_WORDS

Guarded(name) == IF name = <<>> \/ Head(name) \in Digit THEN <<"_">> \o name ELSE name

sanitize(name, reserved, fallback) ==
    LET legal == [i \in DOMAIN name |-> IF name[i] \in Alphanumeric \cup {"_", "$"}
                                        THEN name[i] ELSE "_"]
        out == IF Guarded(legal) \in reserved THEN Append(Guarded(legal), "_") ELSE Guarded(legal)
    IN  IF out = <<"_">> THEN fallback ELSE out
sanitizePyIdentifier(name, fallback) ==
    sanitize(replaced(name, <<"$">>, <<"_">>), PY_RESERVED_WORDS, fallback)

\* A word ends before the hump of a camel, and before the last capital of several
\* when a small letter follows it.
Hump(text, i) ==
    /\ i < Len(text) /\ text[i + 1] \in Upper
    /\ \/ text[i] \in Lower \cup Digit
       \/ text[i] \in Upper /\ i + 1 < Len(text) /\ text[i + 2] \in Lower
words(text) ==
    LET take(found, i) ==
          IF text[i] \notin Alphanumeric THEN Append(found, <<>>)
          ELSE LET longer == [found EXCEPT ![Len(found)] = Append(@, text[i])]
               IN  IF Hump(text, i) THEN Append(longer, <<>>) ELSE longer
    IN  SelectSeq(FoldLeftDomain(take, <<<<>>>>, text), LAMBDA word : word # <<>>)

LowerCase(c) == IF c \in Upper THEN CHOOSE l \in Lower : UpperCase[l] = c ELSE c
lowered(word) == [i \in DOMAIN word |-> LowerCase(word[i])]
capitalize(word) ==
    [lowered(word) EXCEPT ![1] = IF word[1] \in Lower THEN UpperCase[word[1]] ELSE word[1]]

toPascalCase(text) ==
    IF words(text) = <<>> THEN Value
    ELSE Guarded(FlattenSeq([i \in DOMAIN words(text) |-> capitalize(words(text)[i])]))
toCamelCase(text) ==
    IF words(text) = <<>> THEN value
    ELSE LET humps == [i \in DOMAIN words(text) |-> capitalize(words(text)[i])]
         IN  Guarded(FlattenSeq([humps EXCEPT ![1] = lowered(words(text)[1])]))
toSnakeCase(text) ==
    IF words(text) = <<>> THEN value
    ELSE Guarded(FlattenSeq([i \in DOMAIN words(text) |->
                    (IF i = 1 THEN <<>> ELSE <<"_">>) \o lowered(words(text)[i])]))

\* emitModel's field for a property; sanitizing never falls back on anything here.
fieldName(key) == sanitizePyIdentifier(toSnakeCase(key), value)

-----------------------------------------------------------------------------
(* Literals and accesses *)

\* "nl" is a line feed, and "n" what it is written as behind a backslash.
escapeBody(text) == replaced(replaced(text, <<"\\">>, <<"\\", "\\">>), <<"nl">>, <<"\\", "n">>)
quoteTs(text) == replaced(escapeBody(text), <<"'">>, <<"\\", "'">>)
quotePy(text) == replaced(escapeBody(text), <<"\"">>, <<"\\", "\"">>)

\* graph.ts has its own copy of the reader of pointers.
parseJsonPointer(pointer) == parsePointer(pointer)

isArrayIndexSegment(segment) ==
    /\ segment # <<>> /\ ToSet(segment) \subseteq Digit
    /\ Head(segment) = "0" => Len(segment) = 1

\* Each segment becomes .name, [index] or ['literal'].
access(segment) ==
    IF isArrayIndexSegment(segment) THEN [by |-> "index", text |-> segment]
    ELSE IF isValidTsIdentifier(segment) THEN [by |-> "name", text |-> segment]
    ELSE [by |-> "literal", text |-> quoteTs(segment)]
pointerToAccessPath(pointer) ==
    [i \in DOMAIN parseJsonPointer(pointer) |-> access(parseJsonPointer(pointer)[i])]

=============================================================================
