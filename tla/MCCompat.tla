------------------------------ MODULE MCCompat ------------------------------
(***************************************************************************)
(* Every small pair of schemas, grown a construct at a time, and what      *)
(* JSON Schema says of them over a universe of small values.               *)
(***************************************************************************)
EXTENDS Compat, GeneratedModels, Identifiers

CONSTANTS MaxGrowth,    \* constructs wrapped around the two schemas together
          MaxOddGrowth, \* the same, once they hold what the checker does not compare
          MaxToken      \* characters of a token put through a pointer

VARIABLES source, target, grown, odd,
          key            \* a property name, typed a character at a time

vars == <<source, target, grown, odd, key>>

-----------------------------------------------------------------------------
(* Schemas *)

Type(t) == [type |-> <<t>>]
Leaves == {<<>>, Type("string"), Type("integer"), Type("number"),
           [type |-> <<"string", "null">>], [enum |-> {"x"}], [enum |-> {"x", "y"}],
           [type |-> <<"string">>, format |-> "y"],
           [type |-> <<"integer">>, minimum |-> 2], Type("object")}

Object(s) == [type |-> <<"object">>, properties |-> [a |-> s]]
Needs(s) == Object(s) @@ [required |-> {"a"}]
Wrapped(s) == {
    Object(s), Needs(s), Needs(s) @@ [closed |-> TRUE],
    [Needs(s) EXCEPT !.properties = @ @@ [b |-> Type("string")]],
    [type |-> <<"array">>, items |-> s],
    [type |-> <<"array">>, items |-> s, minItems |-> 1],
    [type |-> <<"array">>, prefixItems |-> <<s>>],
    [anyOf |-> <<s, Type("string")>>], [anyOf |-> <<Type("integer"), s>>],
    [defs |-> [d |-> s], ref |-> "d"],
    [Object(s) EXCEPT !.properties = @ @@ [b |-> [ref |-> "#"]]]}
    \cup (IF Has(s, "type") /\ s.type = <<"object">>
          THEN {[allOf |-> <<s, [properties |-> [b |-> Type("string")], required |-> {"b"}]>>]}
          ELSE {})

\* What the checker does not compare: a bound on a number an integer feeds, the
\* elements of an array that does not describe them fed to a tuple, a required
\* key no property describes, the schema of undeclared keys, what a list gets
\* from a tuple beyond its first position, and a part that does not resolve.
Dangling == [ref |-> "gone"]
Pair(s) == [type |-> <<"array">>, prefixItems |-> <<s, Type("string")>>]
OddSources == {Type("array"), Dangling, Pair(Type("integer"))}
OddTargets == {[type |-> <<"number">>, minimum |-> 2], Dangling}
OddWrapped(s) == {Pair(s), [allOf |-> <<s, [required |-> {"b"}]>>],
                  [type |-> <<"object">>, additional |-> s]}

Init == /\ \E s \in Leaves \cup OddSources, t \in Leaves \cup OddTargets :
              /\ source = s /\ target = t
              /\ odd = (s \in OddSources \/ t \in OddTargets)
        /\ grown = 0 /\ key = <<>>
Grow == /\ key = <<>> /\ grown < (IF odd THEN MaxOddGrowth ELSE MaxGrowth)
        /\ grown' = grown + 1
GrowSource == /\ Grow
              /\ source' \in Wrapped(source)
              /\ UNCHANGED <<target, odd, key>>
GrowTarget == /\ Grow
              /\ target' \in Wrapped(target) \cup {Object(target) @@ [minProperties |-> 1]}
              /\ UNCHANGED <<source, odd, key>>
GrowOddly == /\ Grow
             /\ target' \in OddWrapped(target)
             /\ odd' = TRUE
             /\ UNCHANGED <<source, key>>
TypeKey(c) == /\ grown = 0 /\ source = <<>> /\ target = <<>> /\ Len(key) < MaxToken
              /\ key' = Append(key, c)
              /\ UNCHANGED <<source, target, grown, odd>>
Characters == {"~", "/", "0", "1", "a", "A", "_", "$", "-", "'", "\"", "\\", "nl"}
Next == \/ \E c \in Characters : TypeKey(c)
        \/ GrowSource \/ GrowTarget \/ GrowOddly
Spec == Init /\ [][Next]_vars

-----------------------------------------------------------------------------
(* Values *)

Text(s) == [string |-> s]
Number(n) == [number |-> n]
Null == [null |-> TRUE]
Scalars == {Text("x"), Text("y"), Number(0), Number(2), Number(3), Null}
Flat == UNION {{[object |-> f] : f \in [K -> {Text("x"), Number(2), Number(3)}]} :
               K \in SUBSET {"a", "b"}}
        \cup {[array |-> e] : e \in SeqOf({Text("x"), Number(2), Number(3), Null}, 2)}
Values == Scalars \cup Flat
          \cup {[object |-> [a |-> v]] : v \in Scalars \cup Flat}
          \cup {[object |-> [a |-> v, b |-> Text("x")]] : v \in Scalars \cup Flat}
          \cup {[array |-> <<v>>] : v \in Scalars \cup Flat}
          \cup {[array |-> <<v, v>>] : v \in Scalars \cup Flat}

\* The keys an object described by s may carry when it carries no undeclared one.
RECURSIVE Declared(_, _, _)
Declared(s, root, fuel) ==
    IF fuel = 0 \/ s = None THEN {}
    ELSE (IF Has(s, "properties") THEN DOMAIN s.properties ELSE {})
         \cup (IF Has(s, "ref") THEN Declared(lookupRef(s.ref, root), root, fuel - 1) ELSE {})
         \cup UNION {Declared(b, root, fuel - 1) :
                     b \in IF Has(s, "allOf") THEN ToSet(s.allOf) ELSE {}}

\* JSON Schema 2020-12.  A part nobody can resolve may be anything.  A tool that
\* declares properties of its output sends no others, so an object sent has
\* only keys its schema declares ("part": what an enclosing schema's allOf or
\* $ref adds to it).  A value taken "whole" has every position a tuple names,
\* which JSON Schema does not ask for.
RECURSIVE Valid(_, _, _, _, _)
Valid(s, v, root, mode, fuel) ==
    s # None =>
    LET in(t) == Valid(t, v, root, IF mode = "sent" THEN "part" ELSE mode, fuel - 1)
        inside(t, w) == Valid(t, w, root, IF mode = "part" THEN "sent" ELSE mode, fuel - 1)
    IN
    /\ fuel > 0
    /\ Has(s, "ref") => in(lookupRef(s.ref, root))
    /\ Has(s, "allOf") => \A b \in ToSet(s.allOf) : in(b)
    /\ Has(s, "anyOf") => \E b \in ToSet(s.anyOf) : resolveRef(b, root) # None /\ inside(b, v)
    /\ Has(s, "type") => \E t \in ToSet(s.type) : IsOf(v, t)
    /\ Has(s, "enum") => TypeOf(v) = "string" /\ v.string \in s.enum
    /\ (TypeOf(v) = "string" /\ Has(s, "format")) => v.string = s.format
    /\ (TypeOf(v) = "number" /\ Has(s, "minimum")) => v.number >= s.minimum
    /\ TypeOf(v) = "object" =>
         LET keys == DOMAIN v.object
             named == IF Has(s, "properties") THEN DOMAIN s.properties ELSE {} IN
         /\ Has(s, "required") => s.required \subseteq keys
         /\ Has(s, "minProperties") => Cardinality(keys) >= s.minProperties
         /\ \A k \in keys \cap named : inside(s.properties[k], v.object[k])
         /\ Has(s, "closed") => keys \subseteq named
         /\ Has(s, "additional") => \A k \in keys \ named : inside(s.additional, v.object[k])
         /\ (mode = "sent" /\ ~Has(s, "additional") /\ ~Has(s, "anyOf")) => keys \subseteq Declared(s, root, fuel)
    /\ TypeOf(v) = "array" =>
         LET fixed == IF Has(s, "prefixItems") THEN Len(s.prefixItems) ELSE 0 IN
         /\ Has(s, "minItems") => Len(v.array) >= s.minItems
         /\ \A i \in 1..Len(v.array) :
               IF i <= fixed THEN inside(s.prefixItems[i], v.array[i])
               ELSE Has(s, "items") => inside(s.items, v.array[i])
         /\ (mode \in {"sent", "part"} /\ fixed > 0) => Len(v.array) = fixed
         /\ (mode = "whole" /\ fixed > 0 /\ ~Has(s, "minItems")) => Len(v.array) >= fixed

Fuel == 8
Produces(v) == Valid(source, v, source, "sent", Fuel)
\* A call that gives no key the tool's schema does not declare.
Call(v) == Valid(target, v, target, "sent", Fuel)
Takes(v) == Valid(target, v, target, "taken", Fuel)
TakesWhole(v) == Valid(target, v, target, "whole", Fuel)

\* Something in value v that compat.ts takes from schema s to schema t without
\* comparing what they say of it: a part that does not resolve, a number whose
\* type has another name on either side, so that no bound is looked at, a key
\* that is required but not described, a key only the schema of undeclared ones
\* describes, what stands beside the anyOf of a target, an element the source does
\* not describe, for a tuple, and what a list gets from a tuple beyond its first
\* position.
RECURSIVE Uncompared(_, _, _, _)
Uncompared(s, t, v, fuel) ==
    LET src == normalizeSchema(s, source)
        tgt == normalizeSchema(t, target)
        inside(a, b, w) == fuel > 0 /\ Uncompared(a, b, w, fuel - 1)
        keys(schema) == IF Has(schema, "properties") THEN DOMAIN schema.properties ELSE {}
        fixed == IF Has(src, "prefixItems") THEN Len(src.prefixItems) ELSE 0
        elementOf(i) == IF i <= fixed THEN src.prefixItems[i] ELSE Get(src, "items")
    IN
    IF src = None \/ tgt = None THEN TRUE
    ELSE IF IsUnion(src)
    THEN \E b \in ToSet(src.anyOf) : Valid(b, v, source, "sent", fuel) /\ inside(b, t, v)
    ELSE IF IsUnion(tgt)
    THEN DOMAIN tgt # {"anyOf"} \/ \E b \in ToSet(tgt.anyOf) : inside(s, b, v)
    ELSE
    \/ /\ TypeOf(v) = "number" /\ Has(tgt, "minimum")
       /\ ~bothCould(src, tgt, "number") /\ ~bothCould(src, tgt, "integer")
    \/ /\ TypeOf(v) = "object"
       /\ LET given == DOMAIN v.object IN
          \/ Has(tgt, "required") /\ ~(tgt.required \subseteq keys(tgt) \cup given)
          \/ Has(tgt, "additional") /\ ~(given \subseteq keys(tgt))
          \/ \E k \in given \cap keys(src) \cap keys(tgt) :
               inside(src.properties[k], tgt.properties[k], v.object[k])
    \/ /\ TypeOf(v) = "array"
       /\ \E i \in DOMAIN v.array :
            IF Has(tgt, "prefixItems")
            THEN /\ i <= Len(tgt.prefixItems)
                 /\ elementOf(i) = None \/ inside(elementOf(i), tgt.prefixItems[i], v.array[i])
            ELSE /\ Has(tgt, "items")
                 /\ \/ i > 1 /\ i <= fixed
                    \/ elementOf(i) # None /\ inside(elementOf(i), tgt.items, v.array[i])

-----------------------------------------------------------------------------
(* Properties *)

verdict == checkConnection(source, <<>>, target, <<>>)
Fits == \A v \in Values : Produces(v) => Takes(v)

\* When a comparison finds nothing to say, every value the source may send is one
\* the target takes, whatever the limits on depth and work cut short on the way; a
\* value that is not has in it one of the seven things isSubschema does not compare
\* (Uncompared), and for those "an empty array means fully compatible"
\* (compat.ts:186) is not so.
CleanIsAssignable == verdict = {} =>
    \A v \in Values : Produces(v) => Takes(v) \/ Uncompared(source, target, v, Fuel)

\* A connection is refused only when some value the source may send is one the
\* target does not take, and a limit on depth or work that was reached never
\* refuses one.  Two refusals are of another kind: a source that may send fewer
\* elements than a tuple has positions is refused (compat.ts:543) although JSON
\* Schema takes short tuples, so what it may send is only not the whole tuple; and
\* a schema that does not resolve is refused for that, whatever is sent.
ErrorIsReal == \A e \in Errors(verdict) :
    CASE e.code = "unresolved_ref" ->
           normalizeSchema(source, source) = None \/ normalizeSchema(target, target) = None
      [] e.code = "tuple_arity_mismatch" ->
           (\A v \in Values : ~Produces(v)) \/ \E v \in Values : Produces(v) /\ ~TakesWhole(v)
      [] OTHER -> (\A v \in Values : ~Produces(v)) \/ ~Fits

\* A handle on the canvas addresses what the list of fields showed there: the
\* pointer of a field leads to its schema, or to that of another field listed
\* under the same pointer (fields.ts, listSchemaFields; pointer.ts).
\* Here and below a property of one schema is asked of it where the other has
\* not grown, which comes to every schema there is.
FieldsAddressWhatTheyName == target = <<>> =>
    LET fields == listSchemaFields(source, source)
    IN  \A i \in 1..Len(fields) : \E j \in 1..Len(fields) :
            /\ fields[j].pointer = fields[i].pointer
            /\ resolvePointer(source, fields[i].pointer, source) = fields[j].schema

\* A property whose name holds the characters pointers are made of is addressed
\* by the pointer made for it (pointer.ts, formatPointer and parsePointer).
PointersKeepTheirTokens == grown = 0 =>
    \A rest \in {<<>>, <<key>>, <<<<"/">>>>} :
        parsePointer(formatPointer(<<key>> \o rest)) = <<key>> \o rest

\* What a compiler makes of the text between two quotes, "broken" if it refuses it.
RECURSIVE Unquoted(_, _)
Unquoted(text, quote) ==
    IF text = <<>> THEN <<>>
    ELSE IF Head(text) \in {quote, "nl"} \/ text = <<"\\">> THEN <<"broken">>
    ELSE IF Head(text) = "\\"
    THEN <<IF text[2] = "n" THEN "nl" ELSE text[2]>> \o Unquoted(SubSeq(text, 3, Len(text)), quote)
    ELSE <<Head(text)>> \o Unquoted(Tail(text), quote)
Read(a) == CASE a.by = "literal" -> Unquoted(a.text, "'")
             [] a.by = "name"    -> a.text
             [] a.by = "index"   -> IF Len(a.text) > 1 /\ Head(a.text) = "0" THEN <<"broken">>
                                                                            ELSE a.text

\* The access that is generated for a pointer reads the fields the pointer names,
\* and a key in a Python literal is still that key (graph.ts,
\* pointerToAccessPath and quotePy).
AccessesReadTheirField == grown = 0 =>
    /\ \A rest \in {<<>>, <<key>>} :
         LET path == pointerToAccessPath(formatPointer(<<key>> \o rest))
         IN  [i \in DOMAIN path |-> Read(path[i])] = <<key>> \o rest
    /\ Unquoted(quotePy(key), "\"") = key

\* Whatever a tool or a property is called, what is declared for it is an
\* identifier; of a name TypeScript only sees its shape, and a Python field
\* starts with an underscore, which pydantic refuses, just for a key whose first
\* word starts with a digit (graph.ts, sanitize and words).
NamesAreLegal == grown = 0 =>
    /\ Spelled(toCamelCase(key), {"_"}) /\ Spelled(toPascalCase(key), {"_"})
    /\ isValidPyIdentifier(fieldName(key))
    /\ Head(fieldName(key)) = "_" <=>
         \E i \in DOMAIN key : /\ key[i] \in Digit
                               /\ \A j \in 1..(i - 1) : key[j] \notin Alphanumeric

\* The zod schema of an exported client lets every call the tool's own schema
\* allows through, and passes all of its fields on (typescript.ts); here and below
\* the tool is one whose schema holds nothing odd (above).
TypeScriptKeepsTheCall == (~odd /\ source = <<>>) =>
    \A v \in Values : Call(v) => typescriptSends(target, v) = v

\* So do the Pydantic models, for a tool whose input names its properties
\* itself and a call without nulls (python.ts).
RECURSIVE HoldsNull(_)
HoldsNull(v) == CASE TypeOf(v) = "null" -> TRUE
                  [] TypeOf(v) = "object" -> \E k \in DOMAIN v.object : HoldsNull(v.object[k])
                  [] TypeOf(v) = "array" -> \E i \in 1..Len(v.array) : HoldsNull(v.array[i])
                  [] OTHER -> FALSE
PythonKeepsTheCall == (~odd /\ source = <<>> /\ Has(target, "properties")) =>
    \A v \in Values : (Call(v) /\ ~HoldsNull(v)) => pythonSends(target, v) = v

=============================================================================
