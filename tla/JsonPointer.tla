----------------------------- MODULE JsonPointer -----------------------------
(***************************************************************************)
(* pointer.ts of schema-core: RFC 6901 pointers, and the two               *)
(* normalisations every other part reads a schema through, $ref            *)
(* resolution and the shallow flattening of allOf.                         *)
(*                                                                         *)
(* A schema is a function from the keywords it carries to their values:    *)
(* type a sequence, enum a set (const: its one member), properties a       *)
(* function, required a set, items a schema, prefixItems, anyOf (oneOf is  *)
(* read the same way) and allOf sequences, ref and defs the $ref and $defs,*)
(* closed for additionalProperties = false, additional for its schema.     *)
(* A text is a sequence of characters, a token one part of a pointer.      *)
(***************************************************************************)
EXTENDS Integers, Sequences, SequencesExt, FiniteSets, TLC

CONSTANTS MaxRefHops, MaxAllOfDepth, MaxUnionDepth

Has(s, k) == k \in DOMAIN s
\* undefined
None == [none |-> TRUE]
Get(s, k) == IF Has(s, k) THEN s[k] ELSE None
Without(s, ks) == [k \in DOMAIN s \ ks |-> s[k]]

-----------------------------------------------------------------------------
(* Syntax *)

\* String.replace of every `from`, left to right and without overlap.
RECURSIVE replaced(_, _, _)
replaced(text, from, to) ==
    IF text = <<>> THEN <<>>
    ELSE IF IsPrefix(from, text)
    THEN to \o replaced(SubSeq(text, Len(from) + 1, Len(text)), from, to)
    ELSE <<Head(text)>> \o replaced(Tail(text), from, to)

unescapeToken(token) ==
    replaced(replaced(token, <<"~", "1">>, <<"/">>), <<"~", "0">>, <<"~">>)
escapeToken(token) ==
    replaced(replaced(token, <<"~">>, <<"~", "0">>), <<"/">>, <<"~", "1">>)

formatPointer(tokens) ==
    FlattenSeq([i \in 1..Len(tokens) |-> <<"/">> \o escapeToken(tokens[i])])

\* split('/') of a text: always one part more than it has slashes.
RECURSIVE parts(_)
parts(text) ==
    IF \A i \in 1..Len(text) : text[i] # "/" THEN <<text>>
    ELSE LET at == CHOOSE i \in 1..Len(text) :
                     text[i] = "/" /\ \A j \in 1..(i - 1) : text[j] # "/"
         IN  <<SubSeq(text, 1, at - 1)>> \o parts(SubSeq(text, at + 1, Len(text)))
parsePointer(text) ==
    IF text = <<>> THEN <<>>
    ELSE LET body == parts(IF Head(text) = "/" THEN Tail(text) ELSE text)
         IN  [i \in 1..Len(body) |-> unescapeToken(body[i])]

-----------------------------------------------------------------------------
(* $ref *)

ANNOTATIONS == {"ref", "description"}

\* A ref is "#", the name of one of the root's defs, or dangling.
lookupRef(ref, root) ==
    IF root = None THEN None
    ELSE IF ref = "#" THEN root
    ELSE IF Has(root, "defs") THEN Get(root.defs, ref) ELSE None

\* Follow until a schema without a $ref; the keywords beside a $ref win over
\* those it leads to.
RECURSIVE follow(_, _, _)
follow(s, root, visited) ==
    IF s = None \/ ~Has(s, "ref") THEN s
    ELSE LET t == lookupRef(s.ref, root) IN
         IF Cardinality(visited) >= MaxRefHops \/ s.ref \in visited \/ t = None THEN None
         ELSE follow(Without(s, ANNOTATIONS) @@ t, root, visited \cup {s.ref})
resolveRef(s, root) == follow(s, root, {})

-----------------------------------------------------------------------------
(* allOf *)

Union2(s, t, k, with(_, _)) ==
    IF Has(s, k) /\ Has(t, k) THEN k :> with(s[k], t[k]) ELSE <<>>

mergeSchemas(base, extra) ==
    LET merged == Union2(base, extra, "properties", LAMBDA b, e : b @@ e)
                  @@ Union2(base, extra, "required", LAMBDA b, e : b \cup e)
                  @@ Union2(base, extra, "defs", LAMBDA b, e : b @@ e)
    IN  Without(merged @@ base @@ extra,
                {"allOf"} \cup (IF Has(base, "closed") \/ Has(extra, "closed")
                                THEN {"additional"} ELSE {}))

RECURSIVE mergeAllOf(_, _, _)
mergeAllOf(s, root, depth) ==
    IF s = None \/ ~Has(s, "allOf") THEN s
    ELSE LET add(merged, branch) ==
               LET r == mergeAllOf(resolveRef(branch, root), root, depth + 1)
               IN  IF r = None THEN merged ELSE mergeSchemas(merged, r)
         IN  FoldLeft(add, Without(s, {"allOf"}),
                      IF depth >= MaxAllOfDepth THEN <<>> ELSE s.allOf)

normalizeSchema(s, root) == mergeAllOf(resolveRef(s, root), root, 0)

-----------------------------------------------------------------------------
(* Pointer resolution *)

\* The array positions a token may name; a token of this part is a string.
IndexOf == "0" :> 1 @@ "1" :> 2

stepIntoArray(s, token) ==
    IF Has(s, "prefixItems") /\ token # "-" /\ IndexOf[token] <= Len(s.prefixItems)
    THEN s.prefixItems[IndexOf[token]]
    ELSE Get(s, "items")

RECURSIVE stepInto(_, _, _, _)
stepInto(s, token, root, depth) ==
    LET array == IF token \in DOMAIN IndexOf \cup {"-"} THEN stepIntoArray(s, token) ELSE None
        branch(found, b) ==
            LET r == normalizeSchema(b, root)
            IN  IF found # None \/ r = None THEN found ELSE stepInto(r, token, root, depth + 1)
    IN  IF Has(s, "properties") /\ Has(s.properties, token) THEN s.properties[token]
        ELSE IF array # None THEN array
        ELSE IF Has(s, "additional") THEN s.additional
        ELSE IF depth < MaxUnionDepth /\ Has(s, "anyOf") THEN FoldLeft(branch, None, s.anyOf)
        ELSE None

\* A pointer is here the sequence of its tokens.
resolvePointer(schema, pointer, root) ==
    FoldLeft(LAMBDA s, token : IF s = None THEN None
                               ELSE normalizeSchema(stepInto(s, token, root, 0), root),
             normalizeSchema(schema, root), pointer)

=============================================================================
