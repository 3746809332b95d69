----------------------------- MODULE SchemaFields -----------------------------
(***************************************************************************)
(* listSchemaFields of fields.ts: the fields of a schema a connection may  *)
(* address, each with the pointer the canvas stores for it.                *)
(***************************************************************************)
EXTENDS JsonPointer

CONSTANTS MaxFieldDepth, MaxFields

\* The children of a schema in the order they are listed: properties, the
\* element of a homogeneous array, the positions of a tuple.
Indices == <<"0", "1">>
children(s) ==
    LET keys == IF Has(s, "properties") THEN SetToSeq(DOMAIN s.properties) ELSE <<>>
        named == [i \in 1..Len(keys) |-> [token |-> keys[i], schema |-> s.properties[keys[i]],
                    required |-> Has(s, "required") /\ keys[i] \in s.required]]
        items == IF Has(s, "items")
                 THEN <<[token |-> "0", schema |-> s.items, required |-> FALSE]>> ELSE <<>>
        prefix == IF Has(s, "prefixItems")
                  THEN [i \in 1..Len(s.prefixItems) |->
                          [token |-> Indices[i], schema |-> s.prefixItems[i], required |-> TRUE]]
                  ELSE <<>>
    IN  named \o items \o prefix

\* A schema whose normal form is an object built anew, which no identity test
\* will recognise when it is met again.
Rebuilt(s, root) ==
    \/ Has(s, "allOf")
    \/ Has(s, "ref") /\ (DOMAIN s \ ANNOTATIONS # {})

\* Depth first; a schema met again on its own branch is not entered.
RECURSIVE walk(_, _, _, _, _, _)
walk(out, current, built, root, pointer, seen) ==
    LET enter(found, child) ==
          LET s == normalizeSchema(child.schema, root)
              field == [pointer |-> Append(pointer, child.token), schema |-> s,
                        required |-> child.required]
          IN  IF s = None THEN found
              ELSE walk(Append(found, field), s, Rebuilt(child.schema, root), root,
                        field.pointer, IF built THEN seen ELSE seen \cup {current})
    IN  IF Len(pointer) >= MaxFieldDepth \/ Len(out) >= MaxFields \/ (~built /\ current \in seen)
        THEN out
        ELSE FoldLeft(enter, out, children(current))

\* Mutant of listSchemaFields: a field is listed as the tool wrote it.
listSchemaFieldsFlat(schema, root) ==
    LET s == normalizeSchema(schema, root)
        kids == IF s = None THEN <<>> ELSE children(s)
    IN  [i \in 1..Len(kids) |-> [pointer |-> <<kids[i].token>>, schema |-> kids[i].schema,
                                 required |-> kids[i].required]]
listSchemaFields(schema, root) ==
    LET s == normalizeSchema(schema, root)
    IN  IF s = None THEN <<>>
        ELSE walk(<<[pointer |-> <<>>, schema |-> s, required |-> TRUE]>>,
                  s, Rebuilt(schema, root), root, <<>>, {})

=============================================================================
