--------------------------- MODULE GeneratedModels ---------------------------
(***************************************************************************)
(* The validation an exported client runs before it calls a tool: the zod  *)
(* schema typescript.ts writes and the Pydantic models python.ts writes,   *)
(* each as what it makes of a value.  What comes out is sent to the tool.  *)
(* A value is a record of one field, its JSON type.                        *)
(***************************************************************************)
EXTENDS JsonPointer

CONSTANTS MaxZodDepth, MaxModelDepth

Rejected == [rejected |-> TRUE]

TypeOf(v) == CHOOSE t \in {"string", "number", "null", "object", "array"} : t \in DOMAIN v
IsOf(v, t) == TypeOf(v) = t \/ (t = "integer" /\ TypeOf(v) = "number" /\ v.number % 2 = 0)
InEnum(v, values) == TypeOf(v) = "string" /\ v.string \in values
OrReject(condition, v) == IF condition THEN v ELSE Rejected

\* Every part accepted, or the whole rejected.
Whole(parsed) == Rejected \notin {parsed[k] : k \in DOMAIN parsed}
ObjectOf(parsed) == OrReject(Whole(parsed), [object |-> parsed])
ArrayOf(parsed) == OrReject(Whole(parsed), [array |-> parsed])

properties(s) == IF Has(s, "properties") THEN s.properties ELSE <<>>
required(s) == IF Has(s, "required") THEN s.required ELSE {}

-----------------------------------------------------------------------------
(* typescript.ts *)

\* The first branch that accepts decides.
renderUnion(results) ==
    LET accepted == SelectSeq(results, LAMBDA r : r # Rejected)
    IN  IF accepted = <<>> THEN Rejected ELSE Head(accepted)

inferType(s) ==
    IF {"properties", "required", "additional", "closed"} \cap DOMAIN s # {} THEN <<"object">>
    ELSE IF {"items", "prefixItems"} \cap DOMAIN s # {} THEN <<"array">> ELSE <<>>

RECURSIVE zodFor(_, _, _, _)

zodArray(s, v, root, depth) ==
    LET element(i) == IF Has(s, "prefixItems") THEN s.prefixItems[i] ELSE s.items
    IN  IF TypeOf(v) # "array" THEN Rejected
        ELSE IF Has(s, "prefixItems") /\ Len(v.array) # Len(s.prefixItems) THEN Rejected
        ELSE IF ~Has(s, "prefixItems") /\ ~Has(s, "items") THEN v
        ELSE ArrayOf([i \in 1..Len(v.array) |-> zodFor(element(i), v.array[i], root, depth + 1)])

\* Undeclared keys are stripped, refused (strict) or kept (loose).
zodObject(s, v, root, depth) ==
    LET known == DOMAIN properties(s)
        keys == IF TypeOf(v) = "object" THEN DOMAIN v.object ELSE {}
        parsed(k) == IF k \in known THEN zodFor(s.properties[k], v.object[k], root, depth + 1)
                     ELSE IF known = {} /\ Has(s, "additional")
                     THEN zodFor(s.additional, v.object[k], root, depth + 1) ELSE v.object[k]
        strips == known # {} /\ ~Has(s, "additional")
    IN  IF \/ TypeOf(v) # "object"
           \/ ~(required(s) \cap known \subseteq keys)
           \/ Has(s, "closed") /\ ~(keys \subseteq known)
        THEN Rejected
        ELSE ObjectOf([k \in (IF strips THEN keys \cap known ELSE keys) |-> parsed(k)])

zodForType(type, s, v, root, depth) ==
    CASE type = "array" -> zodArray(s, v, root, depth)
      [] type = "object" -> zodObject(s, v, root, depth)
      [] OTHER -> OrReject(IsOf(v, type), v)

\* Mutant of zodFor: an integer is asked for wherever a number is.
zodForIntegers(raw, v, root, depth) ==
    LET s == normalizeSchema(raw, root)
    IN  IF TypeOf(v) = "number" THEN OrReject(v.number % 2 = 0, v)
        ELSE IF TypeOf(v) = "object" THEN zodObject(s, v, root, depth) ELSE v
\* What cannot be said in zod, and what is too deep, is let through.
zodFor(raw, v, root, depth) ==
    LET s == normalizeSchema(raw, root)
        types == IF Has(s, "type") THEN s.type ELSE inferType(s)
        deeper == IF Len(types) = 1 THEN depth ELSE depth + 1
    IN  IF depth > MaxZodDepth \/ s = None THEN v
        ELSE IF Has(s, "enum") THEN OrReject(InEnum(v, s.enum), v)
        ELSE IF Has(s, "anyOf")
        THEN renderUnion([i \in 1..Len(s.anyOf) |-> zodFor(s.anyOf[i], v, root, depth + 1)])
        ELSE IF types = <<>> THEN v
        ELSE renderUnion([i \in 1..Len(types) |-> zodForType(types[i], s, v, root, deeper)])

\* schemasFile, and the parse in the function client.ts holds for the tool.
typescriptSends(schema, v) == zodFor(schema, v, schema, 0)

-----------------------------------------------------------------------------
(* python.ts *)

\* The keywords beside a $ref are dropped; a dangling one is the empty schema.
RECURSIVE resolveLocalRef(_, _, _)
resolveLocalRef(s, root, hops) ==
    IF ~Has(s, "ref") \/ hops = MaxRefHops THEN s
    ELSE LET t == lookupRef(s.ref, root)
         IN  IF t = None \/ s.ref = "#" THEN <<>> ELSE resolveLocalRef(t, root, hops + 1)

\* Pydantic takes the branch that keeps most of the value.
smartUnion(results, v) ==
    IF v \in ToSet(results) THEN v ELSE renderUnion(results)

RECURSIVE pythonType(_, _, _, _)

\* Undeclared keys are ignored, and an optional field may be absent or None.
emitModel(s, v, root, depth) ==
    LET keys == IF TypeOf(v) = "object" THEN DOMAIN v.object \cap DOMAIN properties(s) ELSE {}
        empty(k) == v.object[k] = [null |-> TRUE] /\ k \notin required(s)
        field(k) == pythonType(s.properties[k], v.object[k], root, depth + 1)
    IN  IF TypeOf(v) # "object" \/ ~(required(s) \cap DOMAIN properties(s) \subseteq keys)
        THEN Rejected
        ELSE ObjectOf([k \in {key \in keys : ~empty(key)} |-> field(k)])

Merged(s, root) ==
    LET add(m, branch) ==
          LET part == resolveLocalRef(branch, root, 0)
          IN  [m EXCEPT !.properties = properties(part) @@ @, !.required = @ \cup required(part)]
    IN  FoldLeft(add, [type |-> <<"object">>, properties |-> <<>>, required |-> {}], s.allOf)

pythonTypeOf(type, s, v, root, depth) ==
    CASE type = "array" ->
           IF TypeOf(v) # "array" THEN Rejected
           ELSE IF ~Has(s, "items") THEN v
           ELSE ArrayOf([i \in 1..Len(v.array) |-> pythonType(s.items, v.array[i], root, depth + 1)])
      [] type = "object" ->
           IF DOMAIN properties(s) # {} THEN emitModel(s, v, root, depth)
           ELSE IF TypeOf(v) # "object" THEN Rejected
           ELSE IF ~Has(s, "additional") THEN v
           ELSE ObjectOf([k \in DOMAIN v.object |->
                             pythonType(s.additional, v.object[k], root, depth + 1)])
      [] OTHER -> OrReject(IsOf(v, type), v)

pythonType(schema, v, root, depth) ==
    LET s == resolveLocalRef(schema, root, 0)
        types == IF Has(s, "type") THEN s.type ELSE <<>>
        deeper == IF Len(types) = 1 THEN depth ELSE depth + 1
    IN  IF depth > MaxModelDepth THEN OrReject(TypeOf(v) = "object", v)
        ELSE IF Has(s, "enum") THEN OrReject(InEnum(v, s.enum), v)
        ELSE IF Has(s, "anyOf")
        THEN smartUnion([i \in 1..Len(s.anyOf) |-> pythonType(s.anyOf[i], v, root, depth + 1)], v)
        ELSE IF Has(s, "allOf") THEN pythonType(Merged(s, root), v, root, depth)
        ELSE IF types = <<>> THEN v
        ELSE smartUnion([i \in 1..Len(types) |-> pythonTypeOf(types[i], s, v, root, deeper)], v)

\* The root is made a model of the properties it states itself.
pythonSends(schema, v) == emitModel(schema, v, schema, 0)

=============================================================================
