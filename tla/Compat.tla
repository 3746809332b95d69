-------------------------------- MODULE Compat --------------------------------
(***************************************************************************)
(* compat.ts: whether what one tool's output schema describes may be fed   *)
(* to a field of another tool's input.  A comparison yields the issues it  *)
(* found and the work it has used up, which the whole walk shares.         *)
(* A number is counted in halves, so that 1.5 is one (3) and 1 is 2.       *)
(***************************************************************************)
EXTENDS SchemaFields

CONSTANTS MaxDepth, MaxRefBudget

issue(ctx, code, severity) == [code |-> code, severity |-> severity, path |-> ctx.path]
Error(ctx, code) == {issue(ctx, code, "error")}
Warning(ctx, code) == {issue(ctx, code, "warning")}
Errors(issues) == {i \in issues : i.severity = "error"}
WarnIf(condition, ctx, code) == IF condition THEN Warning(ctx, code) ELSE {}

Below(ctx, token) == [ctx EXCEPT !.depth = @ + 1, !.path = Append(@, token)]

IsUnion(s) == Has(s, "anyOf")
acceptsAnything(s) ==
    DOMAIN s \cap {"type", "enum", "anyOf", "properties", "required", "items", "prefixItems"} = {}

normalizeTypes(s) == IF Has(s, "type") THEN ToSet(s.type) ELSE {}
\* Mutant of typeAssignable: an integer is no number.
typeAssignableExactly(sourceType, targetType) == sourceType = targetType
typeAssignable(sourceType, targetType) ==
    sourceType = targetType \/ (sourceType = "integer" /\ targetType = "number")

-----------------------------------------------------------------------------
(* The checks of one schema, without its members *)

checkEnum(src, tgt, ctx) ==
    IF ~Has(tgt, "enum") THEN {}
    ELSE IF ~Has(src, "enum") THEN Warning(ctx, "enum_not_subset")
    ELSE IF src.enum \subseteq tgt.enum THEN {} ELSE Error(ctx, "enum_not_subset")

checkTypes(src, tgt, ctx) ==
    IF normalizeTypes(tgt) = {} THEN {}
    ELSE IF normalizeTypes(src) = {} THEN Warning(ctx, "type_mismatch")
    ELSE IF \A t \in normalizeTypes(src) : \E u \in normalizeTypes(tgt) : typeAssignable(t, u)
    THEN {} ELSE Error(ctx, "type_mismatch")

bothCould(src, tgt, t) ==
    \A types \in {normalizeTypes(src), normalizeTypes(tgt)} : types = {} \/ t \in types

\* Mutant of boundIssue: a bound that the source lacks is not looked at.
boundIssueOfBoth(ctx, src, tgt, keyword, direction) ==
    WarnIf(/\ Has(tgt, keyword) /\ Has(src, keyword)
           /\ IF direction = "min" THEN src[keyword] < tgt[keyword]
              ELSE src[keyword] > tgt[keyword],
           ctx, "constraint_not_guaranteed")
boundIssue(ctx, src, tgt, keyword, direction) ==
    WarnIf(/\ Has(tgt, keyword)
           /\ Has(src, keyword) => IF direction = "min" THEN src[keyword] < tgt[keyword]
                                  ELSE src[keyword] > tgt[keyword],
           ctx, "constraint_not_guaranteed")

checkString(src, tgt, ctx) ==
    WarnIf(Has(tgt, "format") /\ ~(Has(src, "format") /\ src.format = tgt.format), ctx, "format_mismatch")
    \cup boundIssue(ctx, src, tgt, "minLength", "min")
checkNumber(src, tgt, ctx) ==
    boundIssue(ctx, src, tgt, "minimum", "min")
    \cup boundIssue(ctx, src, tgt, "maximum", "max")
checkMinItems(src, tgt, ctx) == boundIssue(ctx, src, tgt, "minItems", "min")

checkClosed(src, tgt, ctx) ==
    LET keys == IF Has(src, "properties") THEN DOMAIN src.properties ELSE {}
    IN  WarnIf(/\ Has(tgt, "closed") /\ Has(tgt, "properties")
               /\ \/ keys \ DOMAIN tgt.properties # {}
                  \/ ~Has(src, "closed") /\ ~Has(src, "properties"),
               ctx, "additional_properties_forbidden")

checkMinProperties(src, tgt, ctx) ==
    LET sourceMin == IF Has(src, "minProperties") THEN src.minProperties
                     ELSE Cardinality(IF Has(src, "required") THEN src.required ELSE {})
    IN  WarnIf(Has(tgt, "minProperties") /\ sourceMin < tgt.minProperties,
               ctx, "constraint_not_guaranteed")

\* The source is too short for a tuple of the target.
checkArity(src, tgt, ctx) ==
    LET length == IF Has(src, "prefixItems") THEN Len(src.prefixItems) ELSE Get(src, "minItems")
        least == IF Has(tgt, "minItems") THEN tgt.minItems ELSE Len(tgt.prefixItems)
    IN  IF (Has(src, "prefixItems") \/ Has(src, "minItems")) /\ length < least
        THEN Error(ctx, "tuple_arity_mismatch") ELSE {}

-----------------------------------------------------------------------------
(* The members compared in turn: pairs of a source and a target schema *)

sourceProperty(src, key) ==
    IF Has(src, "properties") THEN Get(src.properties, key) ELSE None

checkRequired(src, tgt, ctx, key) ==
    IF ~Has(tgt, "required") \/ key \notin tgt.required THEN {}
    ELSE IF sourceProperty(src, key) = None
    THEN Error(Below(ctx, key), "missing_required_property")
    ELSE IF \/ Has(src, "required") /\ key \in src.required
            \/ normalizeSchema(sourceProperty(src, key), ctx.sourceRoot) = None
            \/ normalizeSchema(tgt.properties[key], ctx.targetRoot) = None
    THEN {} ELSE Error(Below(ctx, key), "optional_feeds_required")

propertyPairs(src, tgt) ==
    LET keys == IF Has(tgt, "properties") THEN SetToSeq(DOMAIN tgt.properties) ELSE <<>>
        shared == SelectSeq(keys, LAMBDA key : sourceProperty(src, key) # None)
    IN  [i \in 1..Len(shared) |-> [token |-> shared[i],
            source |-> src.properties[shared[i]], target |-> tgt.properties[shared[i]]]]

itemPairs(src, tgt) ==
    LET elementOf(i) == IF ~Has(src, "prefixItems") THEN Get(src, "items")
                        ELSE IF i <= Len(src.prefixItems) THEN src.prefixItems[i] ELSE None
        first == IF Has(src, "items") THEN src.items
                 ELSE IF Has(src, "prefixItems") THEN src.prefixItems[1] ELSE None
    IN  IF Has(tgt, "prefixItems")
        THEN [i \in 1..Len(tgt.prefixItems) |->
                 [token |-> Indices[i], source |-> elementOf(i), target |-> tgt.prefixItems[i]]]
        ELSE IF Has(tgt, "items")
        THEN <<[token |-> "0", source |-> first, target |-> tgt.items]>>
        ELSE <<>>

\* A homogeneous target whose source does not say what its elements are.
elementsUnknown(src, tgt, ctx) ==
    WarnIf(\E pair \in ToSet(itemPairs(src, tgt)) :
              /\ ~Has(tgt, "prefixItems")
              /\ normalizeSchema(pair.target, ctx.targetRoot) # None
              /\ normalizeSchema(pair.source, ctx.sourceRoot) = None,
           ctx, "array_item_mismatch")

(* What was found and the work used up, before and after another look. *)
Nothing(used) == [issues |-> {}, used |-> used]
Found(acc, issues) == [acc EXCEPT !.issues = @ \cup issues]
After(acc, r) == [issues |-> acc.issues \cup r.issues, used |-> r.used]

RECURSIVE isSubschema(_, _, _, _)

\* A pair either side of which does not resolve is passed over.
member(acc, s, t, ctx) ==
    IF s = None \/ t = None THEN acc ELSE After(acc, isSubschema(s, t, ctx, acc.used))
members(pairs, ctx, acc) ==
    LET next(found, pair) ==
          member(found, normalizeSchema(pair.source, ctx.sourceRoot),
                 normalizeSchema(pair.target, ctx.targetRoot), Below(ctx, pair.token))
    IN  FoldLeft(next, acc, pairs)

checkObject(src, tgt, ctx, acc) ==
    LET keys == IF Has(tgt, "properties") THEN DOMAIN tgt.properties ELSE {}
    IN  Found(members(propertyPairs(src, tgt), ctx, acc),
              UNION {checkRequired(src, tgt, ctx, key) : key \in keys}
              \cup checkClosed(src, tgt, ctx) \cup checkMinProperties(src, tgt, ctx))

\* In an array a wrong type is named after it.
renamed(r) ==
    LET named(i) == IF i.code = "type_mismatch" THEN [i EXCEPT !.code = "array_item_mismatch"] ELSE i
    IN  [r EXCEPT !.issues = {named(i) : i \in @}]
checkArray(src, tgt, ctx, acc) ==
    Found(After(acc, renamed(members(itemPairs(src, tgt), ctx, Nothing(acc.used)))),
          IF Has(tgt, "prefixItems") THEN checkArity(src, tgt, ctx)
          ELSE elementsUnknown(src, tgt, ctx) \cup checkMinItems(src, tgt, ctx))

\* Every branch of the source must fit.
checkSourceUnion(src, tgt, ctx, used) ==
    LET next(acc, branch) ==
          member(acc, normalizeSchema(branch, ctx.sourceRoot), tgt, [ctx EXCEPT !.depth = @ + 1])
    IN  FoldLeft(next, Nothing(used), src.anyOf)

\* One fitting branch of the target is enough; the first without a caveat ends
\* the search, else the least noisy one counts.
quieter(acc, r) == \A best \in acc.best : Cardinality(r.issues) < Cardinality(best)
bestOf(acc, r) ==
    [best |-> IF Errors(r.issues) = {} /\ quieter(acc, r) THEN {r.issues} ELSE acc.best,
     used |-> r.used]
ofUnion(acc, ctx) ==
    [issues |-> IF acc.best = {} THEN Error(ctx, "union_no_compatible_branch") ELSE UNION acc.best,
     used |-> acc.used]
branchOf(acc, src, t, ctx) ==
    IF acc.best = {{}} \/ t = None THEN acc
    ELSE bestOf(acc, isSubschema(src, t, [ctx EXCEPT !.depth = @ + 1], acc.used))
checkTargetUnion(src, tgt, ctx, used) ==
    LET next(acc, branch) == branchOf(acc, src, normalizeSchema(branch, ctx.targetRoot), ctx)
    IN  ofUnion(FoldLeft(next, [best |-> {}, used |-> used], tgt.anyOf), ctx)

\* One schema against one: its own checks, then its members' while the types fit.
checkScalars(src, tgt, ctx) ==
    (IF bothCould(src, tgt, "string") THEN checkString(src, tgt, ctx) ELSE {})
    \cup (IF bothCould(src, tgt, "number") \/ bothCould(src, tgt, "integer")
          THEN checkNumber(src, tgt, ctx) ELSE {})
checkMembers(src, tgt, ctx, acc) ==
    LET object(r) == IF bothCould(src, tgt, "object") THEN checkObject(src, tgt, ctx, r) ELSE r
        array(r) == IF bothCould(src, tgt, "array") THEN checkArray(src, tgt, ctx, r) ELSE r
    IN  array(object(acc))
checkPlain(src, tgt, ctx, used) ==
    LET own == [issues |-> checkEnum(src, tgt, ctx) \cup checkTypes(src, tgt, ctx), used |-> used]
    IN  IF Errors(checkTypes(src, tgt, ctx)) # {} THEN own
        ELSE Found(checkMembers(src, tgt, ctx, own), checkScalars(src, tgt, ctx))

CutShort(ctx) == Warning(ctx, "depth_limit_exceeded")

compared(src, tgt, ctx, used) ==
    IF ctx.depth >= MaxDepth \/ used >= MaxRefBudget
    THEN [issues |-> CutShort(ctx), used |-> used]
    ELSE IF src = None \/ tgt = None
    THEN [issues |-> Error(ctx, "unresolved_ref"), used |-> used + 1]
    ELSE IF acceptsAnything(tgt) THEN Nothing(used + 1)
    ELSE IF IsUnion(src) THEN checkSourceUnion(src, tgt, ctx, used + 1)
    ELSE IF IsUnion(tgt) THEN checkTargetUnion(src, tgt, ctx, used + 1)
    ELSE checkPlain(src, tgt, ctx, used + 1)
isSubschema(source, target, ctx, used) ==
    compared(normalizeSchema(source, ctx.sourceRoot), normalizeSchema(target, ctx.targetRoot),
             ctx, used)

-----------------------------------------------------------------------------
(* The verdict on a connection *)

\* Why a pointer leads nowhere: a $ref on its way that cannot be followed.
RECURSIVE hasUnresolvableRef(_, _, _)
hasUnresolvableRef(schema, pointer, root) ==
    LET current == normalizeSchema(schema, root)
    IN  \/ Has(schema, "ref") /\ resolveRef(schema, root) = None
        \/ /\ pointer # <<>> /\ current # None
           /\ Has(current, "properties") /\ Has(current.properties, Head(pointer))
           /\ hasUnresolvableRef(current.properties[Head(pointer)], Tail(pointer), root)

NotFound(schema, pointer, root) ==
    {issue([path |-> <<>>],
           IF hasUnresolvableRef(schema, pointer, root)
           THEN "unresolved_ref" ELSE "pointer_not_found", "error")}

checkConnection(sourceSchema, sourcePointer, targetSchema, targetPointer) ==
    LET source == resolvePointer(sourceSchema, sourcePointer, sourceSchema)
        target == resolvePointer(targetSchema, targetPointer, targetSchema)
    IN  IF sourceSchema = None
        THEN {issue([path |-> <<>>], "unknown_source_schema", "warning")}
        ELSE IF source = None THEN NotFound(sourceSchema, sourcePointer, sourceSchema)
        ELSE IF target = None THEN NotFound(targetSchema, targetPointer, targetSchema)
        ELSE isSubschema(source, target,
                         [sourceRoot |-> sourceSchema, targetRoot |-> targetSchema,
                          depth |-> 0, path |-> <<>>], 0).issues

=============================================================================
