------------------------------- MODULE Codegen -------------------------------
(***************************************************************************)
(* The code generators: plan.ts flattens a graph document into the steps   *)
(* of a straight-line program, which typescript.ts and python.ts spell.    *)
(* A document is a record of its nodes (ids in order), their kind, edges   *)
(* (source, sourceHandle, target, targetHandle) and statics (per node, the *)
(* literals typed into its fields).  A pointer is the sequence of its      *)
(* tokens; an argument object is a function from the pointers something is *)
(* written to to what is written there.                                    *)
(***************************************************************************)
EXTENDS Topology, TLC

CONSTANTS PointerOrder,  \* every pointer, in the order of their texts
          IndexTokens    \* the tokens that are array positions

-----------------------------------------------------------------------------
(* graph.ts: the order *)

Wire(e) == [source |-> e.source, target |-> e.target]

\* Two edges between a pair of nodes count once.
Deduped(edges) ==
    FoldLeft(LAMBDA seen, e : IF Wire(e) \in ToSet(seen) THEN seen ELSE Append(seen, Wire(e)),
             <<>>, edges)

Position(s, id) == CHOOSE i \in 1..Len(s) : s[i] = id

outgoingOf(nodes, edges, id) ==
    LET from == SelectSeq(edges, LAMBDA e : e.source = id /\ Live(nodes, e))
    IN  [i \in 1..Len(from) |-> from[i].target]

\* Depth first through the nodes Kahn's algorithm could not drain, until a
\* node on the stack is met again.
RECURSIVE walk(_, _, _, _)
visit(search, id, unresolved, outgoing) ==
    LET meet(s, n) ==
          IF s.found # <<>> \/ n \notin unresolved THEN s
          ELSE IF n \in ToSet(s.stack)
          THEN [s EXCEPT !.found = SubSeq(s.stack, Position(s.stack, n), Len(s.stack)) \o <<n>>]
          ELSE IF n \in s.visited THEN s ELSE walk(s, n, unresolved, outgoing)
    IN  FoldLeft(meet, [search EXCEPT !.visited = @ \cup {id}, !.stack = Append(@, id)],
                 outgoing[id])
walk(search, id, unresolved, outgoing) ==
    LET left == visit(search, id, unresolved, outgoing)
    IN  IF left.found # <<>> THEN left ELSE [left EXCEPT !.stack = Front(@)]

findCycle(nodes, unresolved, outgoing) ==
    FoldLeft(LAMBDA s, id : IF s.found # <<>> \/ id \notin unresolved \ s.visited THEN s
                            ELSE walk(s, id, unresolved, outgoing),
             [visited |-> {}, stack |-> <<>>, found |-> <<>>], nodes).found

topologicalSort(doc) ==
    LET edges == Deduped(doc.edges)
        end == Kahn(doc.nodes, edges)
        outgoing == [id \in ToSet(doc.nodes) |-> outgoingOf(doc.nodes, edges, id)]
        unresolved == {id \in ToSet(doc.nodes) : end.indegree[id] > 0}
    IN  [order |-> end.order,
         cycle |-> IF Len(end.order) = Len(doc.nodes) THEN <<>>
                   ELSE findCycle(doc.nodes, unresolved, outgoing)]

-----------------------------------------------------------------------------
(* plan.ts: what feeds which field *)

FromEdge(e) == [pointer |-> e.targetHandle, expr |-> <<e.source, e.sourceHandle>>]

\* The edges that count: both ends there, not into an input, not out of an output.
Carries(doc, e) ==
    /\ Live(doc.nodes, e)
    /\ doc.kind[e.target] # "input" /\ doc.kind[e.source] # "output"
incomingEdges(doc, id) ==
    LET fed == SelectSeq(doc.edges, LAMBDA e : e.target = id /\ Carries(doc, e))
    IN  [i \in 1..Len(fed) |-> FromEdge(fed[i])]

sortAssignments(assignments) ==
    FlattenSeq([i \in 1..Len(PointerOrder) |->
        SelectSeq(assignments, LAMBDA a : a.pointer = PointerOrder[i])])

staticsOf(doc, id) == IF doc.kind[id] = "mcpTool" THEN doc.statics[id] ELSE <<>>

\* Mutant of assignments: a literal stays beside the edge on its field.
assignmentsKeepingLiterals(doc, id) ==
    sortAssignments(incomingEdges(doc, id) \o staticsOf(doc, id))
\* An edge beats a literal on the same field.
assignments(doc, id) ==
    LET fed == {a.pointer : a \in ToSet(incomingEdges(doc, id))}
        kept == SelectSeq(staticsOf(doc, id), LAMBDA a : a.pointer \notin fed)
    IN  sortAssignments(kept \o incomingEdges(doc, id))

-----------------------------------------------------------------------------
(* What each target makes of the assignments to one node *)

StrictlyInside(p, q) == IsPrefix(q, p) /\ p # q
Restricted(f, S) == [p \in DOMAIN f \cap S |-> f[p]]

\* Mutant of buildValueTree: only a field fed twice is mentioned.
buildValueTreeQuietly(entries) ==
    FoldLeft(LAMBDA t, e :
               [tree |-> Restricted(t.tree, {p \in DOMAIN t.tree :
                            ~IsPrefix(p, e.pointer) /\ ~IsPrefix(e.pointer, p)})
                         @@ (e.pointer :> e.expr),
                warned |-> t.warned \/ e.pointer \in DOMAIN t.tree],
             [tree |-> <<>>, warned |-> FALSE], entries)
\* A later entry drops what lies inside it and what it lies inside of, and says so.
buildValueTree(entries) ==
    LET add(t, e) ==
          LET clash == {p \in DOMAIN t.tree : IsPrefix(p, e.pointer) \/ IsPrefix(e.pointer, p)}
          IN  [tree |-> Restricted(t.tree, DOMAIN t.tree \ clash) @@ (e.pointer :> e.expr),
               warned |-> t.warned \/ clash # {}]
    IN  FoldLeft(add, [tree |-> <<>>, warned |-> FALSE], entries)

\* The branches every key of which is a position: renderTree writes a list.
Branches(tree) == UNION {{SubSeq(p, 1, n) : n \in 0..(Len(p) - 1)} : p \in DOMAIN tree}
isArrayBranch(tree, b) ==
    \A p \in DOMAIN tree : StrictlyInside(p, b) => p[Len(b) + 1] \in IndexTokens
renderTree(tree) ==
    [values |-> tree, lists |-> {b \in Branches(tree) : isArrayBranch(tree, b)}]

\* python.ts: every expression is kept, and a node with children renders them.
insertArg(args, a) == (a.pointer :> a.expr) @@ args
renderArgs(args) ==
    [values |-> Restricted(args, {p \in DOMAIN args :
                   \A q \in DOMAIN args : ~StrictlyInside(q, p)}),
     lists |-> {}]

\* accessPy reads a field with .get, which the models client.py returns lack.
accessPyRaises(doc, a) ==
    \E id \in ToSet(doc.nodes), field \in ToSet(PointerOrder) \ {<<>>} :
        doc.kind[id] = "mcpTool" /\ a.expr = <<id, field>>

typescriptArgs(doc, id) == renderTree(buildValueTree(assignments(doc, id)).tree)
pythonArgs(doc, id) == renderArgs(FoldLeft(insertArg, <<>>, assignments(doc, id)))

\* The engine writes the literals, then the edges in document order; a value
\* written inside another is laid over it.
setAtPointer(args, a) ==
    Restricted(args, {p \in DOMAIN args : ~IsPrefix(a.pointer, p)}) @@ (a.pointer :> a.expr)
buildStepInput(doc, id) ==
    LET fed == SelectSeq(doc.edges, LAMBDA e : e.target = id /\ Live(doc.nodes, e))
    IN  [values |-> FoldLeft(setAtPointer, <<>>,
                             staticsOf(doc, id) \o [i \in 1..Len(fed) |-> FromEdge(fed[i])]),
         lists |-> {}]

-----------------------------------------------------------------------------
(* Names *)

RECURSIVE firstFree(_, _, _)
firstFree(base, counter, taken) ==
    LET name == base \o ToString(counter)
    IN  IF name \in taken THEN firstFree(base, counter + 1, taken) ELSE name
uniqueName(base, taken) ==
    IF base \notin taken THEN base ELSE firstFree(base, 2, taken)

Allocate(names, bases) ==
    FoldLeft(LAMBDA s, base : LET n == uniqueName(base, s.taken)
                              IN  [taken |-> s.taken \cup {n}, given |-> Append(s.given, n)],
             names, bases)

dedupeTools(tools) ==
    FoldLeft(LAMBDA out, t : IF t \in ToSet(out) THEN out ELSE Append(out, t), <<>>, tools)

\* client.ts: a function and a schema for each tool, by the camel case of its
\* name; the functions are every other one of the names given.
allocateNames(tools) ==
    Allocate([taken |-> {"runGraph", "client", "input"}, given |-> <<>>],
             FlattenSeq([i \in 1..Len(tools) |->
                 <<tools[i].name, tools[i].name \o "InputSchema">>])).given
functionOf(tools, t) == allocateNames(tools)[2 * Position(tools, t) - 1]

\* run.ts: the arguments and the result of each step, by its label.
stepNames(tools, labels) ==
    Allocate([taken |-> {"client", "input", "runGraph"}
                        \cup {functionOf(tools, t) : t \in ToSet(tools)},
              given |-> <<>>],
             FlattenSeq([i \in 1..Len(labels) |->
                 <<labels[i] \o "Args", labels[i] \o "Result">>])).given

=============================================================================
