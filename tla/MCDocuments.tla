----------------------------- MODULE MCDocuments -----------------------------
(***************************************************************************)
(* Every small document, grown edge by edge as the canvas does it, or tool *)
(* by tool: what the engine makes of it and what an export makes of it.    *)
(***************************************************************************)
EXTENDS Codegen

CONSTANTS Gone,        \* the id of a node that was deleted
          MaxEdges,    \* edges between whole values of two nodes
          MaxFields,   \* edges, when one feeds a field, is stale or is a loop
          MaxTools, ToolNames

VARIABLES edges, tools
vars == <<edges, tools>>

Nodes4 == <<"a", "b", "c", "d">>
Kinds == [a |-> "input", b |-> "mcpTool", c |-> "mcpTool", d |-> "output"]
Ids == ToSet(Nodes4) \cup {Gone}
\* "", "/0", "/a", "/a/b", "/d"
Pointers5 == <<<<>>, <<"0">>, <<"a">>, <<"a", "b">>, <<"d">>>>
Literal(pointer) == [pointer |-> pointer, expr |-> <<"literal", pointer>>]
doc == [nodes |-> Nodes4, kind |-> Kinds, edges |-> edges,
        statics |-> [b |-> <<>>, c |-> <<Literal(<<"a">>), Literal(<<"d">>)>>]]

Plain(e) == /\ e.targetHandle = <<>> /\ e.sourceHandle = <<>>
            /\ Live(Nodes4, e) /\ e.source # e.target
Connect(e) ==
    LET drawn == Append(edges, e)
    IN  /\ tools = <<>>
        /\ Len(drawn) <= IF \A i \in 1..Len(drawn) : Plain(drawn[i]) THEN MaxEdges ELSE MaxFields
        /\ LET stale == {i \in 1..Len(drawn) : ~Live(Nodes4, drawn[i])} IN
             /\ Cardinality(stale) <= 1
             /\ stale # {} => \A i \in 1..Len(drawn) : drawn[i].targetHandle = <<>>
        /\ edges' = drawn /\ UNCHANGED tools
AddTool(t) ==
    /\ edges = <<>> /\ Len(tools) < MaxTools
    /\ tools' = Append(tools, t) /\ UNCHANGED edges
Edge(s, from, t, to) == [source |-> s, sourceHandle |-> from, target |-> t, targetHandle |-> to]

Init == edges = <<>> /\ tools = <<>>
Next == \/ \E s \in Ids, t \in Ids : Connect(Edge(s, <<>>, t, <<>>))
        \/ \E s \in {"a", "b"}, t \in {"c", "d"}, to \in ToSet(Pointers5) \ {<<>>} :
              Connect(Edge(s, <<>>, t, to))
        \/ \E t \in {"c", "d"} : edges = <<>> /\ Connect(Edge("b", <<"a">>, t, <<"a">>))
        \/ \E server \in {"s1", "s2"}, name \in ToolNames : AddTool([server |-> server, name |-> name])
Spec == Init /\ [][Next]_vars

order == topologicalOrder(Nodes4, edges)
plan == topologicalSort(doc)

-----------------------------------------------------------------------------
(* An export beside a run *)

\* An export is refused exactly when a run is, naming nodes that do form a
\* cycle; otherwise it calls the tools in an order a run could take, the very
\* one it takes unless two edges join the same nodes (graph.ts,
\* topologicalSort and findCycle).
ExportRefusesWhatARunRefuses ==
    LET cycle == plan.cycle
        step(i) == [source |-> cycle[i], target |-> cycle[i + 1]]
        wires == {Wire(edges[i]) : i \in 1..Len(edges)}
    IN  /\ (cycle # <<>>) = (order = <<>>)
        /\ cycle = <<>> => IsOrder(plan.order, Nodes4, edges)
        /\ (cycle = <<>> /\ Cardinality(wires) = Len(edges)) => plan.order = order
        /\ cycle # <<>> => /\ Len(cycle) > 1 /\ cycle[1] = cycle[Len(cycle)]
                           /\ IsInjective(Tail(cycle))
                           /\ \A i \in 1..(Len(cycle) - 1) : step(i) \in wires

-----------------------------------------------------------------------------
(* The arguments *)

Fed(id) == {a.pointer : a \in ToSet(assignments(doc, id))}
Consumers == {"b", "c", "d"}
\* No value lands inside another, and none on a position of a list.
FieldsApart(id) ==
    /\ \A p \in Fed(id), q \in Fed(id) : ~StrictlyInside(p, q)
    /\ \A p \in Fed(id) : ToSet(p) \cap IndexTokens = {}
FromOutput(id) == \E i \in 1..Len(edges) : edges[i].target = id /\ edges[i].source = "d"

\* The exported program calls a tool with the arguments the engine would have
\* called it with: a field keeps its literal only until an edge feeds it, and
\* of two edges the later drawn wins (plan.ts, typescript.ts, executor.ts).
ExportSendsWhatARunSends ==
    \A id \in Consumers : FieldsApart(id) /\ ~FromOutput(id) =>
        typescriptArgs(doc, id) = buildStepInput(doc, id)

\* Both targets call a tool with the same arguments, but for what TypeScript
\* writes as a list (plan.ts, the reason there is one plan).
TargetsSendTheSame ==
    \A id \in {"b", "c"} : pythonArgs(doc, id).values = typescriptArgs(doc, id).values

\* A value two sources fight over is dropped only with a warning (graph.ts,
\* buildValueTree: dropping one silently would be the worst possible answer).
NoValueLostSilently ==
    \A id \in Consumers :
        LET built == buildValueTree(assignments(doc, id))
            sent == {built.tree[p] : p \in DOMAIN built.tree}
            fed == {a.expr : a \in ToSet(incomingEdges(doc, id))}
        IN  fed \subseteq sent \/ built.warned

\* What graph.ts says of the generated Python: a field of a model reads as the
\* same field reads in TypeScript.
PythonReadsItsModels ==
    \A id \in Consumers : \A a \in ToSet(assignments(doc, id)) : ~accessPyRaises(doc, a)

-----------------------------------------------------------------------------
(* Names *)

\* No two declarations of a generated file share a name: the functions and
\* schemas of the tools, then the variables of the steps, among which the
\* functions they call stay visible (typescript.ts, allocateNames and runFile).
NamesAreDistinct ==
    LET unique == dedupeTools(tools)
        named == allocateNames(unique)
        functions == {functionOf(unique, t) : t \in ToSet(unique)}
        variables == stepNames(unique, [i \in 1..Len(unique) |-> "x"])
    IN  /\ IsInjective(named) /\ IsInjective(variables)
        /\ ToSet(variables) \cap (functions \cup {"client", "input", "runGraph"}) = {}

=============================================================================
