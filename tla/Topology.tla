------------------------------- MODULE Topology -------------------------------
(***************************************************************************)
(* topologicalOrder of the engine's executor: Kahn's algorithm over the    *)
(* nodes and edges of a graph document, in the order the document lists    *)
(* them.  nodes is a sequence of distinct ids; an edge is a record with a  *)
(* source and a target, which may be stale (not in nodes).                 *)
(***************************************************************************)
EXTENDS Naturals, Sequences, SequencesExt

Live(nodes, e) == {e.source, e.target} \subseteq ToSet(nodes)

incoming(nodes, edges, id) ==
    {i \in 1..Len(edges) : edges[i].target = id /\ Live(nodes, edges[i])}

indegrees(nodes, edges) ==
    [id \in ToSet(nodes) |-> Cardinality(incoming(nodes, edges, id))]

\* One edge less to wait for; the last one makes the dependent ready.
ReleaseEarly(state, id) ==
    [order |-> state.order, ready |-> Append(state.ready, id),
     indegree |-> [state.indegree EXCEPT ![id] = @ - 1]]
Release(state, id) ==
    [order |-> state.order,
     ready |-> IF state.indegree[id] = 1 THEN Append(state.ready, id) ELSE state.ready,
     indegree |-> [state.indegree EXCEPT ![id] = @ - 1]]

\* What waits for nothing, in the order of the document.
Roots(nodes, indegree) ==
    LET upTo[n \in 0..Len(nodes)] ==
            IF n = 0 THEN <<>>
            ELSE IF indegree[nodes[n]] = 0 THEN Append(upTo[n - 1], nodes[n])
            ELSE upTo[n - 1]
    IN  upTo[Len(nodes)]

\* The head of the queue is next in the order; what depends on it is released,
\* once per edge and in edge order.
Shift(nodes, edges, state) ==
    LET id == Head(state.ready)
        released[n \in 0..Len(edges)] ==
            IF n = 0
            THEN [order |-> Append(state.order, id), ready |-> Tail(state.ready),
                  indegree |-> state.indegree]
            ELSE IF edges[n].source = id /\ Live(nodes, edges[n])
                 THEN Release(released[n - 1], edges[n].target)
                 ELSE released[n - 1]
    IN  released[Len(edges)]

\* The queue after as many shifts as there are nodes, or once it is empty.
Kahn(nodes, edges) ==
    LET indegree == indegrees(nodes, edges)
        after[n \in 0..Len(nodes)] ==
            IF n = 0
            THEN [order |-> <<>>, ready |-> Roots(nodes, indegree), indegree |-> indegree]
            ELSE LET s == after[n - 1] IN
                 IF s.ready = <<>> THEN s ELSE Shift(nodes, edges, s)
    IN  after[Len(nodes)]

\* <<>> stands for GraphCycleError: the nodes that never became ready.
stuck(nodes, edges) == ToSet(nodes) \ ToSet(Kahn(nodes, edges).order)
topologicalOrder(nodes, edges) ==
    IF stuck(nodes, edges) = {} THEN Kahn(nodes, edges).order ELSE <<>>

-----------------------------------------------------------------------------
(* Reference definitions *)

\* Every node once, and after the nodes feeding it.
IsOrder(order, nodes, edges) ==
    /\ order \in Seq(ToSet(nodes)) /\ ToSet(order) = ToSet(nodes)
    /\ \A x, y \in 1..Len(order) : order[x] = order[y] => x = y
    /\ \A i \in 1..Len(edges) : Live(nodes, edges[i]) =>
          \E x, y \in 1..Len(order) :
             x < y /\ order[x] = edges[i].source /\ order[y] = edges[i].target

\* The nodes some path of live edges leads back to themselves, or out of one
\* that does: those no order can place.
Unplaceable(nodes, edges) ==
    LET feeds(S) == {id \in S : \E i \in 1..Len(edges) :
                        edges[i].target = id /\ edges[i].source \in S}
        shrink[n \in 0..Len(nodes)] ==
            IF n = 0 THEN ToSet(nodes) ELSE feeds(shrink[n - 1])
    IN  shrink[Len(nodes)]

\* A run visits every node once and never before the nodes feeding it; only a
\* graph no order exists for is refused, stale edges never matter, and the nodes
\* the error names are those no order can place (executor.ts, topologicalOrder
\* and GraphCycleError).
OrdersExactlyTheAcyclic(nodes, edges) ==
    /\ stuck(nodes, edges) = Unplaceable(nodes, edges)
    /\ IF Unplaceable(nodes, edges) = {}
       THEN IsOrder(topologicalOrder(nodes, edges), nodes, edges)
       ELSE topologicalOrder(nodes, edges) = <<>>

=============================================================================
