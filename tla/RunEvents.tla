------------------------------- MODULE RunEvents -------------------------------
(***************************************************************************)
(* The ExecutionEvents of a run and the order in which they may follow     *)
(* each other on its stream.                                               *)
(***************************************************************************)
EXTENDS Naturals, Sequences

CONSTANTS Nodes, None

Event(t, n, s) == [type |-> t, node |-> n, status |-> s]

Events ==
    {Event(t, None, "none") : t \in {"run:start", "run:error"}}
    \cup {Event("run:finish", None, s) : s \in {"succeeded", "failed"}}
    \cup {Event("step:start", n, "none") : n \in Nodes}
    \cup {Event("step:finish", n, s) : n \in Nodes, s \in {"succeeded", "failed"}}

Started(t) == {t[k].node : k \in {j \in 1..Len(t) : t[j].type = "step:start"}}
HasFailed(t) == \E k \in 1..Len(t) : t[k].type = "step:finish" /\ t[k].status = "failed"

\* The events that may come after the events t.  An error may cut a run short
\* anywhere, also in the middle of a step; nothing follows it, or a finish.
Follows(t, e) ==
    LET last == t[Len(t)]
        between == last.type \in {"run:start", "step:finish"} IN
    IF t = <<>> THEN e.type \in {"run:start", "run:error"}
    ELSE \/ e.type = "step:start" /\ between /\ ~HasFailed(t) /\ e.node \notin Started(t)
         \/ e.type = "step:finish" /\ last.type = "step:start" /\ e.node = last.node
         \/ /\ e.type = "run:finish" /\ between
            /\ e.status = IF HasFailed(t) THEN "failed" ELSE "succeeded"
         \/ e.type = "run:error" /\ last.type \notin {"run:finish", "run:error"}

Over(t) == t # <<>> /\ t[Len(t)].type \in {"run:finish", "run:error"}

=============================================================================
