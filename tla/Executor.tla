------------------------------- MODULE Executor -------------------------------
(***************************************************************************)
(* One run of a graph on the engine: POST /run, executeGraph and the       *)
(* invoker that caches one MCP connection per server.  The run walks the   *)
(* document in topological order, one tool call at a time, and streams its *)
(* progress on the response it was started by.                             *)
(*                                                                         *)
(* Each await is a pair of steps (the call leaves, the answer or a timeout *)
(* comes back), between which time passes and the browser may go away.     *)
(***************************************************************************)
EXTENDS Topology, Naturals

CONSTANTS
    Nodes, Servers, None,
    Graphs,        \* the documents a run may be given, see GraphType
    MaxSteps,      \* MAX_STEPS
    MaxRun,        \* MAX_RUN_MS, in ticks of the clock
    ConnectLimit,  \* DEFAULT_CONNECT_TIMEOUT_MS and the name lookup before it, in ticks
    CallLimit      \* DEFAULT_TOOL_CALL_TIMEOUT_MS, in ticks

Kinds == {"mcpTool", "input", "output"}
\* unsafe: the nodes with a static input under a key that must not be written
\* through.  forbidden: the edges whose target handle names such a key.
\* None: the document has no such server, or the node names no tool.  A
\* document lists each node once: the editor gives every node an id of its own.
GraphType == [nodes : Seq(Nodes), edges : Seq([source : Nodes, target : Nodes]),
              kind : [Nodes -> Kinds], server : [Nodes -> Servers \cup {None}],
              unsafe : SUBSET Nodes, forbidden : SUBSET Nat]

ASSUME ExecutorAssumption ==
    /\ None \notin Servers
    /\ Graphs \subseteq GraphType
    /\ \A g \in Graphs : \A x, y \in 1..Len(g.nodes) : g.nodes[x] = g.nodes[y] => x = y
    /\ MaxSteps \in Nat /\ MaxRun \in Nat
    /\ ConnectLimit \in Nat \ {0} /\ CallLimit \in Nat \ {0}

VARIABLES
    graph,      \* the document of this run
    order,      \* its nodes in the order they run
    pc, i,      \* where the handler is; the node of the order it is at
    failed, thrown, results,
    outputs,    \* the nodes that produced a value
    fed,        \* history: for each node called, the sources its arguments came from
    clients,    \* the invoker's connection to each server
    elapsed, waited,    \* the clock of the run; of the await it is in
    gone, aborted,      \* the browser has left; the abort signal has fired
    stream,     \* the events written to the response
    record      \* the row recordExecutionRun sent: <<>> or <<status, stepCount>>

control == <<order, pc, i, failed, thrown, results, outputs, fed>>
clock   == <<elapsed, waited>>
browser == <<gone, aborted>>
vars == <<graph, order, pc, i, failed, thrown, results, outputs, fed, clients,
          elapsed, waited, gone, aborted, stream, record>>

isTool(n) == graph.kind[n] = "mcpTool"
node == order[i]

Stream == INSTANCE RunStream WITH told <- stream
Event(t, n, s) == Stream!Event(t, n, s)
Send(e) == stream' = Append(stream, e)

Init ==
    /\ graph \in Graphs /\ order = <<>>
    /\ pc = "start" /\ i = 1
    /\ failed = FALSE /\ thrown = FALSE /\ results = <<>>
    /\ outputs = {} /\ fed = [n \in {} |-> {}]
    /\ clients = [s \in Servers |-> "none"]
    /\ elapsed = 0 /\ waited = 0
    /\ gone = FALSE /\ aborted = FALSE
    /\ stream = <<>> /\ record = <<>>

-----------------------------------------------------------------------------
(* Before the first step *)

runnable == SelectSeq(graph.nodes, isTool)
TooManySteps == Len(runnable) > MaxSteps

\* A cycle, or more tools than a run allows: thrown before anything is sent.
RefuseGraph ==
    /\ pc = "start"
    /\ stuck(graph.nodes, graph.edges) # {} \/ TooManySteps
    /\ pc' = "error" /\ thrown' = TRUE
    /\ UNCHANGED <<graph, order, i, failed, results, outputs, fed, clients, clock,
                   browser, stream, record>>

Begin ==
    /\ pc = "start"
    /\ stuck(graph.nodes, graph.edges) = {} /\ ~TooManySteps
    /\ order' = topologicalOrder(graph.nodes, graph.edges)
    /\ Send(Event("run:start", None, "none"))
    /\ pc' = "loop"
    /\ UNCHANGED <<graph, i, failed, thrown, results, outputs, fed, clients, clock,
                   browser, record>>

-----------------------------------------------------------------------------
(* The loop over the order *)

AtNode == pc = "loop" /\ i <= Len(order)

\* buildStepInput: every edge whose source has a value by now contributes.
contributing(n) == {k \in 1..Len(graph.edges) :
                      graph.edges[k].target = n /\ graph.edges[k].source \in outputs}
sources(n) == {graph.edges[k].source : k \in contributing(n)}

\* setAtPointer throws: always for a static input, for an edge only if the value
\* it carries turns out to be defined.
MayThrow(n) == n \in graph.unsafe \/ contributing(n) \cap graph.forbidden # {}
MustThrow(n) == n \in graph.unsafe

\* Input and output nodes carry values, also once a step has failed.
Boundary ==
    /\ AtNode /\ ~isTool(node)
    /\ graph.kind[node] = "output" => ~MustThrow(node)
    /\ outputs' = outputs \cup {node}
    /\ i' = i + 1
    /\ UNCHANGED <<graph, order, pc, failed, thrown, results, fed, clients, clock, browser,
                   stream, record>>

BoundaryThrows ==
    /\ AtNode /\ graph.kind[node] = "output" /\ MayThrow(node)
    /\ thrown' = TRUE /\ pc' = "dispose"
    /\ UNCHANGED <<graph, order, i, failed, results, outputs, fed, clients, clock, browser,
                   stream, record>>

\* Mutant of SkipsRest: a step after a failed one is tried all the same.
SkipsNothing == FALSE
SkipsRest == failed

Skip ==
    /\ AtNode /\ isTool(node) /\ SkipsRest
    /\ results' = Append(results, [node |-> node, status |-> "skipped"])
    /\ i' = i + 1
    /\ UNCHANGED <<graph, order, pc, failed, thrown, outputs, fed, clients, clock, browser,
                   stream, record>>

\* Mutant of Stopped: the clock is never looked at.
StoppedByAbort == aborted
Stopped == aborted \/ elapsed > MaxRun

\* Cancelled, or out of time: seen between two steps only.
Stop ==
    /\ AtNode /\ isTool(node) /\ ~SkipsRest /\ Stopped
    /\ thrown' = TRUE /\ pc' = "dispose"
    /\ UNCHANGED <<graph, order, i, failed, results, outputs, fed, clients, clock, browser,
                   stream, record>>

StepEnds(status) ==
    /\ results' = Append(results, [node |-> node, status |-> status])
    /\ failed' = (status = "failed")
    /\ outputs' = IF status = "succeeded" THEN outputs \cup {node} ELSE outputs
    /\ pc' = "loop" /\ i' = i + 1

\* The arguments cannot be built: thrown past the step that was announced.
StartUnsafe ==
    /\ AtNode /\ isTool(node) /\ ~SkipsRest /\ ~Stopped
    /\ MayThrow(node)
    /\ Send(Event("step:start", node, "none"))
    /\ thrown' = TRUE /\ pc' = "dispose"
    /\ UNCHANGED <<graph, order, i, failed, results, outputs, fed, clients, clock, browser, record>>

\* The node names a server the document does not have.
StartNowhere ==
    /\ AtNode /\ isTool(node) /\ ~SkipsRest /\ ~Stopped
    /\ ~MustThrow(node) /\ graph.server[node] = None
    /\ Send(Event("step:start", node, "none"))
    /\ pc' = "nowhere"
    /\ UNCHANGED <<graph, order, i, failed, thrown, results, outputs, fed, clients, clock,
                   browser, record>>

Cached(s) == clients[s] = "open"

StartStep ==
    /\ AtNode /\ isTool(node) /\ ~SkipsRest /\ ~Stopped
    /\ ~MustThrow(node) /\ graph.server[node] # None
    /\ Send(Event("step:start", node, "none"))
    /\ fed' = [n \in DOMAIN fed \cup {node} |-> IF n = node THEN sources(n) ELSE fed[n]]
    /\ pc' = IF Cached(graph.server[node]) THEN "call" ELSE "connect"
    /\ waited' = 0
    /\ UNCHANGED <<graph, order, i, failed, thrown, results, outputs, clients, elapsed,
                   browser, record>>

Connected ==
    /\ pc = "connect"
    /\ clients' = [clients EXCEPT ![graph.server[node]] =
                     IF @ = "none" THEN "open" ELSE "leaked"]
    /\ pc' = "call" /\ waited' = 0
    /\ UNCHANGED <<graph, order, i, failed, thrown, results, outputs, fed, elapsed, browser,
                   stream, record>>

\* A failed connection is not cached; a failed or late call keeps its client.
StepFails ==
    /\ pc \in {"nowhere", "connect", "call"}
    /\ Send(Event("step:finish", node, "failed"))
    /\ StepEnds("failed")
    /\ UNCHANGED <<graph, order, thrown, fed, clients, clock, browser, record>>

\* withTimeout: the timer rejects what the server has not answered.
\* Mutant of Expired: only the handshake is raced against a timer.
Limit == IF pc = "connect" THEN ConnectLimit ELSE CallLimit
ExpiredConnect == pc = "connect" /\ waited = Limit
Expired == pc \in {"connect", "call"} /\ waited = Limit
Pending == pc \in {"connect", "call"} /\ waited < Limit
TimesOut == Expired /\ StepFails
Nowhere == pc = "nowhere" /\ StepFails

CallReturns ==
    /\ pc = "call"
    /\ Send(Event("step:finish", node, "succeeded"))
    /\ StepEnds("succeeded")
    /\ UNCHANGED <<graph, order, thrown, fed, clients, clock, browser, record>>

LoopEnds ==
    /\ pc = "loop" /\ i > Len(order)
    /\ pc' = "dispose"
    /\ UNCHANGED <<graph, order, i, failed, thrown, results, outputs, fed, clients, clock,
                   browser, stream, record>>

-----------------------------------------------------------------------------
(* After the last step *)

\* Mutant of DisposeOn: the finally is only reached on the way out that works.
DisposeOnSuccess == ~thrown
DisposeOn == TRUE

Dispose ==
    /\ pc = "dispose"
    /\ clients' = IF DisposeOn THEN [s \in Servers |->
                       IF clients[s] = "leaked" THEN "leaked" ELSE "closed"] ELSE clients
    /\ pc' = IF thrown THEN "error" ELSE "finish"
    /\ UNCHANGED <<graph, order, i, failed, thrown, results, outputs, fed, clock, browser,
                   stream, record>>

\* Mutant of Outcome: the failed flag is not consulted.
OutcomeOfTheLoop == "succeeded"
Outcome == IF failed THEN "failed" ELSE "succeeded"

Finish ==
    /\ pc = "finish"
    /\ Send(Event("run:finish", None, Outcome))
    /\ pc' = "record"
    /\ UNCHANGED <<graph, order, i, failed, thrown, results, outputs, fed, clients, clock,
                   browser, record>>

Error ==
    /\ pc = "error"
    /\ Send(Event("run:error", None, "none"))
    /\ pc' = "record"
    /\ UNCHANGED <<graph, order, i, failed, thrown, results, outputs, fed, clients, clock,
                   browser, record>>

\* Whatever was thrown is recorded as a failure of no steps.
\* Mutant of Row: the row is made from the steps alone.
RowOfSteps == <<Outcome, Len(results)>>
Row == IF thrown THEN <<"failed", 0>> ELSE <<Outcome, Len(results)>>

\* The row is best-effort: lost, or not written for an unsaved graph.
Record ==
    /\ pc = "record"
    /\ record' \in {<<>>, Row}
    /\ pc' = "ended"
    /\ UNCHANGED <<graph, order, i, failed, thrown, results, outputs, fed, clients, clock,
                   browser, stream>>

-----------------------------------------------------------------------------
(* Time, and the browser *)

Tick ==
    /\ Pending
    /\ elapsed' = elapsed + 1 /\ waited' = waited + 1
    /\ UNCHANGED <<graph, control, clients, browser, stream, record>>

Leave ==
    /\ ~gone /\ pc # "ended"
    /\ gone' = TRUE
    /\ UNCHANGED <<graph, control, clients, clock, aborted, stream, record>>

\* request.raw emits 'close', if it had not been emitted before the listener
\* was attached.
Closed ==
    /\ gone /\ ~aborted /\ pc # "ended"
    /\ aborted' = TRUE
    /\ UNCHANGED <<graph, control, clients, clock, gone, stream, record>>

Engine ==
    \/ RefuseGraph \/ Begin \/ Boundary \/ BoundaryThrows \/ Skip \/ Stop
    \/ StartUnsafe \/ StartNowhere \/ Nowhere \/ StartStep
    \/ LoopEnds \/ Dispose \/ Finish \/ Error \/ Record

Next ==
    \/ Engine \/ TimesOut
    \/ Connected \/ StepFails \/ CallReturns   \* the MCP server, if it answers
    \/ Tick \/ Leave \/ Closed

Spec == Init /\ [][Next]_vars

\* The engine's own code runs on and its timers fire.  No server has to answer,
\* and nobody has to notice that the browser left.
FairSpec == Spec /\ WF_vars(Engine) /\ WF_vars(Tick) /\ WF_vars(TimesOut)

-----------------------------------------------------------------------------
(* Properties *)

TypeOK ==
    /\ graph \in Graphs
    /\ pc \in {"start", "loop", "connect", "call", "dispose", "finish", "error",
              "record", "ended", "nowhere"}
    /\ i \in 1..(Len(graph.nodes) + 1)
    /\ {failed, thrown, gone, aborted} \subseteq BOOLEAN
    /\ outputs \subseteq Nodes /\ DOMAIN fed \subseteq Nodes
    /\ clients \in [Servers -> {"none", "open", "leaked", "closed"}]
    /\ elapsed \in Nat /\ waited \in 0..ConnectLimit \cup 0..CallLimit

OfType(t) == {k \in 1..Len(stream) : stream[k].type = t}
Terminal == OfType("run:finish") \cup OfType("run:error")
LiveEdge(k) == Live(graph.nodes, graph.edges[k])

\* A tool is only called with a value from every node that feeds it: what failed
\* or was skipped never reaches a later tool as a missing argument
\* (executor.ts, the order and the failed flag against outputs.has).
FedByEverySource ==
    \A n \in DOMAIN fed :
        fed[n] = {graph.edges[k].source : k \in {j \in 1..Len(graph.edges) :
                     graph.edges[j].target = n /\ LiveEdge(j)}}

\* What run:finish lists: every tool of the document once, in the order they
\* run, successes first, then at most one failure, then only skipped steps; and
\* the run is called a success when all of them are (executor.ts:183-193, 265-268).
FinishListsEveryTool ==
    OfType("run:finish") # {} =>
        /\ {results[k].node : k \in 1..Len(results)} = {n \in ToSet(graph.nodes) : isTool(n)}
        /\ \A j, k \in 1..Len(results) : j < k =>
              /\ results[j].node # results[k].node
              /\ \E x, y \in 1..Len(order) :
                    x < y /\ order[x] = results[j].node /\ order[y] = results[k].node
        /\ \A k \in 1..Len(results) :
              results[k].status = "skipped" <=> k > 1 /\ results[k - 1].status # "succeeded"
        /\ \A k \in OfType("run:finish") :
              stream[k].status = "succeeded" <=>
                 \A r \in 1..Len(results) : results[r].status = "succeeded"

\* Whatever way the run ends, no connection it opened is left open, nor one that
\* was replaced by a second connection to its server (run.ts:34-38;
\* executor.ts:36, "Always called, even on failure").
NothingLeftOpen == pc = "ended" => \A s \in Servers : clients[s] \notin {"open", "leaked"}

\* The row kept of a run says what its stream said last.
RecordAgreesWithStream ==
    record # <<>> => \E k \in Terminal :
        /\ k = Len(stream)
        /\ record[1] = IF stream[k].status = "succeeded" THEN "succeeded" ELSE "failed"

\* The budget is looked at between steps: a run can outlast it by the one step
\* that was let in just before, never by two (executor.ts:196).
OverrunByOneStep == elapsed <= MaxRun + ConnectLimit + CallLimit

\* The last event, its list of results and the row tell one story of the run.
RunIsToldOnce == FinishListsEveryTool /\ RecordAgreesWithStream

\* run.ts:124: "If the browser navigates away, stop doing work for a client that
\* has gone."  Once the signal has fired no further tool is started, and no step
\* takes the run further past its budget than one step goes.
RunStopsInTime ==
    [][OverrunByOneStep' /\ (aborted => OfType("step:start")' = OfType("step:start"))]_vars

\* What is streamed is a run as its readers understand one: it opens with
\* run:start, steps do not overlap, nothing starts after a failure, and exactly
\* one run:finish or run:error comes last and agrees with the steps.
StreamSpec == Stream!Spec

=============================================================================
