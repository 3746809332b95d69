------------------------------- MODULE Editor -------------------------------
(***************************************************************************)
(* One saved graph, its history, and the editors that have it open: tabs   *)
(* of one account or of members of one workspace.  An editor works on a    *)
(* copy of the whole document (useGraphEditor), writes it back a moment    *)
(* after each edit or when asked to, and does not look at what others have *)
(* written since; the table keeps every document that was replaced.        *)
(*                                                                         *)
(* Node ids stand for makeId's, fresh when taken.  Whether an output fits  *)
(* an input is the compatibility checker's answer (Compat); here it is a   *)
(* relation between tools.                                                 *)
(***************************************************************************)
EXTENDS Naturals, Sequences, FiniteSets

CONSTANTS Editors, Ids, Servers, Tools,
          ServerOf,      \* [Tools -> Servers]
          Fits,          \* the pairs <<source tool, target tool>> that type-check
          Outputs,       \* fields of a tool's output
          Pointers,      \* fields of a tool's input
          Existing,      \* what the table may hold to begin with
          MaxNodes,      \* the most nodes graphDocumentSchema accepts
          MaxEdits,      \* bound: what the users do, edits and saves, together
          Deleted

VARIABLES graph,     \* graphs.graph_json, or Deleted
          versions,  \* graph_versions of it, oldest first
          editor,    \* the state of each editor
          hidden,    \* the editors whose account has lost its access
          edits      \* how much the users did, for the bound
editorVars == <<graph, versions, editor, hidden, edits>>

Node == [tool : Tools, static : SUBSET Pointers]
Edge == [source : Ids, sourceHandle : Outputs, target : Ids, targetHandle : Pointers]
ToolGraphDocument ==
  [nodes : UNION {[S -> Node] : S \in SUBSET Ids}, edges : SUBSET Edge, servers : SUBSET Servers]

emptyDocument == [nodes |-> [n \in {} |-> {}], edges |-> {}, servers |-> {}]

Showing(page, d) ==
  [page |-> page, document |-> d, tools |-> {}, saveState |-> "idle", timer |-> FALSE,
   sent |-> <<>>, written |-> FALSE,
   lost |-> FALSE]   \* history: a call got no answer since the last one was sent

EditorState == [page : {"unopened", "open", "left"}, document : ToolGraphDocument,
           tools : SUBSET Tools, saveState : {"idle", "dirty", "saving", "saved", "error"},
           timer : BOOLEAN, sent : Seq(ToolGraphDocument), written : BOOLEAN, lost : BOOLEAN]

EditorTypeOK ==
  /\ graph \in ToolGraphDocument \cup {Deleted} /\ versions \in Seq(ToolGraphDocument)
  /\ editor \in [Editors -> EditorState] /\ hidden \subseteq Editors
  /\ edits \in 0..MaxEdits

EditorInit ==
  /\ graph \in Existing /\ versions = <<>>
  /\ editor = [e \in Editors |-> Showing("unopened", emptyDocument)] /\ hidden = {} /\ edits = 0

Open(e) == editor[e].page = "open"
Document(e) == editor[e].document

-----------------------------------------------------------------------------
(* The page. *)

loadGraph(e) ==
  /\ editor[e].page = "unopened"
  /\ graph # Deleted /\ e \notin hidden
  /\ editor' = [editor EXCEPT ![e] = Showing("open", graph)]
  /\ UNCHANGED <<graph, versions, hidden, edits>>

\* Leaving clears the timer.  What was sent is on its way.
Leave(e) ==
  /\ Open(e)
  /\ editor' = [editor EXCEPT ![e].page = "left", ![e].timer = FALSE]
  /\ UNCHANGED <<graph, versions, hidden, edits>>

-----------------------------------------------------------------------------
(* Edits.  Each one marks the editor dirty and starts its timer anew. *)

Edits(e, document, tools) ==
  /\ Open(e) /\ edits < MaxEdits /\ edits' = edits + 1
  /\ editor' = [editor EXCEPT ![e].document = document, ![e].tools = tools,
                              ![e].saveState = "dirty", ![e].timer = TRUE]
  /\ UNCHANGED <<graph, versions, hidden>>

Changes(e, document) == Edits(e, document, editor[e].tools)

WithNodes(d, nodes) == [nodes |-> nodes, edges |-> d.edges, servers |-> d.servers]
WithEdges(d, edges) == [nodes |-> d.nodes, edges |-> edges, servers |-> d.servers]
WithServers(d, servers) == [nodes |-> d.nodes, edges |-> d.edges, servers |-> servers]

addServer(e, s) ==
  Edits(e, WithServers(Document(e), Document(e).servers \cup {s}),
        editor[e].tools \cup {t \in Tools : ServerOf[t] = s})

Without(d, doomed) ==
  [nodes |-> [n \in DOMAIN d.nodes \ doomed |-> d.nodes[n]],
   edges |-> {edge \in d.edges : edge.source \notin doomed /\ edge.target \notin doomed},
   servers |-> d.servers]

OfServer(d, s) == {n \in DOMAIN d.nodes : ServerOf[d.nodes[n].tool] = s}

removeServer(e, s) ==
  /\ s \in Document(e).servers
  /\ Edits(e, WithServers(Without(Document(e), OfServer(Document(e), s)),
                          Document(e).servers \ {s}),
           {t \in editor[e].tools : ServerOf[t] # s})

\* Every document there is, in an editor, on its way, stored or replaced.
Documents ==
  {Document(e) : e \in Editors}
  \cup (UNION {{editor[e].sent[i] : i \in DOMAIN editor[e].sent} : e \in Editors})
  \cup {versions[i] : i \in DOMAIN versions} \cup ({graph} \ {Deleted})

\* Bound: editing stops when the ids run out.
Unused == {n \in Ids : \A d \in Documents : n \notin DOMAIN d.nodes}
makeId == CHOOSE n \in Unused : TRUE

Placed(d, n, t) ==
  WithNodes(d, [k \in DOMAIN d.nodes \cup {n} |->
                  IF k = n THEN [tool |-> t, static |-> {}] ELSE d.nodes[k]])

\* The palette offers the tools of the servers that were connected since the
\* page was loaded.
addToolNode(e, t) ==
  /\ t \in editor[e].tools /\ Unused # {}
  /\ Changes(e, Placed(Document(e), makeId, t))

removeNode(e, n) ==
  /\ n \in DOMAIN Document(e).nodes
  /\ Changes(e, Without(Document(e), {n}))

Toggled(node, p) ==
  [tool |-> node.tool,
   static |-> IF p \in node.static THEN node.static \ {p} ELSE node.static \cup {p}]

setStaticInput(e, n, p) ==
  LET nodes == Document(e).nodes IN
  /\ n \in DOMAIN nodes
  /\ Changes(e, WithNodes(Document(e), [nodes EXCEPT ![n] = Toggled(@, p)]))

onEdgesDelete(e, edge) ==
  /\ edge \in Document(e).edges
  /\ Changes(e, WithEdges(Document(e), Document(e).edges \ {edge}))

\* A drag, and also the canvas measuring its nodes when it is first shown:
\* the document is as it was, but the editor does not know that.
onNodesChange(e) ==
  /\ DOMAIN Document(e).nodes # {}
  /\ Changes(e, Document(e))

EveryEdge(edges, new) == edges

\* A field fed twice has no defined winner: the new edge takes the old one's place.
OneEdgePerField(edges, new) ==
  {edge \in edges : ~(edge.target = new.target /\ edge.targetHandle = new.targetHandle)}

isValidConnection(new) == new.source # new.target

tryConnect(e, new) ==
  LET nodes == Document(e).nodes IN
  /\ isValidConnection(new)
  /\ {new.source, new.target} \subseteq DOMAIN nodes
  /\ <<nodes[new.source].tool, nodes[new.target].tool>> \in Fits
  /\ Changes(e, WithEdges(Document(e), OneEdgePerField(Document(e).edges, new) \cup {new}))

-----------------------------------------------------------------------------
(* Saving. *)

\* A save sends the document as it is now.  The framework sends one action of
\* a tab at a time, in the order they were made.
Send(e) ==
  editor' = [editor EXCEPT ![e].timer = FALSE, ![e].saveState = "saving", ![e].lost = FALSE,
                           ![e].sent = Append(@, Document(e))]

TimerFires(e) == Open(e) /\ editor[e].timer

autosave(e) ==
  /\ TimerFires(e)
  /\ Send(e)
  /\ UNCHANGED <<graph, versions, hidden, edits>>

\* Cmd+S, with or without anything to save.
saveNow(e) ==
  /\ Open(e) /\ edits < MaxEdits /\ edits' = edits + 1
  /\ Send(e)
  /\ UNCHANGED <<graph, versions, hidden>>

graphDocumentSchema(d) == Cardinality(DOMAIN d.nodes) <= MaxNodes

record_every_version(new) == versions' = Append(versions, graph)

\* The trigger keeps what the update replaced.
record_graph_version(new) ==
  versions' = IF new = graph THEN versions ELSE Append(versions, graph)

\* An update that the policy lets see no row is no error.
saveGraph(e) ==
  /\ editor[e].sent # <<>> /\ ~editor[e].written
  /\ graphDocumentSchema(Head(editor[e].sent))
  /\ IF graph # Deleted /\ e \notin hidden
     THEN graph' = Head(editor[e].sent) /\ record_graph_version(Head(editor[e].sent))
     ELSE UNCHANGED <<graph, versions>>
  /\ editor' = [editor EXCEPT ![e].written = TRUE]
  /\ UNCHANGED <<hidden, edits>>

Answered(e, state) ==
  editor' = [editor EXCEPT ![e].sent = Tail(@), ![e].written = FALSE,
                           ![e].saveState = IF Open(e) THEN state ELSE @]

saved(e) ==
  /\ editor[e].written
  /\ Answered(e, "saved")
  /\ UNCHANGED <<graph, versions, hidden, edits>>

\* The document is too large, or the statement fails.
notSaved(e) ==
  /\ editor[e].sent # <<>> /\ ~editor[e].written
  /\ Answered(e, "error")
  /\ UNCHANGED <<graph, versions, hidden, edits>>

\* Nobody catches a call that gets no answer: the state stays as it is.
connectionLost(e) ==
  /\ editor[e].sent # <<>>
  /\ editor' = [editor EXCEPT ![e].sent = Tail(@), ![e].written = FALSE, ![e].lost = TRUE]
  /\ UNCHANGED <<graph, versions, hidden, edits>>

-----------------------------------------------------------------------------
deleteGraph ==
  /\ graph # Deleted
  /\ graph' = Deleted /\ versions' = <<>>
  /\ UNCHANGED <<editor, hidden, edits>>

\* The account leaves, or is removed from, the graph's workspace.
losesAccess(e) ==
  /\ hidden' = hidden \cup {e}
  /\ UNCHANGED <<graph, versions, editor, edits>>

Edit(e) ==
  \/ \E s \in Servers : addServer(e, s) \/ removeServer(e, s)
  \/ \E t \in Tools : addToolNode(e, t)
  \/ \E n \in Ids : removeNode(e, n) \/ \E p \in Pointers : setStaticInput(e, n, p)
  \/ \E edge \in Edge : tryConnect(e, edge) \/ onEdgesDelete(e, edge)
  \/ onNodesChange(e)

Save(e) == autosave(e) \/ saveGraph(e) \/ saved(e) \/ notSaved(e) \/ connectionLost(e)

EditorNext ==
  \/ \E e \in Editors :
       loadGraph(e) \/ Leave(e) \/ Edit(e) \/ Save(e) \/ saveNow(e) \/ losesAccess(e)
  \/ deleteGraph

EditorSpec == EditorInit /\ [][EditorNext]_editorVars

-----------------------------------------------------------------------------
(* Properties. *)

\* In every document, in an editor, on its way, stored or in the history, an
\* edge joins two nodes that are there, no field has two sources, and every
\* node's server is listed: a run of it connects every tool it has.
Sound(d) ==
  /\ \A edge \in d.edges : {edge.source, edge.target} \subseteq DOMAIN d.nodes
  /\ \A a, b \in d.edges : a.target = b.target /\ a.targetHandle = b.targetHandle => a = b
  /\ \A n \in DOMAIN d.nodes : ServerOf[d.nodes[n].tool] \in d.servers

\* What the table holds to begin with was written by editors like these.
ASSUME EditorAssumption ==
  /\ ServerOf \in [Tools -> Servers]
  /\ Existing \subseteq ToolGraphDocument /\ \A d \in Existing : Sound(d)
  /\ MaxEdits \in Nat

DocumentsAreSound == \A d \in Documents : Sound(d)

\* The history of a graph, its present document last.
History == Append(versions, graph)

\* Saving only ever adds to the history, and only a document that differs from
\* the last one: two editors that overwrite each other lose nothing, and
\* opening a graph, or saving it unchanged, writes no version.
HistoryOnlyGrows ==
  [][graph' = Deleted \/ History' = History
       \/ (History' = Append(History, graph') /\ graph' # graph)]_editorVars

\* An editor that shows "Saved" and has nothing left to send has its document
\* in the table or in the history, if the graph is still there, the account
\* still has access to it and no call went without an answer meanwhile.
SavedIsStored ==
  \A e \in Editors :
    /\ Open(e) /\ editor[e].saveState = "saved"
    /\ ~editor[e].timer /\ editor[e].sent = <<>>
    /\ ~editor[e].lost /\ graph # Deleted /\ e \notin hidden
    => \E i \in DOMAIN History : History[i] = Document(e)

\* Documents are sound wherever they are, and what is shown as saved is stored
\* (useGraphEditor.ts, GraphEditor.tsx).
DocumentsAreStored == DocumentsAreSound /\ SavedIsStored

=============================================================================
