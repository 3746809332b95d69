------------------------------- MODULE MCBench -------------------------------
(***************************************************************************)
(* What a team shares: one connection and the requests on it, or one graph *)
(* and its editors. A behaviour is one of one of them, and the two modules *)
(* say what each property is about.                                        *)
(***************************************************************************)
EXTENDS Connections, Editor, TLC

CONSTANTS s1, t1, t2, whole

VARIABLE part

\* One server has two tools, and the output of one fits the other. The graph is
\* empty, or has two nodes and an edge.
Home == [t \in {t1, t2} |-> s1]
Feeds == {<<t1, t2>>}
Stored == {
  [nodes |-> [n \in {} |-> {}], edges |-> {}, servers |-> {}],
  [nodes |-> <<[tool |-> t1, static |-> {}], [tool |-> t2, static |-> {}]>>,
   edges |-> {[source |-> 1, sourceHandle |-> whole, target |-> 2, targetHandle |-> p] : p \in Pointers},
   servers |-> {s1}] }

\* The part that is not looked at has one initial state.
BenchInit ==
  /\ part \in {"connection", "graph"}
  /\ Init /\ EditorInit
  /\ part # "connection" => row = Unborn /\ storage
  /\ part # "graph" => graph = CHOOSE d \in Stored : d.edges = {}
BenchNext ==
  /\ UNCHANGED part
  /\ \/ part = "connection" /\ Next /\ UNCHANGED editorVars
     \/ part = "graph" /\ EditorNext /\ UNCHANGED vars
BenchSpec == BenchInit /\ [][BenchNext]_<<part, vars, editorVars>>

Alike == Permutations(Requests)

=============================================================================
