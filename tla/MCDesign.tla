------------------------------- MODULE MCDesign -------------------------------
(***************************************************************************)
(* What is decided of a document before it runs: of the types of one       *)
(* connection (MCCompat), of the order and the code of the whole           *)
(* (MCDocuments). A behaviour grows the one or the other.                  *)
(***************************************************************************)
EXTENDS Naturals, Sequences, TLC

CONSTANTS MaxRefHops, MaxAllOfDepth, MaxUnionDepth, MaxFieldDepth, MaxFields, MaxDepth,
          MaxRefBudget, MaxZodDepth, MaxModelDepth, MaxGrowth, MaxOddGrowth, MaxToken,
          PointerOrder, IndexTokens, Gone, MaxEdges, MaxFieldEdges, MaxTools, ToolNames

VARIABLES part, source, target, grown, odd, key, edges, tools

Schemas == INSTANCE MCCompat
Documents == INSTANCE MCDocuments WITH MaxFields <- MaxFieldEdges
FivePointers == <<<<>>, <<"0">>, <<"a">>, <<"a", "b">>, <<"d">>>>

DesignInit ==
    /\ part \in {"schemas", "documents"} /\ Schemas!Init /\ Documents!Init
    /\ part = "documents" => source = <<>> /\ target = <<>>
DesignNext ==
    /\ UNCHANGED part
    /\ \/ part = "schemas" /\ Schemas!Next /\ UNCHANGED <<edges, tools>>
       \/ part = "documents" /\ Documents!Next /\ UNCHANGED <<source, target, grown, odd, key>>
DesignSpec == DesignInit /\ [][DesignNext]_<<source, target, grown, odd, key, part, edges, tools>>

-----------------------------------------------------------------------------
(* MCCompat and MCDocuments say what each of these is about. A name is put
   together beside two empty schemas, which are asked about once. *)
OfTypes == part = "schemas" /\ key = <<>>

\* A connection without a caveat cannot fail on its types, but for what the
\* comparison does not look at (compat.ts).
CleanIsAssignable == OfTypes => Schemas!CleanIsAssignable

\* One that is refused could fail, or is of a schema that does not resolve or of too
\* few elements for the whole of a tuple (compat.ts).
ErrorIsReal == OfTypes => Schemas!ErrorIsReal

\* The pointer of a listed field leads to its schema, and in generated code to the
\* field, whatever characters its name is made of; and what is declared by that
\* name is an identifier (fields.ts, pointer.ts, graph.ts).
FieldsAddressWhatTheyName == part = "schemas" =>
    /\ Schemas!FieldsAddressWhatTheyName
    /\ Schemas!PointersKeepTheirTokens
    /\ Schemas!AccessesReadTheirField
    /\ Schemas!NamesAreLegal

\* Exported code keeps every call the tool's schema allows (typescript.ts and
\* python.ts).
GeneratedTypesKeepTheCall ==
    OfTypes => Schemas!TypeScriptKeepsTheCall /\ Schemas!PythonKeepsTheCall

\* The engine's order exists and is one exactly for the acyclic documents, and
\* its error names the nodes that are stuck (executor.ts, topologicalOrder).
OrdersExactlyTheAcyclic ==
    part = "documents" => Documents!OrdersExactlyTheAcyclic(Documents!Nodes4, edges)

\* An export is refused when a run is; it sends what a run sends, in both
\* languages, and no two of its declarations share a name (graph.ts, plan.ts,
\* typescript.ts, executor.ts).
ExportAgreesWithTheRun == part = "documents" =>
    /\ Documents!ExportRefusesWhatARunRefuses
    /\ Documents!ExportSendsWhatARunSends
    /\ Documents!TargetsSendTheSame
    /\ Documents!NamesAreDistinct

\* A value is not dropped without a warning (graph.ts, buildValueTree).
NoValueLostSilently == part = "documents" => Documents!NoValueLostSilently

=============================================================================
