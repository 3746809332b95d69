-------------------------------- MODULE MCRuns --------------------------------
(***************************************************************************)
(* The two sides of a run, each by itself: the engine that runs a document *)
(* and the panel that shows what it streams. A behaviour is one of one.    *)
(***************************************************************************)
EXTENDS MCExecutor

CONSTANTS PanelNodes, MaxRuns, MaxUnread

VARIABLES part,
    phase, error, steps, wakingUp, speaker, abortRef, coldTimer, mounted,
    at, panelAborted, crossed, sent, body, seen

Panel == INSTANCE GraphRun WITH Nodes <- PanelNodes, aborted <- panelAborted

engineVars == <<graph, order, pc, i, failed, thrown, results, outputs, fed, clients,
                elapsed, waited, gone, aborted, stream, record>>
panelVars == <<phase, error, steps, wakingUp, speaker, abortRef, coldTimer, mounted,
               at, panelAborted, crossed, sent, body, seen>>
runVars == <<part, engineVars, panelVars>>

RunsInit ==
    /\ part \in {"engine", "panel"} /\ Init /\ Panel!Init
    /\ part = "panel" => graph = Empty
OfEngine(step) == part = "engine" /\ step /\ UNCHANGED <<part, panelVars>>
OfPanel(step) == part = "panel" /\ step /\ UNCHANGED <<part, engineVars>>
RunsNext == OfEngine(Next) \/ OfPanel(Panel!Next)

\* Executor and GraphRun say why either may count on this.  The panel's runs are
\* finite: that one of them goes on while one can is all it takes.
RunsSpec ==
    /\ RunsInit /\ [][RunsNext]_runVars
    /\ WF_runVars(OfEngine(Engine)) /\ WF_runVars(OfEngine(Tick)) /\ WF_runVars(OfEngine(TimesOut))
    /\ WF_runVars(OfPanel(\E r \in Panel!Runs : Panel!Run(r) \/ Panel!Engine(r)))

-----------------------------------------------------------------------------
(* Executor and GraphRun say what each of these is about. *)

\* Every run comes to an end, whether or not its servers answer (executor.ts).
EngineEnds == <>(part = "panel" \/ pc = "ended")

\* What the panel holds to cancel is never a run that is over, and what it says of
\* a run is what the engine said, unless the stream ended before the run did or runs
\* crossed (useGraphRun.ts).
PanelFollowsItsRun == Panel!AbortReachesALiveRun /\ Panel!VerdictIsTheEngines

\* A run that was started does not leave the panel waiting (useGraphRun.ts).
RunSettles == Panel!RunSettles

=============================================================================
