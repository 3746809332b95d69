------------------------------- MODULE GraphRun -------------------------------
(***************************************************************************)
(* useGraphRun: the run panel of the browser, over as many test runs as    *)
(* its user starts.  Every run is an async function of its own; they share *)
(* the React state, abortRef and coldTimer.  The engine's side of a run is *)
(* any stream RunEvents allows, over a connection that may end early.      *)
(*                                                                         *)
(* A step here is what runs between two awaits.  What an abort rejects is  *)
(* settled before the next event of the page (Settled).                    *)
(***************************************************************************)
EXTENDS RunEvents, SequencesExt, Filters

CONSTANTS
    MaxRuns,   \* how many times the user presses Run
    MaxUnread  \* bound on the events on their way on one connection

Runs == 1..MaxRuns
NoRun == 0

VARIABLES
    phase, error, steps, wakingUp,   \* the hook's state
    speaker,                         \* history: the run that set the phase, or NoRun
    abortRef,                        \* the run whose controller it holds, or NoRun
    coldTimer,                       \* the timer is armed
    mounted,
    at,        \* where each run is
    aborted,   \* the runs whose signal has fired
    crossed,   \* history: the runs that went on beside another, neither of them aborted
    sent,      \* what the engine wrote on each run's response
    body,      \* how each response stands: "open", "clean" or "broken"
    seen       \* how much of it was read

shown == <<phase, speaker>>
ui == <<shown, error, steps, wakingUp>>
refs == <<abortRef, coldTimer, mounted, aborted, crossed>>
wire == <<sent, body>>
vars == <<ui, refs, at, wire, seen>>

Busy == phase \in {"waking", "running"}

SetPhase(p, who) == phase' = p /\ speaker' = who

Init ==
    /\ phase = "idle" /\ error = FALSE /\ steps = <<>> /\ wakingUp = FALSE
    /\ speaker = NoRun
    /\ abortRef = NoRun /\ coldTimer = FALSE /\ mounted = TRUE
    /\ at = [r \in Runs |-> "unused"] /\ aborted = {} /\ crossed = {}
    /\ sent = [r \in Runs |-> <<>>] /\ seen = [r \in Runs |-> 0]
    /\ body = [r \in Runs |-> "open"]

-----------------------------------------------------------------------------
(* The user *)

\* An aborted fetch or read has been rejected and handled.
Settled == \A r \in aborted : at[r] \notin {"fetch", "read"}

GoingOn == {r \in Runs : at[r] \notin {"unused", "done"}} \ aborted

Start(r) ==
    /\ Settled /\ mounted /\ ~Busy
    /\ at[r] = "unused" /\ \A q \in 1..(r - 1) : at[q] # "unused"
    /\ abortRef' = r /\ coldTimer' = TRUE
    /\ error' = FALSE /\ steps' = <<>> /\ wakingUp' = FALSE
    /\ SetPhase("waking", NoRun)
    /\ at' = [at EXCEPT ![r] = "session"]
    /\ crossed' = crossed \cup (IF GoingOn = {} THEN {} ELSE GoingOn \cup {r})
    /\ UNCHANGED <<mounted, aborted, wire, seen>>

Abort == aborted' = aborted \cup ({abortRef} \ {NoRun})

Cancel ==
    /\ Settled /\ mounted /\ Busy
    /\ Abort /\ coldTimer' = FALSE /\ wakingUp' = FALSE
    /\ SetPhase("cancelled", NoRun)
    /\ UNCHANGED <<error, steps, abortRef, crossed, mounted, at, wire, seen>>

Unmount ==
    /\ Settled /\ mounted
    /\ Abort /\ coldTimer' = FALSE /\ mounted' = FALSE
    /\ UNCHANGED <<ui, abortRef, crossed, at, wire, seen>>

\* COLD_START_HINT_MS without a word from the engine.
ColdHint ==
    /\ Settled /\ coldTimer
    /\ coldTimer' = FALSE /\ wakingUp' = TRUE
    /\ UNCHANGED <<shown, error, steps, abortRef, crossed, mounted, aborted, at, wire, seen>>

-----------------------------------------------------------------------------
(* One run *)

\* The finally, whatever the run leaves behind.
Return(r) ==
    /\ at' = [at EXCEPT ![r] = "done"]
    /\ coldTimer' = FALSE /\ wakingUp' = FALSE /\ abortRef' = NoRun
    /\ UNCHANGED <<mounted, aborted, crossed, steps, wire, seen>>

Fails(r) == error' = TRUE /\ SetPhase("failed", r) /\ Return(r)

\* getSession is awaited without the signal.
NoSession(r) == Settled /\ at[r] = "session" /\ Fails(r)
Session(r) ==
    /\ Settled /\ at[r] = "session"
    /\ at' = [at EXCEPT ![r] = "fetch"]
    /\ UNCHANGED <<ui, refs, wire, seen>>

Aborted(r) ==
    /\ at[r] \in {"fetch", "read"} /\ r \in aborted
    /\ SetPhase("cancelled", r) /\ Return(r)
    /\ UNCHANGED error

Unreachable(r) == Settled /\ at[r] = "fetch" /\ Fails(r)

\* Not ok: the message is awaited, an abort of that only loses the message.
Refused(r) ==
    /\ Settled /\ at[r] = "fetch"
    /\ at' = [at EXCEPT ![r] = "refused"]
    /\ UNCHANGED <<ui, refs, wire, seen>>
Explained(r) == Settled /\ at[r] = "refused" /\ Fails(r)

Responds(r) ==
    /\ Settled /\ at[r] = "fetch"
    /\ at' = [at EXCEPT ![r] = "read"]
    /\ UNCHANGED <<ui, refs, wire, seen>>

-----------------------------------------------------------------------------
(* Reading the stream *)

\* The list run:finish carries: what finished, then what was skipped.
Final(t) ==
    LET ended == Filter(t, {e \in Events : e.type = "step:finish"})
        left == SetToSeq(Nodes \ Started(t))
        row(n, s) == [node |-> n, status |-> s]
    IN  [k \in 1..Len(ended) |-> row(ended[k].node, ended[k].status)]
        \o (IF HasFailed(t) THEN [k \in 1..Len(left) |-> row(left[k], "skipped")] ELSE <<>>)

\* setSteps: the finished step takes the place of the one announced.
Finished(e) ==
    LET row == [node |-> e.node, status |-> e.status]
        of(s) == s.node = e.node
        k == SelectInSeq(steps, of) IN
    IF k = 0 THEN Append(steps, row) ELSE [steps EXCEPT ![k] = row]

\* Mutant of PhaseOf: however the run ended, it ended.
PhaseOfFinish(e) == CASE e.type = "run:start" -> "running"
                      [] e.type \in {"run:finish", "run:error"} -> "succeeded"
                      [] OTHER -> phase
PhaseOf(e) == CASE e.type = "run:start" -> "running"
                [] e.type = "run:finish" -> e.status
                [] e.type = "run:error" -> "failed"
                [] OTHER -> phase

StepsOf(r, e) == CASE e.type = "run:start" -> <<>>
                   [] e.type = "step:start" ->
                        Append(steps, [node |-> e.node, status |-> "running"])
                   [] e.type = "step:finish" -> Finished(e)
                   [] e.type = "run:finish" -> Final(SubSeq(sent[r], 1, seen[r]))
                   [] OTHER -> steps

\* One event off the stream; the first one ends the waiting.
applyEvent(r) ==
    /\ Settled /\ at[r] = "read" /\ seen[r] < Len(sent[r])
    /\ LET e == sent[r][seen[r] + 1] IN
         /\ IF PhaseOf(e) = phase THEN UNCHANGED shown ELSE SetPhase(PhaseOf(e), r)
         /\ steps' = StepsOf(r, e)
         /\ error' = (error \/ e.type = "run:error")
    /\ seen' = [seen EXCEPT ![r] = @ + 1]
    /\ wakingUp' = IF seen[r] = 0 THEN FALSE ELSE wakingUp
    /\ coldTimer' = IF seen[r] = 0 THEN FALSE ELSE coldTimer
    /\ UNCHANGED <<abortRef, mounted, aborted, crossed, at, wire>>

\* Mutant of AtEnd: the last event is trusted to have come.
AtEndAsIs == phase
AtEnd == IF Busy THEN "succeeded" ELSE phase

StreamEnds(r) ==
    /\ Settled /\ at[r] = "read" /\ seen[r] = Len(sent[r]) /\ body[r] = "clean"
    /\ IF AtEnd = phase THEN UNCHANGED shown ELSE SetPhase(AtEnd, r)
    /\ Return(r) /\ UNCHANGED error

\* A broken connection rejects the read; what was not read yet is lost.
StreamBreaks(r) == Settled /\ at[r] = "read" /\ body[r] = "broken" /\ Fails(r)

-----------------------------------------------------------------------------
(* The engine, and what lies between *)

Answering(r) == at[r] = "read" /\ body[r] = "open"

Emit(r) ==
    /\ Answering(r) /\ Len(sent[r]) < seen[r] + MaxUnread
    /\ \E e \in Events : Follows(sent[r], e) /\ sent' = [sent EXCEPT ![r] = Append(@, e)]
    /\ UNCHANGED <<ui, refs, at, body, seen>>
Close(r) ==
    /\ Answering(r) /\ Over(sent[r])
    /\ body' = [body EXCEPT ![r] = "clean"]
    /\ UNCHANGED <<ui, refs, at, sent, seen>>

Cut(r) ==
    /\ Answering(r)
    /\ \E how \in {"clean", "broken"} : body' = [body EXCEPT ![r] = how]
    /\ UNCHANGED <<ui, refs, at, sent, seen>>

Run(r) ==
    \/ NoSession(r) \/ Session(r) \/ Aborted(r) \/ Unreachable(r)
    \/ Refused(r) \/ Explained(r) \/ Responds(r)
    \/ applyEvent(r) \/ StreamEnds(r) \/ StreamBreaks(r)
Engine(r) == Emit(r) \/ Close(r)

Next ==
    \/ Cancel \/ Unmount \/ ColdHint
    \/ \E r \in Runs : Start(r) \/ Run(r) \/ Engine(r) \/ Cut(r)

Spec == Init /\ [][Next]_vars

\* Promises are kept or broken: the session, the response and every chunk come or
\* fail, and the engine ends each run it answers (MCRuns, EngineEnds).
FairSpec == Spec /\ \A r \in Runs : WF_vars(Run(r)) /\ WF_vars(Engine(r))

-----------------------------------------------------------------------------
(* Properties *)

TypeOK ==
    /\ phase \in {"idle", "waking", "running", "succeeded", "failed", "cancelled"}
    /\ {error, wakingUp, coldTimer, mounted} \subseteq BOOLEAN
    /\ \A k \in 1..Len(steps) :
          steps[k] \in [node : Nodes, status : {"running", "succeeded", "failed", "skipped"}]
    /\ abortRef \in Runs \cup {NoRun} /\ speaker \in Runs \cup {NoRun}
    /\ at \in [Runs -> {"unused", "session", "fetch", "refused", "read", "done"}]
    /\ aborted \subseteq Runs
    /\ \A r \in Runs : seen[r] <= Len(sent[r]) /\ body[r] \in {"open", "clean", "broken"}

\* What Cancel and the unmount reach for is a run under way, never one that is
\* over, and a run is only ever aborted after it was started.
AbortReachesALiveRun ==
    /\ abortRef # NoRun => at[abortRef] \notin {"unused", "done"}
    /\ \A r \in aborted : at[r] # "unused"

LastSeen(r) == sent[r][seen[r]]

\* The body ended before the run did.
EndedEarly(r) == body[r] = "clean" /\ ~Over(sent[r])

\* Apart from that and from runs that cross each other, a run is shown as a success
\* only on the engine's word, and over a list of steps that all succeeded; and it is
\* shown as a failure only with an error or on the engine's word (applyEvent, and
\* the end of start).
VerdictIsTheEngines ==
    /\ phase = "succeeded" =>
          \/ EndedEarly(speaker) \/ speaker \in crossed
          \/ /\ seen[speaker] > 0 /\ LastSeen(speaker) = Event("run:finish", None, "succeeded")
             /\ \A k \in 1..Len(steps) : steps[k].status = "succeeded"
    /\ phase = "failed" =>
          error \/ (seen[speaker] > 0 /\ LastSeen(speaker) = Event("run:finish", None, "failed"))

\* RunPanel.tsx:227: "Every step succeeded", shown when the phase is succeeded.
SuccessShowsOnlySuccesses ==
    phase = "succeeded" => \A k \in 1..Len(steps) : steps[k].status = "succeeded"

\* A run that was started does not leave the panel waiting for ever, however its
\* stream ends and whatever became of the runs before it.
RunSettles == Busy /\ mounted ~> ~Busy \/ ~mounted

=============================================================================
