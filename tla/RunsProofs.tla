------------------------------ MODULE RunsProofs ------------------------------
(* Proofs about the run panel, for any number of runs of any graph.           *)
EXTENDS MCRuns, RecursionProofs

-----------------------------------------------------------------------------
(* The invariant *)

Closing == {"run:finish", "run:error"}
PanelType ==
  /\ phase \in {"idle", "waking", "running", "succeeded", "failed", "cancelled"}
  /\ abortRef \in Panel!Runs \cup {Panel!NoRun} /\ speaker \in Panel!Runs \cup {Panel!NoRun}
  /\ at \in [Panel!Runs -> {"unused", "session", "fetch", "refused", "read", "done"}]
  /\ body \in [Panel!Runs -> {"open", "clean", "broken"}]
  /\ seen \in [Panel!Runs -> Nat] /\ sent \in [Panel!Runs -> Seq(Panel!Events)]
  /\ \A r \in Panel!Runs : seen[r] <= Len(sent[r])
  /\ panelAborted \subseteq Panel!Runs

\* A stream begins with the response; nothing follows the event that closes it, and a
\* success follows no failure.
StreamsInv == \A r \in Panel!Runs :
  /\ at[r] \notin {"read", "done"} => sent[r] = <<>>
  /\ \A k \in 1..Len(sent[r]) :
       /\ sent[r][k].type \in Closing => k = Len(sent[r])
       /\ sent[r][k].type = "run:finish" /\ sent[r][k].status = "succeeded" =>
            \A j \in 1..(k - 1) : ~(sent[r][j].type = "step:finish" /\ sent[r][j].status = "failed")

\* Runs that go on beside each other have crossed; beside a success that did not
\* cross another run, none goes on.
AloneInv ==
  /\ \A r, q \in Panel!GoingOn : r # q => r \in crossed
  /\ phase = "succeeded" => speaker \in Panel!Runs
  /\ phase = "succeeded" /\ speaker \notin crossed => Panel!GoingOn \subseteq {speaker}

\* A run that crossed no other and was read to its close is not waited for.
SeenClosing(r) == seen[r] > 0 /\ sent[r][seen[r]].type \in Closing
CloseInv ==
  \A r \in Panel!GoingOn : at[r] = "read" /\ SeenClosing(r) /\ r \notin crossed => ~Panel!Busy

\* What the panel says of a run, for the speaker it has.
SaidInv ==
  /\ phase = "succeeded" =>
       \/ Panel!EndedEarly(speaker) \/ speaker \in crossed
       \/ /\ seen[speaker] > 0
          /\ sent[speaker][seen[speaker]] = Panel!Event("run:finish", None, "succeeded")
          /\ \A k \in 1..Len(steps) : steps[k].status = "succeeded"
  /\ phase = "failed" =>
       \/ error
       \/ /\ speaker \in Panel!Runs /\ seen[speaker] > 0
          /\ sent[speaker][seen[speaker]] = Panel!Event("run:finish", None, "failed")

PanelInv ==
  PanelType /\ StreamsInv /\ Panel!AbortReachesALiveRun /\ AloneInv /\ CloseInv /\ SaidInv

-----------------------------------------------------------------------------
(* What run:finish shows *)

\* The rows of a run in which no step failed all say so.
LEMMA FinalSucceeds ==
  ASSUME NEW t \in Seq(Panel!Events), ~Panel!HasFailed(t)
  PROVE  \A k \in 1..Len(Panel!Final(t)) : Panel!Final(t)[k].status = "succeeded"
<1> DEFINE E == Panel!Events
           S == {e \in E : e.type = "step:finish"}
           u == Filter(t, S)
           rows == [k \in 1..Len(u) |-> [node |-> u[k].node, status |-> u[k].status]]
<1>1. /\ u \in Seq(E)
      /\ \A k \in 1..Len(u) : u[k] \in S /\ \E j \in 1..Len(t) : u[k] = t[j]
  <2>1. t \in Seq(E)
    OBVIOUS
  <2> HIDE DEF E, S
  <2> QED BY <2>1, FilterKeeps
<1>2. \A e \in S : e.status \in {"succeeded", "failed"}
  BY DEF Panel!Events, Panel!Event
<1>3. \A j \in 1..Len(t) : ~(t[j].type = "step:finish" /\ t[j].status = "failed")
  BY DEF Panel!HasFailed
<1>4. Panel!Final(t) = rows \o <<>>
  BY DEF Panel!Final, Panel!Filter, Filter
<1>5. \A k \in 1..Len(u) : u[k].status = "succeeded"
  <2> HIDE DEF u
  <2> QED BY <1>1, <1>2, <1>3
<1> HIDE DEF u
<1>6. rows \o <<>> = rows /\ Len(rows) = Len(u)
  <2>1. Len(u) \in Nat
    BY <1>1
  <2>2. rows \in Seq({rows[k] : k \in 1..Len(u)}) /\ Len(rows) = Len(u)
    BY <2>1
  <2> HIDE DEF rows
  <2> QED BY <2>2
<1>7. \A k \in 1..Len(rows) : rows[k].status = "succeeded"
  BY <1>5, <1>6
<1> HIDE DEF rows
<1> QED BY <1>4, <1>6, <1>7

-----------------------------------------------------------------------------
(* The steps of the panel *)

Running == {r \in Panel!Runs : at[r] \notin {"unused", "done"}}
Quiet == Panel!Cancel \/ Panel!Unmount \/ Panel!ColdHint

\* A run that goes on to its next await, and one that gives up.
Proceeds(r) ==
  /\ at[r] \in {"session", "fetch"}
  /\ \E to \in {"fetch", "refused", "read"} : at' = [at EXCEPT ![r] = to]
  /\ UNCHANGED <<phase, error, steps, wakingUp, speaker, abortRef, coldTimer, mounted,
                 panelAborted, crossed, sent, body, seen>>
GivesUp(r) == r \in Running /\ Panel!Fails(r)

LEMMA PanelSteps ==
  ASSUME [RunsNext]_runVars
  PROVE  \/ UNCHANGED panelVars
         \/ Quiet
         \/ \E r \in Panel!Runs :
              \/ Panel!Start(r) \/ Proceeds(r) \/ GivesUp(r) \/ Panel!Aborted(r)
              \/ Panel!applyEvent(r) \/ Panel!StreamEnds(r)
              \/ Panel!Emit(r) \/ Panel!Close(r) \/ Panel!Cut(r)
<1>1. ASSUME NEW r \in Panel!Runs, Panel!Run(r)
      PROVE  \/ Proceeds(r) \/ GivesUp(r) \/ Panel!Aborted(r)
             \/ Panel!applyEvent(r) \/ Panel!StreamEnds(r)
  <2>1. CASE Panel!Session(r) \/ Panel!Refused(r) \/ Panel!Responds(r)
    BY <2>1 DEF Proceeds, Panel!Session, Panel!Refused, Panel!Responds, Panel!ui, Panel!shown,
                Panel!refs, Panel!wire
  <2>2. CASE Panel!NoSession(r) \/ Panel!Unreachable(r) \/ Panel!Explained(r) \/ Panel!StreamBreaks(r)
    BY <2>2 DEF GivesUp, Running, Panel!NoSession, Panel!Unreachable, Panel!Explained,
                Panel!StreamBreaks
  <2> QED BY <1>1, <2>1, <2>2 DEF Panel!Run
<1>2. CASE OfPanel(Panel!Next)
  BY <1>1, <1>2 DEF OfPanel, Panel!Next, Panel!Engine, Quiet
<1>3. CASE OfEngine(Next)
  BY <1>3 DEF OfEngine
<1>4. CASE UNCHANGED runVars
  BY <1>4 DEF runVars
<1> QED BY <1>2, <1>3, <1>4 DEF RunsNext

\* A run is only ever joined by one that is started.
LEMMA StepGoing ==
  ASSUME PanelInv, [RunsNext]_runVars
  PROVE  \/ Panel!GoingOn' \subseteq Panel!GoingOn /\ crossed' = crossed
         \/ \E r \in Panel!Runs : Panel!Start(r) /\ Panel!GoingOn' = Panel!GoingOn \cup {r}
<1> USE DEF PanelInv, PanelType, Panel!GoingOn
<1>1. CASE UNCHANGED panelVars
  BY <1>1 DEF panelVars
<1>2. CASE Quiet
  BY <1>2 DEF Quiet, Panel!Cancel, Panel!Unmount, Panel!ColdHint, Panel!Abort
<1>3. ASSUME NEW r \in Panel!Runs, Panel!Start(r)
      PROVE  Panel!GoingOn' = Panel!GoingOn \cup {r}
  BY <1>3 DEF Panel!Start, Panel!AbortReachesALiveRun
<1>4. ASSUME NEW r \in Panel!Runs, Proceeds(r)
      PROVE  Panel!GoingOn' \subseteq Panel!GoingOn /\ crossed' = crossed
  BY <1>4 DEF Proceeds
<1>5. ASSUME NEW r \in Panel!Runs, GivesUp(r) \/ Panel!Aborted(r) \/ Panel!StreamEnds(r)
      PROVE  Panel!GoingOn' \subseteq Panel!GoingOn /\ crossed' = crossed
  BY <1>5 DEF GivesUp, Panel!Fails, Panel!Aborted, Panel!StreamEnds, Panel!Return
<1>6. ASSUME NEW r \in Panel!Runs,
             Panel!applyEvent(r) \/ Panel!Emit(r) \/ Panel!Close(r) \/ Panel!Cut(r)
      PROVE  Panel!GoingOn' \subseteq Panel!GoingOn /\ crossed' = crossed
  BY <1>6 DEF Panel!applyEvent, Panel!Emit, Panel!Close, Panel!Cut, Panel!refs
<1> QED BY <1>1, <1>2, <1>3, <1>4, <1>5, <1>6, PanelSteps

\* What is written to a stream and read of it changes by Emit and applyEvent alone.
LEMMA StepWire ==
  ASSUME PanelInv, [RunsNext]_runVars
  PROVE  \/ UNCHANGED <<sent, seen>>
         \/ \E r \in Panel!Runs : Panel!Emit(r) \/ Panel!applyEvent(r)
<1>1. CASE UNCHANGED panelVars
  BY <1>1 DEF panelVars
<1>2. CASE Quiet
  BY <1>2 DEF Quiet, Panel!Cancel, Panel!Unmount, Panel!ColdHint, Panel!wire
<1>3. ASSUME NEW r \in Panel!Runs, Panel!Start(r) \/ Proceeds(r) \/ Panel!Close(r) \/ Panel!Cut(r)
      PROVE  UNCHANGED <<sent, seen>>
  BY <1>3 DEF Panel!Start, Proceeds, Panel!Close, Panel!Cut, Panel!wire
<1>4. ASSUME NEW r \in Panel!Runs, GivesUp(r) \/ Panel!Aborted(r) \/ Panel!StreamEnds(r)
      PROVE  UNCHANGED <<sent, seen>>
  BY <1>4 DEF GivesUp, Panel!Fails, Panel!Aborted, Panel!StreamEnds, Panel!Return, Panel!wire
<1> QED BY <1>1, <1>2, <1>3, <1>4, PanelSteps

\* The next event of a stream.
LEMMA Emitted ==
  ASSUME PanelInv, NEW r \in Panel!Runs, Panel!Emit(r)
  PROVE  \E e \in Panel!Events :
           /\ Panel!Follows(sent[r], e) /\ ~SeenClosing(r) /\ at[r] = "read" /\ body[r] = "open"
           /\ sent' = [sent EXCEPT ![r] = Append(sent[r], e)]
           /\ Len(sent'[r]) = Len(sent[r]) + 1 /\ sent'[r][Len(sent[r]) + 1] = e
           /\ \A k \in 1..Len(sent[r]) : sent'[r][k] = sent[r][k]
           /\ UNCHANGED <<phase, error, steps, speaker, abortRef, panelAborted, crossed, at, body, seen>>
<1>1. PICK e \in Panel!Events :
            Panel!Follows(sent[r], e) /\ sent' = [sent EXCEPT ![r] = Append(sent[r], e)]
  BY DEF Panel!Emit
<1>2. sent[r] \in Seq(Panel!Events) /\ Len(sent[r]) \in Nat /\ sent'[r] = Append(sent[r], e)
  BY <1>1 DEF PanelInv, PanelType
<1>3. /\ Len(sent'[r]) = Len(sent[r]) + 1 /\ sent'[r][Len(sent[r]) + 1] = e
      /\ \A k \in 1..Len(sent[r]) : sent'[r][k] = sent[r][k]
  BY <1>2
<1>4. ~SeenClosing(r)
  <2>1. SUFFICES ASSUME SeenClosing(r) PROVE FALSE
    OBVIOUS
  <2>2. seen[r] \in 1..Len(sent[r])
    BY <2>1 DEF SeenClosing, PanelInv, PanelType
  <2>3. sent[r] # <<>> /\ sent[r][Len(sent[r])].type \in Closing
    BY <2>1, <2>2 DEF SeenClosing, PanelInv, StreamsInv
  <2> QED BY <1>1, <2>3 DEF Panel!Follows, Closing
<1> QED BY <1>1, <1>3, <1>4 DEF Panel!Emit, Panel!Answering, Panel!ui, Panel!shown, Panel!refs

\* Once a run has been read to its close, there is no more of it.
LEMMA CloseStays ==
  ASSUME PanelInv, [RunsNext]_runVars, NEW r \in Panel!Runs, SeenClosing(r)
  PROVE  seen'[r] = seen[r] /\ sent'[r] = sent[r]
<1>1. seen[r] = Len(sent[r])
  BY DEF SeenClosing, PanelInv, PanelType, StreamsInv
<1>2. ASSUME NEW q \in Panel!Runs, Panel!Emit(q)
      PROVE  seen'[r] = seen[r] /\ sent'[r] = sent[r]
  <2>1. q # r /\ seen' = seen /\ \E e : sent' = [sent EXCEPT ![q] = Append(sent[q], e)]
    BY <1>2, Emitted
  <2> QED BY <2>1 DEF PanelInv, PanelType
<1>3. ASSUME NEW q \in Panel!Runs, Panel!applyEvent(q)
      PROVE  seen'[r] = seen[r] /\ sent'[r] = sent[r]
  <2>1. q # r
    BY <1>1, <1>3 DEF Panel!applyEvent, PanelInv, PanelType
  <2> QED BY <1>3, <2>1 DEF Panel!applyEvent, Panel!wire, PanelInv, PanelType
<1> QED BY <1>2, <1>3, StepWire

\* A body that has ended brings nothing more.
LEMMA EndStays ==
  ASSUME PanelInv, [RunsNext]_runVars, NEW r \in Panel!Runs, body[r] # "open"
  PROVE  body'[r] = body[r] /\ sent'[r] = sent[r]
<1> USE DEF PanelInv, PanelType
<1>1. CASE UNCHANGED panelVars
  BY <1>1 DEF panelVars
<1>2. CASE Quiet
  BY <1>2 DEF Quiet, Panel!Cancel, Panel!Unmount, Panel!ColdHint, Panel!wire
<1>3. ASSUME NEW q \in Panel!Runs, Panel!Start(q) \/ Proceeds(q) \/ Panel!applyEvent(q)
      PROVE  UNCHANGED <<sent, body>>
  BY <1>3 DEF Panel!Start, Proceeds, Panel!applyEvent, Panel!wire
<1>4. ASSUME NEW q \in Panel!Runs, GivesUp(q) \/ Panel!Aborted(q) \/ Panel!StreamEnds(q)
      PROVE  UNCHANGED <<sent, body>>
  BY <1>4 DEF GivesUp, Panel!Fails, Panel!Aborted, Panel!StreamEnds, Panel!Return, Panel!wire
<1>5. ASSUME NEW q \in Panel!Runs, Panel!Emit(q) \/ Panel!Close(q) \/ Panel!Cut(q)
      PROVE  body'[r] = body[r] /\ sent'[r] = sent[r]
  <2>1. q # r
    BY <1>5 DEF Panel!Emit, Panel!Close, Panel!Cut, Panel!Answering
  <2> QED BY <1>5, <2>1 DEF Panel!Emit, Panel!Close, Panel!Cut
<1> QED BY <1>1, <1>2, <1>3, <1>4, <1>5, PanelSteps

\* The event a run applies.
NextOf(r) == sent[r][seen[r] + 1]

LEMMA Applied ==
  ASSUME PanelInv, NEW r \in Panel!Runs, Panel!applyEvent(r)
  PROVE  /\ r \in Panel!GoingOn /\ ~SeenClosing(r) /\ at[r] = "read"
         /\ seen[r] + 1 \in 1..Len(sent[r]) /\ NextOf(r) \in Panel!Events
         /\ seen' = [seen EXCEPT ![r] = seen[r] + 1] /\ seen'[r] = seen[r] + 1
         /\ steps' = Panel!StepsOf(r, NextOf(r))
         /\ error' = (error \/ NextOf(r).type = "run:error")
         /\ UNCHANGED <<abortRef, panelAborted, crossed, at, body, sent>>
         /\ \/ Panel!PhaseOf(NextOf(r)) = phase /\ UNCHANGED <<phase, speaker>>
            \/ /\ Panel!PhaseOf(NextOf(r)) # phase
               /\ phase' = Panel!PhaseOf(NextOf(r)) /\ speaker' = r
<1> USE DEF PanelInv, PanelType
<1>1. r \in Panel!GoingOn /\ at[r] = "read"
  BY DEF Panel!applyEvent, Panel!Settled, Panel!GoingOn
<1>2. seen[r] \in Nat /\ Len(sent[r]) \in Nat /\ seen[r] < Len(sent[r]) /\ sent[r] \in Seq(Panel!Events)
  BY DEF Panel!applyEvent
<1>3. seen[r] + 1 \in 1..Len(sent[r]) /\ NextOf(r) \in Panel!Events
  <2>1. seen[r] + 1 \in 1..Len(sent[r])
    BY <1>2
  <2> DEFINE E == Panel!Events
  <2> HIDE DEF E
  <2>2. sent[r] \in Seq(E)
    BY <1>2 DEF E
  <2>3. sent[r][seen[r] + 1] \in E
    BY <2>1, <2>2
  <2> QED BY <2>1, <2>3 DEF NextOf, E
<1>4. ~SeenClosing(r)
  BY <1>2 DEF SeenClosing, StreamsInv
<1>5. seen' = [seen EXCEPT ![r] = seen[r] + 1] /\ seen'[r] = seen[r] + 1
  BY DEF Panel!applyEvent
<1>6. /\ steps' = Panel!StepsOf(r, NextOf(r)) /\ error' = (error \/ NextOf(r).type = "run:error")
      /\ IF Panel!PhaseOf(NextOf(r)) = phase THEN UNCHANGED Panel!shown
         ELSE Panel!SetPhase(Panel!PhaseOf(NextOf(r)), r)
      /\ UNCHANGED <<abortRef, panelAborted, crossed, at, body, sent>>
  BY DEF Panel!applyEvent, NextOf, Panel!wire
<1> QED BY <1>1, <1>3, <1>4, <1>5, <1>6 DEF Panel!shown, Panel!SetPhase

LEMMA PhaseOfEvent ==
  ASSUME NEW e \in Panel!Events
  PROVE  \/ e.type = "run:start" /\ Panel!PhaseOf(e) = "running"
         \/ e.type = "run:error" /\ Panel!PhaseOf(e) = "failed"
         \/ /\ \E v \in {"succeeded", "failed"} :
                 e = Panel!Event("run:finish", None, v) /\ Panel!PhaseOf(e) = v
            /\ e.type = "run:finish" /\ e.status = Panel!PhaseOf(e)
         \/ e.type \notin {"run:start", "run:error", "run:finish"} /\ Panel!PhaseOf(e) = phase
BY DEF Panel!Events, Panel!Event, Panel!PhaseOf

\* Who sets the phase, and to what.
LEMMA StepPhase ==
  ASSUME PanelInv, [RunsNext]_runVars
  PROVE  /\ \/ UNCHANGED <<phase, speaker>>
            \/ \E r \in Panel!Runs : phase' = "waking" /\ Panel!Start(r)
            \/ phase' = "cancelled"
            \/ phase' = "failed" /\ error'
            \/ \E r \in Panel!Runs :
                 /\ Panel!applyEvent(r) /\ phase' = Panel!PhaseOf(NextOf(r)) /\ speaker' = r
                 /\ phase' # phase
            \/ \E r \in Panel!Runs :
                 Panel!StreamEnds(r) /\ Panel!Busy /\ phase' = "succeeded" /\ speaker' = r
         /\ \/ steps' = steps /\ (error => error')
            \/ \E r \in Panel!Runs : phase' = "waking" /\ Panel!Start(r)
            \/ \E r \in Panel!Runs : Panel!applyEvent(r) /\ (error => error')
<1> USE DEF Panel!SetPhase, Panel!shown
<1>1. CASE UNCHANGED panelVars
  BY <1>1 DEF panelVars
<1>2. CASE Quiet
  BY <1>2 DEF Quiet, Panel!Cancel, Panel!Unmount, Panel!ColdHint, Panel!ui
<1>3. CASE \E r \in Panel!Runs : Panel!Start(r)
  BY <1>3 DEF Panel!Start
<1>4. CASE \E r \in Panel!Runs : Proceeds(r)
  BY <1>4 DEF Proceeds
<1>5. CASE \E r \in Panel!Runs : GivesUp(r)
  BY <1>5 DEF GivesUp, Panel!Fails, Panel!Return
<1>6. CASE \E r \in Panel!Runs : Panel!Aborted(r)
  BY <1>6 DEF Panel!Aborted, Panel!Return
<1>7. CASE \E r \in Panel!Runs : Panel!applyEvent(r)
  BY <1>7, Applied
<1>8. ASSUME NEW r \in Panel!Runs, Panel!StreamEnds(r)
      PROVE  /\ \/ UNCHANGED <<phase, speaker>>
                \/ Panel!Busy /\ phase' = "succeeded" /\ speaker' = r
             /\ steps' = steps /\ (error => error')
  BY <1>8 DEF Panel!StreamEnds, Panel!AtEnd, Panel!Return
<1>9. CASE \E r \in Panel!Runs : Panel!Emit(r) \/ Panel!Close(r) \/ Panel!Cut(r)
  BY <1>9 DEF Panel!Emit, Panel!Close, Panel!Cut, Panel!ui
<1> QED BY <1>1, <1>2, <1>3, <1>4, <1>5, <1>6, <1>7, <1>8, <1>9, PanelSteps

-----------------------------------------------------------------------------
(* Every step keeps the invariant *)

LEMMA StepAt ==
  ASSUME PanelInv, [RunsNext]_runVars, NEW r \in Panel!Runs
  PROVE  /\ at[r] = "unused" => at'[r] \in {"unused", "session"}
         /\ at[r] = "read" => at'[r] \in {"read", "done"}
         /\ at[r] = "done" => at'[r] = "done"
<1> USE DEF PanelInv, PanelType
<1>1. CASE UNCHANGED panelVars
  BY <1>1 DEF panelVars
<1>2. CASE Quiet
  BY <1>2 DEF Quiet, Panel!Cancel, Panel!Unmount, Panel!ColdHint
<1>3. ASSUME NEW q \in Panel!Runs, Panel!Start(q)
      PROVE  at[q] = "unused" /\ at' = [at EXCEPT ![q] = "session"]
  BY <1>3 DEF Panel!Start
<1>4. ASSUME NEW q \in Panel!Runs, Proceeds(q)
      PROVE  at[q] \in {"session", "fetch"} /\ \E to : at' = [at EXCEPT ![q] = to]
  BY <1>4 DEF Proceeds
<1>5. ASSUME NEW q \in Panel!Runs, GivesUp(q) \/ Panel!Aborted(q) \/ Panel!StreamEnds(q)
      PROVE  at[q] # "unused" /\ at' = [at EXCEPT ![q] = "done"]
  BY <1>5 DEF GivesUp, Running, Panel!Fails, Panel!Aborted, Panel!StreamEnds, Panel!Return
<1>6. ASSUME NEW q \in Panel!Runs,
             Panel!applyEvent(q) \/ Panel!Emit(q) \/ Panel!Close(q) \/ Panel!Cut(q)
      PROVE  at' = at
  BY <1>6 DEF Panel!applyEvent, Panel!Emit, Panel!Close, Panel!Cut
<1> QED BY <1>1, <1>2, <1>3, <1>4, <1>5, <1>6, PanelSteps

\* No step changes what was written and read of a run, but for its own two.
LEMMA StepStream ==
  ASSUME PanelInv, [RunsNext]_runVars, NEW r \in Panel!Runs
  PROVE  \/ sent'[r] = sent[r] /\ seen'[r] = seen[r]
         \/ Panel!Emit(r) \/ Panel!applyEvent(r)
<1> USE DEF PanelInv, PanelType
<1>1. ASSUME NEW q \in Panel!Runs, Panel!Emit(q), q # r
      PROVE  sent'[r] = sent[r] /\ seen'[r] = seen[r]
  BY <1>1 DEF Panel!Emit
<1>2. ASSUME NEW q \in Panel!Runs, Panel!applyEvent(q), q # r
      PROVE  sent'[r] = sent[r] /\ seen'[r] = seen[r]
  BY <1>2, Applied
<1> QED BY <1>1, <1>2, StepWire

LEMMA StepStreams ==
  ASSUME PanelInv, [RunsNext]_runVars
  PROVE  StreamsInv'
<1> USE DEF PanelInv, PanelType
<1>1. ASSUME NEW r \in Panel!Runs, at'[r] \notin {"read", "done"}
      PROVE  sent'[r] = <<>>
  <2>1. at[r] \notin {"read", "done"}
    BY <1>1, StepAt
  <2>2. ~Panel!Emit(r) /\ ~Panel!applyEvent(r)
    BY <2>1 DEF Panel!Emit, Panel!Answering, Panel!applyEvent
  <2> QED BY <2>1, <2>2, StepStream DEF StreamsInv
<1>2. ASSUME NEW r \in Panel!Runs, NEW k \in 1..Len(sent'[r])
      PROVE  /\ sent'[r][k].type \in Closing => k = Len(sent'[r])
             /\ sent'[r][k].type = "run:finish" /\ sent'[r][k].status = "succeeded" =>
                  \A j \in 1..(k - 1) : ~(sent'[r][j].type = "step:finish"
                                          /\ sent'[r][j].status = "failed")
  <2>1. CASE sent'[r] = sent[r]
    BY <1>2, <2>1 DEF StreamsInv
  <2>2. CASE Panel!Emit(r)
    <3> DEFINE n == Len(sent[r])
    <3>1. PICK e \in Panel!Events :
             /\ Panel!Follows(sent[r], e) /\ sent'[r][n + 1] = e /\ Len(sent'[r]) = n + 1
             /\ \A j \in 1..n : sent'[r][j] = sent[r][j]
      BY <2>2, Emitted
    <3>2. n \in Nat /\ (sent[r] = <<>> => n = 0)
      OBVIOUS
    <3>3. \A j \in 1..n : sent[r][j].type \notin Closing
      BY <3>1, <3>2 DEF StreamsInv, Panel!Follows, Closing
    <3>4. e.type = "run:finish" /\ e.status = "succeeded" =>
            \A j \in 1..n : ~(sent[r][j].type = "step:finish" /\ sent[r][j].status = "failed")
      BY <3>1, <3>2 DEF Panel!Follows, Panel!HasFailed
    <3> HIDE DEF n
    <3>5. CASE k \in 1..n
      BY <3>1, <3>2, <3>3, <3>5 DEF Closing
    <3>6. CASE k = n + 1
      <4>1. sent'[r][k] = e /\ k = Len(sent'[r]) /\ 1..(k - 1) = 1..n
        BY <3>1, <3>2, <3>6
      <4> QED BY <3>1, <3>4, <4>1
    <3> QED BY <1>2, <3>1, <3>2, <3>5, <3>6
  <2>3. Panel!applyEvent(r) => sent'[r] = sent[r]
    BY Applied
  <2> QED BY <2>1, <2>2, <2>3, StepStream
<1> QED BY <1>1, <1>2 DEF StreamsInv

LEMMA StepType ==
  ASSUME PanelInv, [RunsNext]_runVars
  PROVE  PanelType'
<1> USE DEF PanelInv, PanelType
<1>1. CASE UNCHANGED panelVars
  BY <1>1 DEF panelVars
<1>2. CASE Quiet
  BY <1>2 DEF Quiet, Panel!Cancel, Panel!Unmount, Panel!ColdHint, Panel!SetPhase, Panel!ui,
              Panel!shown, Panel!wire, Panel!Abort
<1>3. ASSUME NEW r \in Panel!Runs, Panel!Start(r) PROVE PanelType'
  BY <1>3 DEF Panel!Start, Panel!SetPhase, Panel!wire
<1>4. ASSUME NEW r \in Panel!Runs, Proceeds(r) PROVE PanelType'
  BY <1>4 DEF Proceeds
<1>5. ASSUME NEW r \in Panel!Runs, GivesUp(r) \/ Panel!Aborted(r) \/ Panel!StreamEnds(r)
      PROVE  PanelType'
  BY <1>5 DEF GivesUp, Panel!Fails, Panel!Aborted, Panel!StreamEnds, Panel!AtEnd, Panel!Return,
              Panel!SetPhase, Panel!shown, Panel!wire
<1>6. ASSUME NEW r \in Panel!Runs, Panel!applyEvent(r) PROVE PanelType'
  <2>1. Panel!PhaseOf(NextOf(r)) \in {"running", "succeeded", "failed", phase}
    BY <1>6, Applied, PhaseOfEvent
  <2>2. /\ seen' = [seen EXCEPT ![r] = seen[r] + 1] /\ seen[r] + 1 \in 1..Len(sent[r])
        /\ UNCHANGED <<abortRef, panelAborted, at, body, sent>>
        /\ phase' \in {phase, Panel!PhaseOf(NextOf(r))} /\ speaker' \in {speaker, r}
    BY <1>6, Applied
  <2>3. seen' \in [Panel!Runs -> Nat] /\ \A q \in Panel!Runs : seen'[q] <= Len(sent'[q])
    BY <2>2
  <2> QED BY <2>1, <2>2, <2>3
<1>7. ASSUME NEW r \in Panel!Runs, Panel!Emit(r) PROVE PanelType'
  <2> DEFINE E == Panel!Events
  <2>1. PICK e \in E :
           /\ sent' = [sent EXCEPT ![r] = Append(sent[r], e)]
           /\ Len(sent'[r]) = Len(sent[r]) + 1
           /\ UNCHANGED <<phase, speaker, abortRef, panelAborted, at, body, seen>>
    BY <1>7, Emitted
  <2> HIDE DEF E
  <2>2. sent \in [Panel!Runs -> Seq(E)]
    BY DEF E
  <2>3. sent' \in [Panel!Runs -> Seq(E)]
    BY <2>1, <2>2
  <2>4. \A q \in Panel!Runs : seen'[q] <= Len(sent'[q])
    <3> TAKE q \in Panel!Runs
    <3>1. seen[q] \in Nat /\ Len(sent[q]) \in Nat /\ seen[q] <= Len(sent[q])
      BY <2>2
    <3>2. CASE q = r
      BY <2>1, <3>1, <3>2
    <3>3. CASE q # r
      BY <2>1, <2>2, <3>1, <3>3
    <3> QED BY <3>2, <3>3
  <2> QED BY <2>1, <2>3, <2>4 DEF E
<1>8. ASSUME NEW r \in Panel!Runs, Panel!Close(r) \/ Panel!Cut(r) PROVE PanelType'
  BY <1>8 DEF Panel!Close, Panel!Cut, Panel!ui, Panel!shown, Panel!refs
<1> QED BY <1>1, <1>2, <1>3, <1>4, <1>5, <1>6, <1>7, <1>8, PanelSteps

LEMMA StepAbort ==
  ASSUME PanelInv, [RunsNext]_runVars
  PROVE  Panel!AbortReachesALiveRun'
<1> USE DEF PanelInv, PanelType, Panel!AbortReachesALiveRun
<1>1. CASE UNCHANGED panelVars
  BY <1>1 DEF panelVars
<1>2. CASE Quiet
  BY <1>2 DEF Quiet, Panel!Cancel, Panel!Unmount, Panel!ColdHint, Panel!Abort
<1>3. ASSUME NEW r \in Panel!Runs, Panel!Start(r) PROVE Panel!AbortReachesALiveRun'
  BY <1>3 DEF Panel!Start
<1>4. ASSUME NEW r \in Panel!Runs, Proceeds(r) PROVE Panel!AbortReachesALiveRun'
  BY <1>4 DEF Proceeds
<1>5. ASSUME NEW r \in Panel!Runs, GivesUp(r) \/ Panel!Aborted(r) \/ Panel!StreamEnds(r)
      PROVE  Panel!AbortReachesALiveRun'
  BY <1>5 DEF GivesUp, Panel!Fails, Panel!Aborted, Panel!StreamEnds, Panel!Return
<1>6. ASSUME NEW r \in Panel!Runs,
             Panel!applyEvent(r) \/ Panel!Emit(r) \/ Panel!Close(r) \/ Panel!Cut(r)
      PROVE  Panel!AbortReachesALiveRun'
  BY <1>6 DEF Panel!applyEvent, Panel!Emit, Panel!Close, Panel!Cut, Panel!refs
<1> QED BY <1>1, <1>2, <1>3, <1>4, <1>5, <1>6, PanelSteps

LEMMA StepAlone ==
  ASSUME PanelInv, [RunsNext]_runVars
  PROVE  AloneInv'
<1> USE DEF PanelInv, AloneInv
<1>1. ASSUME NEW r \in Panel!GoingOn', NEW q \in Panel!GoingOn', r # q
      PROVE  r \in crossed'
  <2>1. CASE Panel!GoingOn' \subseteq Panel!GoingOn /\ crossed' = crossed
    BY <1>1, <2>1
  <2>2. ASSUME NEW s \in Panel!Runs, Panel!Start(s), Panel!GoingOn' = Panel!GoingOn \cup {s}
        PROVE  r \in crossed'
    BY <1>1, <2>2 DEF Panel!Start
  <2> QED BY <2>1, <2>2, StepGoing
<1>2. ASSUME phase' = "succeeded"
      PROVE  /\ speaker' \in Panel!Runs
             /\ speaker' \notin crossed' => Panel!GoingOn' \subseteq {speaker'}
  <2>1. Panel!GoingOn' \subseteq Panel!GoingOn /\ crossed' = crossed
    <3>1. ASSUME NEW r \in Panel!Runs PROVE ~Panel!Start(r)
      BY <1>2 DEF Panel!Start, Panel!SetPhase
    <3> QED BY <3>1, StepGoing
  <2>2. CASE UNCHANGED <<phase, speaker>>
    BY <1>2, <2>1, <2>2
  <2>3. ASSUME NEW r \in Panel!Runs, Panel!applyEvent(r) \/ Panel!StreamEnds(r), speaker' = r
        PROVE  /\ speaker' \in Panel!Runs
               /\ speaker' \notin crossed' => Panel!GoingOn' \subseteq {speaker'}
    <3>1. r \in Panel!GoingOn
      BY <2>3, Applied DEF Panel!StreamEnds, Panel!Settled, Panel!GoingOn
    <3> QED BY <2>1, <2>3, <3>1
  <2> QED BY <1>2, <2>2, <2>3, StepPhase
<1> QED BY <1>1, <1>2

LEMMA StepClose ==
  ASSUME PanelInv, [RunsNext]_runVars
  PROVE  CloseInv'
<1> USE DEF PanelInv
<1> SUFFICES ASSUME NEW r \in Panel!GoingOn', at'[r] = "read", SeenClosing(r)', r \notin crossed'
             PROVE  ~Panel!Busy'
  BY DEF CloseInv
<1>1. r \in Panel!GoingOn /\ crossed' = crossed /\ \A s \in Panel!Runs : ~Panel!Start(s)
  <2>1. ASSUME NEW s \in Panel!Runs, Panel!Start(s), Panel!GoingOn' = Panel!GoingOn \cup {s}
        PROVE  FALSE
    <3>1. at'[s] = "session"
      BY <2>1 DEF Panel!Start, PanelType
    <3>2. r # s /\ r \in Panel!GoingOn
      BY <2>1, <3>1
    <3> QED BY <2>1, <3>2 DEF Panel!Start
  <2>2. ASSUME NEW s \in Panel!Runs, Panel!Start(s) PROVE FALSE
    <3>1. Panel!GoingOn' = Panel!GoingOn \cup {s}
      BY <2>2 DEF Panel!Start, Panel!GoingOn, PanelType, Panel!AbortReachesALiveRun
    <3> QED BY <2>1, <2>2, <3>1
  <2> QED BY <2>2, StepGoing
<1>2. r \in Panel!Runs
  BY <1>1 DEF Panel!GoingOn
<1>3. CASE SeenClosing(r)
  <2>1. at[r] = "read"
    <3>1. sent[r] # <<>>
      BY <1>2, <1>3 DEF SeenClosing, PanelType
    <3> QED BY <1>1, <1>2, <3>1 DEF StreamsInv, Panel!GoingOn
  <2>2. ~Panel!Busy
    BY <1>1, <1>3, <2>1 DEF CloseInv
  <2>3. ASSUME NEW q \in Panel!Runs, Panel!applyEvent(q), phase' = Panel!PhaseOf(NextOf(q))
        PROVE  FALSE
    <3>1. q \in Panel!GoingOn /\ q # r
      BY <1>3, <2>3, Applied
    <3> QED BY <1>1, <3>1 DEF AloneInv
  <2> QED BY <1>1, <2>2, <2>3, StepPhase DEF Panel!Busy
<1>4. CASE ~SeenClosing(r)
  <2>1. Panel!applyEvent(r)
    <3>1. ASSUME Panel!Emit(r) PROVE FALSE
      <4>1. seen'[r] = seen[r] /\ \A k \in 1..Len(sent[r]) : sent'[r][k] = sent[r][k]
        BY <1>2, <3>1, Emitted
      <4> QED BY <1>2, <1>4, <4>1 DEF SeenClosing, PanelType
    <3> QED BY <1>2, <1>4, <3>1, StepStream DEF SeenClosing
  <2>2. NextOf(r).type \in Closing
    BY <1>2, <2>1, Applied DEF SeenClosing, NextOf
  <2>3. Panel!PhaseOf(NextOf(r)) \in {"succeeded", "failed"}
    <3>1. NextOf(r) \in Panel!Events
      BY <1>2, <2>1, Applied
    <3> QED BY <2>2, <3>1, PhaseOfEvent DEF Closing
  <2>4. phase' = Panel!PhaseOf(NextOf(r))
    BY <1>2, <2>1, Applied
  <2> QED BY <2>3, <2>4 DEF Panel!Busy
<1> QED BY <1>3, <1>4

\* A success that is shown stays what it was, or is shown anew.
LEMMA StepSuccess ==
  ASSUME PanelInv, [RunsNext]_runVars, phase' = "succeeded"
  PROVE  SaidInv'
<1> USE DEF PanelInv
<1>1. crossed' = crossed
  <2>1. ASSUME NEW r \in Panel!Runs PROVE ~Panel!Start(r)
    BY DEF Panel!Start, Panel!SetPhase
  <2> QED BY <2>1, StepGoing
<1>2. CASE UNCHANGED <<phase, speaker>>
  <2>1. speaker \in Panel!Runs /\ phase = "succeeded"
    BY <1>2 DEF AloneInv
  <2>2. CASE Panel!EndedEarly(speaker)
    <3>1. Panel!EndedEarly(speaker)'
      BY <1>2, <2>1, <2>2, EndStays DEF Panel!EndedEarly, Panel!Over
    <3> QED BY <1>2, <2>1, <3>1 DEF SaidInv
  <2>3. CASE speaker \in crossed
    BY <1>1, <1>2, <2>1, <2>3 DEF SaidInv
  <2>4. CASE ~Panel!EndedEarly(speaker) /\ speaker \notin crossed
    <3>1. /\ seen[speaker] > 0
          /\ sent[speaker][seen[speaker]] = Panel!Event("run:finish", None, "succeeded")
          /\ \A k \in 1..Len(steps) : steps[k].status = "succeeded"
      BY <2>1, <2>4 DEF SaidInv
    <3>2. SeenClosing(speaker)
      BY <3>1 DEF SeenClosing, Closing, Panel!Event
    <3>3. seen'[speaker] = seen[speaker] /\ sent'[speaker] = sent[speaker]
      BY <2>1, <3>2, CloseStays
    <3>4. ASSUME NEW r \in Panel!Runs PROVE ~Panel!applyEvent(r)
      BY <2>1, <2>4, <3>2, Applied DEF AloneInv
    <3>5. steps' = steps
      BY <2>1, <1>2, <3>4, StepPhase
    <3> QED BY <1>2, <2>1, <3>1, <3>3, <3>5 DEF SaidInv
  <2> QED BY <2>2, <2>3, <2>4
<1>3. ASSUME NEW r \in Panel!Runs, Panel!applyEvent(r), speaker' = r, phase' # phase,
             phase' = Panel!PhaseOf(NextOf(r))
      PROVE  SaidInv'
  <2>1. /\ NextOf(r) \in Panel!Events /\ seen'[r] = seen[r] + 1 /\ sent' = sent
        /\ seen[r] + 1 \in 1..Len(sent[r]) /\ steps' = Panel!StepsOf(r, NextOf(r))
    BY <1>3, Applied
  <2>2. /\ NextOf(r) = Panel!Event("run:finish", None, "succeeded")
        /\ NextOf(r).type = "run:finish" /\ NextOf(r).status = "succeeded"
    BY <1>3, <2>1, PhaseOfEvent
  <2>3. seen'[r] > 0 /\ sent'[r][seen'[r]] = Panel!Event("run:finish", None, "succeeded")
    BY <2>1, <2>2 DEF NextOf
  <2> DEFINE t == SubSeq(sent[r], 1, seen[r])
             E == Panel!Events
  <2>4. /\ t \in Seq(E) /\ Len(t) = seen[r] /\ \A j \in 1..Len(t) : t[j] = sent[r][j]
    <3> HIDE DEF E
    <3>1. sent[r] \in Seq(E) /\ seen[r] \in Nat /\ Len(sent[r]) \in Nat /\ seen[r] <= Len(sent[r])
      BY <2>1 DEF PanelType, E
    <3> QED BY <3>1
  <2>5. ~Panel!HasFailed(t)
    <3>1. \A j \in 1..seen[r] : ~(sent[r][j].type = "step:finish" /\ sent[r][j].status = "failed")
      <4> DEFINE k == seen[r] + 1
      <4>1. k \in 1..Len(sent[r]) /\ sent[r][k].type = "run:finish" /\ sent[r][k].status = "succeeded"
        BY <2>1, <2>2 DEF NextOf
      <4>2. k - 1 = seen[r]
        BY DEF PanelType
      <4> HIDE DEF k
      <4>3. \A j \in 1..(k - 1) : ~(sent[r][j].type = "step:finish" /\ sent[r][j].status = "failed")
        BY <4>1 DEF StreamsInv
      <4> QED BY <4>2, <4>3
    <3> HIDE DEF t
    <3> QED BY <2>4, <3>1 DEF Panel!HasFailed
  <2>6. steps' = Panel!Final(t)
    BY <2>1, <2>2 DEF Panel!StepsOf
  <2> HIDE DEF t
  <2>7. \A k \in 1..Len(steps') : steps'[k].status = "succeeded"
    BY <2>4, <2>5, <2>6, FinalSucceeds
  <2> QED BY <1>3, <2>3, <2>7 DEF SaidInv
<1>4. ASSUME NEW r \in Panel!Runs, Panel!StreamEnds(r), Panel!Busy, speaker' = r
      PROVE  SaidInv'
  <2>1. /\ r \in Panel!GoingOn /\ at[r] = "read" /\ seen[r] = Len(sent[r]) /\ body[r] = "clean"
        /\ UNCHANGED <<sent, body>>
    BY <1>4 DEF Panel!StreamEnds, Panel!Settled, Panel!GoingOn, Panel!Return, Panel!wire
  <2>2. CASE ~Panel!Over(sent[r])
    BY <1>4, <2>1, <2>2 DEF SaidInv, Panel!EndedEarly
  <2>3. CASE Panel!Over(sent[r])
    <3>1. SeenClosing(r)
      BY <2>1, <2>3 DEF Panel!Over, SeenClosing, Closing, PanelType
    <3>2. r \in crossed
      BY <1>4, <2>1, <3>1 DEF CloseInv
    <3> QED BY <1>1, <1>4, <3>2 DEF SaidInv
  <2> QED BY <2>2, <2>3
<1> QED BY <1>2, <1>3, <1>4, StepPhase DEF Panel!Start, Panel!SetPhase

LEMMA StepFailure ==
  ASSUME PanelInv, [RunsNext]_runVars, phase' = "failed"
  PROVE  SaidInv'
<1> USE DEF PanelInv
<1>1. error /\ phase = "failed" => error'
  BY StepPhase
<1>2. CASE UNCHANGED <<phase, speaker>> /\ ~error'
  <2>1. /\ speaker \in Panel!Runs /\ seen[speaker] > 0
        /\ sent[speaker][seen[speaker]] = Panel!Event("run:finish", None, "failed")
    BY <1>1, <1>2 DEF SaidInv
  <2>2. SeenClosing(speaker)
    BY <2>1 DEF SeenClosing, Closing, Panel!Event
  <2>3. seen'[speaker] = seen[speaker] /\ sent'[speaker] = sent[speaker]
    BY <2>1, <2>2, CloseStays
  <2> QED BY <1>2, <2>1, <2>3 DEF SaidInv
<1>3. ASSUME NEW r \in Panel!Runs, Panel!applyEvent(r), speaker' = r, phase' # phase,
             phase' = Panel!PhaseOf(NextOf(r)), ~error'
      PROVE  SaidInv'
  <2>1. /\ NextOf(r) \in Panel!Events /\ seen'[r] = seen[r] + 1 /\ sent' = sent
        /\ seen[r] + 1 \in 1..Len(sent[r]) /\ NextOf(r).type # "run:error"
    BY <1>3, Applied
  <2>2. NextOf(r) = Panel!Event("run:finish", None, "failed")
    BY <1>3, <2>1, PhaseOfEvent
  <2> QED BY <1>3, <2>1, <2>2 DEF SaidInv, NextOf
<1>4. CASE error'
  BY <1>4 DEF SaidInv
<1> QED BY <1>2, <1>3, <1>4, StepPhase

LEMMA PanelStarts == RunsInit => PanelInv
<1> SUFFICES ASSUME Panel!Init PROVE PanelInv
  BY DEF RunsInit
<1>1. PanelType /\ StreamsInv
  BY DEF Panel!Init, PanelType, StreamsInv
<1>2. Panel!GoingOn = {}
  BY DEF Panel!Init, Panel!GoingOn
<1> QED BY <1>1, <1>2 DEF Panel!Init, PanelInv, AloneInv, CloseInv, SaidInv,
                          Panel!AbortReachesALiveRun

LEMMA PanelGoesOn == PanelInv /\ [RunsNext]_runVars => PanelInv'
<1> SUFFICES ASSUME PanelInv, [RunsNext]_runVars PROVE PanelInv'
  OBVIOUS
<1>1. phase' \notin {"succeeded", "failed"} => SaidInv'
  BY DEF SaidInv
<1> QED BY <1>1, StepType, StepStreams, StepAbort, StepAlone, StepClose, StepSuccess, StepFailure
        DEF PanelInv

\* What the panel holds to cancel, if anything, is a run under way. A run is shown as a success only on
\* the engine's word, and over steps that all succeeded, unless its body ended early
\* or it went on beside another; it is shown as a failure only with an error or on
\* the engine's word: for any number of runs (useGraphRun.ts).
THEOREM PanelIsTrueToItsRun == RunsSpec => []PanelFollowsItsRun
<1>1. PanelInv => PanelFollowsItsRun
  BY DEF PanelInv, SaidInv, PanelFollowsItsRun, Panel!VerdictIsTheEngines, Panel!LastSeen
<1> QED BY <1>1, PanelStarts, PanelGoesOn, PTL DEF RunsSpec

=============================================================================
