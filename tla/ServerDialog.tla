----------------------------- MODULE ServerDialog -----------------------------
(***************************************************************************)
(* The dialog that connects a server to a graph: one typed into its form,  *)
(* which the engine is asked for the tools of, or one saved before, whose  *)
(* tools are cached.  Escape closes the dialog over a request, which goes  *)
(* on; the dialog stays mounted and takes the answer when it comes.        *)
(***************************************************************************)
EXTENDS Naturals

CONSTANTS Saved,         \* saved connections
          Typed,         \* what can be typed into the form
          MaxAttempts,   \* bound: requests made
          None

VARIABLES dialog,      \* what is on show, and the form
          underWay,    \* the requests that are not answered
          timers,      \* hints about a cold engine that are still to be given
          coldTimer,   \* the hint the dialog would call off, 0 before the first
          servers,     \* the servers on the canvas
          attempts,    \* requests made, for the bound
          strayed      \* history: the dialog was closed over a request
dialogVars == <<dialog, underWay, timers, coldTimer, servers, attempts, strayed>>

Init ==
  /\ dialog = [open |-> FALSE, form |-> None, busy |-> FALSE, cold |-> FALSE,
               importing |-> None, error |-> FALSE]
  /\ underWay = {} /\ timers = {} /\ coldTimer = 0
  /\ servers = {} /\ attempts = 0 /\ strayed = FALSE

\* The effect of closing. What is being imported is left alone.
Reset(d) == [d EXCEPT !.open = FALSE, !.busy = FALSE, !.cold = FALSE, !.error = FALSE]

\* onClose does nothing to a dialog that is closed.
Closed(d) == IF d.open THEN Reset(d) ELSE d
\* Whatever closes it over a request, or over a hint such a request left behind.
Strays ==
  strayed' = IF dialog.open /\ ~dialog'.open THEN underWay' # {} \/ (strayed /\ timers' # {})
             ELSE strayed

Open ==
  /\ ~dialog.open /\ dialog' = [dialog EXCEPT !.open = TRUE]
  /\ UNCHANGED <<underWay, timers, coldTimer, servers, attempts, strayed>>
\* Cancel, or Escape, which works while a request is under way too.
onClose ==
  /\ dialog.open /\ dialog' = Closed(dialog)
  /\ UNCHANGED <<underWay, timers, coldTimer, servers, attempts>>
  /\ Strays
Types ==
  /\ dialog.open /\ \E text \in Typed : dialog' = [dialog EXCEPT !.form = text]
  /\ UNCHANGED <<underWay, timers, coldTimer, servers, attempts, strayed>>

-----------------------------------------------------------------------------

Attempt(kind, what) ==
  /\ attempts < MaxAttempts /\ attempts' = attempts + 1
  /\ underWay' = underWay \cup {[id |-> attempts + 1, kind |-> kind, what |-> what]}

\* An import under way does not keep the form from being sent.
submit ==
  /\ dialog.open /\ ~dialog.busy /\ dialog.form # None
  /\ Attempt("submit", dialog.form)
  /\ dialog' = [dialog EXCEPT !.error = FALSE, !.busy = TRUE, !.cold = FALSE]
  /\ timers' = timers \cup {attempts'} /\ coldTimer' = attempts'
  /\ UNCHANGED <<servers, strayed>>

available == {c \in Saved : \A s \in servers : s.id # c}
importSaved(c) ==
  /\ dialog.open /\ ~dialog.busy /\ dialog.importing = None /\ c \in available
  /\ Attempt("import", c)
  /\ dialog' = [dialog EXCEPT !.error = FALSE, !.importing = c]
  /\ UNCHANGED <<timers, coldTimer, servers, strayed>>

\* Every one of them lives for the same three seconds.
TimerFires ==
  /\ \E t \in timers : /\ \A u \in timers : t <= u
                       /\ timers' = timers \ {t}
  /\ dialog' = [dialog EXCEPT !.cold = TRUE]
  /\ UNCHANGED <<underWay, coldTimer, servers, attempts, strayed>>

\* A server of the same id takes the place of the one that is there.
addServer(id, what) == servers' = {s \in servers : s.id # id} \cup {[id |-> id, what |-> what]}

\* Tools, or none, no session, a refusal, no engine.  The form is cleared and the
\* dialog closed whatever they are by then; the hint that is called off is the
\* last one set.
submitAnswered(r) ==
  LET settled == [dialog EXCEPT !.busy = FALSE, !.cold = FALSE] IN
  /\ r \in underWay /\ r.kind = "submit" /\ underWay' = underWay \ {r}
  /\ \/ addServer(r.id, r.what) /\ dialog' = Closed([settled EXCEPT !.form = None])
     \/ dialog' = [settled EXCEPT !.error = TRUE] /\ UNCHANGED servers
  /\ timers' = timers \ {coldTimer}
  /\ UNCHANGED <<coldTimer, attempts>>
  /\ Strays

\* The cached tools, or none and an error; a call that rejects shows nothing.
importAnswered(r) ==
  LET settled == [dialog EXCEPT !.importing = None] IN
  /\ r \in underWay /\ r.kind = "import" /\ underWay' = underWay \ {r}
  /\ \/ addServer(r.what, r.what) /\ dialog' = Closed(settled)
     \/ dialog' = [settled EXCEPT !.error = TRUE] /\ UNCHANGED servers
     \/ dialog' = settled /\ UNCHANGED servers
  /\ UNCHANGED <<timers, coldTimer, attempts>>
  /\ Strays

Next ==
  \/ Open \/ onClose \/ Types \/ submit \/ TimerFires
  \/ \E c \in Saved : importSaved(c)
  \/ \E r \in underWay : submitAnswered(r) \/ importAnswered(r)

-----------------------------------------------------------------------------

\* The dialog waits only for what is under way, in the form and in the list; and
\* unless it was closed over a request, it is busy for as long as the form's
\* request is under way, hints at a cold engine only then, and opens without the
\* error of an earlier attempt. Closed over a request, it is not: the answer still
\* clears and closes whatever is on show by then.
DialogSpeaksOfItsAttempt ==
  /\ dialog.busy => \E r \in underWay : r.kind = "submit"
  /\ dialog.importing # None => \E r \in underWay : r.kind = "import"
  /\ ~strayed =>
       /\ (\E r \in underWay : r.kind = "submit") => dialog.busy
       /\ dialog.cold => dialog.busy
       /\ ~dialog.open => ~dialog.error

=============================================================================
