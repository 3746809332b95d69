----------------------------- MODULE ExportPanel -----------------------------
(***************************************************************************)
(* The export dialog: it asks the server for code when it is opened, when  *)
(* another language is chosen and when the document changes under it, and  *)
(* shows and downloads what comes back.  A request is never called off, so *)
(* several can be on their way, and their answers overtake each other.     *)
(***************************************************************************)
EXTENDS Naturals, Sequences, SequencesExt

CONSTANTS MaxLoads,   \* bound: requests made
          None

VARIABLES open, target, document,   \* document: which version of it is on the canvas
          loads,                    \* requests on their way, oldest first
          loading, error, files,    \* what the dialog shows
          copying,                  \* a file is being copied to the clipboard
          made,                     \* requests made, for the bound
          heard                     \* history: what came since the newest was made, as
                                    \* [of, what], of a request or (0) of the clipboard
exportVars == <<open, target, document, loads, loading, error, files, copying, made, heard>>

Targets == {"typescript", "python"}
NoFiles == [target |-> None, document |-> None]

Init ==
  /\ open = FALSE /\ target = "typescript" /\ document = 0
  /\ loads = <<>> /\ loading = FALSE /\ error = FALSE /\ files = NoFiles
  /\ copying = FALSE /\ made = 0 /\ heard = {}

\* The route's refusals, in its order; a graph it cannot make code of is one too.
Checks == {"sameOrigin", "signedIn", "withinLimit", "small", "wellFormed", "generates"}
POST(passes) ==
  CASE "sameOrigin" \notin passes  -> "forbidden"
    [] "signedIn" \notin passes    -> "unauthenticated"
    [] "withinLimit" \notin passes -> "rate_limited"
    [] "small" \notin passes       -> "payload_too_large"
    [] passes \cap {"wellFormed", "generates"} # {"wellFormed", "generates"} -> "invalid"
    [] OTHER -> "files"

load ==
  /\ loads' = Append(loads, [id |-> made + 1, target |-> target', document |-> document'])
  /\ made < MaxLoads /\ made' = made + 1 /\ heard' = {}
  /\ loading' = TRUE /\ error' = FALSE /\ files' = NoFiles

\* It runs after any change of what it depends on, in the same commit.
Effect == IF open' /\ <<open, target, document>>' # <<open, target, document>> THEN load
          ELSE UNCHANGED <<loads, made, heard, loading, error, files>>

Toggle == open' = ~open /\ UNCHANGED <<target, document, copying>> /\ Effect
setTarget(t) ==
  /\ open /\ t # target /\ target' = t
  /\ UNCHANGED <<open, document, copying>> /\ Effect
\* The canvas can report a change while the dialog covers it.
Edit == document < MaxLoads /\ document' = document + 1 /\ UNCHANGED <<open, target, copying>> /\ Effect

Hear(of, what) == heard' = heard \cup {[of |-> of, what |-> what]}

\* An answer that is none of the route's refusals can still arrive without its files: a
\* body that is cut or cannot be parsed is an answer with nothing in it.
Outcome(answered, read) ==
  IF answered # "files" THEN "refused" ELSE IF read THEN "files" ELSE "nothing"

\* The finally puts loading back whichever request it was of.
answer(i) ==
  /\ \E answered \in {POST(passes) : passes \in SUBSET Checks} \cup {"unreachable"}, read \in BOOLEAN :
       LET what == Outcome(answered, read) IN
       /\ IF what = "refused" THEN error' = TRUE /\ UNCHANGED files
          ELSE /\ files' = IF what = "nothing" THEN NoFiles
                           ELSE [target |-> loads[i].target, document |-> loads[i].document]
               /\ UNCHANGED error
       /\ Hear(loads[i].id, what)
  /\ loads' = RemoveAt(loads, i) /\ loading' = FALSE
  /\ UNCHANGED <<open, target, document, copying, made>>

\* The clipboard answers later, or refuses; one copy at a time.
copyActive ==
  /\ open /\ files # NoFiles /\ ~copying /\ copying' = TRUE
  /\ UNCHANGED <<open, target, document, loads, loading, error, files, made, heard>>
copyEnds ==
  /\ copying /\ copying' = FALSE
  /\ \/ error' = TRUE /\ Hear(0, "refused")
     \/ UNCHANGED <<error, heard>>
  /\ UNCHANGED <<open, target, document, loads, loading, files, made>>

Next ==
  \/ made < MaxLoads /\ (Toggle \/ Edit \/ \E t \in Targets : setTarget(t))
  \/ \E i \in DOMAIN loads : answer(i)
  \/ copyActive \/ copyEnds

-----------------------------------------------------------------------------

\* What downloadBundle names the file and marks its parts with, and what is in it.
downloadBundle == [extension |-> target, contents |-> files]

\* An older request's answer came after the newest was made: requests are not
\* called off, nor are their answers told apart (ExportPanel.tsx:172-219).
Overtaken == \E h \in heard : h.of \notin {0, made}

\* While the dialog is open, it loads only when the newest request is under way,
\* shows code only when an answer since then had some, and an error exactly when
\* one was refused, or the clipboard was. Unless it is Overtaken, it loads for as
\* long as the newest request is under way, the code on show and in the download is
\* of the language that is chosen and of the document as it is on the canvas, and
\* with no code it says why: but where an answer has a body that cannot be read
\* (191, 202), it shows no code and no error.
FilesAreOfTheTarget ==
  LET newest == \E k \in DOMAIN loads : loads[k].id = made IN
  open =>
    /\ loading => newest
    /\ files # NoFiles => \E h \in heard : h.what = "files"
    /\ error <=> \E h \in heard : h.what = "refused"
    /\ ~Overtaken =>
         /\ loading <=> newest
         /\ files # NoFiles => /\ files = [target |-> target, document |-> document]
                              /\ downloadBundle.extension = downloadBundle.contents.target
         /\ ~loading /\ files = NoFiles => error \/ [of |-> made, what |-> "nothing"] \in heard

=============================================================================
