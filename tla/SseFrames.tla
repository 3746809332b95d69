------------------------------- MODULE SseFrames -------------------------------
(***************************************************************************)
(* The SSE framing of a run: the engine's send and keepalive write whole   *)
(* frames, the network delivers them in chunks cut anywhere, and the       *)
(* browser's takeFrames and parseFrame put the events together again.      *)
(* A character here is a field name, a line feed, or a piece of a payload. *)
(***************************************************************************)
EXTENDS Filters, SequencesExt

CONSTANTS Payloads,   \* the events, as what lies between the braces of their JSON
          MaxWrites

LF == "\n"
keepalive == "keepalive"

VARIABLES
    written,   \* what the engine wrote: payloads and keepalives
    wire,      \* the characters written and not yet delivered
    buffer,    \* the browser's
    applied,   \* the payloads of the events applied
    state      \* "open"; "ended" by the engine; "cut" by the network; "done"

vars == <<written, wire, buffer, applied, state>>

-----------------------------------------------------------------------------
(* The engine *)

frame(w) == IF w = keepalive THEN <<":", LF, LF>>
            ELSE <<"event", LF, "data", "{", w, "}", LF, LF>>

Write ==
    /\ state = "open" /\ Len(written) < MaxWrites
    /\ \E w \in Payloads \cup {keepalive} :
         /\ written' = Append(written, w)
         /\ wire' = wire \o frame(w)
    /\ UNCHANGED <<buffer, applied, state>>

\* raw.end(), or the connection is lost with what is still on its way.
End == state = "open" /\ state' = "ended" /\ UNCHANGED <<written, wire, buffer, applied>>
Cut == state = "open" /\ state' = "cut" /\ wire' = <<>> /\ UNCHANGED <<written, buffer, applied>>

-----------------------------------------------------------------------------
(* The browser *)

\* One turn of takeFrames's loop: up to the first blank line, and past it.
boundaries(s) == {k \in 1..(Len(s) - 1) : s[k] = LF /\ s[k + 1] = LF}
takeOne(t) ==
    LET s == t.rest
        k == CHOOSE k \in boundaries(s) : \A j \in boundaries(s) : k <= j IN
    IF boundaries(s) = {} THEN t
    ELSE [frames |-> Append(t.frames, SubSeq(s, 1, k - 1)), rest |-> SubSeq(s, k + 2, Len(s))]

takeFrames(text) ==
    LET turn[k \in 0..Len(text)] ==
          IF k = 0 THEN [frames |-> <<>>, rest |-> text] ELSE takeOne(turn[k - 1])
    IN  turn[Len(text)]

\* The lines of a frame: the last of them takes a character.
lengthened(ls, c) == IF c = LF THEN Append(ls, <<>>) ELSE [ls EXCEPT ![Len(ls)] = Append(@, c)]
linesOf(f) ==
    LET upTo[k \in 0..Len(f)] == IF k = 0 THEN << <<>> >> ELSE lengthened(upTo[k - 1], f[k])
    IN  upTo[Len(f)]

\* The payload of a frame as a sequence of one, or <<>> (null): what is not whole
\* JSON does not parse.
dataOf(ls) == Filter(ls, {l \in Range(ls) : l # <<>> /\ l[1] = "data"})
parseFrame(f) ==
    LET data == dataOf(linesOf(f)) IN
    IF Len(data) = 1 /\ Len(data[1]) = 4 /\ data[1][4] = "}" THEN <<data[1][3]>> ELSE <<>>

events(frames) ==
    LET upTo[k \in 0..Len(frames)] ==
            IF k = 0 THEN <<>> ELSE upTo[k - 1] \o parseFrame(frames[k])
    IN  upTo[Len(frames)]

keep(rest) == rest

Chunk ==
    /\ wire # <<>> /\ state # "done"
    /\ \E k \in 1..Len(wire) :
         LET t == takeFrames(buffer \o SubSeq(wire, 1, k)) IN
         /\ buffer' = keep(t.rest)
         /\ applied' = applied \o events(t.frames)
         /\ wire' = SubSeq(wire, k + 1, Len(wire))
    /\ UNCHANGED <<written, state>>

\* The body is over: a last frame may lack its blank line.
\* Mutant of tail: the whole buffer was applied before, it is applied again.
tailTwice == parseFrame(buffer) \o parseFrame(buffer)
tail == parseFrame(buffer)
Done ==
    /\ state \in {"ended", "cut"} /\ wire = <<>>
    /\ applied' = applied \o tail
    /\ state' = "done" /\ buffer' = <<>>
    /\ UNCHANGED <<written, wire>>

Init == written = <<>> /\ wire = <<>> /\ buffer = <<>> /\ applied = <<>> /\ state = "open"
Next == Write \/ End \/ Cut \/ Chunk \/ Done
Spec == Init /\ [][Next]_vars

-----------------------------------------------------------------------------
(* Properties *)

sentEvents == Filter(written, Payloads)

\* Wherever the network cuts the chunks, the browser applies the events the
\* engine sent, in order, each once and whole (useGraphRun.ts:11-14, the buffer).
EventsInOrder == IsPrefix(applied, sentEvents)

\* Of what was delivered nothing is held back: the events not applied yet lie on
\* the wire or in one incomplete frame, and after a proper end none is missing.
NothingHeldBack ==
    /\ boundaries(buffer) = {}
    /\ state \in {"open", "ended"} =>
          applied \o events(takeFrames(buffer \o wire).frames) = sentEvents

=============================================================================
