----------------------------- MODULE Introspection -----------------------------
(***************************************************************************)
(* POST /introspect on the engine, past its caller check and its limiter:  *)
(* a server named by a user is vetted, dialled, asked for its tools and    *)
(* left again. Every request of the transport goes through guardedFetch,   *)
(* which follows redirects itself and vets each target.                    *)
(***************************************************************************)
EXTENDS Integers, Sequences

CONSTANTS Urls,            \* what a server may name
          ConnectTimeout, TotalTimeout,   \* ticks; 10 s and 30 s
          MAX_REDIRECTS,
          MaxDelay,        \* bounds what the code does not: the URL check, the close
          None

VARIABLES
    now,
    phase,      \* "url", "connect", "list", "close", "replied"
    opened,     \* when the transport was made
    until,      \* when the timer of the race in progress fires
    fetching,   \* the transport's request: [url, hop, method, body, at, vetted]
    dials,      \* its hops: [url, vetted, method, body]
    transport,  \* "none", "open", "closed"
    answer      \* None, "tools", "server_not_allowed" (400), "introspection_failed" (502)

vars == <<now, phase, opened, until, fetching, dials, transport, answer>>

Init ==
    /\ now = 0 /\ phase = "url" /\ opened = None /\ until = MaxDelay
    /\ fetching = None /\ dials = <<>> /\ transport = "none" /\ answer = None

\* introspectServer computes it before anything is awaited.
deadline == TotalTimeout

\* The transport posts each message; whether the URL is allowed is asked again.
post(u) == [url |-> u, hop |-> 0, method |-> "POST", body |-> TRUE, at |-> "check", vetted |-> None]

-----------------------------------------------------------------------------
(* createTransport *)

\* A stdio server, no URL, or one the guard refuses: there is no transport yet.
UrlRefused ==
    /\ phase = "url"
    /\ phase' = "replied" /\ answer' = "server_not_allowed"
    /\ UNCHANGED <<now, opened, until, fetching, dials, transport>>

UrlAllowed ==
    /\ phase = "url"
    /\ phase' = "connect" /\ transport' = "open" /\ opened' = now
    /\ until' = now + (IF ConnectTimeout < TotalTimeout THEN ConnectTimeout ELSE TotalTimeout)
    /\ \E u \in Urls : fetching' = post(u)
    /\ dials' = <<>> /\ UNCHANGED <<now, answer>>

-----------------------------------------------------------------------------
(* The phases on the server *)

listLimit == IF deadline - now > 1 THEN deadline - now ELSE 1

\* The handshake or the list is answered.
Succeeds ==
    \/ /\ phase = "connect"
       /\ phase' = "list" /\ until' = now + listLimit
       /\ fetching' = post(fetching.url) /\ dials' = <<>>
       /\ UNCHANGED <<now, opened, transport, answer>>
    \/ /\ phase = "list"
       /\ phase' = "close" /\ answer' = "tools" /\ until' = now + MaxDelay
       /\ fetching' = None /\ UNCHANGED <<now, opened, dials, transport>>

\* The request fails: what is open is closed before anybody is told. A refusal of
\* the guard on the way is the policy's, whatever phase it is in. Once the race is
\* lost, nobody waits for the request any more.
\* Mutant of FailsWith: a handshake that failed has nothing to close.
FailsUnclosed(code) ==
    /\ fetching' = None
    /\ IF phase = "close" THEN UNCHANGED <<phase, answer, until>>
       ELSE /\ phase' = (IF phase = "connect" THEN "replied" ELSE "close")
            /\ answer' = code /\ until' = now + MaxDelay
    /\ UNCHANGED <<now, opened, dials, transport>>
FailsWith(code) ==
    /\ fetching' = None
    /\ IF phase = "close" THEN UNCHANGED <<phase, answer, until>>
       ELSE phase' = "close" /\ answer' = code /\ until' = now + MaxDelay
    /\ UNCHANGED <<now, opened, dials, transport>>

\* The timer wins; losing the race does not cancel the request under way.
TimesOut ==
    /\ phase \in {"connect", "list"} /\ now = until
    /\ phase' = "close" /\ answer' = "introspection_failed" /\ until' = now + MaxDelay
    /\ UNCHANGED <<now, opened, fetching, dials, transport>>

\* closeQuietly, of the client and of the transport, which aborts its request.
Close ==
    /\ phase = "close"
    /\ transport' = "closed" /\ phase' = "replied" /\ fetching' = None
    /\ UNCHANGED <<now, opened, until, dials, answer>>

-----------------------------------------------------------------------------
(* guardedFetch *)

\* Each turn of the loop vets its target before it is dialled.
Vet ==
    /\ fetching # None /\ fetching.at = "check"
    /\ \/ fetching' = [fetching EXCEPT !.at = "vetted", !.vetted = fetching.url]
          /\ UNCHANGED <<now, phase, opened, until, dials, transport, answer>>
       \/ FailsWith("server_not_allowed")

Dial ==
    /\ fetching # None /\ fetching.at = "vetted"
    /\ fetching' = [fetching EXCEPT !.at = "dialled"]
    /\ dials' = Append(dials, [url |-> fetching.url, vetted |-> fetching.vetted,
                               method |-> fetching.method, body |-> fetching.body])
    /\ UNCHANGED <<now, phase, opened, until, transport, answer>>

\* 303 becomes a GET, 301 and 302 too unless they answer a GET; 307 and 308 keep
\* method and body.
becomesGet(status, method) == status = 303 \/ (status \in {301, 302} /\ method # "GET")

redirected(f, status, u) ==
    [f EXCEPT !.url = u, !.hop = @ + 1, !.at = "check",
              !.method = IF becomesGet(status, f.method) THEN "GET" ELSE @,
              !.body = @ /\ ~becomesGet(status, f.method)]

Respond ==
    /\ fetching # None /\ fetching.at = "dialled"
    /\ \/ Succeeds
       \/ FailsWith("introspection_failed")
       \/ \E status \in {301, 302, 303, 307, 308}, u \in Urls :
            IF fetching.hop >= MAX_REDIRECTS THEN FailsWith("introspection_failed")
            ELSE /\ fetching' = redirected(fetching, status, u)
                 /\ UNCHANGED <<now, phase, opened, until, dials, transport, answer>>

Tick ==
    /\ phase # "replied" /\ now < until
    /\ now' = now + 1
    /\ UNCHANGED <<phase, opened, until, fetching, dials, transport, answer>>

Next == UrlRefused \/ UrlAllowed \/ TimesOut \/ Close \/ Vet \/ Dial \/ Respond \/ Tick

-----------------------------------------------------------------------------
(* Properties *)

\* Whoever gets an answer left nothing behind: the transport is made after its
\* URL was allowed and closed on every path that made one, also when the
\* handshake or the list lost its race with a request still under way, which goes
\* with it (client.ts, introspectServer).
NothingLeftBehind ==
    /\ phase = "replied" => transport # "open" /\ fetching = None
    /\ fetching # None => transport = "open"

\* A server cannot hold the request longer than the total, however the time is
\* spent between handshake and list; only a slow URL check adds to it.
ServerWaitsEnd ==
    phase \in {"connect", "list"} =>
        now <= IF deadline > opened + ConnectTimeout THEN deadline ELSE opened + ConnectTimeout + 1

\* Every hop was vetted itself; a chain is never longer than allowed, and what
\* was once asked without its body is never asked with it again.
EveryHopIsVetted ==
    /\ Len(dials) <= MAX_REDIRECTS + 1
    /\ \A i \in 1..Len(dials) :
         /\ dials[i].vetted = dials[i].url
         /\ dials[i].body = (dials[i].method = "POST")
         /\ i > 1 /\ dials[i].body => dials[i - 1].body

=============================================================================
