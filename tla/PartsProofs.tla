------------------------------ MODULE PartsProofs ------------------------------
(***************************************************************************)
(* The parts that share no state: introspection, accounts and sessions,    *)
(* the export dialog, the billing panel, the dialog that connects a        *)
(* server, the price feed, the rate limiter and the reading of a chain.    *)
(* Each has an inductive invariant of its own, kept by its own steps and   *)
(* by those of the other parts, which leave it alone.                      *)
(***************************************************************************)
EXTENDS MCParts, RecursionProofs, FiniteSetTheorems

-----------------------------------------------------------------------------
(* Introspection *)

Asking == phase \in {"connect", "list"}
Posts(Methods, Bodies) ==
  [url : Urls, hop : Nat, method : Methods, body : Bodies,
   at : {"check", "vetted", "dialled"}, vetted : Urls \cup {None}]
Fetches == Posts({"POST", "GET"}, BOOLEAN)
Hops == [url : Urls, vetted : Urls \cup {None}, method : {"POST", "GET"}, body : BOOLEAN]

\* A request is under way: it may outlive the race that waited for it.
Fetching == Asking \/ fetching # None

\* The transport is open while the server is asked and until it is closed.
TransportInv ==
  /\ phase \in {"url", "connect", "list", "close", "replied"}
  /\ phase = "url" => transport = "none" /\ answer = None
  /\ phase = "replied" => transport # "open"
  /\ Asking => answer = None
  /\ Asking \/ phase = "close" => transport = "open"
  /\ Fetching => phase \in {"connect", "list", "close"} /\ fetching \in Fetches

\* The race in progress ends within the time that is left to it.
ClockInv ==
  /\ part = "introspect" => now \in Nat
  /\ Asking => part = "introspect" /\ opened \in Nat /\ until \in Nat /\ now <= until
  /\ phase = "connect" => until <= opened + ConnectTimeout
  /\ phase = "list" => until <= IF TotalTimeout > opened + ConnectTimeout THEN TotalTimeout
                                ELSE opened + ConnectTimeout + 1

\* The hops of the request so far, the last of which it came from.
HopsInv ==
  /\ dials \in Seq(Hops) /\ Introspect!EveryHopIsVetted
  /\ Fetching => /\ fetching.hop <= MAX_REDIRECTS
                 /\ fetching.body = (fetching.method = "POST")
                 /\ fetching.at # "check" => fetching.vetted = fetching.url
                 /\ Len(dials) = fetching.hop + (IF fetching.at = "dialled" THEN 1 ELSE 0)
                 /\ fetching.body /\ Len(dials) > 0 => dials[Len(dials)].body

IntrospectInv == TransportInv /\ ClockInv /\ HopsInv

\* The first request of a phase.
LEMMA PostIsFetch ==
  ASSUME NEW u \in Urls
  PROVE  /\ Introspect!post(u) \in Fetches /\ Introspect!post(u).hop = 0
         /\ Introspect!post(u).at = "check" /\ Introspect!post(u).body
         /\ Introspect!post(u).method = "POST"
BY DEF Introspect!post, Fetches, Posts

LEMMA FirstHop ==
  ASSUME NEW f \in Fetches, f.hop = 0, f.at = "check", f.body, f.method = "POST",
         fetching' = f, dials' = <<>>
  PROVE  HopsInv'
<1>1. Introspect!EveryHopIsVetted' /\ dials' \in Seq(Hops)
  BY PartsAssumption DEF Introspect!EveryHopIsVetted
<1>2. f.body = (f.method = "POST")
  BY DEF Fetches, Posts
<1> QED BY <1>1, <1>2, PartsAssumption DEF HopsInv

LEMMA TurnedTo ==
  ASSUME NEW Methods, NEW Bodies, NEW f \in Posts(Methods, Bodies), NEW u \in Urls, NEW n \in Nat,
         NEW m \in Methods, NEW b \in Bodies
  PROVE  [f EXCEPT !.url = u, !.hop = n, !.at = "check", !.method = m, !.body = b]
            \in Posts(Methods, Bodies)
BY DEF Posts

LEMMA Turned ==
  ASSUME NEW f \in Fetches, NEW u \in Urls, NEW n \in Nat, NEW m \in {"POST", "GET"}, NEW b \in BOOLEAN
  PROVE  [f EXCEPT !.url = u, !.hop = n, !.at = "check", !.method = m, !.body = b] \in Fetches
BY TurnedTo DEF Fetches

\* A request turned to another target.
LEMMA Redirected ==
  ASSUME NEW f \in Fetches, NEW u \in Urls, NEW status
  PROVE  LET g == Introspect!redirected(f, status, u)
             gets == Introspect!becomesGet(status, f.method)
         IN  /\ g \in Fetches /\ g.hop = f.hop + 1 /\ g.at = "check"
             /\ g.method = IF gets THEN "GET" ELSE f.method
             /\ g.body = (f.body /\ ~gets)
<1> DEFINE gets == Introspect!becomesGet(status, f.method)
           n == f.hop + 1
           m == IF gets THEN "GET" ELSE f.method
           b == f.body /\ ~gets
           g == [f EXCEPT !.url = u, !.hop = n, !.at = "check", !.method = m, !.body = b]
<1>1. n \in Nat /\ m \in {"POST", "GET"} /\ b \in BOOLEAN
  BY DEF Introspect!becomesGet, Fetches, Posts
<1>2. Introspect!redirected(f, status, u) = g
  BY Zenon DEF Introspect!redirected
<1> HIDE DEF n, m, b
<1>3. g \in Fetches
  BY <1>1, Turned, Zenon
<1>4. g.hop = n /\ g.at = "check" /\ g.method = m /\ g.body = b
  BY <1>1 DEF Fetches, Posts
<1> HIDE DEF g
<1> QED BY <1>2, <1>3, <1>4 DEF n, m, b

\* What a failure of the server leaves behind.
LEMMA FailureIsClosed ==
  ASSUME IntrospectInv, Fetching, NEW code, Introspect!FailsWith(code), part' = part
  PROVE  IntrospectInv'
<1> USE DEF IntrospectInv, Introspect!FailsWith
<1>1. TransportInv'
  BY DEF TransportInv, Fetching, Asking
<1>2. ClockInv'
  BY DEF ClockInv, TransportInv, Fetching, Asking
<1>3. HopsInv'
  BY DEF HopsInv, Fetching, Asking, Introspect!EveryHopIsVetted
<1> QED BY <1>1, <1>2, <1>3

\* An answer of the server, on the handshake or on the list.
LEMMA SuccessGoesOn ==
  ASSUME IntrospectInv, Fetching, Introspect!Succeeds, part' = part
  PROVE  IntrospectInv'
<1> USE DEF IntrospectInv, Introspect!Succeeds
<1>1. CASE phase = "list"
  <2>1. ~Fetching' /\ fetching' = None /\ UNCHANGED <<now, opened, dials, transport>> /\ phase' = "close"
    BY <1>1 DEF Fetching, Asking
  <2>2. TransportInv' /\ ClockInv'
    BY <1>1, <2>1 DEF TransportInv, ClockInv, Fetching, Asking
  <2> QED BY <2>1, <2>2 DEF HopsInv, Fetching, Asking, Introspect!EveryHopIsVetted
<1>2. CASE phase = "connect"
  <2> DEFINE f == Introspect!post(fetching.url)
  <2>1. f \in Fetches /\ f.hop = 0 /\ f.at = "check" /\ f.body /\ f.method = "POST"
    <3>1. fetching.url \in Urls
      BY DEF TransportInv, Fetches, Posts
    <3> QED BY <3>1, PostIsFetch
  <2>2. /\ phase' = "list" /\ fetching' = f /\ dials' = <<>> /\ UNCHANGED <<now, opened, transport, answer>>
        /\ until' = now + Introspect!listLimit
    BY <1>2
  <2> HIDE DEF f
  <2>3. TransportInv'
    BY <1>2, <2>1, <2>2 DEF TransportInv, Fetching, Asking
  <2>4. ClockInv'
    BY <1>2, <2>2, PartsAssumption DEF ClockInv, Asking, Introspect!listLimit, Introspect!deadline
  <2>5. HopsInv'
    BY <2>1, <2>2, FirstHop
  <2> QED BY <2>3, <2>4, <2>5
<1> QED BY <1>1, <1>2

\* A redirect: the next hop is vetted anew, and a body that is gone stays gone.
LEMMA RedirectGoesOn ==
  ASSUME IntrospectInv, Fetching, fetching.at = "dialled", ~(fetching.hop >= MAX_REDIRECTS),
         NEW status \in {301, 302, 303, 307, 308}, NEW u \in Urls,
         fetching' = Introspect!redirected(fetching, status, u),
         UNCHANGED <<part, now, phase, opened, until, dials, transport, answer>>
  PROVE  IntrospectInv'
<1> USE DEF IntrospectInv
<1>1. fetching \in Fetches
  BY DEF TransportInv
<1> DEFINE m == IF Introspect!becomesGet(status, fetching.method) THEN "GET" ELSE fetching.method
           b == fetching.body /\ ~Introspect!becomesGet(status, fetching.method)
<1>2. /\ fetching' \in Fetches
      /\ fetching'.hop = fetching.hop + 1 /\ fetching'.at = "check"
      /\ fetching'.method = m /\ fetching'.body = b
  <2> HIDE DEF m, b
  <2> QED BY <1>1, Redirected DEF m, b
<1>3. TransportInv' /\ ClockInv'
  BY <1>2 DEF TransportInv, ClockInv, Fetching, Asking
<1>4. Introspect!EveryHopIsVetted' /\ dials' \in Seq(Hops)
  BY DEF HopsInv, Introspect!EveryHopIsVetted
<1>5. fetching'.body = (fetching'.method = "POST")
  BY <1>1, <1>2 DEF HopsInv, Fetches, Posts, Introspect!becomesGet
<1>6. /\ fetching'.hop <= MAX_REDIRECTS /\ Len(dials') = fetching'.hop
      /\ fetching'.body /\ Len(dials') > 0 => dials'[Len(dials')].body
  BY <1>1, <1>2, PartsAssumption DEF HopsInv, Fetches, Posts
<1>7. HopsInv'
  BY <1>2, <1>4, <1>5, <1>6 DEF HopsInv
<1> QED BY <1>3, <1>7

LEMMA DialGoesOn ==
  ASSUME IntrospectInv, Fetching, Introspect!Dial, part' = part
  PROVE  IntrospectInv'
<1> USE DEF IntrospectInv, Introspect!Dial
<1>1. fetching \in Fetches /\ fetching.at = "vetted"
  BY DEF TransportInv
<1>2. /\ fetching' \in Fetches /\ fetching'.at = "dialled"
      /\ fetching'.hop = fetching.hop /\ fetching'.method = fetching.method
      /\ fetching'.body = fetching.body /\ fetching'.url = fetching.url
      /\ fetching'.vetted = fetching.vetted
  BY <1>1 DEF Fetches, Posts
<1>3. TransportInv' /\ ClockInv'
  BY <1>2 DEF TransportInv, ClockInv, Fetching, Asking
<1> DEFINE h == [url |-> fetching.url, vetted |-> fetching.vetted,
                 method |-> fetching.method, body |-> fetching.body]
<1>4. h \in Hops /\ h.vetted = h.url /\ h.body = (h.method = "POST") /\ h.body = fetching.body
  BY <1>1 DEF Fetches, Posts, Hops, HopsInv
<1>5. dials' = Append(dials, h)
  OBVIOUS
<1> HIDE DEF h
<1>6. /\ dials' \in Seq(Hops) /\ Len(dials') = Len(dials) + 1 /\ Len(dials) \in Nat
      /\ dials'[Len(dials) + 1] = h
      /\ \A i \in 1..Len(dials) : dials'[i] = dials[i]
  BY <1>4, <1>5 DEF HopsInv
<1>7. Len(dials) = fetching.hop /\ fetching.hop \in Nat /\ fetching.hop <= MAX_REDIRECTS
  BY <1>1 DEF HopsInv, Fetches, Posts
<1>8. Introspect!EveryHopIsVetted'
  <2>0. Len(dials') <= MAX_REDIRECTS + 1
    BY <1>6, <1>7, PartsAssumption
  <2> SUFFICES ASSUME NEW i \in 1..Len(dials')
               PROVE  /\ dials'[i].vetted = dials'[i].url
                      /\ dials'[i].body = (dials'[i].method = "POST")
                      /\ i > 1 /\ dials'[i].body => dials'[i - 1].body
    BY <2>0 DEF Introspect!EveryHopIsVetted
  <2>1. CASE i \in 1..Len(dials)
    BY <1>6, <2>1 DEF HopsInv, Introspect!EveryHopIsVetted
  <2>2. CASE i = Len(dials) + 1
    <3>1. fetching.body /\ Len(dials) > 0 => dials[Len(dials)].body
      BY DEF HopsInv
    <3> QED BY <1>4, <1>6, <2>2, <3>1
  <2> QED BY <1>6, <2>1, <2>2
<1>9. HopsInv'
  BY <1>2, <1>4, <1>6, <1>7, <1>8 DEF HopsInv, Fetching
<1> QED BY <1>3, <1>9

LEMMA IntrospectStep ==
  ASSUME IntrospectInv, Introspect!Next, part = "introspect", part' = part
  PROVE  IntrospectInv'
<1> USE DEF IntrospectInv
<1>1. CASE Introspect!UrlRefused
  BY <1>1 DEF Introspect!UrlRefused, TransportInv, ClockInv, HopsInv, Fetching, Asking, Introspect!EveryHopIsVetted
<1>2. CASE Introspect!UrlAllowed
  <2>1. PICK u \in Urls : fetching' = Introspect!post(u)
    BY <1>2 DEF Introspect!UrlAllowed
  <2>2. /\ fetching' \in Fetches /\ fetching'.hop = 0 /\ fetching'.at = "check" /\ fetching'.body
        /\ fetching'.method = "POST"
    BY <2>1, PostIsFetch
  <2>3. /\ phase = "url" /\ phase' = "connect" /\ transport' = "open" /\ opened' = now /\ dials' = <<>>
        /\ UNCHANGED <<now, answer>>
        /\ until' = now + (IF ConnectTimeout < TotalTimeout THEN ConnectTimeout ELSE TotalTimeout)
    BY <1>2 DEF Introspect!UrlAllowed
  <2>4. TransportInv'
    BY <2>2, <2>3 DEF TransportInv, Fetching, Asking
  <2>5. ClockInv'
    BY <2>3, PartsAssumption DEF ClockInv, Asking
  <2>6. HopsInv'
    <3> DEFINE f == Introspect!post(u)
    <3>1. f \in Fetches /\ f.hop = 0 /\ f.at = "check" /\ f.body /\ f.method = "POST" /\ fetching' = f
      BY <2>1, <2>2
    <3> HIDE DEF f
    <3> QED BY <2>3, <3>1, FirstHop
  <2> QED BY <2>4, <2>5, <2>6
<1>3. CASE Introspect!TimesOut
  <2>1. TransportInv' /\ ClockInv'
    BY <1>3 DEF Introspect!TimesOut, TransportInv, ClockInv, Fetching, Asking
  <2>2. HopsInv'
    BY <1>3 DEF Introspect!TimesOut, HopsInv, Fetching, Asking, Introspect!EveryHopIsVetted
  <2> QED BY <2>1, <2>2
<1>4. CASE Introspect!Close
  BY <1>4 DEF Introspect!Close, TransportInv, ClockInv, HopsInv, Fetching, Asking, Introspect!EveryHopIsVetted
<1>5. ASSUME fetching # None PROVE Fetching /\ fetching \in Fetches
  BY <1>5 DEF TransportInv, Fetching
<1>6. CASE Introspect!Vet
  <2>1. Fetching /\ fetching \in Fetches
    BY <1>5, <1>6 DEF Introspect!Vet
  <2>2. CASE Introspect!FailsWith("server_not_allowed")
    BY <2>1, <2>2, FailureIsClosed
  <2>3. CASE /\ fetching' = [fetching EXCEPT !.at = "vetted", !.vetted = fetching.url]
             /\ UNCHANGED <<now, phase, opened, until, dials, transport, answer>>
    <3>1. /\ fetching' \in Fetches /\ fetching'.at = "vetted" /\ fetching'.vetted = fetching'.url
          /\ fetching'.hop = fetching.hop /\ fetching'.method = fetching.method
          /\ fetching'.body = fetching.body /\ fetching.at = "check"
      BY <1>6, <2>1, <2>3 DEF Fetches, Posts, Introspect!Vet
    <3>2. TransportInv' /\ ClockInv'
      BY <2>1, <2>3, <3>1 DEF TransportInv, ClockInv, Fetching, Asking
    <3>3. HopsInv'
      BY <2>1, <2>3, <3>1 DEF HopsInv, Introspect!EveryHopIsVetted
    <3> QED BY <3>2, <3>3
  <2> QED BY <1>6, <2>2, <2>3 DEF Introspect!Vet
<1>7. CASE Introspect!Dial
  BY <1>5, <1>7, DialGoesOn DEF Introspect!Dial
<1>8. CASE Introspect!Respond
  <2>1. Fetching /\ fetching \in Fetches /\ fetching.at = "dialled"
    BY <1>5, <1>8 DEF Introspect!Respond
  <2>2. CASE Introspect!Succeeds
    BY <2>1, <2>2, SuccessGoesOn
  <2>3. CASE Introspect!FailsWith("introspection_failed")
    BY <2>1, <2>3, FailureIsClosed
  <2>4. CASE \E status \in {301, 302, 303, 307, 308}, u \in Urls :
               /\ ~(fetching.hop >= MAX_REDIRECTS) /\ fetching' = Introspect!redirected(fetching, status, u)
               /\ UNCHANGED <<now, phase, opened, until, dials, transport, answer>>
    BY <2>1, <2>4, RedirectGoesOn
  <2> QED BY <1>8, <2>2, <2>3, <2>4 DEF Introspect!Respond
<1>9. CASE Introspect!Tick
  BY <1>9 DEF Introspect!Tick, TransportInv, ClockInv, HopsInv, Fetching, Asking, Introspect!EveryHopIsVetted
<1> QED BY <1>1, <1>2, <1>3, <1>4, <1>6, <1>7, <1>8, <1>9 DEF Introspect!Next

LEMMA IntrospectKept ==
  ASSUME IntrospectInv, Next
  PROVE  IntrospectInv'
<1>1. CASE part = "introspect" /\ Introspect!Next
  BY <1>1, IntrospectStep DEF Next
<1>2. CASE part # "introspect" /\ UNCHANGED introspectVars
  BY <1>2 DEF Next, IntrospectInv, TransportInv, ClockInv, HopsInv, Asking, Fetching, introspectVars,
              Introspect!EveryHopIsVetted
<1>3. CASE UNCHANGED <<now, introspectVars>>
  BY <1>3 DEF Next, IntrospectInv, TransportInv, ClockInv, HopsInv, Asking, Fetching, introspectVars,
              Introspect!EveryHopIsVetted
<1> QED BY <1>1, <1>2, <1>3 DEF Next, Server, served_

\* Whoever is answered by the introspection left no transport open, no server
\* holds the request beyond the total, and every hop of every request was vetted
\* by itself, in a chain no longer than allowed (client.ts, introspectServer;
\* ssrf.ts, guardedFetch).
THEOREM IntrospectionAlwaysLetsGo == Spec => []IntrospectionLetsGo
<1>1. Init => IntrospectInv
  BY PartsAssumption DEF Init, Introspect!Init, IntrospectInv, TransportInv, ClockInv, HopsInv, Asking, Fetching,
                         Introspect!EveryHopIsVetted
<1>2. IntrospectInv /\ [Next]_<<part, now, served_, shown_, address, lookup>> => IntrospectInv'
  <2>1. CASE UNCHANGED <<part, now, served_, shown_, address, lookup>>
    BY <2>1 DEF IntrospectInv, TransportInv, ClockInv, HopsInv, Asking, Fetching, introspectVars, served_,
                Introspect!EveryHopIsVetted
  <2> QED BY <2>1, IntrospectKept
<1>3. IntrospectInv => IntrospectionLetsGo
  <2>1. IntrospectInv => Introspect!NothingLeftBehind /\ Introspect!EveryHopIsVetted
    BY DEF IntrospectInv, TransportInv, HopsInv, Fetching, Asking, Introspect!NothingLeftBehind
  <2>2. IntrospectInv => Introspect!ServerWaitsEnd
    BY PartsAssumption DEF IntrospectInv, ClockInv, Asking, Introspect!ServerWaitsEnd, Introspect!deadline
  <2> QED BY <2>1, <2>2 DEF IntrospectionLetsGo
<1> QED BY <1>1, <1>2, <1>3, PTL DEF Spec

-----------------------------------------------------------------------------
(* Sessions *)

Ids == 1..MaxSessions
Secrets == Passwords \cup {Initial, None}
AccountType == [People -> [state : {"absent", "unconfirmed", "there", "deleted"}, password : Secrets]]
Asks(Flags) ==
  [at : {"idle", "reauthenticate", "update", "confirm", "delete", "revoke", "done"},
   kind : {"change", "delete", "everywhere", None}, browser : Browsers \cup {None},
   session : Ids \cup {None}, user : People \cup {None}, hasPassword : Flags,
   typed : Secrets, new : Secrets \cup People]
AskType == Asks(BOOLEAN)

\* Sessions are made in order; all that are to come are newer than any sign-out.
MintInv ==
  /\ sessions \in [Ids -> People \cup {None}] /\ live \subseteq Accounts!Minted
  /\ \A s \in Accounts!Minted : \A t \in 1..s : t \in Accounts!Minted
  /\ revokedTo \in [People -> Nat]
  /\ \A u \in People : \A s \in Ids \ Accounts!Minted : revokedTo[u] < s
  /\ Accounts!SignedOutStaysOut

Active(q) == q.at \notin {"idle", "done"}

\* A request knows what it was shown: the step it is at tells what it has proved.
Proved(q, passwords) ==
  /\ q.at = "reauthenticate" =>
        q.kind \in {"change", "delete"} /\ (q.kind = "delete" => q.hasPassword)
  /\ q.at = "update" => q.kind = "change" /\ q.typed \in passwords
  /\ q.at = "confirm" => q.kind = "delete" /\ ~q.hasPassword
  /\ q.at = "delete" => /\ q.kind = "delete"
                        /\ IF q.hasPassword THEN q.typed \in passwords ELSE q.new = q.user
  /\ q.at = "revoke" => q.kind = "everywhere"
  /\ q.kind = "change" => q.new \in Passwords

AskInv ==
  /\ account \in AccountType /\ cookie \in [Browsers -> Ids \cup {None}]
  /\ \A c \in codes : c.user \in People /\ c.browser \in Browsers
  /\ request \in [Requests -> AskType] /\ known \in [Requests -> SUBSET Secrets]
  /\ \A r \in Requests : Active(request[r]) =>
       /\ request[r].user \in People /\ account[request[r].user].state \in {"there", "deleted"}
       /\ account[request[r].user].password \in known[r]
       /\ Proved(request[r], known[r])

SessionsInv == MintInv /\ AskInv

\* A new session: it is newer than every sign-out.
LEMMA Minting ==
  ASSUME MintInv, NEW u \in People, NEW s, Accounts!Mints(u, s), revokedTo' = revokedTo,
         Accounts!There(u)', \A v \in People : Accounts!There(v) => Accounts!There(v)'
  PROVE  MintInv'
<1> USE DEF MintInv, Accounts!Mints, Accounts!Minted, Accounts!SessionIds, Ids
<1>1. /\ s \in Ids /\ sessions[s] = None /\ \A q \in 1..(s - 1) : q \in Accounts!Minted
      /\ sessions' = [sessions EXCEPT ![s] = u] /\ live' = live \cup {s} /\ u # None
  BY PartsAssumption DEF Accounts!Fresh
<1>2. /\ sessions' \in [Ids -> People \cup {None}] /\ sessions'[s] = u
      /\ \A t \in Ids : t # s => sessions'[t] = sessions[t]
  BY <1>1
<1>3. Accounts!Minted' = Accounts!Minted \cup {s}
  BY <1>1, <1>2
<1>4. \A t \in live : t \in Ids /\ t # s /\ sessions[t] # None /\ sessions[t] \in People
  BY <1>1
<1>5. Accounts!SignedOutStaysOut'
  <2> SUFFICES ASSUME NEW t \in live'
               PROVE  Accounts!There(sessions[t])' /\ t > revokedTo'[sessions'[t]]
    BY DEF Accounts!SignedOutStaysOut
  <2>1. CASE t = s
    BY <1>1, <1>2, <2>1 DEF Accounts!There
  <2>2. CASE t \in live
    BY <1>2, <1>4, <2>2 DEF Accounts!SignedOutStaysOut, Accounts!There
  <2> QED BY <1>1, <2>1, <2>2
<1>6. \A t \in Accounts!Minted' : \A x \in 1..t : x \in Accounts!Minted'
  <2>1. \A t \in Accounts!Minted : \A x \in 1..t : x \in Accounts!Minted
    OBVIOUS
  <2>2. \A x \in 1..s : x = s \/ x \in 1..(s - 1)
    BY <1>1, PartsAssumption
  <2> HIDE DEF Accounts!Minted
  <2> QED BY <1>1, <1>3, <2>1, <2>2
<1> QED BY <1>1, <1>2, <1>3, <1>5, <1>6

\* Fewer sessions, of accounts that are there.
LEMMA Revoking ==
  ASSUME MintInv, live' \subseteq live, UNCHANGED <<sessions, revokedTo>>,
         \A s \in live' : Accounts!There(sessions[s]) => Accounts!There(sessions[s])'
  PROVE  MintInv'
BY DEF MintInv, Accounts!SignedOutStaysOut, Accounts!Minted, Accounts!There

\* What an account keeps whoever signs in or up.
Kept(u) ==
  account[u].state \in {"there", "deleted"} => account'[u] = account[u]
CarriesOn == cookie' \in [Browsers -> Ids \cup {None}]

LEMMA AccountsKept ==
  ASSUME AskInv, UNCHANGED <<request, known>>, account' \in AccountType,
         \A u \in People : Kept(u), CarriesOn,
         \A c \in codes' : c.user \in People /\ c.browser \in Browsers
  PROVE  AskInv' /\ Accounts!ByItsHolder
<1>1. AskInv'
  BY DEF AskInv, Kept, CarriesOn
<1>2. Accounts!ByItsHolder
  BY DEF Kept, Accounts!ByItsHolder, Accounts!There
<1> QED BY <1>1, <1>2

LEMMA RequestMoves ==
  ASSUME AskInv, NEW r \in Requests, NEW q \in AskType, request' = [request EXCEPT ![r] = q],
         UNCHANGED <<account, codes, known>>, CarriesOn,
         Active(q) => /\ q.user = request[r].user /\ Active(request[r]) /\ Proved(q, known[r])
  PROVE  AskInv' /\ Accounts!ByItsHolder
<1>1. request' \in [Requests -> AskType] /\ request'[r] = q
      /\ \A o \in Requests : o # r => request'[o] = request[o]
  BY DEF AskInv
<1>2. AskInv'
  BY <1>1 DEF AskInv, CarriesOn
<1>3. Accounts!ByItsHolder
  BY DEF Accounts!ByItsHolder, Accounts!There
<1> QED BY <1>2, <1>3

LEMMA AsksGoOn ==
  ASSUME NEW Flags, NEW q \in Asks(Flags), NEW step \in {"update", "delete"}, NEW s \in Ids
  PROVE  /\ [q EXCEPT !.at = step] \in Asks(Flags)
         /\ [q EXCEPT !.session = s, !.at = step] \in Asks(Flags)
BY DEF Asks

LEMMA AskGoesOn ==
  ASSUME NEW q \in AskType, NEW step \in {"update", "delete"}, NEW s \in Ids
  PROVE  /\ [q EXCEPT !.at = step] \in AskType
         /\ [q EXCEPT !.session = s, !.at = step] \in AskType
BY AsksGoOn DEF AskType

LEMMA DoneAsk == Accounts!Done \in AskType /\ Accounts!Done.at = "done" /\ ~Active(Accounts!Done)
BY DEF Accounts!Done, Accounts!Nothing, AskType, Asks, Secrets, Active

\* The ways in leave the accounts that are there as they are.
LEMMA WayIn ==
  ASSUME SessionsInv, NEW b \in Browsers, NEW u \in People
  PROVE  /\ Accounts!signInWithGitHub(b, u) => SessionsInv' /\ Accounts!ByItsHolder
         /\ \A p \in Passwords : Accounts!signUp(b, u, p) \/ Accounts!signIn(b, u, p)
                                  => SessionsInv' /\ Accounts!ByItsHolder
<1> USE DEF SessionsInv
<1>1. ASSUME Accounts!signInWithGitHub(b, u) PROVE SessionsInv' /\ Accounts!ByItsHolder
  <2>1. UNCHANGED <<account, sessions, live, cookie, request, known, revokedTo>>
        /\ codes' = codes \cup {[browser |-> b, user |-> u]}
    BY <1>1 DEF Accounts!signInWithGitHub
  <2>2. MintInv'
    BY <2>1, Revoking DEF Accounts!There
  <2>3. AskInv' /\ Accounts!ByItsHolder
    BY <2>1, AccountsKept DEF AskInv, Kept, CarriesOn
  <2> QED BY <2>2, <2>3
<1>2. ASSUME NEW s \in Accounts!SessionIds, Accounts!Carries(b, s) PROVE CarriesOn
  BY <1>2 DEF AskInv, Accounts!Carries, Accounts!SessionIds, Ids, CarriesOn
<1>3. ASSUME NEW p \in Passwords, Accounts!signUp(b, u, p) PROVE SessionsInv' /\ Accounts!ByItsHolder
  <2> DEFINE a == [state |-> "unconfirmed", password |-> p]
             there == [state |-> "there", password |-> p]
  <2>1. account[u].state = "absent" /\ account \in AccountType /\ UNCHANGED <<request, known, revokedTo>>
    BY <1>3 DEF Accounts!signUp, AskInv
  <2>2. CASE /\ account' = [account EXCEPT ![u] = a] /\ UNCHANGED <<sessions, live, cookie>>
             /\ codes' = codes \cup {[browser |-> b, user |-> u]}
    <3>1. account' \in AccountType /\ \A v \in People : Kept(v)
      BY <2>1, <2>2 DEF AccountType, Secrets, Kept
    <3>2. MintInv'
      BY <2>1, <2>2, <3>1, Revoking DEF Accounts!There, Kept, MintInv, Accounts!SignedOutStaysOut,
                                       Accounts!Minted
    <3>3. AskInv' /\ Accounts!ByItsHolder
      BY <2>1, <2>2, <3>1, AccountsKept DEF AskInv, CarriesOn
    <3> QED BY <3>2, <3>3
  <2>3. CASE /\ account' = [account EXCEPT ![u] = there] /\ UNCHANGED codes
             /\ \E s \in Accounts!SessionIds : Accounts!Mints(u, s) /\ Accounts!Carries(b, s)
    <3>1. account' \in AccountType /\ account'[u].state = "there" /\ \A v \in People : Kept(v)
      BY <2>1, <2>3 DEF AccountType, Secrets, Kept
    <3>2. PICK s \in Accounts!SessionIds : Accounts!Mints(u, s) /\ Accounts!Carries(b, s)
      BY <2>3
    <3>3. MintInv'
      BY <2>1, <3>1, <3>2, Minting DEF Accounts!There, Kept
    <3>4. AskInv' /\ Accounts!ByItsHolder
      BY <1>2, <2>1, <2>3, <3>1, <3>2, AccountsKept DEF AskInv
    <3> QED BY <3>3, <3>4
  <2> QED BY <1>3, <2>2, <2>3 DEF Accounts!signUp
<1>4. ASSUME NEW p \in Passwords, Accounts!signIn(b, u, p) PROVE SessionsInv' /\ Accounts!ByItsHolder
  <2>1. Accounts!There(u) /\ UNCHANGED <<account, codes, request, known, revokedTo>>
    BY <1>4 DEF Accounts!signIn
  <2>2. PICK s \in Accounts!SessionIds : Accounts!Mints(u, s) /\ Accounts!Carries(b, s)
    BY <1>4 DEF Accounts!signIn
  <2>3. MintInv'
    BY <2>1, <2>2, Minting DEF Accounts!There
  <2>4. AskInv' /\ Accounts!ByItsHolder
    BY <1>2, <2>1, <2>2, AccountsKept DEF AskInv, Kept
  <2> QED BY <2>3, <2>4
<1> QED BY <1>1, <1>3, <1>4

LEMMA CodeExchanged ==
  ASSUME SessionsInv, NEW c \in codes, Accounts!exchangeCodeForSession(c)
  PROVE  SessionsInv' /\ Accounts!ByItsHolder
<1> USE DEF SessionsInv
<1>1. /\ c.user \in People /\ c.browser \in Browsers /\ account \in AccountType
      /\ codes' \subseteq codes /\ UNCHANGED <<request, known, revokedTo>>
  BY DEF AskInv, Accounts!exchangeCodeForSession
<1>2. CASE UNCHANGED <<account, sessions, live, cookie>>
  <2>1. MintInv'
    BY <1>1, <1>2, Revoking DEF Accounts!There
  <2>2. AskInv' /\ Accounts!ByItsHolder
    BY <1>1, <1>2, AccountsKept DEF AskInv, Kept, CarriesOn
  <2> QED BY <2>1, <2>2
<1>3. CASE /\ account[c.user].state # "deleted" /\ account' = [account EXCEPT ![c.user].state = "there"]
           /\ \E s \in Accounts!SessionIds : Accounts!Mints(c.user, s) /\ Accounts!Carries(c.browser, s)
  <2>1. PICK s \in Accounts!SessionIds : Accounts!Mints(c.user, s) /\ Accounts!Carries(c.browser, s)
    BY <1>3
  <2> DEFINE a == [account[c.user] EXCEPT !.state = "there"]
  <2>2. /\ a \in [state : {"absent", "unconfirmed", "there", "deleted"}, password : Secrets]
        /\ a.state = "there" /\ (account[c.user].state = "there" => a = account[c.user])
    BY <1>1 DEF AccountType
  <2>3. account' = [account EXCEPT ![c.user] = a]
    BY <1>3
  <2> HIDE DEF a
  <2>4. account' \in AccountType /\ account'[c.user].state = "there" /\ \A v \in People : Kept(v)
    BY <1>1, <1>3, <2>2, <2>3 DEF AccountType, Kept
  <2>5. MintInv'
    BY <1>1, <2>1, <2>4, Minting DEF Accounts!There, Kept
  <2>6. CarriesOn
    BY <1>1, <2>1 DEF AskInv, Accounts!Carries, Accounts!SessionIds, Ids, CarriesOn
  <2>7. AskInv' /\ Accounts!ByItsHolder
    BY <1>1, <2>4, <2>6, AccountsKept DEF AskInv
  <2> QED BY <2>5, <2>7
<1> QED BY <1>2, <1>3 DEF Accounts!exchangeCodeForSession

LEMMA SignedOut ==
  ASSUME SessionsInv, NEW b \in Browsers, Accounts!signOut(b)
  PROVE  SessionsInv' /\ Accounts!ByItsHolder
<1> USE DEF SessionsInv
<1>1. /\ live' \subseteq live /\ UNCHANGED <<sessions, account, codes, request, known, revokedTo>>
      /\ cookie' = [cookie EXCEPT ![b] = None]
  BY DEF Accounts!signOut, Accounts!Revokes, Accounts!Carries
<1>2. MintInv'
  BY <1>1, Revoking DEF Accounts!There
<1>3. AskInv' /\ Accounts!ByItsHolder
  BY <1>1, AccountsKept DEF AskInv, Kept, CarriesOn
<1> QED BY <1>2, <1>3

\* A request begins with a live session: its account is there.
LEMMA RequestBegins ==
  ASSUME SessionsInv, NEW r \in Requests, NEW b \in Browsers,
         NEW kind \in {"change", "delete", "everywhere"}, Accounts!guardAction(r, b, kind)
  PROVE  SessionsInv' /\ Accounts!ByItsHolder
<1> USE DEF SessionsInv
<1> DEFINE u == Accounts!getUser(cookie[b])
<1>1. u # None /\ UNCHANGED <<account, sessions, live, cookie, codes, revokedTo>>
  BY DEF Accounts!guardAction
<1>2. /\ u \in People /\ account[u].state = "there" /\ cookie[b] \in Ids
      /\ account[u].password \in Secrets /\ account[u].password \in Secrets
  BY <1>1 DEF Accounts!getUser, MintInv, AskInv, AccountType, Accounts!Minted, Accounts!SessionIds, Ids,
              Accounts!SignedOutStaysOut, Accounts!There
<1> DEFINE at == CASE kind = "everywhere" -> "revoke"
                   [] kind = "delete" /\ account[u].password = None -> "confirm"
                   [] OTHER -> "reauthenticate"
<1>3. PICK form \in Accounts!Forms(u, kind) :
        request' = [request EXCEPT ![r] =
          [at |-> at, kind |-> kind, browser |-> b, session |-> cookie[b], user |-> u,
           hasPassword |-> account[u].password # None, typed |-> form.typed, new |-> form.new]]
  BY DEF Accounts!guardAction
<1>4. known' = [known EXCEPT ![r] = {account[u].password}]
  BY DEF Accounts!guardAction
<1>5. /\ form.typed \in Secrets /\ form.new \in Secrets \cup People
      /\ kind = "change" => form.new \in Passwords
  <2>1. CASE kind = "change"
    BY <2>1 DEF Accounts!Forms, Secrets
  <2>2. CASE kind = "delete" /\ account[u].password # None
    BY <2>2 DEF Accounts!Forms, Secrets
  <2>3. CASE kind = "delete" /\ account[u].password = None
    BY <2>3 DEF Accounts!Forms, Secrets
  <2>4. CASE kind = "everywhere"
    BY <2>4 DEF Accounts!Forms, Secrets
  <2> QED BY <2>1, <2>2, <2>3, <2>4
<1> DEFINE holds == account[u].password # None
           q == [at |-> at, kind |-> kind, browser |-> b, session |-> cookie[b], user |-> u,
                 hasPassword |-> holds, typed |-> form.typed, new |-> form.new]
<1>6. /\ at \in {"revoke", "confirm", "reauthenticate"} /\ holds \in BOOLEAN
      /\ at = "revoke" => kind = "everywhere"
      /\ at = "confirm" => kind = "delete" /\ ~holds
      /\ at = "reauthenticate" => kind \in {"change", "delete"} /\ (kind = "delete" => holds)
  OBVIOUS
<1> HIDE DEF at, holds
<1>7. /\ q.at = at /\ q.kind = kind /\ q.user = u /\ (q.hasPassword <=> holds)
      /\ q \in AskType /\ q.new = form.new
  BY <1>2, <1>5, <1>6 DEF AskType, Asks
<1>8. request' = [request EXCEPT ![r] = q]
  BY <1>3 DEF holds
<1> HIDE DEF q, u
<1>9. Proved(q, {account[u].password}) /\ account[u].password \in Secrets
  BY <1>2, <1>5, <1>6, <1>7 DEF Proved
<1>10. MintInv'
  BY <1>1, Revoking DEF Accounts!There
<1>11. AskInv'
  <2>1. /\ request' \in [Requests -> AskType] /\ request'[r] = q
        /\ \A o \in Requests : o # r => request'[o] = request[o]
    BY <1>7, <1>8 DEF AskInv
  <2>2. /\ known' \in [Requests -> SUBSET Secrets] /\ known'[r] = {account[u].password}
        /\ \A o \in Requests : o # r => known'[o] = known[o]
    BY <1>4, <1>9 DEF AskInv
  <2> QED BY <1>1, <1>2, <1>7, <1>9, <2>1, <2>2 DEF AskInv
<1>12. Accounts!ByItsHolder
  BY <1>1 DEF Accounts!ByItsHolder, Accounts!There
<1> QED BY <1>10, <1>11, <1>12

\* A response carries the session of its request, or none.
LEMMA Replying ==
  ASSUME AskInv, NEW r \in Requests, NEW s \in Ids \cup {None}, Accounts!Answers(r, s)
  PROVE  CarriesOn /\ request' = [request EXCEPT ![r] = Accounts!Done]
BY DEF AskInv, CarriesOn, Accounts!Answers, Accounts!Carries

LEMMA RepliesSession ==
  ASSUME AskInv, NEW r \in Requests, Accounts!Replies(r)
  PROVE  CarriesOn /\ request' = [request EXCEPT ![r] = Accounts!Done]
<1>1. request[r].session \in Ids \cup {None}
  BY DEF AskInv, AskType, Asks
<1> QED BY <1>1, Replying DEF Accounts!Replies

\* Proof of the password gives a new session, and the step that needs it.
LEMMA Reauthenticated ==
  ASSUME SessionsInv, NEW r \in Requests, Accounts!reauthenticate(r)
  PROVE  SessionsInv' /\ Accounts!ByItsHolder
<1> USE DEF SessionsInv
<1> DEFINE q == request[r]
<1>1. /\ q.at = "reauthenticate" /\ q \in AskType /\ Active(q) /\ q.user \in People
      /\ UNCHANGED <<account, codes, known, revokedTo>>
      /\ account[q.user].password \in known[r] /\ Proved(q, known[r])
  BY DEF Accounts!reauthenticate, AskInv, Active
<1>2. CASE ~Accounts!Matches(q.user, q.typed)
  <2>1. Accounts!Replies(r) /\ UNCHANGED <<sessions, live>>
    BY <1>2 DEF Accounts!reauthenticate
  <2>2. MintInv'
    BY <1>1, <2>1, Revoking DEF Accounts!There
  <2> QED BY <1>1, <2>1, <2>2, RepliesSession, DoneAsk, RequestMoves
<1>3. CASE Accounts!Matches(q.user, q.typed)
  <2> DEFINE step == IF q.kind = "delete" THEN "delete" ELSE "update"
  <2>1. PICK s \in Accounts!SessionIds :
          /\ Accounts!Mints(q.user, s)
          /\ request' = [request EXCEPT ![r].session = s, ![r].at = step]
    BY <1>3 DEF Accounts!reauthenticate
  <2>2. UNCHANGED cookie
    BY <1>3 DEF Accounts!reauthenticate
  <2>3. MintInv'
    BY <1>1, <1>3, <2>1, Minting DEF Accounts!There, Accounts!Matches
  <2> DEFINE n == [q EXCEPT !.session = s, !.at = step]
  <2>4. step \in {"delete", "update"} /\ s \in Ids /\ step = IF q.kind = "delete" THEN "delete" ELSE "update"
    BY <2>1 DEF Accounts!SessionIds, Ids
  <2>5. request' = [request EXCEPT ![r] = n]
    BY <2>1
  <2> HIDE DEF step
  <2>6. n \in AskType
    BY <1>1, <2>4, AskGoesOn
  <2>7. /\ n.at = step /\ n.kind = q.kind /\ n.user = q.user /\ (n.hasPassword <=> q.hasPassword)
        /\ n.typed = q.typed /\ n.new = q.new
    BY <1>1 DEF AskType, Asks
  <2> HIDE DEF n
  <2>8. q.typed \in known[r]
    BY <1>1, <1>3 DEF Accounts!Matches
  <2>9. Proved(n, known[r])
    BY <1>1, <2>4, <2>7, <2>8 DEF Proved
  <2>10. CarriesOn
    BY <2>2 DEF CarriesOn, AskInv
  <2> QED BY <1>1, <2>3, <2>5, <2>6, <2>7, <2>9, <2>10, RequestMoves
<1> QED BY <1>2, <1>3

LEMMA Confirmed ==
  ASSUME SessionsInv, NEW r \in Requests, Accounts!confirm(r)
  PROVE  SessionsInv' /\ Accounts!ByItsHolder
<1> USE DEF SessionsInv
<1> DEFINE q == request[r]
<1>1. /\ q.at = "confirm" /\ q \in AskType /\ Active(q) /\ Proved(q, known[r])
      /\ UNCHANGED <<account, sessions, live, codes, known, revokedTo>>
  BY DEF Accounts!confirm, AskInv, Active
<1>2. MintInv'
  BY <1>1, Revoking DEF Accounts!There
<1>3. CASE q.new = q.user
  <2> DEFINE n == [q EXCEPT !.at = "delete"]
  <2>1. request' = [request EXCEPT ![r] = n] /\ UNCHANGED cookie
    BY <1>3 DEF Accounts!confirm, Accounts!Goes
  <2>2. /\ n.at = "delete" /\ n.kind = q.kind /\ n.user = q.user /\ (n.hasPassword <=> q.hasPassword)
        /\ n.new = q.new
    BY <1>1 DEF AskType, Asks
  <2>3. n \in AskType
    BY <1>1 DEF AskType, Asks
  <2> HIDE DEF n
  <2>4. Proved(n, known[r])
    BY <1>1, <1>3, <2>2 DEF Proved
  <2>5. CarriesOn
    BY <2>1 DEF CarriesOn, AskInv
  <2> QED BY <1>1, <1>2, <2>1, <2>2, <2>3, <2>4, <2>5, RequestMoves
<1>4. CASE q.new # q.user
  BY <1>1, <1>2, <1>4, RepliesSession, DoneAsk, RequestMoves DEF Accounts!confirm
<1> QED BY <1>3, <1>4

\* The password that is changed to is in force for every request on the account.
LEMMA PasswordChanged ==
  ASSUME SessionsInv, NEW r \in Requests, Accounts!changePassword(r)
  PROVE  SessionsInv' /\ Accounts!ByItsHolder
<1> USE DEF SessionsInv
<1> DEFINE q == request[r]
<1>1. /\ q.at = "update" /\ q \in AskType /\ Active(q) /\ q.user \in People /\ Proved(q, known[r])
      /\ UNCHANGED <<codes, revokedTo>>
  BY DEF Accounts!changePassword, AskInv, Active
<1>2. CarriesOn /\ request' = [request EXCEPT ![r] = Accounts!Done]
  BY RepliesSession DEF Accounts!changePassword
<1>3. CASE Accounts!getUser(q.session) = None
  <2>1. UNCHANGED <<account, known, live, sessions>>
    BY <1>3 DEF Accounts!changePassword
  <2>2. MintInv'
    BY <1>1, <2>1, Revoking DEF Accounts!There
  <2> QED BY <1>1, <1>2, <2>1, <2>2, DoneAsk, RequestMoves
<1>4. CASE Accounts!getUser(q.session) # None
  <2>1. /\ account' = [account EXCEPT ![q.user].password = q.new]
        /\ known' = [o \in Requests |-> IF request[o].user = q.user THEN known[o] \cup {q.new} ELSE known[o]]
        /\ live' \subseteq live /\ UNCHANGED sessions
    BY <1>4 DEF Accounts!changePassword, Accounts!Revokes
  <2>2. q.new \in Passwords /\ q.kind = "change" /\ q.typed \in known[r]
    BY <1>1 DEF Proved
  <2> DEFINE a == [account[q.user] EXCEPT !.password = q.new]
  <2>3. /\ a \in [state : {"absent", "unconfirmed", "there", "deleted"}, password : Secrets]
        /\ a.state = account[q.user].state /\ a.password = q.new
    BY <1>1, <2>2 DEF AskInv, AccountType, Secrets
  <2>4. account' = [account EXCEPT ![q.user] = a]
    BY <2>1
  <2> HIDE DEF a
  <2>5. /\ account' \in AccountType /\ account'[q.user] = a
        /\ \A v \in People : account'[v].state = account[v].state /\ (v # q.user => account'[v] = account[v])
    BY <1>1, <2>3, <2>4 DEF AskInv, AccountType
  <2>6. MintInv'
    <3>1. \A s \in live' : Accounts!There(sessions[s]) => Accounts!There(sessions[s])'
      BY <2>1, <2>5 DEF Accounts!There, MintInv, Accounts!SignedOutStaysOut, Accounts!Minted, Accounts!SessionIds, Ids
    <3> QED BY <1>1, <2>1, <3>1, Revoking
  <2>7. AskInv'
    <3>1. /\ request' \in [Requests -> AskType] /\ ~Active(request'[r])
          /\ \A o \in Requests : o # r => request'[o] = request[o]
      BY <1>2, DoneAsk DEF AskInv
    <3>2. /\ known' \in [Requests -> SUBSET Secrets]
          /\ \A o \in Requests : known[o] \subseteq known'[o]
          /\ \A o \in Requests : request[o].user = q.user => q.new \in known'[o]
      BY <2>1, <2>2 DEF AskInv, Secrets
    <3>3. ASSUME NEW o \in Requests, Active(request'[o])
          PROVE  /\ request'[o].user \in People /\ account'[request'[o].user].state \in {"there", "deleted"}
                 /\ account'[request'[o].user].password \in known'[o]
                 /\ Proved(request'[o], known'[o])
      <4>1. o # r /\ request'[o] = request[o] /\ Active(request[o])
        BY <3>1, <3>3
      <4>2. /\ request[o].user \in People /\ account[request[o].user].state \in {"there", "deleted"}
            /\ account[request[o].user].password \in known[o] /\ Proved(request[o], known[o])
        BY <4>1 DEF AskInv
      <4>3. Proved(request[o], known'[o])
        BY <3>2, <4>2 DEF Proved
      <4>4. account'[request[o].user].password \in known'[o]
        BY <2>3, <2>5, <3>2, <4>2
      <4> QED BY <2>5, <4>1, <4>2, <4>3, <4>4
    <3> QED BY <1>1, <1>2, <2>5, <3>1, <3>2, <3>3 DEF AskInv, CarriesOn
  <2>8. Accounts!Acting(r, "change")
    BY <1>1, <1>2, <2>2, DoneAsk DEF Accounts!Acting, AskInv
  <2>9. Accounts!ByItsHolder
    BY <2>2, <2>5, <2>8 DEF Accounts!ByItsHolder, Accounts!There
  <2> QED BY <2>6, <2>7, <2>9
<1> QED BY <1>3, <1>4

\* An account goes with its sessions, and for the proof of its request.
LEMMA AccountDeleted ==
  ASSUME SessionsInv, NEW r \in Requests, Accounts!deleteAccountAction(r)
  PROVE  SessionsInv' /\ Accounts!ByItsHolder
<1> USE DEF SessionsInv
<1> DEFINE q == request[r]
<1>1. /\ q.at = "delete" /\ q \in AskType /\ Active(q) /\ q.user \in People /\ Proved(q, known[r])
      /\ UNCHANGED <<codes, known, revokedTo>>
  BY DEF Accounts!deleteAccountAction, AskInv, Active
<1>2. CASE Accounts!Replies(r) /\ UNCHANGED <<account, sessions, live>>
  <2>1. MintInv'
    BY <1>1, <1>2, Revoking DEF Accounts!There
  <2> QED BY <1>1, <1>2, <2>1, RepliesSession, DoneAsk, RequestMoves
<1>3. CASE /\ Accounts!There(q.user) /\ account' = [account EXCEPT ![q.user].state = "deleted"]
           /\ Accounts!Revokes(Accounts!Of(q.user)) /\ Accounts!Answers(r, None)
  <2>1. CarriesOn /\ request' = [request EXCEPT ![r] = Accounts!Done]
    BY <1>3, Replying
  <2> DEFINE a == [account[q.user] EXCEPT !.state = "deleted"]
  <2>2. /\ a \in [state : {"absent", "unconfirmed", "there", "deleted"}, password : Secrets]
        /\ a.state = "deleted" /\ a.password = account[q.user].password
    BY <1>1 DEF AskInv, AccountType
  <2>3. account' = [account EXCEPT ![q.user] = a]
    BY <1>3
  <2> HIDE DEF a
  <2>4. /\ account' \in AccountType /\ account'[q.user] = a
        /\ \A v \in People : v # q.user => account'[v] = account[v]
    BY <1>1, <2>2, <2>3 DEF AskInv, AccountType
  <2>5. MintInv'
    <3>1. live' \subseteq live /\ UNCHANGED sessions /\ live' = live \ Accounts!Of(q.user)
      BY <1>3 DEF Accounts!Revokes
    <3>2. ASSUME NEW s \in live', Accounts!There(sessions[s]) PROVE Accounts!There(sessions[s])'
      <4>1. s \in Accounts!Minted /\ s \notin Accounts!Of(q.user)
        BY <3>1, <3>2 DEF MintInv
      <4>2. sessions[s] # q.user /\ sessions[s] \in People
        BY <4>1 DEF Accounts!Of, Accounts!Minted, MintInv, Accounts!SessionIds, Ids
      <4> QED BY <2>4, <3>1, <3>2, <4>2 DEF Accounts!There
    <3> QED BY <1>1, <3>1, <3>2, Revoking
  <2>6. AskInv'
    <3>1. /\ request' \in [Requests -> AskType] /\ ~Active(request'[r])
          /\ \A o \in Requests : o # r => request'[o] = request[o]
      BY <2>1, DoneAsk DEF AskInv
    <3>2. \A v \in People : /\ account'[v].password = account[v].password
                            /\ account[v].state \in {"there", "deleted"}
                                 => account'[v].state \in {"there", "deleted"}
      BY <2>2, <2>4
    <3> QED BY <1>1, <2>1, <2>4, <3>1, <3>2 DEF AskInv, CarriesOn
  <2>7. Accounts!Acting(r, "delete")
    BY <1>1, <2>1, DoneAsk DEF Accounts!Acting, AskInv, Proved
  <2>8. Accounts!ByItsHolder
    BY <1>1, <2>2, <2>4, <2>7 DEF Accounts!ByItsHolder, Accounts!There, Proved
  <2> QED BY <2>5, <2>6, <2>8
<1> QED BY <1>2, <1>3 DEF Accounts!deleteAccountAction

\* As many sessions were made as the last of them says.
LEMMA MintedSoFar ==
  ASSUME MintInv
  PROVE  /\ Cardinality(Accounts!Minted) \in Nat
         /\ \A s \in Ids \ Accounts!Minted : Cardinality(Accounts!Minted) < s
<1>1. Accounts!Minted \subseteq 1..MaxSessions /\ IsFiniteSet(1..MaxSessions)
  <2>1. Accounts!Minted \subseteq 1..MaxSessions
    BY DEF Accounts!Minted, Accounts!SessionIds
  <2>2. MaxSessions \in Int /\ 1 \in Int
    BY PartsAssumption
  <2>3. IsFiniteSet(1..MaxSessions)
    BY <2>2, FS_Interval
  <2> QED BY <2>1, <2>3
<1>2. IsFiniteSet(Accounts!Minted) /\ Cardinality(Accounts!Minted) \in Nat
  BY <1>1, FS_Subset, FS_CardinalityType
<1>3. ASSUME NEW s \in Ids \ Accounts!Minted PROVE Cardinality(Accounts!Minted) < s
  <2>1. s \in Nat \ {0} /\ s - 1 \in Nat
    BY PartsAssumption DEF Ids
  <2>2. Accounts!Minted \subseteq 1..(s - 1)
    <3>1. \A m \in Accounts!Minted : m \in Ids /\ \A t \in 1..m : t \in Accounts!Minted
      BY DEF MintInv, Accounts!Minted, Accounts!SessionIds, Ids
    <3> QED BY <1>3, <2>1, <3>1, PartsAssumption DEF Ids
  <2>3. IsFiniteSet(1..(s - 1)) /\ Cardinality(1..(s - 1)) = s - 1
    BY <2>1, FS_Interval
  <2>4. Cardinality(Accounts!Minted) <= Cardinality(1..(s - 1))
    BY <2>2, <2>3, FS_Subset
  <2> QED BY <1>2, <2>1, <2>3, <2>4
<1> QED BY <1>2, <1>3

LEMMA SameCount == ASSUME NEW S PROVE Accounts!Cardinality(S) = Cardinality(S)
BY DEF Accounts!Cardinality, Cardinality

LEMMA SignedOutEverywhere ==
  ASSUME SessionsInv, NEW r \in Requests, Accounts!signOutEverywhere(r)
  PROVE  SessionsInv' /\ Accounts!ByItsHolder
<1> USE DEF SessionsInv
<1> DEFINE q == request[r]
<1>1. /\ q.at = "revoke" /\ q \in AskType /\ Active(q) /\ q.user \in People
      /\ UNCHANGED <<account, codes, known>>
  BY DEF Accounts!signOutEverywhere, AskInv, Active
<1>2. CASE Accounts!Replies(r) /\ UNCHANGED <<sessions, live, revokedTo>>
  <2>1. MintInv'
    BY <1>1, <1>2, Revoking DEF Accounts!There
  <2> QED BY <1>1, <1>2, <2>1, RepliesSession, DoneAsk, RequestMoves
<1>3. CASE /\ Accounts!Revokes(Accounts!Everywhere(q)) /\ Accounts!Answers(r, None)
           /\ revokedTo' = [revokedTo EXCEPT ![q.user] = Accounts!Cardinality(Accounts!Minted)]
  <2>1. CarriesOn /\ request' = [request EXCEPT ![r] = Accounts!Done]
    BY <1>3, Replying
  <2>2. live' = live \ Accounts!Of(q.user) /\ UNCHANGED sessions
    BY <1>3 DEF Accounts!Revokes, Accounts!Everywhere
  <2>3. /\ revokedTo' \in [People -> Nat] /\ \A u \in People : u # q.user => revokedTo'[u] = revokedTo[u]
        /\ \A u \in People : \A s \in Ids \ Accounts!Minted : revokedTo'[u] < s
    BY <1>1, <1>3, MintedSoFar, SameCount DEF MintInv
  <2>4. Accounts!SignedOutStaysOut'
    <3> SUFFICES ASSUME NEW s \in live'
                 PROVE  Accounts!There(sessions[s]) /\ s > revokedTo'[sessions[s]]
      BY <1>1, <2>2 DEF Accounts!SignedOutStaysOut, Accounts!There
    <3>1. s \in live /\ s \in Accounts!Minted /\ s \notin Accounts!Of(q.user)
      BY <2>2 DEF MintInv
    <3>2. sessions[s] # q.user /\ sessions[s] \in People
      BY <3>1 DEF Accounts!Of, Accounts!Minted, MintInv, Accounts!SessionIds, Ids
    <3> QED BY <2>3, <3>1, <3>2 DEF MintInv, Accounts!SignedOutStaysOut
  <2>5. MintInv'
    BY <2>2, <2>3, <2>4 DEF MintInv, Accounts!Minted
  <2> QED BY <1>1, <2>1, <2>5, DoneAsk, RequestMoves
<1> QED BY <1>2, <1>3 DEF Accounts!signOutEverywhere

LEMMA SessionsKept ==
  ASSUME SessionsInv, Accounts!Next
  PROVE  SessionsInv' /\ Accounts!ByItsHolder
BY WayIn, CodeExchanged, SignedOut, RequestBegins, Reauthenticated, PasswordChanged, Confirmed,
   AccountDeleted, SignedOutEverywhere DEF Accounts!Next

\* Accounts are deleted, and passwords changed, only for who proved to hold them;
\* and a session that was signed out, or lost its account, is never good again
\* (settings/actions.ts: deleteAccountAction, changePassword, signOutEverywhere).
THEOREM AccountsAreTheirHolders == Spec => HoldersOnly
<1>1. Init => SessionsInv
  BY PartsAssumption DEF Init, Accounts!Init, SessionsInv, MintInv, AskInv, Ids, Accounts!SessionIds,
     AccountType, Secrets, AskType, Asks, Accounts!Nothing, Active, Accounts!Minted, Accounts!SignedOutStaysOut
<1>2. SessionsInv /\ [Next]_<<part, now, served_, shown_, address, lookup>>
        => SessionsInv' /\ [Accounts!ByItsHolder]_Accounts!sessionVars
  <2>1. CASE UNCHANGED sessionVars
    BY <2>1 DEF sessionVars, Accounts!sessionVars, SessionsInv, MintInv, AskInv, Accounts!Minted,
                Accounts!SignedOutStaysOut, Accounts!There
  <2>2. CASE Accounts!Next
    BY <2>2, SessionsKept
  <2> QED BY <2>1, <2>2 DEF Next, Server, Shown, shown_
<1>3. SessionsInv => Accounts!SignedOutStaysOut
  BY DEF SessionsInv, MintInv
<1> QED BY <1>1, <1>2, <1>3, PTL DEF Spec, HoldersOnly, Accounts!OnlyTheHolder

-----------------------------------------------------------------------------
(* The export dialog *)

Loads == [id : Nat, target : {"typescript", "python"}, document : Nat]

Hearings == [of : Nat, what : {"files", "nothing", "refused"}]
Newest == \E k \in 1..Len(loads) : loads[k].id = made
Answers == {h.of : h \in heard}

\* Requests are numbered as they are made, and answered once each.
RequestsInv ==
  /\ made \in Nat /\ document \in Nat /\ target \in {"typescript", "python"}
  /\ loads \in Seq(Loads) /\ heard \in SUBSET Hearings
  /\ \A k \in 1..Len(loads) : loads[k].id \in 1..made /\ loads[k].id \notin Answers
  /\ \A j, k \in 1..Len(loads) : j # k => loads[j].id # loads[k].id

\* The newest request is for what is chosen, until it is answered; the dialog loads
\* until the first answer after it, and shows what has been heard since then.
HeardInv ==
  /\ \A k \in 1..Len(loads) :
        open /\ loads[k].id = made => loads[k].target = target /\ loads[k].document = document
  /\ loading => Newest
  /\ ~Exports!Overtaken /\ Newest => loading
  /\ open => Newest \/ made \in Answers
  /\ open => made > 0
  /\ error <=> \E h \in heard : h.what = "refused"
  /\ files # Exports!NoFiles => \E h \in heard : h.what = "files"
  /\ ~Exports!Overtaken /\ open /\ files # Exports!NoFiles =>
        files = [target |-> target, document |-> document]
  /\ ~Exports!Overtaken /\ [of |-> made, what |-> "files"] \in heard => files # Exports!NoFiles

ExportInv == RequestsInv /\ HeardInv

\* What is chosen changed, or the dialog opened: it asks anew.
LEMMA LoadsAnew ==
  ASSUME ExportInv, target' \in {"typescript", "python"}, document' \in Nat, Exports!load
  PROVE  ExportInv'
<1> DEFINE n == [id |-> made + 1, target |-> target', document |-> document']
<1>1. n \in Loads /\ n.id = made + 1 /\ n.target = target' /\ n.document = document'
  BY DEF ExportInv, RequestsInv, Loads
<1>2. loads' = Append(loads, n) /\ loads \in Seq(Loads)
  BY DEF ExportInv, RequestsInv, Exports!load
<1> HIDE DEF n
<1>3. /\ loads' \in Seq(Loads) /\ Len(loads) \in Nat /\ Len(loads') = Len(loads) + 1
      /\ loads'[Len(loads) + 1] = n /\ \A k \in 1..Len(loads) : loads'[k] = loads[k]
  BY <1>1, <1>2
<1>4. ASSUME NEW k \in 1..Len(loads')
      PROVE  \/ k = Len(loads) + 1 /\ loads'[k] = n
             \/ k \in 1..Len(loads) /\ loads'[k] = loads[k]
  <2>1. CASE k = Len(loads) + 1
    BY <1>3, <2>1
  <2>2. CASE k # Len(loads) + 1
    <3>1. k \in 1..Len(loads)
      BY <1>3, <2>2
    <3> QED BY <1>3, <3>1
  <2> QED BY <2>1, <2>2
<1>5. /\ made' = made + 1 /\ made' \in Nat /\ made' > 0 /\ made \in Nat
      /\ heard' = {} /\ loading' /\ ~error' /\ files' = Exports!NoFiles
  BY DEF ExportInv, RequestsInv, Exports!load
<1>6. \A k \in 1..Len(loads) : loads[k].id \in 1..made
  BY DEF ExportInv, RequestsInv
<1>7. \A k \in 1..Len(loads') : loads'[k].id \in 1..made'
  BY <1>1, <1>4, <1>5, <1>6
<1>8. ASSUME NEW j \in 1..Len(loads'), NEW k \in 1..Len(loads'), j # k
      PROVE  loads'[j].id # loads'[k].id
  <2>1. CASE j = Len(loads) + 1
    BY <1>1, <1>4, <1>5, <1>6, <1>8, <2>1
  <2>2. CASE k = Len(loads) + 1
    BY <1>1, <1>4, <1>5, <1>6, <1>8, <2>2
  <2>3. CASE j \in 1..Len(loads) /\ k \in 1..Len(loads)
    BY <1>3, <1>8, <2>3 DEF ExportInv, RequestsInv
  <2> QED BY <1>4, <2>1, <2>2, <2>3
<1>9. /\ Newest' /\ Answers' = {}
      /\ \A k \in 1..Len(loads') :
            loads'[k].id = made' => loads'[k].target = target' /\ loads'[k].document = document'
  <2>1. Len(loads') \in 1..Len(loads') /\ loads'[Len(loads')].id = made'
    BY <1>1, <1>3, <1>5
  <2>2. \A k \in 1..Len(loads) : loads[k].id # made'
    BY <1>5, <1>6
  <2>3. Newest'
    BY <2>1 DEF Newest
  <2>4. Answers' = {}
    BY <1>5 DEF Answers
  <2> QED BY <1>1, <1>4, <2>2, <2>3, <2>4
<1>10. RequestsInv'
  BY <1>3, <1>5, <1>7, <1>8, <1>9 DEF RequestsInv
<1>11. HeardInv'
  BY <1>5, <1>9 DEF HeardInv
<1> QED BY <1>10, <1>11 DEF ExportInv

LEMMA Joined ==
  ASSUME NEW S, NEW h \in Seq(S), NEW t \in Seq(S)
  PROVE  /\ h \o t \in Seq(S) /\ Len(h \o t) = Len(h) + Len(t)
         /\ \A k \in 1..Len(h) : (h \o t)[k] = h[k]
         /\ \A k \in (Len(h) + 1)..(Len(h) + Len(t)) : (h \o t)[k] = t[k - Len(h)]
OBVIOUS

\* One request is answered; the others wait, each at the place it had or the next.
Before(i, k) == IF k < i THEN k ELSE k + 1

LEMMA OneFewer ==
  ASSUME loads \in Seq(Loads), NEW i \in 1..Len(loads), loads' = Exports!RemoveAt(loads, i)
  PROVE  /\ loads' \in Seq(Loads) /\ Len(loads') = Len(loads) - 1
         /\ \A k \in 1..Len(loads') :
               Before(i, k) \in 1..Len(loads) /\ Before(i, k) # i /\ loads'[k] = loads[Before(i, k)]
<1> DEFINE head == SubSeq(loads, 1, i - 1)
           tail == SubSeq(loads, i + 1, Len(loads))
<1>1. loads' = head \o tail
  BY DEF Exports!RemoveAt
<1>2. /\ head \in Seq(Loads) /\ Len(head) = i - 1 /\ \A k \in 1..(i - 1) : head[k] = loads[k]
      /\ tail \in Seq(Loads) /\ Len(tail) = Len(loads) - i /\ \A k \in 1..(Len(loads) - i) : tail[k] = loads[k + i]
  OBVIOUS
<1> HIDE DEF head, tail
<1>3. /\ loads' \in Seq(Loads) /\ Len(loads') = Len(loads) - 1
      /\ \A k \in 1..(i - 1) : loads'[k] = head[k]
      /\ \A k \in i..Len(loads') : loads'[k] = tail[k - (i - 1)]
  <2>1. /\ head \o tail \in Seq(Loads) /\ Len(head \o tail) = Len(head) + Len(tail)
        /\ \A k \in 1..Len(head) : (head \o tail)[k] = head[k]
        /\ \A k \in (Len(head) + 1)..(Len(head) + Len(tail)) : (head \o tail)[k] = tail[k - Len(head)]
    BY <1>2, Joined, Zenon
  <2>2. loads' \in Seq(Loads) /\ Len(loads') = Len(loads) - 1 /\ i - 1 + 1 = i
    BY <1>1, <1>2, <2>1
  <2> QED BY <1>1, <1>2, <2>1, <2>2
<1>4. \A k \in 1..Len(loads') :
        /\ k < i => loads'[k] = loads[k] /\ k \in 1..Len(loads)
        /\ ~(k < i) => loads'[k] = loads[k + 1] /\ k + 1 \in 1..Len(loads) /\ k + 1 # i
  <2> SUFFICES ASSUME NEW k \in 1..Len(loads')
               PROVE  /\ k < i => loads'[k] = loads[k] /\ k \in 1..Len(loads)
                      /\ ~(k < i) => loads'[k] = loads[k + 1] /\ k + 1 \in 1..Len(loads) /\ k + 1 # i
    OBVIOUS
  <2>1. CASE k < i
    <3>1. k \in 1..(i - 1) /\ k \in 1..Len(loads)
      BY <2>1
    <3>2. loads'[k] = head[k] /\ head[k] = loads[k]
      BY <1>2, <1>3, <3>1, Zenon
    <3> QED BY <2>1, <3>1, <3>2, Zenon
  <2>2. CASE ~(k < i)
    <3>1. k \in i..Len(loads') /\ k - (i - 1) \in 1..(Len(loads) - i) /\ k - (i - 1) + i = k + 1
      BY <1>3, <2>2
    <3>2. loads'[k] = tail[k - (i - 1)]
      BY <1>3, <3>1, Zenon
    <3>3. tail[k - (i - 1)] = loads[k - (i - 1) + i]
      BY <1>2, <3>1, Zenon
    <3>4. k + 1 \in 1..Len(loads) /\ k + 1 # i
      BY <1>3, <2>2
    <3>5. loads'[k] = loads[k + 1]
      BY <3>1, <3>2, <3>3, Zenon
    <3> QED BY <2>2, <3>4, <3>5, Zenon
  <2> QED BY <2>1, <2>2
<1>5. ASSUME NEW k \in 1..Len(loads')
      PROVE  Before(i, k) \in 1..Len(loads) /\ Before(i, k) # i /\ loads'[k] = loads[Before(i, k)]
  <2>1. CASE k < i
    <3>1. Before(i, k) = k /\ k # i
      BY <2>1 DEF Before
    <3>2. loads'[k] = loads[k] /\ k \in 1..Len(loads)
      BY <1>4, <2>1
    <3> QED BY <3>1, <3>2, Zenon
  <2>2. CASE ~(k < i)
    <3>1. Before(i, k) = k + 1
      BY <2>2 DEF Before
    <3>2. loads'[k] = loads[k + 1] /\ k + 1 \in 1..Len(loads) /\ k + 1 # i
      BY <1>4, <2>2
    <3> QED BY <3>1, <3>2, Zenon
  <2> QED BY <2>1, <2>2
<1> QED BY <1>3, <1>5, Zenon

LEMMA OneAnswered ==
  ASSUME ExportInv, NEW i \in DOMAIN loads, Exports!answer(i)
  PROVE  ExportInv'
<1> USE DEF ExportInv
<1>1. i \in 1..Len(loads) /\ loads[i] \in Loads /\ UNCHANGED <<open, target, document, made>>
      /\ loads' = Exports!RemoveAt(loads, i) /\ ~loading'
  BY DEF RequestsInv, Exports!answer
<1>2. PICK what \in {"files", "nothing", "refused"} :
        /\ heard' = heard \cup {[of |-> loads[i].id, what |-> what]}
        /\ \/ what = "refused" /\ error' = TRUE /\ files' = files
           \/ what = "nothing" /\ files' = Exports!NoFiles /\ error' = error
           \/ /\ what = "files" /\ error' = error
              /\ files' = [target |-> loads[i].target, document |-> loads[i].document]
  BY DEF Exports!answer, Exports!Outcome, Exports!Hear
<1> DEFINE h == [of |-> loads[i].id, what |-> what]
<1>3. h \in Hearings /\ h.of = loads[i].id /\ h.what = what /\ heard' = heard \cup {h}
  BY <1>1, <1>2 DEF Hearings, Loads
<1> HIDE DEF h
<1>4. /\ loads' \in Seq(Loads)
      /\ \A k \in 1..Len(loads') :
            Before(i, k) \in 1..Len(loads) /\ Before(i, k) # i /\ loads'[k] = loads[Before(i, k)]
  <2>1. loads \in Seq(Loads) /\ i \in 1..Len(loads) /\ loads' = Exports!RemoveAt(loads, i)
    BY <1>1 DEF RequestsInv
  <2> QED BY <2>1, OneFewer, Zenon
<1>5. \A j, k \in 1..Len(loads') : j # k => Before(i, j) # Before(i, k)
  BY <1>1, <1>4 DEF Before
<1>6. Answers' = Answers \cup {loads[i].id} /\ loads[i].id \in 1..made /\ loads[i].id \notin Answers
  BY <1>1, <1>3 DEF Answers, RequestsInv
<1>7. RequestsInv'
  <2>1. \A k \in 1..Len(loads') : loads'[k].id \in 1..made' /\ loads'[k].id \notin Answers'
    BY <1>1, <1>4, <1>6 DEF RequestsInv
  <2>2. \A j, k \in 1..Len(loads') : j # k => loads'[j].id # loads'[k].id
    BY <1>4, <1>5 DEF RequestsInv
  <2>3. heard' \in SUBSET Hearings
    BY <1>3 DEF RequestsInv
  <2> QED BY <1>1, <1>4, <2>1, <2>2, <2>3 DEF RequestsInv
<1>8. /\ error' <=> \E g \in heard' : g.what = "refused"
      /\ files' # Exports!NoFiles => \E g \in heard' : g.what = "files"
  BY <1>2, <1>3 DEF HeardInv
<1>9. /\ \A k \in 1..Len(loads') :
            open' /\ loads'[k].id = made' => loads'[k].target = target' /\ loads'[k].document = document'
      /\ open' => made' > 0
  BY <1>1, <1>4 DEF HeardInv
<1>10. CASE loads[i].id = made
  <2>1. ~Newest' /\ made' \in Answers'
    <3>1. \A k \in 1..Len(loads') : loads'[k].id # made'
      BY <1>1, <1>4, <1>10, SMTT(30) DEF RequestsInv
    <3> QED BY <1>1, <1>6, <1>10, <3>1 DEF Newest
  <2>2. open' /\ files' # Exports!NoFiles /\ ~Exports!Overtaken' =>
          files' = [target |-> target', document |-> document']
    <3>1. ~Exports!Overtaken' => ~Exports!Overtaken
      BY <1>1, <1>3 DEF Exports!Overtaken
    <3>2. open => loads[i].target = target /\ loads[i].document = document
      BY <1>1, <1>10 DEF HeardInv
    <3> QED BY <1>1, <1>2, <3>1, <3>2 DEF HeardInv
  <2>3. [of |-> made', what |-> "files"] \in heard' => files' # Exports!NoFiles
    <3>1. [of |-> made, what |-> "files"] \notin heard
      <4>1. \A g \in heard : g.of # made
        BY <1>6, <1>10 DEF Answers
      <4> QED BY <4>1
    <3>2. what = "files" => files' # Exports!NoFiles
      <4>1. loads[i].document \in Nat /\ None \notin Nat
        BY <1>1, PartsAssumption DEF Loads
      <4> QED BY <1>2, <4>1 DEF Exports!NoFiles
    <3> QED BY <1>1, <1>3, <3>1, <3>2
  <2> QED BY <1>1, <1>7, <1>8, <1>9, <2>1, <2>2, <2>3 DEF HeardInv
<1>11. CASE loads[i].id # made
  <2>1. Exports!Overtaken'
    BY <1>1, <1>3, <1>6, <1>11 DEF Exports!Overtaken
  <2>2. open' => Newest' \/ made' \in Answers'
    <3> SUFFICES ASSUME open, Newest PROVE Newest'
      BY <1>1, <1>6 DEF HeardInv
    <3>1. PICK k \in 1..Len(loads) : loads[k].id = made
      BY DEF Newest
    <3>2. PICK j \in 1..Len(loads') : Before(i, j) = k
      <4>1. k # i
        BY <1>11, <3>1
      <4>2. Len(loads') = Len(loads) - 1
        <5>1. loads \in Seq(Loads) /\ i \in 1..Len(loads) /\ loads' = Exports!RemoveAt(loads, i)
          BY <1>1 DEF RequestsInv
        <5> QED BY <5>1, OneFewer, Zenon
      <4>3. CASE k < i
        <5>1. k \in 1..Len(loads') /\ Before(i, k) = k
          BY <1>1, <4>2, <4>3 DEF Before, RequestsInv
        <5> QED BY <5>1
      <4>4. CASE k > i
        <5>1. k - 1 \in 1..Len(loads') /\ Before(i, k - 1) = k
          BY <1>1, <4>2, <4>4 DEF Before, RequestsInv
        <5> QED BY <5>1
      <4> QED BY <1>1, <4>1, <4>3, <4>4
    <3> QED BY <1>1, <1>4, <3>1, <3>2 DEF Newest
  <2> QED BY <1>1, <1>7, <1>8, <1>9, <2>1, <2>2 DEF HeardInv
<1> QED BY <1>10, <1>11

\* The clipboard is heard of as such, and leaves the requests alone.
LEMMA ClipboardHeard ==
  ASSUME ExportInv, Exports!copyEnds
  PROVE  ExportInv'
<1>1. CASE UNCHANGED <<error, heard>>
  BY <1>1 DEF Exports!copyEnds, ExportInv, RequestsInv, HeardInv, Newest, Answers, Exports!Overtaken
<1>2. CASE error' = TRUE /\ Exports!Hear(0, "refused")
  <2> DEFINE h == [of |-> 0, what |-> "refused"]
  <2>1. h \in Hearings /\ h.of = 0 /\ h.what = "refused" /\ heard' = heard \cup {h}
    BY <1>2 DEF Exports!Hear, Hearings
  <2> HIDE DEF h
  <2>2. UNCHANGED <<open, target, document, loads, loading, files, made>>
    BY DEF Exports!copyEnds
  <2>3. Answers' = Answers \cup {0} /\ (Exports!Overtaken' <=> Exports!Overtaken) /\ (Newest' <=> Newest)
    BY <2>1, <2>2 DEF Answers, Exports!Overtaken, Newest
  <2>4. RequestsInv'
    BY <2>1, <2>2, <2>3 DEF ExportInv, RequestsInv
  <2>5. [of |-> made, what |-> "files"] \in heard' => [of |-> made, what |-> "files"] \in heard
    BY <2>1
  <2>6. HeardInv'
    BY <1>2, <2>1, <2>2, <2>3, <2>5 DEF ExportInv, HeardInv
  <2> QED BY <2>4, <2>6 DEF ExportInv
<1> QED BY <1>1, <1>2 DEF Exports!copyEnds

LEMMA ExportKept ==
  ASSUME ExportInv, Exports!Next
  PROVE  ExportInv'
<1> USE DEF ExportInv, RequestsInv, HeardInv, Newest, Answers, Exports!Overtaken
<1>1. ASSUME target' \in {"typescript", "python"}, document' \in Nat, Exports!Effect,
             <<open, target, document>>' # <<open, target, document>>
      PROVE  ExportInv'
  <2>1. CASE open'
    BY <1>1, <2>1, LoadsAnew DEF Exports!Effect
  <2>2. CASE ~open'
    BY <1>1, <2>2, SMTT(30) DEF Exports!Effect
  <2> QED BY <2>1, <2>2
<1>2. CASE Exports!Toggle
  BY <1>1, <1>2 DEF Exports!Toggle
<1>3. CASE Exports!Edit
  BY <1>1, <1>3 DEF Exports!Edit
<1>4. ASSUME NEW t \in Exports!Targets, Exports!setTarget(t) PROVE ExportInv'
  BY <1>1, <1>4 DEF Exports!setTarget, Exports!Targets
<1>5. ASSUME NEW i \in DOMAIN loads, Exports!answer(i) PROVE ExportInv'
  BY <1>5, OneAnswered
<1>6. CASE Exports!copyActive
  BY <1>6 DEF Exports!copyActive
<1>7. CASE Exports!copyEnds
  BY <1>7, ClipboardHeard
<1> QED BY <1>2, <1>3, <1>4, <1>5, <1>6, <1>7 DEF Exports!Next

-----------------------------------------------------------------------------
(* The billing panel *)

Statuses == {"none", "unknown", "pending", "active", "expired"}

\* What anybody says is active, the server has had active.
Honest(c) == c.status \in Statuses /\ (c.status = "active" => c.bought \in actives)

BoughtInv ==
  /\ Honest(sub)
  /\ card = [status |-> card.status, bought |-> card.bought] /\ Honest(card)
  /\ submission # None =>
       /\ submission = [body |-> submission.body, verdict |-> submission.verdict]
       /\ submission.verdict = "verified" => submission.body \in actives
  /\ statusRead # None =>
       /\ statusRead = [got |-> statusRead.got, behind |-> statusRead.behind]
       /\ statusRead.got = [status |-> statusRead.got.status, bought |-> statusRead.got.bought]
       /\ Honest(statusRead.got)

\* Under a verdict only a read sent before it can take the card back.
VerdictInv ==
  result = "verified" =>
    /\ card.status # "active" => crossed
    /\ statusRead # None => statusRead.behind

BillingInv ==
  /\ sub = [status |-> sub.status, bought |-> sub.bought]
  /\ BoughtInv /\ VerdictInv

LEMMA PanelMoves ==
  ASSUME BillingInv, Bills!BillingPage
  PROVE  BillingInv'
<1> USE DEF BillingInv
<1>1. UNCHANGED <<sub, actives>>
  BY DEF Bills!BillingPage, Bills!server
<1>2. CASE UNCHANGED <<card, result, submission, statusRead, crossed>>
  BY <1>1, <1>2 DEF BoughtInv, VerdictInv, Honest
<1>3. CASE /\ card' \in {sub, Bills!NoSub, Bills!Unread}
           /\ result' = None /\ submission' = None /\ statusRead' = None
  <2>1. card' = [status |-> card'.status, bought |-> card'.bought]
    BY <1>3 DEF Bills!NoSub, Bills!Unread
  <2>2. card'.status \in Statuses /\ (card'.status = "active" => card'.bought \in actives)
    BY <1>3 DEF Bills!NoSub, Bills!Unread, BoughtInv, Honest, Statuses
  <2>3. BoughtInv'
    BY <1>1, <1>3, <2>1, <2>2 DEF BoughtInv, Honest
  <2> QED BY <1>1, <1>3, <2>3, PartsAssumption DEF VerdictInv
<1> QED BY <1>2, <1>3 DEF Bills!BillingPage, Bills!panelState, Bills!getSubscriptionState

LEMMA PurchaseHandled ==
  ASSUME BillingInv, Bills!submissionHandled
  PROVE  BillingInv'
<1> USE DEF BillingInv
<1>1. /\ submission # None /\ submission = [body |-> submission.body, verdict |-> submission.verdict]
      /\ UNCHANGED <<card, result, statusRead, crossed>>
  BY DEF Bills!submissionHandled, BoughtInv
<1>2. PICK verdict \in Bills!Verdicts :
        /\ submission' = [submission EXCEPT !.verdict = verdict]
        /\ \/ verdict \in {"verified", "error"} /\ Bills!Becomes(Bills!Active(submission.body))
           \/ /\ verdict \in {"pending", "error"}
              /\ Bills!Becomes([status |-> "pending", bought |-> None])
           \/ verdict # "verified" /\ UNCHANGED Bills!server
  BY DEF Bills!submissionHandled
<1>3. submission' = [body |-> submission.body, verdict |-> verdict]
  BY <1>1, <1>2
<1>4. actives \subseteq actives' /\ sub' = [status |-> sub'.status, bought |-> sub'.bought] /\ Honest(sub)'
      /\ (verdict = "verified" => submission.body \in actives')
  BY <1>2 DEF Bills!Becomes, Bills!Active, Bills!server, BoughtInv, Honest, Statuses
<1>5. BoughtInv'
  BY <1>1, <1>3, <1>4 DEF BoughtInv, Honest
<1> QED BY <1>1, <1>4, <1>5 DEF VerdictInv

LEMMA PurchaseAnswered ==
  ASSUME BillingInv, Bills!submissionAnswered
  PROVE  BillingInv'
<1> USE DEF BillingInv
<1>1. /\ submission # None /\ submission' = None /\ UNCHANGED <<sub, actives, crossed>>
  BY DEF Bills!submissionAnswered, Bills!server
<1>2. PICK verdict \in {submission.verdict, "error"} :
        /\ result' = verdict /\ card' = Bills!CardAfter(verdict)
        /\ statusRead' = IF statusRead # None /\ verdict = "verified"
                         THEN [statusRead EXCEPT !.behind = TRUE] ELSE statusRead
  BY DEF Bills!submissionAnswered
<1>3. CASE verdict = "verified"
  <2>1. card' = [status |-> "active", bought |-> submission.body] /\ submission.body \in actives
    BY <1>1, <1>2, <1>3 DEF Bills!CardAfter, Bills!Active, BoughtInv
  <2>2. statusRead # None => statusRead' = [got |-> statusRead.got, behind |-> TRUE]
    <3>1. CASE statusRead # None
      <4>1. statusRead = [got |-> statusRead.got, behind |-> statusRead.behind]
        BY <3>1 DEF BoughtInv
      <4>2. statusRead' = [statusRead EXCEPT !.behind = TRUE]
        BY <1>2, <1>3, <3>1
      <4> QED BY <4>1, <4>2
    <3> QED BY <3>1
  <2>3. statusRead = None => statusRead' = None
    BY <1>2
  <2>4. BoughtInv'
    BY <1>1, <2>1, <2>2, <2>3 DEF BoughtInv, Honest, Statuses
  <2> QED BY <1>1, <2>1, <2>2, <2>3, <2>4 DEF VerdictInv
<1>4. CASE verdict # "verified"
  <2>1. statusRead' = statusRead /\ result' # "verified"
    BY <1>2, <1>4
  <2>2. card' = card \/ card' = [status |-> "pending", bought |-> card.bought]
    <3>1. card = [status |-> card.status, bought |-> card.bought]
      BY DEF BoughtInv
    <3>2. card' = card \/ card' = [card EXCEPT !.status = "pending"]
      BY <1>2, <1>4 DEF Bills!CardAfter
    <3> QED BY <3>1, <3>2
  <2>3. BoughtInv'
    BY <1>1, <2>1, <2>2 DEF BoughtInv, Honest, Statuses
  <2> QED BY <1>1, <2>1, <2>3 DEF VerdictInv
<1> QED BY <1>3, <1>4

LEMMA StatusRead ==
  ASSUME BillingInv, Bills!refreshStatus \/ Bills!statusHandled \/ Bills!statusAnswered
  PROVE  BillingInv'
<1> USE DEF BillingInv
<1>1. UNCHANGED <<result, submission, sub, actives>>
  BY DEF Bills!refreshStatus, Bills!statusHandled, Bills!statusAnswered, Bills!server
<1>2. CASE Bills!refreshStatus
  <2>1. /\ result = "pending" /\ UNCHANGED <<card, crossed>>
        /\ statusRead' = [got |-> Bills!Unread, behind |-> FALSE]
    BY <1>2 DEF Bills!refreshStatus
  <2>2. BoughtInv'
    BY <1>1, <2>1 DEF BoughtInv, Honest, Statuses, Bills!Unread
  <2> QED BY <1>1, <2>1, <2>2 DEF VerdictInv
<1>3. CASE Bills!statusHandled
  <2>1. PICK got \in {sub, Bills!NoSub} : statusRead' = [statusRead EXCEPT !.got = got]
    BY <1>3 DEF Bills!statusHandled, Bills!getSubscriptionState
  <2>2. /\ statusRead # None /\ UNCHANGED <<card, crossed>>
        /\ statusRead = [got |-> statusRead.got, behind |-> statusRead.behind]
    BY <1>3 DEF Bills!statusHandled, BoughtInv
  <2>3. statusRead' = [got |-> got, behind |-> statusRead.behind]
    BY <2>1, <2>2
  <2>4. got = [status |-> got.status, bought |-> got.bought] /\ Honest(got)
    BY DEF BoughtInv, Honest, Statuses, Bills!NoSub
  <2>5. BoughtInv'
    BY <1>1, <2>2, <2>3, <2>4 DEF BoughtInv, Honest
  <2> QED BY <1>1, <2>2, <2>3, <2>5 DEF VerdictInv
<1>4. CASE Bills!statusAnswered
  <2>1. /\ statusRead # None /\ statusRead' = None
        /\ \/ card' = statusRead.got /\ crossed' = (crossed \/ statusRead.behind)
           \/ UNCHANGED <<card, crossed>>
    BY <1>4 DEF Bills!statusAnswered
  <2>2. BoughtInv'
    BY <1>1, <2>1 DEF BoughtInv, Honest
  <2>3. ASSUME result = "verified", card'.status # "active" PROVE crossed'
    <3>1. statusRead.behind /\ (card.status # "active" => crossed)
      BY <2>1, <2>3 DEF VerdictInv
    <3>2. CASE crossed' = (crossed \/ statusRead.behind)
      BY <3>1, <3>2, Zenon
    <3>3. CASE UNCHANGED <<card, crossed>>
      BY <2>3, <3>1, <3>3
    <3> QED BY <2>1, <3>2, <3>3
  <2> QED BY <1>1, <2>1, <2>2, <2>3 DEF VerdictInv
<1> QED BY <1>2, <1>3, <1>4

LEMMA BillingKept ==
  ASSUME BillingInv, Bills!Next
  PROVE  BillingInv'
<1> USE DEF BillingInv
<1>1. CASE Bills!choosePlan \/ Bills!chooseInterval \/ Bills!chooseSeats \/ Bills!chooseWorkspace
  <2>1. UNCHANGED <<card, result, submission, statusRead, crossed, sub, actives>>
    BY <1>1 DEF Bills!choosePlan, Bills!chooseInterval, Bills!chooseSeats, Bills!chooseWorkspace,
                Bills!hrefWith, Bills!panelState, Bills!server
  <2> QED BY <2>1 DEF BoughtInv, VerdictInv, Honest
<1>2. CASE Bills!submit
  <2>1. /\ submission' = [body |-> Bills!selection, verdict |-> None] /\ result' = None
        /\ UNCHANGED <<card, statusRead, sub, actives>>
    BY <1>2 DEF Bills!submit, Bills!server
  <2>2. BoughtInv'
    BY <2>1, PartsAssumption DEF BoughtInv, Honest
  <2> QED BY <2>1, <2>2, PartsAssumption DEF VerdictInv
<1>3. CASE Bills!Elsewhere
  <2>1. UNCHANGED <<card, result, submission, statusRead, crossed>>
    BY <1>3 DEF Bills!Elsewhere, Bills!panelState
  <2>2. PICK s : /\ sub' = s /\ s.status \in {"active", "expired"} /\ s = [status |-> s.status, bought |-> s.bought]
                 /\ actives' = actives \cup (IF s.status = "active" THEN {s.bought} ELSE {})
    BY <1>3 DEF Bills!Elsewhere, Bills!Becomes, Bills!Active
  <2>3. BoughtInv'
    BY <2>1, <2>2 DEF BoughtInv, Honest, Statuses
  <2>4. VerdictInv'
    BY <2>1 DEF VerdictInv
  <2> QED BY <2>2, <2>3, <2>4
<1> QED BY <1>1, <1>2, <1>3, PanelMoves, PurchaseHandled, PurchaseAnswered, StatusRead DEF Bills!Next

-----------------------------------------------------------------------------
(* The dialog that connects a server *)

Shows(Flags) ==
  [open : Flags, form : Typed \cup {None}, busy : Flags, cold : Flags,
   importing : Saved \cup {None}, error : Flags]
Submits(rs) == {r \in rs : r.kind = "submit"}

\* The form of a dialog that was not closed over a request is busy with the only
\* one under way, and the hint about a cold engine is that one's.
DialogInv ==
  /\ dialog \in Shows(BOOLEAN) /\ strayed \in BOOLEAN
  /\ dialog.busy => Submits(underWay) # {}
  /\ dialog.importing # None => \E r \in underWay : r.kind = "import"
  /\ ~strayed =>
       /\ Submits(underWay) # {} => dialog.busy
       /\ \A r, o \in Submits(underWay) : r = o
       /\ timers \subseteq {coldTimer} /\ (timers # {} => dialog.busy)
       /\ dialog.cold => dialog.busy
       /\ ~dialog.open => underWay = {} /\ ~dialog.error

\* What becomes of the fields when the dialog changes, one by one.
Fields(d, o, b, c, i, e) ==
  d \in Shows(BOOLEAN) /\ d.open = o /\ d.busy = b /\ d.cold = c /\ d.importing = i /\ d.error = e

LEMMA DialogUpdates ==
  ASSUME NEW d \in Shows(BOOLEAN)
  PROVE  /\ Fields([d EXCEPT !.open = TRUE], TRUE, d.busy, d.cold, d.importing, d.error)
         /\ Fields([d EXCEPT !.open = FALSE, !.busy = FALSE, !.cold = FALSE, !.error = FALSE],
                   FALSE, FALSE, FALSE, d.importing, FALSE)
         /\ \A t \in Typed \cup {None} :
               Fields([d EXCEPT !.form = t], d.open, d.busy, d.cold, d.importing, d.error)
         /\ Fields([d EXCEPT !.error = FALSE, !.busy = TRUE, !.cold = FALSE],
                   d.open, TRUE, FALSE, d.importing, FALSE)
         /\ \A c \in Saved :
               Fields([d EXCEPT !.error = FALSE, !.importing = c], d.open, d.busy, d.cold, c, FALSE)
         /\ Fields([d EXCEPT !.cold = TRUE], d.open, d.busy, TRUE, d.importing, d.error)
         /\ Fields([d EXCEPT !.busy = FALSE, !.cold = FALSE], d.open, FALSE, FALSE, d.importing, d.error)
         /\ Fields([d EXCEPT !.error = TRUE], d.open, d.busy, d.cold, d.importing, TRUE)
         /\ Fields([d EXCEPT !.importing = None], d.open, d.busy, d.cold, None, d.error)
<1> USE DEF Shows, Fields
<1>1. Fields([d EXCEPT !.open = TRUE], TRUE, d.busy, d.cold, d.importing, d.error)
  OBVIOUS
<1>2. Fields([d EXCEPT !.open = FALSE, !.busy = FALSE, !.cold = FALSE, !.error = FALSE],
             FALSE, FALSE, FALSE, d.importing, FALSE)
  OBVIOUS
<1>3. \A t \in Typed \cup {None} :
        Fields([d EXCEPT !.form = t], d.open, d.busy, d.cold, d.importing, d.error)
  OBVIOUS
<1>4. Fields([d EXCEPT !.error = FALSE, !.busy = TRUE, !.cold = FALSE], d.open, TRUE, FALSE, d.importing, FALSE)
  OBVIOUS
<1>5. \A c \in Saved : Fields([d EXCEPT !.error = FALSE, !.importing = c], d.open, d.busy, d.cold, c, FALSE)
  OBVIOUS
<1>6. Fields([d EXCEPT !.cold = TRUE], d.open, d.busy, TRUE, d.importing, d.error)
  OBVIOUS
<1>7. Fields([d EXCEPT !.busy = FALSE, !.cold = FALSE], d.open, FALSE, FALSE, d.importing, d.error)
  OBVIOUS
<1>8. Fields([d EXCEPT !.error = TRUE], d.open, d.busy, d.cold, d.importing, TRUE)
  OBVIOUS
<1>9. Fields([d EXCEPT !.importing = None], d.open, d.busy, d.cold, None, d.error)
  OBVIOUS
<1> HIDE DEF Shows, Fields
<1> QED BY <1>1, <1>2, <1>3, <1>4, <1>5, <1>6, <1>7, <1>8, <1>9

LEMMA ClosedDialog ==
  ASSUME NEW d \in Shows(BOOLEAN)
  PROVE  LET c == Dialogs!Closed(d) IN
           /\ c \in Shows(BOOLEAN) /\ ~c.open /\ c.importing = d.importing
           /\ d.open => ~c.busy /\ ~c.cold /\ ~c.error
           /\ ~d.open => c = d
<1>1. CASE d.open
  BY <1>1, DialogUpdates DEF Dialogs!Closed, Dialogs!Reset, Fields
<1>2. CASE ~d.open
  BY <1>2 DEF Dialogs!Closed
<1> QED BY <1>1, <1>2

LEMMA DialogOpens ==
  ASSUME DialogInv, Dialogs!Open \/ Dialogs!Types \/ Dialogs!TimerFires
  PROVE  DialogInv'
<1>1. dialog \in Shows(BOOLEAN) /\ UNCHANGED <<underWay, coldTimer, strayed>> /\ timers' \subseteq timers
  BY DEF DialogInv, Dialogs!Open, Dialogs!Types, Dialogs!TimerFires
<1>2. CASE Dialogs!Open
  <2>1. Fields(dialog', TRUE, dialog.busy, dialog.cold, dialog.importing, dialog.error)
    BY <1>1, <1>2, DialogUpdates DEF Dialogs!Open
  <2> QED BY <1>1, <2>1 DEF DialogInv, Fields, Submits
<1>3. CASE Dialogs!Types
  <2>1. PICK t \in Typed : dialog' = [dialog EXCEPT !.form = t]
    BY <1>3 DEF Dialogs!Types
  <2>2. Fields(dialog', dialog.open, dialog.busy, dialog.cold, dialog.importing, dialog.error)
    BY <1>1, <2>1, DialogUpdates
  <2> QED BY <1>1, <2>2 DEF DialogInv, Fields, Submits
<1>4. CASE Dialogs!TimerFires
  <2>1. Fields(dialog', dialog.open, dialog.busy, TRUE, dialog.importing, dialog.error) /\ timers # {}
    BY <1>1, <1>4, DialogUpdates DEF Dialogs!TimerFires
  <2> QED BY <1>1, <2>1 DEF DialogInv, Fields, Submits
<1> QED BY <1>2, <1>3, <1>4

LEMMA DialogAsks ==
  ASSUME DialogInv, Dialogs!submit \/ \E c \in Saved : Dialogs!importSaved(c)
  PROVE  DialogInv'
<1>1. dialog \in Shows(BOOLEAN) /\ dialog.open /\ ~dialog.busy /\ strayed' = strayed
  BY DEF DialogInv, Dialogs!submit, Dialogs!importSaved
<1>2. CASE Dialogs!submit
  <2>1. PICK r : r.kind = "submit" /\ underWay' = underWay \cup {r}
    BY <1>2 DEF Dialogs!submit, Dialogs!Attempt
  <2>2. Submits(underWay)' = Submits(underWay) \cup {r}
    BY <2>1 DEF Submits
  <2>3. Fields(dialog', dialog.open, TRUE, FALSE, dialog.importing, FALSE)
    BY <1>1, <1>2, DialogUpdates DEF Dialogs!submit
  <2>4. timers' = timers \cup {coldTimer'}
    BY <1>2 DEF Dialogs!submit
  <2>5. underWay \subseteq underWay'
    BY <2>1
  <2> QED BY <1>1, <2>2, <2>3, <2>4, <2>5 DEF DialogInv, Fields
<1>3. CASE \E c \in Saved : Dialogs!importSaved(c)
  <2>1. PICK c \in Saved : Dialogs!importSaved(c)
    BY <1>3
  <2>2. PICK r : r.kind = "import" /\ underWay' = underWay \cup {r}
    BY <2>1 DEF Dialogs!importSaved, Dialogs!Attempt
  <2>3. Submits(underWay)' = Submits(underWay)
    BY <2>2 DEF Submits
  <2>4. Fields(dialog', dialog.open, dialog.busy, dialog.cold, c, FALSE) /\ UNCHANGED <<timers, coldTimer>>
    BY <1>1, <2>1, DialogUpdates DEF Dialogs!importSaved
  <2> QED BY <1>1, <2>2, <2>3, <2>4 DEF DialogInv, Fields
<1> QED BY <1>2, <1>3

\* Closing over nothing leaves nothing behind, unless a hint of an earlier
\* attempt is still to come.
LEMMA DialogCloses ==
  ASSUME DialogInv, Dialogs!onClose
  PROVE  DialogInv'
<1>1. dialog \in Shows(BOOLEAN) /\ dialog.open /\ UNCHANGED <<underWay, timers, coldTimer>>
  BY DEF DialogInv, Dialogs!onClose
<1>2. /\ dialog' \in Shows(BOOLEAN) /\ ~dialog'.open /\ dialog'.importing = dialog.importing
      /\ ~dialog'.busy /\ ~dialog'.cold /\ ~dialog'.error
  BY <1>1, ClosedDialog DEF Dialogs!onClose
<1>3. strayed' = (underWay # {} \/ (strayed /\ timers # {}))
  BY <1>1, <1>2 DEF Dialogs!onClose, Dialogs!Strays
<1> QED BY <1>1, <1>2, <1>3 DEF DialogInv, Submits

LEMMA SubmitAnswered ==
  ASSUME DialogInv, NEW r \in underWay, Dialogs!submitAnswered(r)
  PROVE  DialogInv'
<1> DEFINE settled == [dialog EXCEPT !.busy = FALSE, !.cold = FALSE]
<1>1. /\ dialog \in Shows(BOOLEAN) /\ strayed \in BOOLEAN /\ r.kind = "submit" /\ r \in Submits(underWay)
      /\ underWay' = underWay \ {r} /\ timers' = timers \ {coldTimer} /\ coldTimer' = coldTimer
      /\ Dialogs!Strays
  BY DEF DialogInv, Dialogs!submitAnswered, Submits
<1>2. Fields(settled, dialog.open, FALSE, FALSE, dialog.importing, dialog.error)
  BY <1>1, DialogUpdates
<1>3. \/ dialog' = Dialogs!Closed([settled EXCEPT !.form = None])
      \/ dialog' = [settled EXCEPT !.error = TRUE]
  BY DEF Dialogs!submitAnswered
<1> HIDE DEF settled
<1>4. Submits(underWay)' = Submits(underWay) \ {r}
  BY <1>1 DEF Submits
<1>5. ~strayed => dialog.open /\ Submits(underWay)' = {} /\ timers' = {}
  BY <1>1, <1>4 DEF DialogInv
<1>6. ASSUME dialog.importing # None PROVE \E o \in underWay' : o.kind = "import"
  BY <1>1, <1>6 DEF DialogInv
<1>7. CASE dialog' = Dialogs!Closed([settled EXCEPT !.form = None])
  <2> DEFINE d == [settled EXCEPT !.form = None]
  <2>1. Fields(d, dialog.open, FALSE, FALSE, dialog.importing, dialog.error)
    <3>1. settled \in Shows(BOOLEAN) /\ None \in Typed \cup {None}
      BY <1>2 DEF Fields
    <3>2. Fields(d, settled.open, settled.busy, settled.cold, settled.importing, settled.error)
      BY <3>1, DialogUpdates
    <3> HIDE DEF d
    <3> QED BY <1>2, <3>2 DEF Fields
  <2>2. dialog' = Dialogs!Closed(d)
    BY <1>7
  <2> HIDE DEF d
  <2>3. /\ dialog' \in Shows(BOOLEAN) /\ ~dialog'.open /\ dialog'.importing = dialog.importing
        /\ ~dialog'.busy /\ ~dialog'.cold /\ (dialog.open => ~dialog'.error)
    BY <2>1, <2>2, ClosedDialog DEF Fields
  <2>4. CASE dialog.open
    <3>1. strayed' = (underWay' # {} \/ (strayed /\ timers' # {}))
      BY <1>1, <2>3, <2>4 DEF Dialogs!Strays
    <3>2. strayed' \in BOOLEAN /\ (~strayed' => underWay' = {} /\ (strayed => timers' = {}))
      BY <3>1
    <3>3. ~strayed' => Submits(underWay)' = {} /\ timers' = {}
      BY <1>5, <3>2 DEF Submits
    <3> QED BY <1>6, <2>3, <2>4, <3>2, <3>3 DEF DialogInv
  <2>5. CASE ~dialog.open
    <3>1. strayed' = strayed /\ strayed
      BY <1>1, <1>5, <2>5 DEF Dialogs!Strays
    <3> QED BY <1>1, <1>6, <2>3, <3>1 DEF DialogInv
  <2> QED BY <2>4, <2>5
<1>8. CASE dialog' = [settled EXCEPT !.error = TRUE]
  <2>1. Fields(dialog', dialog.open, FALSE, FALSE, dialog.importing, TRUE)
    BY <1>2, <1>8, DialogUpdates DEF Fields
  <2>2. strayed' = strayed
    BY <1>1, <2>1 DEF Dialogs!Strays, Fields
  <2> QED BY <1>1, <1>4, <1>5, <1>6, <2>1, <2>2 DEF DialogInv, Fields
<1> QED BY <1>3, <1>7, <1>8

LEMMA ImportAnswered ==
  ASSUME DialogInv, NEW r \in underWay, Dialogs!importAnswered(r)
  PROVE  DialogInv'
<1> DEFINE settled == [dialog EXCEPT !.importing = None]
<1>1. /\ dialog \in Shows(BOOLEAN) /\ strayed \in BOOLEAN /\ r.kind = "import"
      /\ underWay' = underWay \ {r} /\ UNCHANGED <<timers, coldTimer>> /\ Dialogs!Strays
  BY DEF DialogInv, Dialogs!importAnswered
<1>2. Fields(settled, dialog.open, dialog.busy, dialog.cold, None, dialog.error)
  BY <1>1, DialogUpdates
<1>3. \/ dialog' = Dialogs!Closed(settled)
      \/ dialog' = [settled EXCEPT !.error = TRUE] \/ dialog' = settled
  BY DEF Dialogs!importAnswered
<1> HIDE DEF settled
<1>4. Submits(underWay)' = Submits(underWay)
  BY <1>1 DEF Submits
<1>5. ~strayed => dialog.open
  BY DEF DialogInv
<1>6. CASE dialog' = Dialogs!Closed(settled)
  <2>1. /\ dialog' \in Shows(BOOLEAN) /\ ~dialog'.open /\ dialog'.importing = None
        /\ dialog.open => ~dialog'.busy /\ ~dialog'.cold /\ ~dialog'.error
        /\ ~dialog.open => dialog'.busy = dialog.busy
    BY <1>2, <1>6, ClosedDialog DEF Fields
  <2>2. CASE dialog.open
    <3>1. strayed' = (underWay' # {} \/ (strayed /\ timers # {}))
      BY <1>1, <2>1, <2>2 DEF Dialogs!Strays
    <3>2. ASSUME ~strayed' PROVE underWay' = {} /\ Submits(underWay)' = {} /\ timers' = {}
      <4>1. underWay' = {} /\ (strayed => timers = {})
        BY <3>1, <3>2
      <4>2. Submits(underWay) = {}
        BY <1>4, <4>1 DEF Submits
      <4> QED BY <1>1, <1>4, <4>1, <4>2 DEF DialogInv
    <3> QED BY <1>1, <2>1, <2>2, <3>1, <3>2 DEF DialogInv
  <2>3. CASE ~dialog.open
    <3>1. strayed' = strayed /\ strayed
      BY <1>1, <1>5, <2>3 DEF Dialogs!Strays
    <3> QED BY <1>1, <1>4, <2>1, <2>3, <3>1 DEF DialogInv
  <2> QED BY <2>2, <2>3
<1>7. CASE dialog' = [settled EXCEPT !.error = TRUE] \/ dialog' = settled
  <2>1. \E e : Fields(dialog', dialog.open, dialog.busy, dialog.cold, None, e)
    <3>1. CASE dialog' = settled
      BY <1>2, <3>1
    <3>2. CASE dialog' = [settled EXCEPT !.error = TRUE]
      <4>1. settled \in Shows(BOOLEAN)
        BY <1>2 DEF Fields
      <4>2. Fields(dialog', settled.open, settled.busy, settled.cold, settled.importing, TRUE)
        BY <3>2, <4>1, DialogUpdates
      <4>3. Fields(dialog', dialog.open, dialog.busy, dialog.cold, None, TRUE)
        BY <1>2, <4>2 DEF Fields
      <4> QED BY <4>3
    <3> QED BY <1>7, <3>1, <3>2
  <2>2. strayed' = strayed
    BY <1>1, <2>1 DEF Dialogs!Strays, Fields
  <2> QED BY <1>1, <1>4, <1>5, <2>1, <2>2 DEF DialogInv, Fields
<1> QED BY <1>3, <1>6, <1>7

LEMMA DialogKept ==
  ASSUME DialogInv, Dialogs!Next
  PROVE  DialogInv'
BY DialogOpens, DialogAsks, DialogCloses, SubmitAnswered, ImportAnswered DEF Dialogs!Next

PanelsInv == ExportInv /\ BillingInv /\ DialogInv

\* For any number of requests: the export dialog shows the code of what is chosen,
\* unless an older answer overtook the last one, or says why it has none, unless an
\* answer could not be read; the billing card says active only of what the server had
\* active, and of a payment just verified, unless a status read crossed it; and the
\* dialog that connects a server is busy, hints and complains about its own attempt,
\* unless it was closed over one (ExportPanel.tsx, BillingPanel.tsx,
\* ServerConnectDialog.tsx).
THEOREM PanelsAlwaysFollow == Spec => []PanelsFollowTheirAnswers
<1>1. Init => PanelsInv
  <2>1. Init => ExportInv
    BY DEF Init, Exports!Init, ExportInv, RequestsInv, HeardInv, Newest, Answers, Hearings, Loads,
           Exports!Overtaken, Exports!NoFiles
  <2>2. Init => BillingInv
    BY PartsAssumption DEF Init, Bills!Init, Bills!Unread, Bills!NoSub, BillingInv, BoughtInv, VerdictInv, Honest,
                           Statuses
  <2>3. Init => DialogInv
    <3>1. Init => dialog \in Shows(BOOLEAN) /\ ~dialog.busy /\ dialog.importing = None /\ ~dialog.cold /\ ~dialog.error
      BY DEF Init, Dialogs!Init, Shows
    <3>2. Init => underWay = {} /\ timers = {} /\ strayed = FALSE
      BY DEF Init, Dialogs!Init
    <3> QED BY <3>1, <3>2 DEF DialogInv, Submits
  <2> QED BY <2>1, <2>2, <2>3 DEF PanelsInv
<1>2. PanelsInv /\ [Next]_<<part, now, served_, shown_, address, lookup>> => PanelsInv'
  <2> SUFFICES ASSUME PanelsInv, [Next]_<<part, now, served_, shown_, address, lookup>> PROVE PanelsInv'
    OBVIOUS
  <2>1. ASSUME UNCHANGED exportVars PROVE ExportInv'
    BY <2>1 DEF PanelsInv, ExportInv, RequestsInv, HeardInv, Newest, Answers, Exports!Overtaken, exportVars
  <2>2. ASSUME UNCHANGED billingVars PROVE BillingInv'
    BY <2>2 DEF PanelsInv, BillingInv, BoughtInv, VerdictInv, Honest, billingVars
  <2>3. ASSUME UNCHANGED dialogVars PROVE DialogInv'
    BY <2>3 DEF PanelsInv, DialogInv, Submits, dialogVars
  <2>4. ASSUME Exports!Next PROVE ExportInv'
    BY <2>4, ExportKept DEF PanelsInv
  <2>5. ASSUME Bills!Next PROVE BillingInv'
    BY <2>5, BillingKept DEF PanelsInv
  <2>6. ASSUME Dialogs!Next PROVE DialogInv'
    BY <2>6, DialogKept DEF PanelsInv
  <2> QED BY <2>1, <2>2, <2>3, <2>4, <2>5, <2>6 DEF PanelsInv, Next, Server, Shown, shown_
<1>3. PanelsInv => PanelsFollowTheirAnswers
  <2>1. ExportInv => Exports!FilesAreOfTheTarget
    <3> SUFFICES ASSUME ExportInv, open PROVE Exports!FilesAreOfTheTarget
      BY DEF Exports!FilesAreOfTheTarget
    <3>1. Newest <=> \E k \in DOMAIN loads : loads[k].id = made
      BY DEF Newest, ExportInv, RequestsInv
    <3>2. ASSUME ~Exports!Overtaken, ~loading, files = Exports!NoFiles
          PROVE  error \/ [of |-> made, what |-> "nothing"] \in heard
      <4>1. PICK h \in heard : h.of = made
        BY <3>2 DEF ExportInv, HeardInv, Answers
      <4>2. h = [of |-> made, what |-> h.what] /\ h.what \in {"files", "nothing", "refused"}
        BY <4>1 DEF ExportInv, RequestsInv, Hearings
      <4> QED BY <3>2, <4>1, <4>2 DEF ExportInv, HeardInv
    <3> QED BY <3>1, <3>2 DEF ExportInv, HeardInv, Exports!FilesAreOfTheTarget, Exports!downloadBundle
  <2>2. BillingInv => Bills!CardSpeaksForTheServer
    BY DEF BillingInv, BoughtInv, VerdictInv, Honest, Statuses, Bills!CardSpeaksForTheServer, Bills!statusView
  <2>3. DialogInv => Dialogs!DialogSpeaksOfItsAttempt
    BY DEF DialogInv, Submits, Dialogs!DialogSpeaksOfItsAttempt
  <2> QED BY <2>1, <2>2, <2>3 DEF PanelsInv, PanelsFollowTheirAnswers
<1> QED BY <1>1, <1>2, <1>3, PTL DEF Spec

-----------------------------------------------------------------------------
(* The price feed *)

Asked == [since : Nat, read : Nat \cup {None}, open : BOOLEAN]
Rates == (SUBSET Currencies) \ {{}}
Told == [age : Int, rates : Rates]

\* The request in flight is the only one open; what it brings was read while it
\* was open, and it is not open for longer than the timer lets it.
PriceInv ==
  /\ part = "prices" => now \in Nat
  /\ \E n \in Nat : requests \in [1..n -> Asked]
  /\ part # "prices" => cache = None /\ DOMAIN requests = {}
  /\ \A r \in DOMAIN requests : requests[r].open =>
       /\ inFlight = r /\ requests[r].since <= now /\ now <= requests[r].since + Timeout
       /\ requests[r].read # None => requests[r].since <= requests[r].read /\ requests[r].read <= now
  /\ inFlight # None => inFlight \in DOMAIN requests /\ requests[inFlight].open
  /\ cache # None => /\ cache \in [at : Nat, read : Nat, rates : Rates]
                     /\ cache.read <= cache.at /\ cache.at <= cache.read + Timeout /\ cache.at <= now
  /\ waiting \in [Callers -> Nat \cup {None}]
  /\ served \in [Callers -> Told \cup {None}]
  /\ \A c \in Callers : served[c] # None => served[c].age < CacheTtl + Timeout

LEMMA SameCountOfRequests == ASSUME NEW S PROVE Prices!Cardinality(S) = Cardinality(S)
BY DEF Prices!Cardinality, Cardinality

\* Requests are numbered as they are made.
LEMMA CountTo == ASSUME NEW n \in Nat PROVE Cardinality(1..n) = n
<1>1. 1 \in Int /\ n \in Int
  OBVIOUS
<1>2. Cardinality(1..n) = IF 1 > n THEN 0 ELSE n - 1 + 1
  BY <1>1, FS_Interval, Zenon
<1> QED BY <1>2

\* A caller is served from the cache, joins the request in flight or makes one.
LEMMA RatesAsked ==
  ASSUME PriceInv, part = "prices", part' = part, NEW c \in Callers, Prices!getRates(c)
  PROVE  PriceInv'
<1> USE PartsAssumption
<1>1. now \in Nat /\ UNCHANGED <<now, cache>>
  BY DEF PriceInv, Prices!getRates
<1>2. PICK n \in Nat : requests \in [1..n -> Asked]
  BY DEF PriceInv
<1>3. CASE Prices!fresh
  <2> DEFINE told == [age |-> now - cache.read, rates |-> cache.rates]
  <2>1. served' = [served EXCEPT ![c] = told] /\ UNCHANGED <<waiting, requests, inFlight>>
    BY <1>3 DEF Prices!getRates
  <2>2. cache # None /\ cache.at \in Nat /\ cache.read \in Nat /\ now - cache.at < CacheTtl
        /\ cache.at <= cache.read + Timeout /\ cache.rates \in Rates
    BY <1>3 DEF Prices!fresh, PriceInv
  <2>3. told \in Told /\ told.age < CacheTtl + Timeout
    BY <1>1, <2>2 DEF Told
  <2> HIDE DEF told
  <2>4. /\ served' \in [Callers -> Told \cup {None}]
        /\ \A d \in Callers : served'[d] # None => served'[d].age < CacheTtl + Timeout
    BY <2>1, <2>3 DEF PriceInv
  <2> QED BY <1>1, <2>1, <2>4 DEF PriceInv
<1>4. CASE ~Prices!fresh /\ inFlight # None
  <2>1. waiting' = [waiting EXCEPT ![c] = inFlight] /\ UNCHANGED <<served, requests, inFlight>>
    BY <1>4 DEF Prices!getRates
  <2>2. inFlight \in Nat
    BY <1>2, <1>4 DEF PriceInv
  <2>3. waiting' \in [Callers -> Nat \cup {None}]
    BY <2>1, <2>2 DEF PriceInv
  <2> QED BY <1>1, <2>1, <2>3 DEF PriceInv
<1>5. CASE ~Prices!fresh /\ inFlight = None
  <2> DEFINE m == n + 1
             fetch == [since |-> now, read |-> None, open |-> TRUE]
  <2>1. Prices!newRequest = m /\ DOMAIN requests = 1..n
    <3>1. Cardinality(1..n) = n
      BY <1>2, CountTo
    <3>2. DOMAIN requests = 1..n
      BY <1>2
    <3>3. Prices!newRequest = Cardinality(DOMAIN requests) + 1
      BY SameCountOfRequests DEF Prices!newRequest
    <3> QED BY <3>1, <3>2, <3>3
  <2>2. /\ requests' = [r \in DOMAIN requests \cup {m} |-> IF r = m THEN fetch ELSE requests[r]]
        /\ inFlight' = m /\ waiting' = [waiting EXCEPT ![c] = m] /\ UNCHANGED served
    BY <1>5, <2>1 DEF Prices!getRates
  <2>3. fetch \in Asked /\ fetch.since = now /\ fetch.read = None /\ fetch.open
    BY <1>1 DEF Asked
  <2> HIDE DEF fetch
  <2>4. /\ requests' \in [1..m -> Asked] /\ m \in Nat /\ requests'[m] = fetch /\ DOMAIN requests' = 1..m
        /\ \A r \in DOMAIN requests' : r # m => r \in DOMAIN requests /\ requests'[r] = requests[r]
    BY <1>2, <2>1, <2>2, <2>3
  <2>5. \A r \in DOMAIN requests : ~requests[r].open
    BY <1>2, <1>5 DEF PriceInv
  <2>6. waiting' \in [Callers -> Nat \cup {None}]
    BY <2>2, <2>4 DEF PriceInv
  <2>7. \A r \in DOMAIN requests' : requests'[r].open => r = m
    BY <2>4, <2>5
  <2>8. m \in DOMAIN requests'
    BY <2>4
  <2> HIDE DEF m
  <2>9. \A r \in DOMAIN requests' : requests'[r].open =>
          /\ inFlight' = r /\ requests'[r].since <= now' /\ now' <= requests'[r].since + Timeout
          /\ requests'[r].read # None => requests'[r].since <= requests'[r].read /\ requests'[r].read <= now'
    <3> SUFFICES ASSUME NEW r \in DOMAIN requests', requests'[r].open
                 PROVE  /\ inFlight' = r /\ requests'[r].since <= now' /\ now' <= requests'[r].since + Timeout
                        /\ requests'[r].read = None
      OBVIOUS
    <3>1. inFlight' = r /\ requests'[r] = fetch
      BY <2>2, <2>4, <2>7
    <3>2. requests'[r].since = now /\ requests'[r].read = None /\ now' = now
      BY <1>1, <2>3, <3>1
    <3> QED BY <1>1, <3>1, <3>2
  <2> QED BY <1>1, <2>2, <2>3, <2>4, <2>6, <2>8, <2>9 DEF PriceInv
<1> QED BY <1>3, <1>4, <1>5

\* A request closes; the others stay as they are.
LEMMA RequestCloses ==
  ASSUME NEW n \in Nat, NEW q \in [1..n -> Asked], NEW r \in 1..n, NEW p, p = [q EXCEPT ![r].open = FALSE]
  PROVE  p \in [1..n -> Asked] /\ ~p[r].open /\ \A o \in 1..n : o # r => p[o] = q[o]
BY DEF Asked

LEMMA RatesSettled ==
  ASSUME PriceInv, part = "prices", part' = part, NEW r \in DOMAIN requests,
         NEW rates \in SUBSET Currencies, Prices!Answered(r, rates) \/ Prices!Failed(r)
  PROVE  PriceInv'
<1> USE PartsAssumption
<1>1. /\ requests[r].open /\ now \in Nat /\ now' = now /\ inFlight' = None
      /\ requests' = [requests EXCEPT ![r].open = FALSE]
      /\ waiting' = [c \in Callers |-> IF waiting[c] = r THEN None ELSE waiting[c]]
  BY DEF PriceInv, Prices!Answered, Prices!Failed, Prices!settle
<1>2. PICK n \in Nat : requests \in [1..n -> Asked]
  BY DEF PriceInv
<1>3. /\ requests' \in [1..n -> Asked] /\ ~requests'[r].open
      /\ \A o \in 1..n : o # r => requests'[o] = requests[o]
  <2>1. r \in 1..n
    BY <1>2
  <2> QED BY <1>1, <1>2, <2>1, RequestCloses
<1>4. \A o \in DOMAIN requests' : ~requests'[o].open
  <2>1. \A o \in DOMAIN requests : requests[o].open => o = r
    BY <1>1 DEF PriceInv
  <2> QED BY <1>2, <1>3, <2>1
<1>5. waiting' \in [Callers -> Nat \cup {None}]
  BY <1>1 DEF PriceInv
<1>6. /\ requests[r] \in Asked /\ requests[r].since <= now /\ now <= requests[r].since + Timeout
      /\ requests[r].read # None => requests[r].since <= requests[r].read /\ requests[r].read <= now
  BY <1>1, <1>2 DEF PriceInv
<1>7. CASE Prices!Failed(r)
  <2>1. UNCHANGED cache /\ served' = [c \in Callers |-> IF waiting[c] = r THEN None ELSE served[c]]
    BY <1>7 DEF Prices!Failed
  <2>2. /\ served' \in [Callers -> Told \cup {None}]
        /\ \A d \in Callers : served'[d] # None => served'[d].age < CacheTtl + Timeout
    BY <2>1 DEF PriceInv
  <2> QED BY <1>1, <1>3, <1>4, <1>5, <2>1, <2>2 DEF PriceInv
<1>8. CASE Prices!Answered(r, rates)
  <2> DEFINE read == requests[r].read
             told == [age |-> now - read, rates |-> rates]
  <2>1. /\ read # None /\ cache' = [at |-> now, read |-> read, rates |-> rates] /\ rates \in Rates
        /\ served' = [c \in Callers |-> IF waiting[c] = r THEN told ELSE served[c]]
    BY <1>8 DEF Prices!Answered, Rates
  <2>2. read \in Nat /\ read <= now /\ now <= read + Timeout
    BY <1>1, <1>6, <2>1 DEF Asked
  <2> HIDE DEF read
  <2>3. told \in Told /\ told.age < CacheTtl + Timeout
    BY <1>1, <2>1, <2>2 DEF Told
  <2> HIDE DEF told
  <2>4. /\ served' \in [Callers -> Told \cup {None}]
        /\ \A d \in Callers : served'[d] # None => served'[d].age < CacheTtl + Timeout
    BY <2>1, <2>3 DEF PriceInv
  <2>5. /\ cache' \in [at : Nat, read : Nat, rates : Rates] /\ cache'.read <= cache'.at
        /\ cache'.at <= cache'.read + Timeout /\ cache'.at <= now'
    BY <1>1, <2>1, <2>2
  <2> QED BY <1>1, <1>3, <1>4, <1>5, <2>4, <2>5 DEF PriceInv
<1> QED BY <1>7, <1>8

LEMMA PricesKept ==
  ASSUME PriceInv, part = "prices", part' = part, Prices!Next
  PROVE  PriceInv'
<1> USE PartsAssumption
<1>1. ASSUME NEW c \in Callers, Prices!getRates(c) PROVE PriceInv'
  BY <1>1, RatesAsked
<1>2. ASSUME NEW r \in DOMAIN requests, Prices!FeedReads(r) PROVE PriceInv'
  <2>1. /\ requests[r].open /\ requests' = [requests EXCEPT ![r].read = now] /\ now \in Nat
        /\ UNCHANGED <<now, cache, inFlight, waiting, served>>
    BY <1>2 DEF Prices!FeedReads, PriceInv
  <2>2. PICK n \in Nat : requests \in [1..n -> Asked]
    BY DEF PriceInv
  <2>3. /\ requests' \in [1..n -> Asked] /\ requests'[r].read = now /\ requests'[r].since = requests[r].since
        /\ requests'[r].open /\ \A o \in 1..n : o # r => requests'[o] = requests[o]
    <3>1. r \in 1..n
      BY <2>2
    <3> DEFINE q == requests
               p == requests'
    <3>2. now \in Nat /\ q \in [1..n -> Asked] /\ p = [q EXCEPT ![r].read = now] /\ q[r].open
      BY <2>1, <2>2
    <3> HIDE DEF q, p
    <3>3. /\ p \in [1..n -> Asked] /\ p[r].read = now /\ p[r].since = q[r].since
          /\ (p[r].open <=> q[r].open) /\ \A o \in 1..n : o # r => p[o] = q[o]
      BY <3>1, <3>2 DEF Asked
    <3> QED BY <3>2, <3>3 DEF q, p
  <2>4. \A o \in DOMAIN requests' : requests'[o].open =>
          /\ inFlight' = o /\ requests'[o].since <= now' /\ now' <= requests'[o].since + Timeout
          /\ requests'[o].read # None => requests'[o].since <= requests'[o].read /\ requests'[o].read <= now'
    BY <2>1, <2>2, <2>3 DEF PriceInv
  <2>5. inFlight' # None => inFlight' \in DOMAIN requests' /\ requests'[inFlight'].open
    BY <2>1, <2>2, <2>3 DEF PriceInv
  <2> QED BY <2>1, <2>3, <2>4, <2>5 DEF PriceInv
<1>3. ASSUME NEW r \in DOMAIN requests, NEW rates \in SUBSET Currencies,
             Prices!Answered(r, rates) \/ Prices!Failed(r)
      PROVE  PriceInv'
  BY <1>3, RatesSettled
<1>4. CASE Prices!Tick
  <2>1. /\ now \in Nat /\ now' = now + 1 /\ UNCHANGED <<cache, inFlight, requests, waiting, served>>
        /\ \A r \in DOMAIN requests : requests[r].open => now < requests[r].since + Timeout
    BY <1>4 DEF Prices!Tick, PriceInv
  <2>2. PICK n \in Nat : requests \in [1..n -> Asked]
    BY DEF PriceInv
  <2>3. ASSUME NEW r \in DOMAIN requests, requests[r].open
        PROVE  /\ requests[r].since <= now' /\ now' <= requests[r].since + Timeout
               /\ requests[r].read # None => requests[r].since <= requests[r].read /\ requests[r].read <= now'
    <3>1. requests[r] \in Asked
      BY <2>2
    <3>2. requests[r].since \in Nat /\ requests[r].read \in Nat \cup {None}
      BY <3>1 DEF Asked
    <3>3. /\ requests[r].since <= now
          /\ requests[r].read # None => requests[r].since <= requests[r].read /\ requests[r].read <= now
      BY <2>3 DEF PriceInv
    <3>4. now < requests[r].since + Timeout
      BY <2>1, <2>3
    <3> QED BY <2>1, <3>2, <3>3, <3>4, PartsAssumption
  <2>4. cache # None => cache.at \in Nat /\ cache.at <= now'
    BY <2>1 DEF PriceInv
  <2> QED BY <2>1, <2>3, <2>4 DEF PriceInv
<1>5. {} \in SUBSET Currencies
  OBVIOUS
<1> QED BY <1>1, <1>2, <1>3, <1>4, <1>5 DEF Prices!Next

\* A rate that anybody is given was the feed's less than a period and a request
\* ago, a currency it left out is unknown for no longer and only next to one that
\* is known, and the feed is asked once at a time (price.ts, getRates and inFlight).
THEOREM RatesStayRecent == Spec => []RateIsRecent
<1>1. Init => PriceInv
  <2>1. Init => /\ now = 0 /\ cache = None /\ inFlight = None /\ requests = [r \in {} |-> None]
                /\ waiting = [c \in Callers |-> None] /\ served = [c \in Callers |-> None]
    BY DEF Init, Prices!Init
  <2>2. requests = [r \in {} |-> None] => requests \in [1..0 -> Asked] /\ DOMAIN requests = {}
    OBVIOUS
  <2> QED BY <2>1, <2>2 DEF PriceInv
<1>2. PriceInv /\ [Next]_<<part, now, served_, shown_, address, lookup>> => PriceInv'
  <2> SUFFICES ASSUME PriceInv, [Next]_<<part, now, served_, shown_, address, lookup>> PROVE PriceInv'
    OBVIOUS
  <2>1. CASE UNCHANGED <<part, now, priceVars>>
    BY <2>1 DEF PriceInv, priceVars
  <2>2. CASE part # "prices" /\ part' = part /\ UNCHANGED priceVars
    BY <2>2 DEF PriceInv, priceVars
  <2>3. CASE part = "prices" /\ part' = part /\ Prices!Next
    BY <2>3, PricesKept
  <2> QED BY <2>1, <2>2, <2>3 DEF Next, Server, served_
<1>3. PriceInv => RateIsRecent
  <2> SUFFICES ASSUME PriceInv PROVE RateIsRecent
    OBVIOUS
  <2> DEFINE opened_ == {r \in DOMAIN requests : requests[r].open}
  <2>1. opened_ \subseteq {inFlight}
    BY DEF PriceInv
  <2> HIDE DEF opened_
  <2>2. Cardinality(opened_) <= 1
    <3>1. IsFiniteSet({inFlight}) /\ Cardinality({inFlight}) = 1
      BY FS_Singleton
    <3> QED BY <2>1, <3>1, FS_Subset
  <2>3. \A c \in Callers : served[c] # None =>
          served[c].age < CacheTtl + Timeout /\ \E y \in Currencies : Prices!getUsdRate(c, y)
    <3> SUFFICES ASSUME NEW c \in Callers, served[c] # None
                 PROVE  served[c].age < CacheTtl + Timeout /\ \E y \in Currencies : Prices!getUsdRate(c, y)
      OBVIOUS
    <3>1. served[c] \in Told /\ served[c].age < CacheTtl + Timeout
      BY DEF PriceInv
    <3>2. PICK y \in Currencies : y \in served[c].rates
      BY <3>1 DEF Told, Rates
    <3> QED BY <3>1, <3>2 DEF Prices!getUsdRate
  <2> QED BY <2>2, <2>3, SameCountOfRequests DEF RateIsRecent, Prices!RateIsRecent, opened_
<1> QED BY <1>1, <1>2, <1>3, PTL DEF Spec

-----------------------------------------------------------------------------
(* The rate limiter *)

Admissions == [at : Nat, epoch : Nat]

\* The hits h a key has at the time t: never more than the limit, in order.
HitsOk(h, t) ==
  /\ h \in Seq(Nat) /\ Len(h) <= Limit
  /\ \A j \in 1..Len(h) : h[j] <= t
  /\ \A i, j \in 1..Len(h) : i <= j => h[i] <= h[j]

Logged(a, f) == a \in Seq(Admissions) /\ f \in Nat /\ \A i \in 1..Len(a) : a[i].epoch <= f

Spaced(a) ==
  \A i \in 1..(Len(a) - Limit) :
    a[i].epoch = a[i + Limit].epoch => a[i + Limit].at - a[i].at >= Limits!Window

\* The hits are the last admissions.
Remembered(h, a, f) ==
  /\ Len(h) <= Len(a)
  /\ \A j \in 1..Len(h) : a[Len(a) - Len(h) + j] = [at |-> h[j], epoch |-> f]

\* The first n admissions count no more.
Outlived(n, a, f, t) == \A i \in 1..n : a[i].epoch = f => a[i].at <= t - Limits!Window

\* The admissions a of a key that was forgotten f times: its hits are the last of
\* them, and those before them that were not forgotten are older than a window.
KeyOk(h, a, f, t) ==
  /\ HitsOk(h, t) /\ Logged(a, f) /\ Spaced(a)
  /\ Remembered(h, a, f) /\ Outlived(Len(a) - Len(h), a, f, t)

\* Who was refused with the hits h is told the time q or none.
PromiseOk(h, q) == q # NoPromise /\ Len(h) = Limit => q >= h[1] + Limits!Window

LimitInv ==
  /\ part = "limits" =>
       /\ now \in Nat
       /\ admitted \in [Limits!Keys -> Seq(Admissions)] /\ promise \in [Limits!Keys -> Int \cup {NoPromise}]
       /\ \A k \in Limits!Keys :
            /\ KeyOk(Limits!hitsOf(k), admitted[k], forgotten[k], now)
            /\ PromiseOk(Limits!hitsOf(k), promise[k])
  /\ part # "limits" =>
       \A k \in Limits!Keys : admitted[k] = <<>> /\ promise[k] = NoPromise

\* What of the hits h still counts at the time t.
Recent(h, t) == Filter(h, {at \in 0..t : at > t - Limits!Window})

LEMMA WindowIsNat == Limits!Window \in Nat
BY PartsAssumption DEF Limits!Window

\* The hits that no longer count are the first p.
LEMMA RecentHits ==
  ASSUME NEW h, NEW t \in Nat, HitsOk(h, t)
  PROVE  \E p \in 0..Len(h) :
           /\ Recent(h, t) \in Seq(Nat) /\ Len(Recent(h, t)) = Len(h) - p
           /\ \A k \in 1..(Len(h) - p) : Recent(h, t)[k] = h[k + p]
           /\ \A k \in 1..p : h[k] <= t - Limits!Window
           /\ \A k \in (p + 1)..Len(h) : h[k] > t - Limits!Window
<1> DEFINE S == {at \in 0..t : at > t - Limits!Window}
<1>1. h \in Seq(Nat) /\ h \in Seq(Int) /\ Len(h) \in Nat /\ t - Limits!Window \in Int
  BY WindowIsNat DEF HitsOk
<1>2. PICK p \in 0..Len(h) : /\ \A k \in 1..p : h[k] <= t - Limits!Window
                             /\ \A k \in (p + 1)..Len(h) : h[k] > t - Limits!Window
  <2> DEFINE w == t - Limits!Window
  <2>1. w \in Int /\ \A i, j \in 1..Len(h) : i <= j => h[i] <= h[j]
    BY <1>1 DEF HitsOk
  <2> HIDE DEF w
  <2>2. \E p \in 0..Len(h) : (\A k \in 1..p : h[k] <= w) /\ (\A k \in (p + 1)..Len(h) : h[k] > w)
    BY <1>1, <2>1, Threshold
  <2> QED BY <2>2 DEF w
<1>3. (\A k \in 1..p : h[k] \notin S) /\ (\A k \in (p + 1)..Len(h) : h[k] \in S)
  <2>1. \A k \in 1..Len(h) : h[k] \in 0..t
    BY <1>1 DEF HitsOk
  <2>2. \A k \in 1..p : k \in 1..Len(h)
    BY <1>1
  <2>3. \A k \in (p + 1)..Len(h) : k \in 1..Len(h)
    BY <1>1
  <2>4. ASSUME NEW k \in 1..p PROVE h[k] \notin S
    BY <1>1, <1>2, <2>1, <2>2
  <2>5. ASSUME NEW k \in (p + 1)..Len(h) PROVE h[k] \in S
    BY <1>1, <1>2, <2>1, <2>3
  <2> QED BY <2>4, <2>5
<1>4. Recent(h, t) = Filter(h, S)
  BY DEF Recent
<1> HIDE DEF S
<1>5. /\ Filter(h, S) \in Seq(Nat) /\ Len(Filter(h, S)) = Len(h) - p
      /\ \A k \in 1..(Len(h) - p) : Filter(h, S)[k] = h[k + p]
  <2> DEFINE E == Nat
  <2>1. h \in Seq(E)
    BY <1>1
  <2>2. \A k \in 1..p : h[k] \notin S
    BY <1>3
  <2>3. \A k \in (p + 1)..Len(h) : h[k] \in S
    BY <1>3
  <2> HIDE DEF E
  <2>4. /\ Filter(h, S) \in Seq(E) /\ Len(Filter(h, S)) = Len(h) - p
        /\ \A k \in 1..(Len(h) - p) : Filter(h, S)[k] = h[k + p]
    BY <2>1, <2>2, <2>3, FilterSuffix
  <2> QED BY <2>4 DEF E
<1> QED BY <1>2, <1>4, <1>5

LEMMA KeyWaits ==
  ASSUME NEW h, NEW a, NEW f, NEW t \in Nat, KeyOk(h, a, f, t)
  PROVE  KeyOk(h, a, f, t + 1)
<1>1. Limits!Window \in Nat
  BY WindowIsNat
<1>2. HitsOk(h, t + 1)
  <2>1. \A j \in 1..Len(h) : h[j] \in Nat /\ h[j] <= t
    BY DEF KeyOk, HitsOk
  <2>2. \A j \in 1..Len(h) : h[j] <= t + 1
    BY <2>1
  <2> QED BY <2>2 DEF KeyOk, HitsOk
<1>3. ASSUME NEW i \in 1..(Len(a) - Len(h)), a[i].epoch = f PROVE a[i].at <= (t + 1) - Limits!Window
  <2>1. a[i].at <= t - Limits!Window
    BY <1>3 DEF KeyOk, Outlived
  <2>2. a[i].at \in Nat
    <3>1. i \in 1..Len(a) /\ a \in Seq(Admissions)
      BY DEF KeyOk, HitsOk, Logged
    <3>2. a[i] \in Admissions
      BY <3>1
    <3> QED BY <3>2 DEF Admissions
  <2> QED BY <1>1, <2>1, <2>2
<1>4. Outlived(Len(a) - Len(h), a, f, t + 1)
  BY <1>3 DEF Outlived
<1> QED BY <1>2, <1>4 DEF KeyOk

LEMMA KeyForgotten ==
  ASSUME NEW h, NEW a, NEW f, NEW t \in Nat, KeyOk(h, a, f, t)
  PROVE  KeyOk(<<>>, a, f + 1, t)
<1>1. f \in Nat /\ a \in Seq(Admissions) /\ Len(a) \in Nat /\ \A i \in 1..Len(a) : a[i].epoch <= f
  BY DEF KeyOk, Logged
<1>2. HitsOk(<<>>, t) /\ Len(<<>>) = 0
  BY PartsAssumption DEF HitsOk
<1>3. \A i \in 1..Len(a) : a[i].epoch \in Nat
  <2>1. \A i \in 1..Len(a) : a[i] \in Admissions
    BY <1>1
  <2> QED BY <2>1 DEF Admissions
<1>4. \A i \in 1..Len(a) : a[i].epoch <= f + 1 /\ a[i].epoch # f + 1
  BY <1>1, <1>3
<1>5. Len(a) - 0 = Len(a) /\ f + 1 \in Nat
  BY <1>1
<1>6. Logged(a, f + 1) /\ Remembered(<<>>, a, f + 1) /\ Outlived(Len(a) - Len(<<>>), a, f + 1, t)
  BY <1>1, <1>2, <1>4, <1>5 DEF Logged, Remembered, Outlived
<1> QED BY <1>2, <1>6 DEF KeyOk

LEMMA KeyAdmitted ==
  ASSUME NEW h, NEW a, NEW f, NEW t \in Nat, KeyOk(h, a, f, t), Len(Recent(h, t)) < Limit
  PROVE  KeyOk(Append(Recent(h, t), t), Append(a, [at |-> t, epoch |-> f]), f, t)
<1> DEFINE r == Recent(h, t)
           e == [at |-> t, epoch |-> f]
           h2 == Append(r, t)
           a2 == Append(a, e)
           n == Len(a)
           W == Limits!Window
<1>1. /\ HitsOk(h, t) /\ h \in Seq(Nat) /\ Len(h) \in Nat /\ a \in Seq(Admissions) /\ n \in Nat
      /\ f \in Nat /\ Len(h) <= n /\ Limit \in Nat \ {0} /\ W \in Nat
  BY WindowIsNat, PartsAssumption DEF KeyOk, HitsOk, Logged, Remembered
<1>2. PICK p \in 0..Len(h) :
           /\ r \in Seq(Nat) /\ Len(r) = Len(h) - p
           /\ \A k \in 1..(Len(h) - p) : r[k] = h[k + p]
           /\ \A k \in 1..p : h[k] <= t - W
  BY <1>1, RecentHits
<1>3. /\ e \in Admissions /\ h2 \in Seq(Nat) /\ a2 \in Seq(Admissions)
      /\ Len(h2) = Len(r) + 1 /\ Len(a2) = n + 1
      /\ h2[Len(r) + 1] = t /\ \A k \in 1..Len(r) : h2[k] = r[k]
      /\ a2[n + 1] = e /\ \A k \in 1..n : a2[k] = a[k]
  <2> HIDE DEF r
  <2>1. e \in Admissions
    BY <1>1 DEF Admissions
  <2> HIDE DEF e
  <2> QED BY <1>1, <1>2, <2>1
<1>4. \A k \in 1..n : a[k] \in Admissions /\ a[k].at \in Nat /\ a[k].epoch \in Nat /\ a[k].epoch <= f
  <2>1. \A k \in 1..n : a[k] \in Admissions
    BY <1>1
  <2> QED BY <2>1 DEF Admissions, KeyOk, Logged
<1>5. e.at = t /\ e.epoch = f /\ Len(r) \in Nat /\ Len(r) < Limit
  BY <1>2
<1> HIDE DEF r, e, h2, a2, W
<1>6. HitsOk(h2, t)
  <2>1. \A k \in 1..Len(r) : k + p \in 1..Len(h) /\ r[k] = h[k + p]
    BY <1>1, <1>2
  <2>2. ASSUME NEW k \in 1..Len(r) PROVE h2[k] \in Nat /\ h2[k] <= t
    <3>1. h2[k] = h[k + p] /\ k + p \in 1..Len(h)
      BY <1>3, <2>1
    <3>2. h[k + p] \in Nat /\ h[k + p] <= t
      BY <1>1, <3>1, SMTT(30) DEF HitsOk
    <3> QED BY <3>1, <3>2
  <2>3. ASSUME NEW i \in 1..Len(h2), NEW j \in 1..Len(h2), i <= j PROVE h2[i] <= h2[j]
    <3>1. CASE j \in 1..Len(r)
      <4>1. i \in 1..Len(r) /\ i + p <= j + p
        BY <1>2, <1>5, <2>3, <3>1
      <4> QED BY <1>1, <1>3, <2>1, <3>1, <4>1, SMTT(30) DEF HitsOk
    <3>2. CASE j = Len(r) + 1
      <4>1. i \in 1..Len(r) \/ i = Len(r) + 1
        BY <1>3, <1>5
      <4> QED BY <1>3, <2>2, <3>2, <4>1
    <3> QED BY <1>3, <1>5, <3>1, <3>2
  <2>4. \A j \in 1..Len(h2) : h2[j] <= t
    BY <1>3, <1>5, <2>2
  <2>5. Len(h2) <= Limit
    BY <1>1, <1>3, <1>5
  <2> QED BY <1>3, <2>3, <2>4, <2>5 DEF HitsOk
<1>7. ASSUME NEW i \in 1..Len(a2) PROVE a2[i].epoch <= f
  <2>1. CASE i \in 1..n
    BY <1>3, <1>4, <2>1
  <2>2. CASE i = n + 1
    BY <1>1, <1>3, <1>5, <2>2
  <2> QED BY <1>1, <1>3, <2>1, <2>2
<1>8. Len(h2) <= Len(a2)
  BY <1>1, <1>2, <1>3
<1>9. ASSUME NEW j \in 1..Len(h2) PROVE a2[Len(a2) - Len(h2) + j] = [at |-> h2[j], epoch |-> f]
  <2>1. CASE j \in 1..Len(r)
    <3>1. /\ Len(a2) - Len(h2) + j = n - Len(h) + (j + p) /\ j + p \in 1..Len(h)
          /\ n - Len(h) + (j + p) \in 1..n
      <4>1. Len(a2) = n + 1 /\ Len(h2) = Len(h) - p + 1 /\ j \in 1..(Len(h) - p) /\ p \in 0..Len(h)
        BY <1>2, <1>3, <2>1
      <4>2. n \in Nat /\ Len(h) \in Nat /\ Len(h) <= n
        BY <1>1
      <4> HIDE DEF n
      <4> QED BY <4>1, <4>2
    <3>2. a[n - Len(h) + (j + p)] = [at |-> h[j + p], epoch |-> f]
      BY <3>1 DEF KeyOk, Remembered
    <3>3. h2[j] = h[j + p]
      BY <1>2, <1>3, <2>1
    <3> QED BY <1>3, <3>1, <3>2, <3>3
  <2>2. CASE j = Len(r) + 1
    <3>1. Len(a2) - Len(h2) + j = n + 1 /\ h2[j] = t
      BY <1>1, <1>3, <1>5, <2>2
    <3> QED BY <1>3, <3>1 DEF e
  <2> QED BY <1>3, <1>5, <2>1, <2>2
\* What was pruned is older than a window, as what had been before it.
<1>10. ASSUME NEW i \in 1..(n - Len(r)), a[i].epoch = f PROVE a[i].at <= t - W
  <2>1. CASE i \in 1..(n - Len(h))
    BY <1>10, <2>1 DEF KeyOk, Outlived, W
  <2>2. CASE i \notin 1..(n - Len(h))
    <3> DEFINE j == i - (n - Len(h))
    <3>1. j \in 1..p /\ j \in 1..Len(h) /\ n - Len(h) + j = i
      BY <1>1, <1>2, <2>2, SMTT(30)
    <3>2. a[i] = [at |-> h[j], epoch |-> f]
      <4> HIDE DEF j
      <4>1. a[n - Len(h) + j] = [at |-> h[j], epoch |-> f]
        BY <3>1 DEF KeyOk, Remembered
      <4> QED BY <3>1, <4>1
    <3> QED BY <1>2, <3>1, <3>2
  <2> QED BY <2>1, <2>2
<1>11. ASSUME NEW i \in 1..(Len(a2) - Len(h2)), a2[i].epoch = f PROVE a2[i].at <= t - W
  <2>1. i \in 1..(n - Len(r)) /\ i \in 1..n
    BY <1>1, <1>3, <1>5
  <2> QED BY <1>3, <1>10, <1>11, <2>1
<1>12. ASSUME NEW i \in 1..(Len(a2) - Limit), a2[i].epoch = a2[i + Limit].epoch
       PROVE  a2[i + Limit].at - a2[i].at >= W
  <2>1. CASE i \in 1..(n - Limit)
    <3>1. i \in 1..n /\ i + Limit \in 1..n /\ a2[i] = a[i] /\ a2[i + Limit] = a[i + Limit]
      BY <1>1, <1>3, <2>1
    <3> QED BY <1>12, <2>1, <3>1 DEF KeyOk, Spaced, W
  <2>2. CASE i = n + 1 - Limit
    <3>1. i + Limit = n + 1 /\ i \in 1..n /\ i \in 1..(n - Len(r))
      BY <1>1, <1>3, <1>5, <2>2
    <3>2. a[i].epoch = f /\ a2[i] = a[i] /\ a2[i + Limit] = e
      BY <1>3, <1>5, <1>12, <3>1
    <3>3. a[i].at <= t - W /\ a[i].at \in Nat
      BY <1>4, <1>10, <3>1, <3>2
    <3>4. a2[i + Limit].at = t /\ a2[i].at = a[i].at
      BY <1>5, <3>2
    <3> QED BY <1>1, <3>3, <3>4, SMTT(30)
  <2>3. n \in Nat /\ Len(a2) = n + 1 /\ Limit \in Nat
    BY <1>1, <1>3, PartsAssumption
  <2>4. i \in 1..(n - Limit) \/ i = n + 1 - Limit
    <3> HIDE DEF n
    <3> QED BY <2>3
  <2> QED BY <2>1, <2>2, <2>4
<1>13. Logged(a2, f) /\ Remembered(h2, a2, f)
  BY <1>1, <1>3, <1>7, <1>8, <1>9 DEF Logged, Remembered
<1>14. Outlived(Len(a2) - Len(h2), a2, f, t) /\ Spaced(a2)
  BY <1>11, <1>12 DEF Outlived, Spaced, W
<1>15. KeyOk(h2, a2, f, t)
  BY <1>6, <1>13, <1>14 DEF KeyOk
<1> QED BY <1>15 DEF h2, a2, r, e

\* Seconds are rounded up.
LEMMA RetryCovers ==
  ASSUME NEW t \in Int
  PROVE  Limits!retryAfterSeconds(t) \in Int /\ Second * Limits!retryAfterSeconds(t) >= t
<1> DEFINE q == (t + Second - 1) \div Second
           x == t + Second - 1
<1>1. Second \in Nat \ {0} /\ x \in Int /\ Second \in Int /\ Second > 0
  BY PartsAssumption
<1>2. q \in Int /\ x % Second \in 0..(Second - 1)
  BY <1>1
<1>3. x = Second * q + (x % Second)
  BY <1>1
<1>4. Second * q >= t
  BY <1>1, <1>2, <1>3
<1>5. q < 1 => Second * 1 >= t
  <2>1. q < 1 => Second * q <= Second * 1
    BY <1>1, <1>2
  <2> QED BY <1>1, <1>2, <1>4, <2>1
<1>6. Limits!retryAfterSeconds(t) = IF q < 1 THEN 1 ELSE q
  BY DEF Limits!retryAfterSeconds
<1> HIDE DEF q
<1> QED BY <1>2, <1>4, <1>5, <1>6

LEMMA RecentOf == ASSUME NEW k PROVE Limits!recent(k) = Recent(Limits!hitsOf(k), now)
BY DEF Limits!recent, Limits!Filter, Filter, Recent

\* Nobody's hits change but the caller's, unless the map is emptied.
LEMMA OthersWait ==
  ASSUME NEW k \in Limits!Keys, NEW x \in Limits!Keys, Limits!checkInMemory(k),
         x = k => ~Limits!allows(k)
  PROVE  \/ Limits!hitsOf(x)' = Limits!hitsOf(x) /\ forgotten'[x] = forgotten[x]
         \/ Limits!hitsOf(x)' = <<>> /\ forgotten'[x] = forgotten[x] + 1
<1> DEFINE m == Limits!cleared
<1>1. m = memoryHits \/ m = [y \in {} |-> <<>>]
  BY DEF Limits!cleared
<1>2. /\ x \in DOMAIN memoryHits' <=> x \in DOMAIN m
      /\ x \in DOMAIN m => memoryHits'[x] = m[x]
  BY DEF Limits!checkInMemory
<1>3. forgotten'[x] = IF x \in DOMAIN memoryHits \ DOMAIN memoryHits' THEN forgotten[x] + 1 ELSE forgotten[x]
  BY DEF Limits!checkInMemory
<1> HIDE DEF m
<1>4. Limits!hitsOf(x)' = IF x \in DOMAIN memoryHits' THEN memoryHits'[x] ELSE <<>>
  BY DEF Limits!hitsOf
<1>5. Limits!hitsOf(x) = IF x \in DOMAIN memoryHits THEN memoryHits[x] ELSE <<>>
  BY DEF Limits!hitsOf
<1>6. CASE m = memoryHits
  BY <1>2, <1>3, <1>4, <1>5, <1>6
<1>7. CASE m = [y \in {} |-> <<>>]
  <2>1. x \notin DOMAIN m
    BY <1>7
  <2> QED BY <1>2, <1>3, <1>4, <1>5, <2>1
<1> QED BY <1>1, <1>6, <1>7

LEMMA CheckedInMemory ==
  ASSUME LimitInv, part = "limits", part' = part, NEW k \in Limits!Keys, Limits!checkInMemory(k)
  PROVE  LimitInv'
<1> DEFINE h(x) == Limits!hitsOf(x)
<1>1. /\ now \in Nat /\ admitted \in [Limits!Keys -> Seq(Admissions)]
      /\ promise \in [Limits!Keys -> Int \cup {NoPromise}]
      /\ \A x \in Limits!Keys : KeyOk(h(x), admitted[x], forgotten[x], now) /\ PromiseOk(h(x), promise[x])
  BY DEF LimitInv
<1>2. Limits!recent(k) = Recent(h(k), now) /\ HitsOk(h(k), now)
  BY <1>1, RecentOf DEF KeyOk
<1>3. PICK p \in 0..Len(h(k)) :
         /\ Limits!recent(k) \in Seq(Nat) /\ Len(Limits!recent(k)) = Len(h(k)) - p
         /\ \A y \in 1..(Len(h(k)) - p) : Limits!recent(k)[y] = h(k)[y + p]
  <2> DEFINE g == h(k)
  <2>1. Limits!recent(k) = Recent(g, now) /\ HitsOk(g, now)
    BY <1>2
  <2> HIDE DEF g
  <2>2. \E p \in 0..Len(g) :
           /\ Limits!recent(k) \in Seq(Nat) /\ Len(Limits!recent(k)) = Len(g) - p
           /\ \A y \in 1..(Len(g) - p) : Limits!recent(k)[y] = g[y + p]
    <3>1. PICK p \in 0..Len(g) :
             /\ Recent(g, now) \in Seq(Nat) /\ Len(Recent(g, now)) = Len(g) - p
             /\ \A y \in 1..(Len(g) - p) : Recent(g, now)[y] = g[y + p]
      BY <1>1, <2>1, RecentHits
    <3> QED BY <2>1, <3>1
  <2> QED BY <2>2 DEF g
<1>4. now' = now /\ Len(h(k)) \in Nat /\ h(k) \in Seq(Nat) /\ Len(h(k)) <= Limit
  BY <1>2 DEF Limits!checkInMemory, HitsOk
<1>5. ASSUME NEW x \in Limits!Keys, x = k => ~Limits!allows(k),
             admitted'[x] = admitted[x], x # k => promise'[x] = promise[x]
      PROVE  /\ KeyOk(Limits!hitsOf(x)', admitted'[x], forgotten'[x], now')
             /\ x # k => PromiseOk(Limits!hitsOf(x)', promise'[x])
  <2>1. KeyOk(h(x), admitted[x], forgotten[x], now) /\ PromiseOk(h(x), promise[x])
    BY <1>1
  <2>2. CASE Limits!hitsOf(x)' = h(x) /\ forgotten'[x] = forgotten[x]
    BY <1>4, <1>5, <2>1, <2>2
  <2>3. CASE Limits!hitsOf(x)' = <<>> /\ forgotten'[x] = forgotten[x] + 1
    <3>1. KeyOk(<<>>, admitted[x], forgotten[x] + 1, now)
      BY <1>1, <2>1, KeyForgotten
    <3>2. \A q : PromiseOk(<<>>, q)
      BY PartsAssumption DEF PromiseOk
    <3> QED BY <1>4, <1>5, <2>3, <3>1, <3>2
  <2> QED BY <1>5, <2>2, <2>3, OthersWait
<1>6. CASE Limits!allows(k)
  <2>1. /\ Limits!hitsOf(k)' = Append(Limits!recent(k), now) /\ forgotten'[k] = forgotten[k]
        /\ admitted' = [admitted EXCEPT ![k] = Append(@, [at |-> now, epoch |-> forgotten[k]])]
        /\ promise' = [promise EXCEPT ![k] = NoPromise]
    BY <1>6 DEF Limits!checkInMemory, Limits!hitsOf
  <2>2. Len(Recent(h(k), now)) < Limit
    BY <1>2, <1>6 DEF Limits!allows
  <2>3. KeyOk(Limits!hitsOf(k)', Append(admitted[k], [at |-> now, epoch |-> forgotten[k]]), forgotten'[k], now')
    BY <1>1, <1>2, <1>4, <2>1, <2>2, KeyAdmitted
  <2>4. /\ admitted'[k] = Append(admitted[k], [at |-> now, epoch |-> forgotten[k]]) /\ promise'[k] = NoPromise
        /\ \A x \in Limits!Keys : x # k => admitted'[x] = admitted[x] /\ promise'[x] = promise[x]
    BY <1>1, <2>1
  <2>5. admitted' \in [Limits!Keys -> Seq(Admissions)] /\ promise' \in [Limits!Keys -> Int \cup {NoPromise}]
    <3>1. forgotten[k] \in Nat
      BY <1>1 DEF KeyOk, Logged
    <3>2. [at |-> now, epoch |-> forgotten[k]] \in Admissions
      BY <1>1, <3>1 DEF Admissions
    <3>3. Append(admitted[k], [at |-> now, epoch |-> forgotten[k]]) \in Seq(Admissions)
      BY <1>1, <3>2
    <3> QED BY <1>1, <2>1, <3>3
  <2>6. \A x \in Limits!Keys : x # k =>
          /\ KeyOk(Limits!hitsOf(x)', admitted'[x], forgotten'[x], now')
          /\ PromiseOk(Limits!hitsOf(x)', promise'[x])
    BY <1>5, <2>4
  <2>7. PromiseOk(Limits!hitsOf(k)', promise'[k])
    BY <2>4 DEF PromiseOk
  <2>8. \A x \in Limits!Keys :
          /\ KeyOk(Limits!hitsOf(x)', admitted'[x], forgotten'[x], now')
          /\ PromiseOk(Limits!hitsOf(x)', promise'[x])
    BY <2>3, <2>4, <2>6, <2>7
  <2> QED BY <1>1, <1>4, <2>5, <2>8 DEF LimitInv
\* Whoever is refused has as many hits as he may have, the first of which counts yet.
<1>7. CASE ~Limits!allows(k)
  <2> DEFINE wait == (Limits!recent(k)[1] + Limits!Window) - now
             then == now + Second * Limits!retryAfterSeconds(Limits!recent(k)[1] + Limits!Window - now)
  <2>1. admitted' = admitted /\ promise' = [promise EXCEPT ![k] = then]
    BY <1>7 DEF Limits!checkInMemory
  <2>2. Len(Limits!recent(k)) >= Limit
    BY <1>3, <1>4, <1>7, PartsAssumption DEF Limits!allows
  <2>3. p = 0 /\ Len(h(k)) = Limit /\ Limits!recent(k)[1] = h(k)[1] /\ h(k)[1] \in Nat
    <3>1. p = 0 /\ Len(h(k)) = Limit
      BY <1>3, <1>4, <2>2, PartsAssumption
    <3> QED BY <1>3, <1>4, <3>1, PartsAssumption
  <2>4. then \in Int /\ then >= h(k)[1] + Limits!Window
    <3> DEFINE t == Limits!recent(k)[1] + Limits!Window - now
               s == Limits!retryAfterSeconds(t)
    <3>1. t \in Int /\ t = (h(k)[1] + Limits!Window) - now
      BY <1>1, <2>3, WindowIsNat
    <3> HIDE DEF t
    <3>2. s \in Int /\ Second * s >= t
      BY <3>1, RetryCovers
    <3>3. then = now + Second * s
      BY DEF t
    <3> HIDE DEF s, then
    <3>4. Second * s \in Int
      BY <3>2, PartsAssumption
    <3> QED BY <1>1, <2>3, <3>1, <3>2, <3>3, <3>4, WindowIsNat
  <2> HIDE DEF then
  <2>5. promise' \in [Limits!Keys -> Int \cup {NoPromise}] /\ promise'[k] = then
        /\ \A x \in Limits!Keys : x # k => promise'[x] = promise[x]
    BY <1>1, <2>1, <2>4
  <2>6. \A x \in Limits!Keys : KeyOk(Limits!hitsOf(x)', admitted'[x], forgotten'[x], now')
    BY <1>5, <1>7, <2>1, <2>5
  <2>7. \A x \in Limits!Keys : x # k => PromiseOk(Limits!hitsOf(x)', promise'[x])
    BY <1>5, <2>1, <2>5
  <2>8. PromiseOk(Limits!hitsOf(k)', promise'[k])
    <3>1. Limits!hitsOf(k)' = h(k) \/ Limits!hitsOf(k)' = <<>>
      BY <1>7, OthersWait
    <3>2. Limits!hitsOf(k)' = <<>> => Len(Limits!hitsOf(k)') # Limit
      BY PartsAssumption
    <3> QED BY <2>4, <2>5, <3>1, <3>2 DEF PromiseOk
  <2> QED BY <1>1, <1>4, <2>1, <2>5, <2>6, <2>7, <2>8 DEF LimitInv
<1> QED BY <1>6, <1>7

LEMMA LimitsKept ==
  ASSUME LimitInv, part = "limits", part' = part, Limits!Next
  PROVE  LimitInv'
<1>1. CASE UNCHANGED <<now, memoryHits, admitted, forgotten, promise>>
  BY <1>1 DEF LimitInv, Limits!hitsOf
<1>2. ASSUME NEW k \in Limits!Keys, Limits!checkRateLimit(k) PROVE LimitInv'
  BY <1>1, <1>2, CheckedInMemory DEF Limits!checkRateLimit, Limits!checkRedis, Limits!unchanged
<1>3. ASSUME NEW u \in Users, NEW sameOrigin \in BOOLEAN, NEW signedIn \in BOOLEAN,
             Limits!guardAction(u, sameOrigin, signedIn)
      PROVE  LimitInv'
  <2>1. u \in Limits!Keys
    BY DEF Limits!Keys
  <2> QED BY <1>1, <1>2, <1>3, <2>1 DEF Limits!guardAction, Limits!unchanged
<1>4. ASSUME NEW x \in Addresses, NEW sameOrigin \in BOOLEAN, Limits!guardAnonymous(x, sameOrigin)
      PROVE  LimitInv'
  <2>1. x \in Limits!Keys
    BY DEF Limits!Keys
  <2> QED BY <1>1, <1>2, <1>4, <2>1 DEF Limits!guardAnonymous, Limits!unchanged
<1>5. CASE Limits!Tick
  <2>1. now \in Nat /\ now' = now + 1 /\ UNCHANGED <<memoryHits, admitted, forgotten, promise>>
    BY <1>5 DEF Limits!Tick, LimitInv
  <2>2. \A k \in Limits!Keys : Limits!hitsOf(k)' = Limits!hitsOf(k)
    BY <2>1 DEF Limits!hitsOf
  <2>3. ASSUME NEW k \in Limits!Keys
        PROVE  /\ KeyOk(Limits!hitsOf(k)', admitted'[k], forgotten'[k], now')
               /\ PromiseOk(Limits!hitsOf(k)', promise'[k])
    <3>1. KeyOk(Limits!hitsOf(k), admitted[k], forgotten[k], now) /\ PromiseOk(Limits!hitsOf(k), promise[k])
      BY DEF LimitInv
    <3>2. KeyOk(Limits!hitsOf(k), admitted[k], forgotten[k], now + 1)
      BY <2>1, <3>1, KeyWaits
    <3> QED BY <2>1, <2>2, <3>1, <3>2
  <2> QED BY <2>1, <2>3 DEF LimitInv
<1>6. CASE Limits!RedisFails
  BY <1>1, <1>6 DEF Limits!RedisFails
<1> QED BY <1>3, <1>4, <1>5, <1>6 DEF Limits!Next

\* Whoever waited as long as he was told has hits that no longer count.
LEMMA LimitsAreHonest == LimitInv => LimiterIsHonest
<1> SUFFICES ASSUME LimitInv PROVE LimiterIsHonest
  OBVIOUS
<1>1. CASE part # "limits"
  <2>1. \A k \in Limits!Keys : admitted[k] = <<>> /\ promise[k] = NoPromise
    BY <1>1 DEF LimitInv
  <2>2. \A k \in Limits!Keys : 1..(Len(admitted[k]) - Limit) = {}
    BY <2>1, PartsAssumption
  <2> QED BY <2>1, <2>2 DEF LimiterIsHonest, Limits!WindowHolds, Limits!RetryIsHonest
<1>2. CASE part = "limits"
  <2>1. now \in Nat /\ promise \in [Limits!Keys -> Int \cup {NoPromise}]
    BY <1>2 DEF LimitInv
  <2>2. Limits!WindowHolds
    <3>1. \A k \in Limits!Keys : Spaced(admitted[k])
      BY <1>2 DEF LimitInv, KeyOk
    <3> QED BY <3>1 DEF Spaced, Limits!WindowHolds
  <2>3. ASSUME NEW k \in Limits!Keys, promise[k] # NoPromise, promise[k] <= now PROVE Limits!allows(k)
    <3> DEFINE h == Limits!hitsOf(k)
    <3>1. HitsOk(h, now) /\ PromiseOk(h, promise[k]) /\ promise[k] \in Int
      BY <1>2, <2>1, <2>3 DEF LimitInv, KeyOk
    <3>2. h \in Seq(Nat) /\ Len(h) \in Nat /\ Len(h) <= Limit /\ Limits!recent(k) = Recent(h, now)
      BY <3>1, RecentOf DEF HitsOk
    <3> HIDE DEF h
    <3>3. PICK p \in 0..Len(h) :
             /\ Len(Recent(h, now)) = Len(h) - p
             /\ \A j \in (p + 1)..Len(h) : h[j] > now - Limits!Window
      BY <2>1, <3>1, RecentHits
    <3>4. CASE p = 0 /\ Len(h) = Limit
      <4>1. h[1] > now - Limits!Window /\ h[1] \in Nat
        BY <3>2, <3>3, <3>4, PartsAssumption
      <4>2. promise[k] >= h[1] + Limits!Window
        BY <2>3, <3>1, <3>4 DEF PromiseOk
      <4> QED BY <2>1, <2>3, <3>1, <4>1, <4>2, WindowIsNat
    <3>5. CASE ~(p = 0 /\ Len(h) = Limit)
      <4>1. Len(h) - p < Limit
        BY <3>2, <3>5, PartsAssumption
      <4> QED BY <3>2, <3>3, <4>1 DEF Limits!allows
    <3> QED BY <3>4, <3>5
  <2> QED BY <2>2, <2>3 DEF LimiterIsHonest, Limits!RetryIsHonest
<1> QED BY <1>1, <1>2

\* No window admits more than the limit to a caller that the full map did not
\* forget in between, and waiting as told is enough (rate-limit.ts,
\* checkInMemory and retryAfterSeconds).
THEOREM LimiterIsAlwaysHonest == Spec => []LimiterIsHonest
<1>1. Init => LimitInv
  <2> SUFFICES ASSUME Init PROVE LimitInv
    OBVIOUS
  <2>1. /\ now = 0 /\ memoryHits = [k \in {} |-> <<>>] /\ admitted = [k \in Limits!Keys |-> <<>>]
        /\ forgotten = [k \in Limits!Keys |-> 0] /\ promise = [k \in Limits!Keys |-> NoPromise]
    BY DEF Init, Limits!Init
  <2>2. \A k \in Limits!Keys : Limits!hitsOf(k) = <<>> /\ admitted[k] = <<>> /\ forgotten[k] = 0
    BY <2>1 DEF Limits!hitsOf
  <2>3. KeyOk(<<>>, <<>>, 0, 0)
    BY PartsAssumption DEF KeyOk, HitsOk, Logged, Spaced, Remembered, Outlived
  <2>4. \A k \in Limits!Keys : promise[k] = NoPromise
    BY <2>1
  <2>5. admitted \in [Limits!Keys -> Seq(Admissions)] /\ promise \in [Limits!Keys -> Int \cup {NoPromise}]
    BY <2>1
  <2> QED BY <2>1, <2>2, <2>3, <2>4, <2>5 DEF LimitInv, PromiseOk
<1>2. LimitInv /\ [Next]_<<part, now, served_, shown_, address, lookup>> => LimitInv'
  <2> SUFFICES ASSUME LimitInv, [Next]_<<part, now, served_, shown_, address, lookup>> PROVE LimitInv'
    OBVIOUS
  <2>1. CASE UNCHANGED <<part, now, limitVars>>
    BY <2>1 DEF LimitInv, limitVars, Limits!hitsOf
  <2>2. CASE part # "limits" /\ part' = part /\ UNCHANGED limitVars
    BY <2>2 DEF LimitInv, limitVars
  <2>3. CASE part = "limits" /\ part' = part /\ Limits!Next
    BY <2>3, LimitsKept
  <2> QED BY <2>1, <2>2, <2>3 DEF Next, Server, served_
<1> QED BY <1>1, <1>2, LimitsAreHonest, PTL DEF Spec

-----------------------------------------------------------------------------
(* Reading a chain *)

\* Movements, whose amount or recipient may be unreadable.
ARecipient == Chain!Recipients \cup {None}
AnOutput == [to : ARecipient, amount : Nat \cup {None}]
ALog == [event : {"Transfer", "Approval"}, contract : {"usdt", "other"}, to : ARecipient,
         amount : Nat \cup {None}]
Movements(c) == IF c = "USDT" THEN ALog ELSE AnOutput
Moves(c) == {m \in Movements(c) : m # None}
Whole(ms) == \A i \in 1..Len(ms) : ms[i].amount \in Nat

TxOk(tx) ==
  /\ tx.currency \in {"BTC", "ETH", "USDT"} /\ tx.succeeded \in BOOLEAN
  /\ tx.moves \in Seq(Movements(tx.currency)) /\ Whole(tx.moves)
  /\ tx.currency = "BTC" => tx.succeeded
  /\ tx.currency = "ETH" => Len(tx.moves) = 1

LEMMA SeqOfIsSeq == ASSUME NEW E, NEW n \in Nat, NEW s \in Chain!SeqOf(E, n) PROVE s \in Seq(E)
<1>1. PICK m \in 0..n : s \in [1..m -> E]
  BY DEF Chain!SeqOf
<1> QED BY <1>1

LEMMA WholeAre ==
  /\ Chain!Outputs \subseteq AnOutput /\ \A o \in Chain!Outputs : o.amount \in Nat
  /\ Chain!Logs \subseteq ALog /\ \A o \in Chain!Logs : o.amount \in Nat
BY ChainAssumption DEF Chain!Outputs, Chain!Logs, AnOutput, ALog, ARecipient

LEMMA TxAreOk == ASSUME NEW tx \in Chain!Transactions PROVE TxOk(tx)
<1> DEFINE B == [currency : {"BTC"}, moves : Chain!SeqOf(Chain!Outputs, MaxMoves), succeeded : {TRUE}]
           E == [currency : {"ETH"}, moves : {<<o>> : o \in Chain!Outputs}, succeeded : BOOLEAN]
           U == [currency : {"USDT"}, moves : Chain!SeqOf(Chain!Logs, MaxMoves), succeeded : BOOLEAN]
<1>1. tx \in B \/ tx \in E \/ tx \in U
  <2>1. Chain!Transactions = B \cup E \cup U
    BY DEF Chain!Transactions
  <2> HIDE DEF B, E, U
  <2> QED BY <2>1
<1>2. CASE tx \in B
  <2>1. tx.currency = "BTC" /\ tx.succeeded = TRUE /\ tx.moves \in Chain!SeqOf(Chain!Outputs, MaxMoves)
    BY <1>2
  <2>2. tx.moves \in Seq(Chain!Outputs)
    BY <2>1, SeqOfIsSeq, ChainAssumption
  <2>3. tx.moves \in Seq(AnOutput) /\ Whole(tx.moves)
    BY <2>2, WholeAre DEF Whole
  <2> QED BY <2>1, <2>3 DEF TxOk, Movements
<1>3. CASE tx \in E
  <2>1. tx.currency = "ETH" /\ tx.succeeded \in BOOLEAN /\ tx.moves \in {<<o>> : o \in Chain!Outputs}
    BY <1>3
  <2>2. PICK o \in Chain!Outputs : tx.moves = <<o>>
    BY <2>1
  <2>3. tx.moves \in Seq(AnOutput) /\ Whole(tx.moves) /\ Len(tx.moves) = 1
    BY <2>2, WholeAre DEF Whole
  <2> QED BY <2>1, <2>3 DEF TxOk, Movements
<1>4. CASE tx \in U
  <2>1. tx.currency = "USDT" /\ tx.succeeded \in BOOLEAN /\ tx.moves \in Chain!SeqOf(Chain!Logs, MaxMoves)
    BY <1>4
  <2>2. tx.moves \in Seq(Chain!Logs)
    BY <2>1, SeqOfIsSeq, ChainAssumption
  <2>3. tx.moves \in Seq(ALog) /\ Whole(tx.moves)
    BY <2>2, WholeAre DEF Whole
  <2> QED BY <2>1, <2>3 DEF TxOk, Movements
<1> QED BY <1>1, <1>2, <1>3, <1>4

\* What is told of the movements: all of them, or all without their amounts or
\* their recipients.
ToldOf(ms, tx, fault) ==
  /\ ms \in Seq(Movements(tx.currency)) /\ Len(ms) = Len(tx.moves)
  /\ \A i \in 1..Len(ms) :
       /\ ms[i].to = IF fault = "recipients" THEN None ELSE tx.moves[i].to
       /\ tx.currency = "USDT" => /\ ms[i].event = tx.moves[i].event
                                  /\ ms[i].contract = tx.moves[i].contract

LEMMA MovesAreTold ==
  ASSUME NEW tx, TxOk(tx), NEW fault
  PROVE  LET ms == Chain!MovesOf(tx, fault) IN
         /\ ToldOf(ms, tx, fault)
         /\ fault \notin {"amounts", "recipients"} => ms = tx.moves
         /\ fault = "amounts" => \A i \in 1..Len(ms) : ms[i].amount = None
<1> DEFINE ms == Chain!MovesOf(tx, fault)
           M == Movements(tx.currency)
<1>1. CASE fault \notin {"amounts", "recipients"}
  <2>1. ms = tx.moves
    BY <1>1 DEF Chain!MovesOf
  <2> QED BY <1>1, <2>1 DEF ToldOf, TxOk
<1>3. CASE fault = "recipients"
  <2>1. tx.moves \in Seq(M) /\ DOMAIN tx.moves = 1..Len(tx.moves) /\ Len(tx.moves) \in Nat
    BY DEF TxOk
  <2>2. ms = [i \in 1..Len(tx.moves) |-> [tx.moves[i] EXCEPT !.to = None]]
    BY <1>3, <2>1 DEF Chain!MovesOf
  <2>3. \A m \in M : LET w == [m EXCEPT !.to = None] IN
          /\ w \in M /\ w.to = None
          /\ tx.currency = "USDT" => w.event = m.event /\ w.contract = m.contract
    <3>1. CASE tx.currency = "USDT"
      BY <3>1 DEF Movements, ALog, ARecipient
    <3>2. CASE tx.currency # "USDT"
      BY <3>2 DEF Movements, AnOutput, ARecipient
    <3> QED BY <3>1, <3>2
  <2>4. \A i \in 1..Len(tx.moves) : tx.moves[i] \in M
    BY <2>1
  <2> HIDE DEF ms, M
  <2>5. \A i \in 1..Len(tx.moves) : ms[i] \in M /\ ms[i].to = None
    BY <2>2, <2>3, <2>4
  <2>6. tx.currency = "USDT" => \A i \in 1..Len(tx.moves) :
          ms[i].event = tx.moves[i].event /\ ms[i].contract = tx.moves[i].contract
    BY <2>2, <2>3, <2>4
  <2>7. ms \in Seq(M) /\ Len(ms) = Len(tx.moves)
    <3>1. DOMAIN ms = 1..Len(tx.moves) /\ ms = [i \in 1..Len(tx.moves) |-> ms[i]]
      BY <2>2
    <3>2. ms \in [1..Len(tx.moves) -> M]
      BY <3>1, <2>5
    <3> QED BY <2>1, <3>2
  <2> QED BY <1>3, <2>5, <2>6, <2>7 DEF ToldOf, M, ms
<1>2. CASE fault = "amounts"
  <2>1. tx.moves \in Seq(M) /\ DOMAIN tx.moves = 1..Len(tx.moves) /\ Len(tx.moves) \in Nat
    BY DEF TxOk
  <2>2. ms = [i \in 1..Len(tx.moves) |-> [tx.moves[i] EXCEPT !.amount = None]]
    BY <1>2, <2>1 DEF Chain!MovesOf
  <2>3. \A m \in M : LET w == [m EXCEPT !.amount = None] IN
          /\ w \in M /\ w.to = m.to /\ w.amount = None
          /\ tx.currency = "USDT" => w.event = m.event /\ w.contract = m.contract
    <3>1. CASE tx.currency = "USDT"
      BY <3>1 DEF Movements, ALog
    <3>2. CASE tx.currency # "USDT"
      BY <3>2 DEF Movements, AnOutput
    <3> QED BY <3>1, <3>2
  <2>4. \A i \in 1..Len(tx.moves) : tx.moves[i] \in M
    BY <2>1
  <2> HIDE DEF ms, M
  <2>5. \A i \in 1..Len(tx.moves) : ms[i] \in M /\ ms[i].amount = None /\ ms[i].to = tx.moves[i].to
    BY <2>2, <2>3, <2>4
  <2>6. tx.currency = "USDT" => \A i \in 1..Len(tx.moves) :
          ms[i].event = tx.moves[i].event /\ ms[i].contract = tx.moves[i].contract
    BY <2>2, <2>3, <2>4
  <2>7. ms \in Seq(M) /\ Len(ms) = Len(tx.moves)
    <3>1. DOMAIN ms = 1..Len(tx.moves) /\ ms = [i \in 1..Len(tx.moves) |-> ms[i]]
      BY <2>2
    <3>2. ms \in [1..Len(tx.moves) -> M]
      BY <3>1, <2>5
    <3> QED BY <2>1, <3>2
  <2> QED BY <1>2, <2>5, <2>6, <2>7 DEF ToldOf, M, ms
<1> QED BY <1>1, <1>2, <1>3

\* What is ours of them.
Ours(ms, c) ==
  {m \in Chain!Range(ms) : m.to # None /\ m.to.of = "us" /\ (c = "USDT" => m.event = "Transfer" /\ m.contract = "usdt")}

LEMMA RangeIs == ASSUME NEW E, NEW s \in Seq(E) PROVE \A i \in 1..Len(s) : s[i] \in Chain!Range(s)
BY DEF Chain!Range

LEMMA PaysUsIs ==
  ASSUME NEW c, NEW m \in Movements(c), m # None
  PROVE  Chain!PaysUs(m) <=> m.to # None /\ m.to.of = "us"
<1>1. DOMAIN m \in {{"to", "amount"}, {"event", "contract", "to", "amount"}}
  BY DEF Movements, AnOutput, ALog
<1>2. "to" \in DOMAIN m
  BY <1>1
<1>3. Chain!Has(m, "to")
  BY <1>2 DEF Chain!Has
<1>4. Chain!sameAddress(m.to, Chain!ours) <=> m.to.of = "us"
  BY DEF Chain!sameAddress, Chain!ours
<1> QED BY <1>3, <1>4 DEF Chain!PaysUs, Chain!List

LEMMA TransferIs ==
  ASSUME NEW m \in ALog, m # None
  PROVE  /\ Chain!Has(m, "event")
         /\ Chain!PaysUs(m) <=> m.to # None /\ m.to.of = "us"
<1>1. "event" \in DOMAIN m
  BY DEF ALog
<1>2. m \in Movements("USDT")
  BY DEF Movements
<1> QED BY <1>1, <1>2, PaysUsIs DEF Chain!Has

\* Of what was told the browser finds what is ours.
LEMMA FoundInBitcoin ==
  ASSUME NEW ms \in Seq(AnOutput), \A i \in 1..Len(ms) : ms[i] # None
  PROVE  Chain!Filter(ms, {o \in Chain!Range(ms) : Chain!PaysUs(o)}) = Filter(ms, Ours(ms, "BTC"))
<1> DEFINE P == {o \in Chain!Range(ms) : Chain!PaysUs(o)}
           R == Ours(ms, "BTC")
<1>1. \A i \in 1..Len(ms) : ms[i] \in P <=> ms[i] \in R
  <2> TAKE i \in 1..Len(ms)
  <2>1. ms[i] \in Movements("BTC") /\ ms[i] \in Chain!Range(ms)
    BY RangeIs DEF Movements
  <2>2. Chain!PaysUs(ms[i]) <=> ms[i].to # None /\ ms[i].to.of = "us"
    BY <2>1, PaysUsIs
  <2> QED BY <2>1, <2>2 DEF Ours
<1> HIDE DEF P, R
<1>2. Filter(ms, P) = Filter(ms, R)
  BY <1>1, FilterAgrees
<1>3. Chain!Filter(ms, P) = Filter(ms, P)
  BY DEF Chain!Filter, Filter
<1> QED BY <1>2, <1>3 DEF P, R

LEMMA FoundInLogs ==
  ASSUME NEW ms \in Seq(ALog), \A i \in 1..Len(ms) : ms[i] # None
  PROVE  Chain!Filter(ms, Chain!Transfers(ms)) = Filter(ms, Ours(ms, "USDT"))
<1> DEFINE P == Chain!Transfers(ms)
           R == Ours(ms, "USDT")
<1>1. \A i \in 1..Len(ms) : ms[i] \in P <=> ms[i] \in R
  <2> TAKE i \in 1..Len(ms)
  <2>1. ms[i] \in ALog /\ ms[i] \in Chain!Range(ms)
    BY RangeIs
  <2>2. Chain!Has(ms[i], "event") /\ (Chain!PaysUs(ms[i]) <=> ms[i].to # None /\ ms[i].to.of = "us")
    BY <2>1, TransferIs
  <2>3. ms[i] \in P <=> ms[i].event = "Transfer" /\ ms[i].contract = "usdt" /\ Chain!PaysUs(ms[i])
    BY <2>1, <2>2 DEF Chain!Transfers
  <2>4. ms[i] \in R <=> ms[i].to # None /\ ms[i].to.of = "us" /\ ms[i].event = "Transfer" /\ ms[i].contract = "usdt"
    BY <2>1 DEF Ours
  <2> QED BY <2>2, <2>3, <2>4
<1> HIDE DEF P, R
<1>2. Filter(ms, P) = Filter(ms, R)
  BY <1>1, FilterAgrees
<1>3. Chain!Filter(ms, P) = Filter(ms, P)
  BY DEF Chain!Filter, Filter
<1> QED BY <1>2, <1>3 DEF P, R

LEMMA NothingFound ==
  ASSUME NEW E, NEW s \in Seq(E), NEW S
  PROVE  Filter(s, S) = <<>> <=> \A k \in 1..Len(s) : s[k] \notin S
<1>1. PICK g \in [0..Len(s) -> Seq(E)] : Grows(s, S, g) /\ Filter(s, S) = g[Len(s)]
  BY FilterGrows
<1> DEFINE T == {k \in 0..Len(s) : g[k] = <<>> <=> \A j \in 1..k : s[j] \notin S}
<1>2. 0 \in T
  BY <1>1 DEF Grows
<1>3. ASSUME NEW k \in 1..Len(s), k - 1 \in T PROVE k \in T
  <2>1. k - 1 \in 0..Len(s) /\ k \in 0..Len(s) /\ 1..k = (1..(k - 1)) \cup {k}
    OBVIOUS
  <2>2. g[k] = IF s[k] \in S THEN Append(g[k - 1], s[k]) ELSE g[k - 1]
    BY <1>1 DEF Grows
  <2>3. Append(g[k - 1], s[k]) # <<>>
    BY <1>1, <2>1
  <2> QED BY <1>3, <2>1, <2>2, <2>3
<1>0. Len(s) \in Nat /\ Len(s) \in 0..Len(s)
  OBVIOUS
<1> HIDE DEF T
<1>4. Len(s) \in T
  BY <1>0, <1>2, <1>3, UpTo
<1> QED BY <1>1, <1>4 DEF T

\* g are the sums so far.
Sums(ms, g) ==
  /\ g[0] = 0 /\ Chain!Sum(ms) = g[Len(ms)]
  /\ \A k \in 1..Len(ms) : g[k] = g[k - 1] + Chain!amountOf(ms[k])

LEMMA AmountOf ==
  ASSUME NEW c, NEW m \in Movements(c), m # None
  PROVE  /\ Chain!amountOf(m) \in Nat
         /\ m.amount = None => Chain!amountOf(m) = 0
<1>1. "amount" \in DOMAIN m /\ m.amount \in Nat \cup {None}
  BY DEF Movements, AnOutput, ALog
<1>2. Chain!List(m, "amount") = m.amount
  BY <1>1 DEF Chain!List, Chain!Has
<1> QED BY <1>1, <1>2 DEF Chain!amountOf

Adds(ms, x) == x = [k \in 0..Len(ms) |-> IF k = 0 THEN 0 ELSE x[k - 1] + Chain!amountOf(ms[k])]

LEMMA SumOf ==
  ASSUME NEW c, NEW ms \in Seq(Movements(c)), \A i \in 1..Len(ms) : ms[i] # None
  PROVE  \E g \in [0..Len(ms) -> Nat] : Sums(ms, g)
<1> DEFINE n == Len(ms)
           z == 0
           Go(t, k) == t + Chain!amountOf(ms[k])
           F == [k \in 1..n |-> [t \in Nat |-> Go(t, k)]]
<1>1. n \in Nat /\ z \in Nat /\ \A k \in 1..n : k - 1 \in 0..n /\ k \in 0..n /\ k # 0
  OBVIOUS
<1>2. ASSUME NEW t \in Nat, NEW k \in 1..n PROVE Go(t, k) \in Nat
  <2>1. ms[k] \in Movements(c)
    OBVIOUS
  <2> QED BY <2>1, AmountOf
<1>3. F \in Steps(Nat, n)
  <2> HIDE DEF Go
  <2> QED BY <1>2 DEF Steps
<1>4. PICK h : Recurs(h, Nat, z, n, F)
  <2> HIDE DEF z, F, n
  <2> QED BY <1>1, <1>3, Recursion
<1>5. Adds(ms, h)
  <2>1. \A k \in 1..n : F[k][h[k - 1]] = Go(h[k - 1], k)
    <3> HIDE DEF Go, n
    <3> QED BY <1>1, <1>4 DEF Recurs
  <2>2. h = [k \in 0..n |-> IF k = 0 THEN z ELSE Go(h[k - 1], k)]
    <3> HIDE DEF F, Go, z, n
    <3>1. \A k \in 0..n : k # 0 => k \in 1..n
      BY <1>1
    <3> QED BY <1>4, <2>1, <3>1 DEF Recurs
  <2> QED BY <2>2 DEF Adds
<1> DEFINE g == CHOOSE x : Adds(ms, x)
<1>6. Adds(ms, g)
  BY <1>5
<1>7. Chain!Sum(ms) = g[n]
  BY DEF Chain!Sum, Adds
<1> HIDE DEF g
<1>8. Sums(ms, g)
  BY <1>1, <1>6, <1>7 DEF Sums, Adds
<1>9. \A k \in 0..n : g[k] \in Nat
  <2> DEFINE T == {k \in 0..n : g[k] \in Nat}
  <2>1. 0 \in T
    BY <1>1, <1>8 DEF Sums
  <2>2. ASSUME NEW k \in 1..n, k - 1 \in T PROVE k \in T
    BY <1>1, <1>2, <1>8, <2>2 DEF Sums
  <2> HIDE DEF T, n
  <2>3. \A k \in 0..n : k \in T
    BY <1>1, <2>1, <2>2, UpTo
  <2> QED BY <2>3 DEF T
<1>10. g \in [0..n -> Nat]
  BY <1>6, <1>9 DEF Adds
<1> QED BY <1>8, <1>10

LEMMA SumIsNat ==
  ASSUME NEW c, NEW ms \in Seq(Movements(c)), \A i \in 1..Len(ms) : ms[i] # None
  PROVE  Chain!Sum(ms) \in Nat
<1>1. PICK g \in [0..Len(ms) -> Nat] : Sums(ms, g)
  BY SumOf
<1> QED BY <1>1 DEF Sums

\* Unreadable amounts are counted as nothing.
LEMMA SumOfNothing ==
  ASSUME NEW c, NEW ms \in Seq(Movements(c)), \A i \in 1..Len(ms) : ms[i] # None /\ ms[i].amount = None
  PROVE  Chain!Sum(ms) = 0
<1>1. PICK g \in [0..Len(ms) -> Nat] : Sums(ms, g)
  BY SumOf
<1> DEFINE T == {k \in 0..Len(ms) : g[k] = 0}
<1>2. 0 \in T
  BY <1>1 DEF Sums
<1>3. ASSUME NEW k \in 1..Len(ms), k - 1 \in T PROVE k \in T
  <2>1. ms[k] \in Movements(c) /\ Chain!amountOf(ms[k]) = 0
    BY AmountOf
  <2> QED BY <1>1, <1>3, <2>1 DEF Sums
<1>0. Len(ms) \in Nat /\ Len(ms) \in 0..Len(ms)
  OBVIOUS
<1> HIDE DEF T
<1>4. Len(ms) \in T
  BY <1>0, <1>2, <1>3, UpTo
<1> QED BY <1>1, <1>4 DEF T, Sums

LEMMA SumOfEmpty == Chain!Sum(<<>>) = 0
<1>1. /\ <<>> \in Seq(Movements("BTC")) /\ Len(<<>>) = 0
      /\ \A i \in 1..Len(<<>>) : <<>>[i] # None
  OBVIOUS
<1>2. PICK e \in [0..Len(<<>>) -> Nat] : Sums(<<>>, e)
  BY <1>1, SumOf
<1> QED BY <1>1, <1>2 DEF Sums

\* A request that is answered at all is answered with what the node says.
LEMMA Requested ==
  ASSUME NEW tx, TxOk(tx), NEW at \in Chain!Stages, NEW fault \in Chain!Faults
  PROVE  LET got == Chain!requestJson(Chain!respond(tx, at, fault)) IN
         IF \/ fault \in {"unreached", "busy", "garbled"}
            \/ tx.currency = "BTC" /\ ~Chain!Known(tx, at)
         THEN got.kind # "json"
         ELSE got.kind = "json" /\ got.body = Chain!bodyOf(tx, at, fault)
<1> DEFINE q == Chain!respond(tx, at, fault)
           got == Chain!requestJson(q)
           body == Chain!bodyOf(tx, at, fault)
           unknown == tx.currency = "BTC" /\ ~Chain!Known(tx, at)
<1>1. /\ q.reached <=> fault # "unreached"
      /\ q.parses <=> fault # "garbled"
      /\ q.body = body
      /\ q.status = IF fault = "busy" THEN 429 ELSE IF unknown THEN 404 ELSE 200
  BY DEF Chain!respond
<1> HIDE DEF q, body, unknown
<1>2. CASE fault \in {"unreached", "busy", "garbled"} \/ unknown
  <2>1. got = Chain!unavailable \/ got = Chain!notFound
    <3>1. ~q.reached \/ q.status = 404 \/ q.status = 429 \/ ~q.parses
      BY <1>1, <1>2
    <3> QED BY <3>1 DEF Chain!requestJson
  <2>2. got.kind # "json"
    BY <2>1 DEF Chain!unavailable, Chain!notFound
  <2> QED BY <1>2, <2>2 DEF q, unknown
<1>3. CASE ~(fault \in {"unreached", "busy", "garbled"} \/ unknown)
  <2>1. got = Chain!json(body)
    <3>1. q.reached /\ q.status = 200 /\ q.parses /\ q.body = body
      BY <1>1, <1>3
    <3> QED BY <3>1 DEF Chain!requestJson
  <2>2. got.kind = "json" /\ got.body = body
    BY <2>1 DEF Chain!json
  <2> QED BY <1>3, <2>2 DEF q, unknown, body
<1> QED BY <1>2, <1>3

LEMMA Called ==
  ASSUME NEW tx \in Chain!Transactions, tx.currency # "BTC",
         NEW at \in Chain!Stages, NEW fault \in Chain!Faults
  PROVE  LET got == Chain!rpcCall(Chain!respond(tx, at, fault)) IN
         IF fault \in Chain!Deaf \/ ~Chain!Known(tx, at)
         THEN got.kind # "json"
         ELSE got.kind = "json" /\ got.body = Chain!Described(tx, at, fault)
<1> DEFINE q == Chain!respond(tx, at, fault)
           asked == Chain!requestJson(q)
           got == Chain!rpcCall(q)
           body == Chain!bodyOf(tx, at, fault)
           d == Chain!Described(tx, at, fault)
<1>0. TxOk(tx)
  BY TxAreOk
<1>1. IF fault \in {"unreached", "busy", "garbled"} THEN asked.kind # "json"
      ELSE asked.kind = "json" /\ asked.body = body
  BY <1>0, Requested
<1>2. None # d /\ None # [result |-> d] /\ None # [error |-> 1] /\ None # <<>>
  BY ChainAssumption DEF Chain!Distinguished
<1>3. Chain!Deaf = {"unreached", "busy", "garbled", "list", "error"}
  BY DEF Chain!Deaf
<1>4. body = IF fault = "error" THEN [error |-> 1] ELSE IF fault = "list" THEN None
             ELSE IF Chain!Known(tx, at) THEN [result |-> d] ELSE <<>>
  BY DEF Chain!bodyOf
<1>5. got = IF asked.kind # "json" THEN asked
            ELSE IF asked.body = None \/ Chain!Has(asked.body, "error") THEN Chain!unavailable
            ELSE IF Chain!Has(asked.body, "result") THEN Chain!json(asked.body.result)
            ELSE Chain!notFound
  BY DEF Chain!rpcCall
<1>6. Chain!unavailable.kind # "json" /\ Chain!notFound.kind # "json"
  BY DEF Chain!unavailable, Chain!notFound
<1>7. Chain!Has([error |-> 1], "error") /\ ~Chain!Has([result |-> d], "error") /\ Chain!Has([result |-> d], "result")
  BY <1>2 DEF Chain!Has
<1>8. ~Chain!Has(<<>>, "error") /\ ~Chain!Has(<<>>, "result")
  BY DEF Chain!Has
<1>9. Chain!json(d).kind = "json" /\ Chain!json(d).body = d /\ [result |-> d].result = d
  BY DEF Chain!json
<1> HIDE DEF q, asked, got, body, d
<1>10. CASE fault \in {"unreached", "busy", "garbled"}
  <2>1. got.kind # "json"
    BY <1>1, <1>5, <1>10
  <2> QED BY <1>3, <1>10, <2>1 DEF got, q
<1>11. CASE fault \in {"error", "list"}
  <2>1. asked.kind = "json" /\ asked.body \in {[error |-> 1], None}
    BY <1>1, <1>4, <1>11
  <2>2. got = Chain!unavailable
    BY <1>5, <1>7, <2>1
  <2> QED BY <1>3, <1>6, <1>11, <2>2 DEF got, q
<1>12. CASE fault \notin Chain!Deaf /\ ~Chain!Known(tx, at)
  <2>1. asked.kind = "json" /\ asked.body = <<>>
    BY <1>1, <1>3, <1>4, <1>12
  <2>2. got = Chain!notFound
    BY <1>2, <1>5, <1>8, <2>1
  <2> QED BY <1>6, <1>12, <2>2 DEF got, q
<1>13. CASE fault \notin Chain!Deaf /\ Chain!Known(tx, at)
  <2>1. asked.kind = "json" /\ asked.body = [result |-> d]
    BY <1>1, <1>3, <1>4, <1>13
  <2>2. got = Chain!json(d)
    BY <1>2, <1>5, <1>7, <1>9, <2>1
  <2> QED BY <1>9, <1>13, <2>2 DEF got, q, d
<1> QED BY <1>3, <1>10, <1>11, <1>12, <1>13

-----------------------------------------------------------------------------
(* The three verdicts *)

Outcome(tx, at, fault) == Chain!verifyPayment(tx.currency, Chain!respond(tx, at, fault))
Found(tx, fault) == LET ms == Chain!MovesOf(tx, fault) IN Filter(ms, Ours(ms, tx.currency))

LEMMA ToldApart ==
  ASSUME NEW tx \in Chain!Transactions, NEW at \in Chain!Stages, NEW fault \in Chain!Faults
  PROVE  LET ms == Chain!MovesOf(tx, fault) IN
         /\ None # ms /\ \A i \in 1..Len(ms) : None # ms[i]
         /\ fault # "recipients" => \A i \in 1..Len(ms) : None # ms[i].to
         /\ None # Chain!Described(tx, at, fault)
<1> DEFINE ms == Chain!MovesOf(tx, fault)
<1>1. Chain!Distinguished(tx, at, fault)
  BY ChainAssumption
<1>2. ms \in Seq(Movements(tx.currency))
  BY TxAreOk, MovesAreTold DEF ToldOf
<1>3. DOMAIN ms = 1..Len(ms)
  BY <1>2
<1> QED BY <1>1, <1>3 DEF Chain!Distinguished

LEMMA BitcoinJudged ==
  ASSUME NEW tx \in Chain!Transactions, tx.currency = "BTC",
         NEW at \in Chain!Stages, NEW fault \in Chain!Faults
  PROVE  Outcome(tx, at, fault) =
           IF fault \in Chain!Deaf \cup {"moves"} \/ at = "unseen" THEN Chain!fail(TRUE)
           ELSE IF Found(tx, fault) = <<>> THEN Chain!fail(FALSE)
           ELSE IF at # "mined" \/ fault = "status" THEN Chain!fail(TRUE)
           ELSE Chain!paid(Chain!Sum(Found(tx, fault)))
<1> DEFINE q == Chain!respond(tx, at, fault)
           got == Chain!requestJson(q)
           d == Chain!Described(tx, at, fault)
           ms == Chain!MovesOf(tx, fault)
           told == IF fault = "moves" THEN None ELSE ms
           outputs == Chain!Filter(got.body.vout, {o \in Chain!Range(got.body.vout) : Chain!PaysUs(o)})
<1>0. TxOk(tx)
  BY TxAreOk
<1>1. IF fault \in {"unreached", "busy", "garbled"} \/ at = "unseen" THEN got.kind # "json"
      ELSE got.kind = "json" /\ got.body = Chain!bodyOf(tx, at, fault)
  <2>1. Chain!Known(tx, at) <=> at # "unseen"
    BY DEF Chain!Known, Chain!Stages
  <2> QED BY <1>0, <2>1, Requested
<1>2. Outcome(tx, at, fault) =
        IF got.kind # "json" THEN Chain!fail(TRUE)
        ELSE IF Chain!List(got.body, "vout") = None THEN Chain!fail(TRUE)
        ELSE IF outputs = <<>> THEN Chain!fail(FALSE)
        ELSE IF ~Chain!Has(got.body, "confirmed") THEN Chain!fail(TRUE)
        ELSE Chain!paid(Chain!Sum(outputs))
  BY DEF Outcome, Chain!verifyPayment, Chain!verifyBitcoin
<1>3. Chain!Deaf = {"unreached", "busy", "garbled", "list", "error"}
  BY DEF Chain!Deaf
<1>4. CASE fault \in {"unreached", "busy", "garbled"} \/ at = "unseen"
  BY <1>1, <1>2, <1>3, <1>4
<1>5. CASE at # "unseen" /\ fault \in {"list", "error"}
  <2>1. got.kind = "json" /\ got.body \in {None, [error |-> 1]}
    BY <1>1, <1>5 DEF Chain!bodyOf
  <2>2. Chain!List(got.body, "vout") = None
    <3>1. "vout" \notin DOMAIN [error |-> 1]
      OBVIOUS
    <3> QED BY <2>1, <3>1 DEF Chain!List, Chain!Has
  <2> QED BY <1>2, <1>3, <1>5, <2>1, <2>2
<1>6. CASE at # "unseen" /\ fault \notin Chain!Deaf
  <2>1. got.kind = "json" /\ got.body = d
    BY <1>1, <1>3, <1>6 DEF Chain!bodyOf
  <2>2. d = IF at = "mined" /\ fault # "status" THEN [vout |-> told, confirmed |-> TRUE] ELSE [vout |-> told]
    BY <1>0 DEF Chain!Described, TxOk
  <2>3. None # d /\ None # ms /\ \A i \in 1..Len(ms) : None # ms[i]
    BY ToldApart
  <2> HIDE DEF told
  <2>4. "vout" \in DOMAIN d /\ d.vout = told /\ ("confirmed" \in DOMAIN d <=> at = "mined" /\ fault # "status")
    BY <2>2
  <2>5. Chain!List(got.body, "vout") = told /\ (Chain!Has(got.body, "confirmed") <=> at = "mined" /\ fault # "status")
    BY <2>1, <2>3, <2>4 DEF Chain!List, Chain!Has
  <2>6. fault # "moves" => outputs = Found(tx, fault)
    <3> SUFFICES ASSUME fault # "moves" PROVE outputs = Found(tx, fault)
      OBVIOUS
    <3>1. got.body.vout = ms
      BY <2>1, <2>4 DEF told
    <3>2. ms \in Seq(AnOutput)
      BY <1>0, MovesAreTold DEF ToldOf, Movements
    <3> HIDE DEF ms, got
    <3>3. outputs = Chain!Filter(ms, {o \in Chain!Range(ms) : Chain!PaysUs(o)})
      BY <3>1
    <3>4. outputs = Filter(ms, Ours(ms, "BTC"))
      BY <2>3, <3>2, <3>3, FoundInBitcoin
    <3>5. Found(tx, fault) = Filter(ms, Ours(ms, "BTC"))
      BY DEF Found, ms
    <3> QED BY <3>4, <3>5
  <2> HIDE DEF outputs, got
  <2>7. told = None <=> fault = "moves"
    BY <2>3 DEF told
  <2> QED BY <1>2, <1>6, <2>1, <2>5, <2>6, <2>7
<1> QED BY <1>3, <1>4, <1>5, <1>6

LEMMA UsdtJudged ==
  ASSUME NEW tx \in Chain!Transactions, tx.currency = "USDT",
         NEW at \in Chain!Stages, NEW fault \in Chain!Faults
  PROVE  Outcome(tx, at, fault) =
           IF fault \in Chain!Deaf \/ at # "mined" THEN Chain!fail(TRUE)
           ELSE IF ~tx.succeeded \/ fault = "status" THEN Chain!fail(FALSE)
           ELSE IF fault = "moves" THEN Chain!fail(TRUE)
           ELSE IF Found(tx, fault) = <<>> THEN Chain!fail(FALSE)
           ELSE Chain!paid(Chain!Sum(Found(tx, fault)))
<1> DEFINE q == Chain!respond(tx, at, fault)
           got == Chain!rpcCall(q)
           d == Chain!Described(tx, at, fault)
           ms == Chain!MovesOf(tx, fault)
           matched == Chain!Filter(got.body.logs, Chain!Transfers(got.body.logs))
<1>0. TxOk(tx)
  BY TxAreOk
<1>1. IF fault \in Chain!Deaf \/ at # "mined" THEN got.kind # "json"
      ELSE got.kind = "json" /\ got.body = d
  <2>1. Chain!Known(tx, at) <=> at = "mined"
    BY DEF Chain!Known, Chain!Stages
  <2> QED BY <2>1, Called
<1>2. Outcome(tx, at, fault) =
        IF got.kind # "json" THEN Chain!fail(TRUE)
        ELSE IF got.body = None THEN Chain!fail(TRUE)
        ELSE IF ~(Chain!Has(got.body, "status") /\ got.body.status = 1) THEN Chain!fail(FALSE)
        ELSE IF Chain!List(got.body, "logs") = None THEN Chain!fail(TRUE)
        ELSE IF matched = <<>> THEN Chain!fail(FALSE)
        ELSE Chain!paid(Chain!Sum(matched))
  BY DEF Outcome, Chain!verifyPayment, Chain!verifyUsdt
<1>3. CASE fault \in Chain!Deaf \/ at # "mined"
  BY <1>1, <1>2, <1>3
<1>4. CASE ~(fault \in Chain!Deaf \/ at # "mined")
  <2> DEFINE happened == IF tx.succeeded THEN ms ELSE <<>>
             told == IF fault = "moves" THEN None ELSE happened
             status == IF tx.succeeded THEN 1 ELSE 0
  <2>1. got.kind = "json" /\ got.body = d
    BY <1>1, <1>4
  <2>2. d = IF fault = "status" THEN [logs |-> told] ELSE [status |-> status, logs |-> told]
    BY DEF Chain!Described
  <2>3. None # d /\ None # ms /\ \A i \in 1..Len(ms) : None # ms[i]
    BY ToldApart
  <2> HIDE DEF told, status
  <2>4. /\ "status" \in DOMAIN d <=> fault # "status"
        /\ fault # "status" => d.status = status
        /\ "logs" \in DOMAIN d /\ d.logs = told
    BY <2>2
  <2>5. /\ Chain!Has(got.body, "status") <=> fault # "status"
        /\ fault # "status" => got.body.status = status
        /\ Chain!List(got.body, "logs") = told /\ got.body # None
    BY <2>1, <2>3, <2>4 DEF Chain!List, Chain!Has
  <2>6. fault # "moves" /\ tx.succeeded => matched = Found(tx, fault)
    <3> SUFFICES ASSUME fault # "moves", tx.succeeded PROVE matched = Found(tx, fault)
      OBVIOUS
    <3>1. got.body.logs = ms
      BY <2>1, <2>4 DEF told
    <3>2. ms \in Seq(ALog)
      BY <1>0, MovesAreTold DEF ToldOf, Movements
    <3> HIDE DEF ms, got
    <3>3. matched = Chain!Filter(ms, Chain!Transfers(ms))
      BY <3>1
    <3>4. matched = Filter(ms, Ours(ms, "USDT"))
      BY <2>3, <3>2, <3>3, FoundInLogs
    <3>5. Found(tx, fault) = Filter(ms, Ours(ms, "USDT"))
      BY DEF Found, ms
    <3> QED BY <3>4, <3>5
  <2>7. tx.succeeded => (told = None <=> fault = "moves")
    BY <2>3 DEF told
  <2>8. status = 1 <=> tx.succeeded
    BY DEF status
  <2> HIDE DEF matched, got, d
  <2> QED BY <1>2, <1>4, <2>1, <2>5, <2>6, <2>7, <2>8
<1> QED BY <1>3, <1>4

EtherVerdict(tx, at, fault) ==
  IF fault \in Chain!Deaf \/ at = "unseen" THEN Chain!fail(TRUE)
  ELSE IF fault = "recipients" \/ tx.moves[1].to.of # "us" THEN Chain!fail(FALSE)
  ELSE IF at # "mined" \/ fault \in {"amounts", "status"} THEN Chain!fail(TRUE)
  ELSE Chain!paid(tx.moves[1].amount)

LEMMA EtherJudged ==
  ASSUME NEW tx \in Chain!Transactions, tx.currency = "ETH",
         NEW at \in Chain!Stages, NEW fault \in Chain!Faults
  PROVE  Outcome(tx, at, fault) = EtherVerdict(tx, at, fault)
<1> DEFINE q == Chain!respond(tx, at, fault)
           got == Chain!rpcCall(q)
           d == Chain!Described(tx, at, fault)
           ms == Chain!MovesOf(tx, fault)
           o == ms[1]
<1>0. TxOk(tx) /\ tx.moves[1].amount \in Nat /\ Len(tx.moves) = 1
  BY TxAreOk DEF TxOk, Whole
<1>1. IF fault \in Chain!Deaf \/ at = "unseen" THEN got.kind # "json"
      ELSE got.kind = "json" /\ got.body = d
  <2>1. Chain!Known(tx, at) <=> at # "unseen"
    BY DEF Chain!Known, Chain!Stages
  <2> QED BY <2>1, Called
<1>2. Outcome(tx, at, fault) =
        IF got.kind # "json" THEN Chain!fail(TRUE)
        ELSE IF got.body = None THEN Chain!fail(TRUE)
        ELSE IF ~Chain!PaysUs(got.body) THEN Chain!fail(FALSE)
        ELSE IF ~Chain!Has(got.body, "blockNumber") THEN Chain!fail(TRUE)
        ELSE IF Chain!List(got.body, "amount") = None THEN Chain!fail(TRUE)
        ELSE Chain!paid(got.body.amount)
  BY DEF Outcome, Chain!verifyPayment, Chain!verifyEther
<1>3. CASE fault \in Chain!Deaf \/ at = "unseen"
  BY <1>1, <1>2, <1>3 DEF EtherVerdict
<1>4. CASE ~(fault \in Chain!Deaf \/ at = "unseen")
  <2>1. got.kind = "json" /\ got.body = d
    BY <1>1, <1>4
  <2>2. d = IF at = "mined" /\ fault # "status"
            THEN [to |-> o.to, amount |-> o.amount, blockNumber |-> 7] ELSE o
    BY DEF Chain!Described
  <2>3. None # d /\ (fault # "recipients" => None # o.to)
    <3>1. Len(ms) = 1 /\ 1 \in 1..1
      BY <1>0, MovesAreTold DEF ToldOf
    <3> QED BY <3>1, ToldApart
  <2>4. /\ ms \in Seq(AnOutput) /\ Len(ms) = 1
        /\ o.to = IF fault = "recipients" THEN None ELSE tx.moves[1].to
        /\ fault \notin {"amounts", "recipients"} => ms = tx.moves
        /\ fault = "amounts" => o.amount = None
    BY <1>0, MovesAreTold DEF ToldOf, Movements
  <2>5. o \in AnOutput
    <3> HIDE DEF ms
    <3>1. ms \in Seq(AnOutput) /\ 1 \in 1..Len(ms)
      BY <2>4
    <3> QED BY <3>1
  <2>6. fault \notin {"amounts", "recipients"} => o.amount = tx.moves[1].amount
    BY <2>4
  <2> HIDE DEF o, ms
  <2>7. "to" \in DOMAIN o /\ "amount" \in DOMAIN o /\ "blockNumber" \notin DOMAIN o
    BY <2>5 DEF AnOutput
  <2>8. /\ "to" \in DOMAIN d /\ d.to = o.to /\ "amount" \in DOMAIN d /\ d.amount = o.amount
        /\ ("blockNumber" \in DOMAIN d <=> at = "mined" /\ fault # "status")
    BY <2>2, <2>7
  <2>9. Chain!PaysUs(d) <=> o.to # None /\ o.to.of = "us"
    <3>1. Chain!PaysUs(d) <=> d.to # None /\ Chain!sameAddress(d.to, Chain!ours)
      BY <2>3, <2>8 DEF Chain!PaysUs, Chain!Has, Chain!List
    <3>2. Chain!ours.of = "us"
      BY DEF Chain!ours
    <3> QED BY <2>8, <3>1, <3>2 DEF Chain!sameAddress
  <2>10. /\ Chain!Has(d, "blockNumber") <=> at = "mined" /\ fault # "status"
         /\ Chain!List(d, "amount") = o.amount
    BY <2>3, <2>8 DEF Chain!Has, Chain!List
  <2>11. fault # "recipients" => (o.amount = None <=> fault = "amounts")
    BY <1>0, <2>4, <2>6, PartsAssumption
  <2> HIDE DEF d, got
  <2>12. Outcome(tx, at, fault) =
           IF fault = "recipients" \/ o.to.of # "us" THEN Chain!fail(FALSE)
           ELSE IF at # "mined" \/ fault = "status" THEN Chain!fail(TRUE)
           ELSE IF fault = "amounts" THEN Chain!fail(TRUE)
           ELSE Chain!paid(o.amount)
    BY <1>2, <2>1, <2>3, <2>4, <2>8, <2>9, <2>10, <2>11
  <2> QED BY <1>4, <2>4, <2>6, <2>12 DEF EtherVerdict
<1> QED BY <1>3, <1>4

-----------------------------------------------------------------------------
(* What was found is what was received *)

LEMMA MovesOfNone == ASSUME NEW tx PROVE Chain!MovesOf(tx, "none") = tx.moves
BY DEF Chain!MovesOf

LEMMA SumOfAppend ==
  ASSUME NEW c, NEW t \in Seq(Moves(c)), NEW m \in Moves(c)
  PROVE  Chain!Sum(Append(t, m)) = Chain!Sum(t) + Chain!amountOf(m)
<1> DEFINE s == Append(t, m)
           n == Len(t)
<1>1. /\ n \in Nat /\ s \in Seq(Moves(c)) /\ Len(s) = n + 1 /\ s[n + 1] = m
      /\ \A k \in 1..n : s[k] = t[k]
  OBVIOUS
<1>2. \A z \in Seq(Moves(c)) : \E g \in [0..Len(z) -> Nat] : Sums(z, g)
  <2> TAKE z \in Seq(Moves(c))
  <2>1. z \in Seq(Movements(c)) /\ \A i \in 1..Len(z) : z[i] # None
    BY DEF Moves
  <2> QED BY <2>1, SumOf
<1>3. PICK g \in [0..n -> Nat] : Sums(t, g)
  BY <1>2
<1>4. PICK h \in [0..Len(s) -> Nat] : Sums(s, h)
  BY <1>1, <1>2
<1> HIDE DEF s, n
<1> DEFINE T == {k \in 0..n : g[k] = h[k]}
<1>5. 0 \in T
  BY <1>1, <1>3, <1>4 DEF Sums
<1>6. ASSUME NEW k \in 1..n, k - 1 \in T PROVE k \in T
  <2>1. k \in 1..Len(t) /\ k \in 1..Len(s) /\ k \in 0..n
    BY <1>1 DEF n
  <2>2. g[k] = g[k - 1] + Chain!amountOf(t[k]) /\ h[k] = h[k - 1] + Chain!amountOf(s[k])
    BY <1>3, <1>4, <2>1 DEF Sums
  <2> QED BY <1>1, <1>6, <2>1, <2>2
<1> HIDE DEF T
<1>7. n \in T
  <2>1. n \in 0..n
    BY <1>1
  <2> QED BY <1>1, <1>5, <1>6, <2>1, UpTo
<1>8. /\ n + 1 \in 1..Len(s) /\ (n + 1) - 1 = n /\ Chain!Sum(t) = g[n] /\ Chain!Sum(s) = h[n + 1]
  BY <1>1, <1>3, <1>4 DEF Sums, n
<1>9. h[n + 1] = h[n] + Chain!amountOf(s[n + 1])
  BY <1>4, <1>8 DEF Sums
<1> QED BY <1>1, <1>7, <1>8, <1>9 DEF T, s

\* The worth of the first movements.
Weighs(tx, w) ==
  /\ w[0] = 0 /\ Chain!Worth(tx) = w[Len(tx.moves)]
  /\ \A k \in 1..Len(tx.moves) :
       w[k] = IF k \in Chain!Received(tx) THEN w[k - 1] + tx.moves[k].amount ELSE w[k - 1]

Weighed(tx, x) ==
  x = [k \in 0..Len(tx.moves) |->
         IF k = 0 THEN 0 ELSE IF k \in Chain!Received(tx) THEN x[k - 1] + tx.moves[k].amount ELSE x[k - 1]]

LEMMA WorthOf ==
  ASSUME NEW tx, TxOk(tx)
  PROVE  \E w \in [0..Len(tx.moves) -> Nat] : Weighs(tx, w)
<1> DEFINE n == Len(tx.moves)
           z == 0
           Go(t, k) == IF k \in Chain!Received(tx) THEN t + tx.moves[k].amount ELSE t
           F == [k \in 1..n |-> [t \in Nat |-> Go(t, k)]]
<1>1. n \in Nat /\ z \in Nat /\ \A k \in 1..n : k - 1 \in 0..n /\ k \in 0..n /\ k # 0
  BY DEF TxOk
<1>2. ASSUME NEW t \in Nat, NEW k \in 1..n PROVE Go(t, k) \in Nat
  <2>1. tx.moves[k].amount \in Nat
    BY DEF TxOk, Whole
  <2> QED BY <2>1
<1>3. F \in Steps(Nat, n)
  <2> HIDE DEF Go
  <2> QED BY <1>2 DEF Steps
<1>4. PICK h : Recurs(h, Nat, z, n, F)
  <2> HIDE DEF z, F, n
  <2> QED BY <1>1, <1>3, Recursion
<1>5. Weighed(tx, h)
  <2>1. \A k \in 1..n : F[k][h[k - 1]] = Go(h[k - 1], k)
    <3> HIDE DEF Go, n
    <3> QED BY <1>1, <1>4 DEF Recurs
  <2>2. h = [k \in 0..n |-> IF k = 0 THEN z ELSE Go(h[k - 1], k)]
    <3> HIDE DEF F, Go, z, n
    <3>1. \A k \in 0..n : k # 0 => k \in 1..n
      BY <1>1
    <3> QED BY <1>4, <2>1, <3>1 DEF Recurs
  <2> QED BY <2>2 DEF Weighed
<1> DEFINE w == CHOOSE x : Weighed(tx, x)
<1>6. Weighed(tx, w)
  BY <1>5
<1>7. Chain!Worth(tx) = w[n]
  BY DEF Chain!Worth, Weighed
<1> HIDE DEF w
<1>8. Weighs(tx, w)
  BY <1>1, <1>6, <1>7, SMTT(30) DEF Weighs, Weighed
<1>9. \A k \in 0..n : w[k] \in Nat
  <2> DEFINE T == {k \in 0..n : w[k] \in Nat}
  <2>1. 0 \in T
    BY <1>1, <1>8 DEF Weighs
  <2>2. ASSUME NEW k \in 1..n, k - 1 \in T PROVE k \in T
    BY <1>1, <1>2, <1>8, <2>2 DEF Weighs
  <2> HIDE DEF T, n
  <2>3. \A k \in 0..n : k \in T
    BY <1>1, <2>1, <2>2, UpTo
  <2> QED BY <2>3 DEF T
<1>10. w \in [0..n -> Nat]
  BY <1>6, <1>9 DEF Weighed
<1> QED BY <1>8, <1>10

\* The sum of what is found is what was received.
LEMMA SumIsWorth ==
  ASSUME NEW tx, TxOk(tx), \A i \in 1..Len(tx.moves) : tx.moves[i] # None,
         \A i \in 1..Len(tx.moves) : tx.moves[i].to # None
  PROVE  Chain!Sum(Filter(tx.moves, Ours(tx.moves, tx.currency))) = Chain!Worth(tx)
<1> DEFINE c == tx.currency
           ms == tx.moves
           n == Len(ms)
           S == Ours(ms, c)
<1>1. ms \in Seq(Moves(c)) /\ n \in Nat
  BY DEF TxOk, Moves
<1>2. PICK g \in [0..n -> Seq(Moves(c))] : Grows(ms, S, g) /\ Filter(ms, S) = g[n]
  <2> HIDE DEF ms, S, c
  <2> QED BY <1>1, FilterGrows DEF n
<1>3. PICK w \in [0..n -> Nat] : Weighs(tx, w)
  BY WorthOf
<1>4. \A k \in 1..n : ms[k] \in S <=> k \in Chain!Received(tx)
  <2> TAKE k \in 1..n
  <2>1. ms[k] \in Chain!Range(ms)
    BY <1>1, RangeIs
  <2> QED BY <2>1 DEF Ours, Chain!Received
<1>5. \A k \in 1..n : ms[k] \in Moves(c) /\ Chain!amountOf(ms[k]) = ms[k].amount
  <2> TAKE k \in 1..n
  <2>1. ms[k] \in Moves(c) /\ ms[k].amount \in Nat
    BY <1>1 DEF TxOk, Whole
  <2>2. "amount" \in DOMAIN ms[k]
    BY <2>1 DEF Moves, Movements, AnOutput, ALog
  <2> QED BY <2>1, <2>2, PartsAssumption DEF Moves, Chain!amountOf, Chain!List, Chain!Has
<1>6. Chain!Sum(<<>>) = 0
  BY SumOfEmpty
<1> HIDE DEF S, ms, c, n
<1> DEFINE T == {k \in 0..n : Chain!Sum(g[k]) = w[k]}
<1>7. 0 \in T
  BY <1>1, <1>2, <1>3, <1>6 DEF Grows, Weighs
<1>8. ASSUME NEW k \in 1..n, k - 1 \in T PROVE k \in T
  <2>1. k - 1 \in 0..n /\ k \in 0..n /\ g[k - 1] \in Seq(Moves(c))
    BY <1>1, <1>2
  <2>2. g[k] = IF ms[k] \in S THEN Append(g[k - 1], ms[k]) ELSE g[k - 1]
    BY <1>2 DEF Grows, n
  <2>3. w[k] = IF k \in Chain!Received(tx) THEN w[k - 1] + ms[k].amount ELSE w[k - 1]
    BY <1>3 DEF Weighs, n, ms
  <2>4. Chain!Sum(Append(g[k - 1], ms[k])) = Chain!Sum(g[k - 1]) + ms[k].amount
    BY <1>5, <2>1, SumOfAppend
  <2> QED BY <1>4, <1>8, <2>1, <2>2, <2>3, <2>4
<1> HIDE DEF T
<1>9. n \in T
  <2>1. n \in 0..n
    BY <1>1
  <2> QED BY <1>1, <1>7, <1>8, <2>1, UpTo
<1>10. Chain!Worth(tx) = w[n]
  BY <1>3 DEF Weighs, n, ms
<1> QED BY <1>2, <1>9, <1>10 DEF T, S, ms, c

LEMMA SumOfOurs ==
  ASSUME NEW c, NEW ms \in Seq(Movements(c)), \A i \in 1..Len(ms) : ms[i] # None
  PROVE  LET r == Filter(ms, Ours(ms, c)) IN
         /\ Chain!Sum(r) \in Nat
         /\ (\A i \in 1..Len(ms) : ms[i].amount = None) => Chain!Sum(r) = 0
<1> DEFINE r == Filter(ms, Ours(ms, c))
<1>1. /\ r \in Seq(Movements(c))
      /\ \A k \in 1..Len(r) : \E j \in 1..Len(ms) : r[k] = ms[j]
  BY FilterKeeps
<1> HIDE DEF r
<1>2. \A k \in 1..Len(r) : r[k] # None
  BY <1>1
<1>3. Chain!Sum(r) \in Nat
  BY <1>1, <1>2, SumIsNat
<1>4. ASSUME \A i \in 1..Len(ms) : ms[i].amount = None PROVE Chain!Sum(r) = 0
  <2>1. \A k \in 1..Len(r) : r[k] # None /\ r[k].amount = None
    BY <1>1, <1>2, <1>4
  <2> QED BY <1>1, <2>1, SumOfNothing
<1> QED BY <1>3, <1>4 DEF r

LEMMA FoundIsReceived ==
  ASSUME NEW tx \in Chain!Transactions, NEW fault \in Chain!Faults
  PROVE  /\ Found(tx, fault) = <<>> <=> fault = "recipients" \/ Chain!Received(tx) = {}
         /\ fault \notin {"amounts", "recipients"} => Chain!Sum(Found(tx, fault)) = Chain!Worth(tx)
         /\ Chain!Sum(Found(tx, fault)) \in Nat /\ Chain!Worth(tx) \in Nat
         /\ Chain!Sum(Found(tx, fault)) <= Chain!Worth(tx)
<1> DEFINE c == tx.currency
           ns == tx.moves
           ms == Chain!MovesOf(tx, fault)
           f == Filter(ms, Ours(ms, c))
           w == Chain!Worth(tx)
<1>0. TxOk(tx) /\ "none" \in Chain!Faults /\ "mined" \in Chain!Stages
  BY TxAreOk DEF Chain!Faults, Chain!Stages
<1>1. Found(tx, fault) = f
  BY DEF Found
<1>2. /\ ToldOf(ms, tx, fault)
      /\ fault \notin {"amounts", "recipients"} => ms = ns
      /\ fault = "amounts" => \A i \in 1..Len(ms) : ms[i].amount = None
  BY <1>0, MovesAreTold
<1>3. ms \in Seq(Movements(c)) /\ ns \in Seq(Movements(c)) /\ Len(ms) = Len(ns)
  BY <1>0, <1>2 DEF ToldOf, TxOk
<1>4. (\A i \in 1..Len(ms) : ms[i] # None) /\ (\A i \in 1..Len(ns) : ns[i] # None)
  <2>1. \A i \in 1..Len(ms) : ms[i] # None
    BY <1>0, ToldApart
  <2>2. \A i \in 1..Len(ns) : ns[i] # None
    BY <1>0, ToldApart, MovesOfNone
  <2> QED BY <2>1, <2>2
<1>11. \A i \in 1..Len(ns) : ns[i].to # None
  BY <1>0, ToldApart, MovesOfNone
<1>5. \A i \in 1..Len(ms) :
        ms[i] \in Ours(ms, c) <=> fault # "recipients" /\ i \in Chain!Received(tx)
  <2> TAKE i \in 1..Len(ms)
  <2>1. ms[i] \in Chain!Range(ms) /\ i \in 1..Len(ns) /\ ns[i].to # None
    BY <1>3, <1>11, RangeIs
  <2>2. /\ ms[i].to = IF fault = "recipients" THEN None ELSE ns[i].to
        /\ c = "USDT" => ms[i].event = ns[i].event /\ ms[i].contract = ns[i].contract
    BY <1>2 DEF ToldOf
  <2> HIDE DEF ms
  <2> QED BY <2>1, <2>2 DEF Ours, Chain!Received
<1>6. Chain!Sum(f) \in Nat /\ (fault = "amounts" => Chain!Sum(f) = 0)
  <2> HIDE DEF ms, ns, c
  <2> QED BY <1>2, <1>3, <1>4, SumOfOurs
<1>7. f = <<>> <=> fault = "recipients" \/ Chain!Received(tx) = {}
  <2>1. Chain!Received(tx) \subseteq 1..Len(ns)
    BY DEF Chain!Received
  <2> HIDE DEF ms, ns, c
  <2>2. f = <<>> <=> \A k \in 1..Len(ms) : ms[k] \notin Ours(ms, c)
    BY <1>3, NothingFound
  <2> HIDE DEF f
  <2> QED BY <1>3, <1>5, <2>1, <2>2
<1>8. w \in Nat
  <2>1. PICK x \in [0..Len(ns) -> Nat] : Weighs(tx, x)
    BY <1>0, WorthOf
  <2>2. Len(ns) \in 0..Len(ns)
    BY <1>3
  <2> QED BY <2>1, <2>2 DEF Weighs
<1>9. fault \notin {"amounts", "recipients"} => Chain!Sum(f) = w
  BY <1>0, <1>2, <1>4, <1>11, SumIsWorth
<1>12. fault = "recipients" => Chain!Sum(f) = 0
  <2>1. Chain!Sum(<<>>) = 0
    BY SumOfEmpty
  <2> HIDE DEF f
  <2> QED BY <1>7, <2>1
<1> HIDE DEF f, w
<1>10. Chain!Sum(f) <= w
  <2>1. CASE fault \notin {"amounts", "recipients"}
    BY <1>6, <1>8, <1>9, <2>1
  <2>3. CASE fault = "recipients"
    BY <1>8, <1>12, <2>3
  <2>2. CASE fault = "amounts"
    BY <1>6, <1>8, <2>2
  <2> QED BY <2>1, <2>2, <2>3
<1> QED BY <1>1, <1>6, <1>7, <1>8, <1>9, <1>10 DEF w

\* Ether is moved by the transaction itself.
LEMMA EtherReceived ==
  ASSUME NEW tx \in Chain!Transactions, tx.currency = "ETH"
  PROVE  /\ Chain!Received(tx) = {} <=> tx.moves[1].to.of # "us"
         /\ tx.moves[1].to.of = "us" => Chain!Worth(tx) = tx.moves[1].amount
<1> DEFINE m == tx.moves[1]
<1>1. TxOk(tx) /\ Len(tx.moves) = 1 /\ 1..1 = {1} /\ m.amount \in Nat
  BY TxAreOk DEF TxOk, Whole
<1>2. 1 \in Chain!Received(tx) <=> m.to.of = "us"
  BY <1>1 DEF Chain!Received
<1>3. Chain!Received(tx) \subseteq {1}
  BY <1>1 DEF Chain!Received
<1>4. PICK w \in [0..1 -> Nat] : Weighs(tx, w)
  BY <1>1, WorthOf
<1>5. w[0] = 0 /\ Chain!Worth(tx) = w[1]
  BY <1>1, <1>4 DEF Weighs
<1>6. w[1] = IF 1 \in Chain!Received(tx) THEN w[0] + m.amount ELSE w[0]
  <2>1. 1 \in 1..Len(tx.moves) /\ 1 - 1 = 0
    BY <1>1
  <2> QED BY <1>4, <2>1 DEF Weighs
<1> QED BY <1>1, <1>2, <1>3, <1>5, <1>6

-----------------------------------------------------------------------------

LEMMA Verdicts ==
  /\ \A b \in BOOLEAN : ~Chain!fail(b).ok /\ (Chain!fail(b).retryable <=> b)
  /\ \A x : /\ Chain!paid(x).ok /\ ~Chain!paid(x).retryable /\ Chain!paid(x).amount = x
BY DEF Chain!fail, Chain!paid

\* What the property asks of an outcome, and of the one a later answer would have.
Reads(tx, at, fault, settled) ==
  LET out == Outcome(tx, at, fault) IN
  /\ out.ok => settled /\ out.amount <= Chain!Worth(tx)
  /\ fault = "none" => /\ out.ok <=> settled
                       /\ out.ok => out.amount = Chain!Worth(tx)
                       /\ at = "mined" => ~out.retryable
  /\ fault \in Chain!Deaf => out.retryable
  /\ ~out.ok /\ ~out.retryable /\ ~Chain!TakenForWrong(tx, fault) =>
       \A later \in {at, "mined"} : ~Outcome(tx, later, "none").ok

LEMMA BitcoinReads ==
  ASSUME NEW tx \in Chain!Transactions, tx.currency = "BTC",
         NEW at \in Chain!Stages, NEW fault \in Chain!Faults
  PROVE  LET r == Chain!Received(tx) IN Reads(tx, at, fault, at = "mined" /\ r # {})
<1> DEFINE r == Chain!Received(tx)
           v == Chain!Worth(tx)
           f == Found(tx, fault)
           out == Outcome(tx, at, fault)
<1>1. out = IF fault \in Chain!Deaf \cup {"moves"} \/ at = "unseen" THEN Chain!fail(TRUE)
            ELSE IF f = <<>> THEN Chain!fail(FALSE)
            ELSE IF at # "mined" \/ fault = "status" THEN Chain!fail(TRUE)
            ELSE Chain!paid(Chain!Sum(f))
  BY BitcoinJudged
<1>2. /\ f = <<>> <=> fault = "recipients" \/ r = {}
      /\ fault \notin {"amounts", "recipients"} => Chain!Sum(f) = v
      /\ Chain!Sum(f) \in Nat /\ v \in Nat /\ Chain!Sum(f) <= v
  BY FoundIsReceived
<1>3. /\ "none" \in Chain!Faults /\ "mined" \in Chain!Stages /\ "none" \notin Chain!Deaf \cup {"moves"}
      /\ Found(tx, "none") = <<>> <=> r = {}
  BY FoundIsReceived DEF Chain!Faults, Chain!Stages, Chain!Deaf
<1>4. \A later \in Chain!Stages :
        r = {} => \E b \in BOOLEAN : Outcome(tx, later, "none") = Chain!fail(b)
  <2> TAKE later \in Chain!Stages
  <2>1. Outcome(tx, later, "none") =
          IF "none" \in Chain!Deaf \cup {"moves"} \/ later = "unseen" THEN Chain!fail(TRUE)
          ELSE IF Found(tx, "none") = <<>> THEN Chain!fail(FALSE)
          ELSE IF later # "mined" \/ "none" = "status" THEN Chain!fail(TRUE)
          ELSE Chain!paid(Chain!Sum(Found(tx, "none")))
    BY <1>3, BitcoinJudged
  <2> QED BY <1>3, <2>1
<1>5. \A later \in {at, "mined"} : r = {} => ~Outcome(tx, later, "none").ok
  BY <1>3, <1>4, Verdicts
<1> HIDE DEF r, v, f, out
<1>6. CASE fault \in Chain!Deaf \cup {"moves"} \/ at = "unseen"
  <2>1. out = Chain!fail(TRUE)
    BY <1>1, <1>6
  <2>2. ~out.ok /\ out.retryable
    BY <2>1, Verdicts
  <2>3. fault = "none" => at # "mined"
    BY <1>3, <1>6
  <2> QED BY <2>2, <2>3 DEF Reads, out, r, v
<1>7. CASE ~(fault \in Chain!Deaf \cup {"moves"} \/ at = "unseen") /\ f = <<>>
  <2>1. out = Chain!fail(FALSE)
    BY <1>1, <1>7
  <2>2. ~out.ok /\ ~out.retryable
    BY <2>1, Verdicts
  <2> QED BY <1>2, <1>5, <1>7, <2>2 DEF Reads, Chain!TakenForWrong, out, r, v
<1>8. CASE
           /\ ~(fault \in Chain!Deaf \cup {"moves"} \/ at = "unseen") /\ f # <<>>
           /\ (at # "mined" \/ fault = "status")
  <2>1. out = Chain!fail(TRUE)
    BY <1>1, <1>8
  <2>2. ~out.ok /\ out.retryable
    BY <2>1, Verdicts
  <2> QED BY <1>8, <2>2 DEF Reads, out, r, v
<1>9. CASE
           /\ ~(fault \in Chain!Deaf \cup {"moves"} \/ at = "unseen") /\ f # <<>>
           /\ at = "mined" /\ fault # "status"
  <2>1. out = Chain!paid(Chain!Sum(f))
    BY <1>1, <1>9
  <2>2. out.ok /\ ~out.retryable /\ out.amount = Chain!Sum(f)
    BY <2>1, Verdicts
  <2>3. fault = "none" => Chain!Sum(f) = v
    BY <1>2
  <2> QED BY <1>2, <1>9, <2>2, <2>3 DEF Reads, out, r, v
<1> QED BY <1>6, <1>7, <1>8, <1>9

LEMMA UsdtReads ==
  ASSUME NEW tx \in Chain!Transactions, tx.currency = "USDT",
         NEW at \in Chain!Stages, NEW fault \in Chain!Faults
  PROVE  LET r == Chain!Received(tx) IN
         Reads(tx, at, fault, at = "mined" /\ r # {} /\ tx.succeeded)
<1> DEFINE r == Chain!Received(tx)
           v == Chain!Worth(tx)
           f == Found(tx, fault)
           out == Outcome(tx, at, fault)
           lost == ~tx.succeeded \/ r = {}
<1>1. out = IF fault \in Chain!Deaf \/ at # "mined" THEN Chain!fail(TRUE)
            ELSE IF ~tx.succeeded \/ fault = "status" THEN Chain!fail(FALSE)
            ELSE IF fault = "moves" THEN Chain!fail(TRUE)
            ELSE IF f = <<>> THEN Chain!fail(FALSE)
            ELSE Chain!paid(Chain!Sum(f))
  BY UsdtJudged
<1>2. /\ f = <<>> <=> fault = "recipients" \/ r = {}
      /\ fault \notin {"amounts", "recipients"} => Chain!Sum(f) = v
      /\ Chain!Sum(f) \in Nat /\ v \in Nat /\ Chain!Sum(f) <= v
  BY FoundIsReceived
<1>3. /\ "none" \in Chain!Faults /\ "mined" \in Chain!Stages /\ "none" \notin Chain!Deaf
      /\ Found(tx, "none") = <<>> <=> r = {}
  BY FoundIsReceived DEF Chain!Faults, Chain!Stages, Chain!Deaf
<1>4. \A later \in Chain!Stages :
        lost => \E b \in BOOLEAN : Outcome(tx, later, "none") = Chain!fail(b)
  <2> TAKE later \in Chain!Stages
  <2>1. Outcome(tx, later, "none") =
          IF "none" \in Chain!Deaf \/ later # "mined" THEN Chain!fail(TRUE)
          ELSE IF ~tx.succeeded \/ "none" = "status" THEN Chain!fail(FALSE)
          ELSE IF "none" = "moves" THEN Chain!fail(TRUE)
          ELSE IF Found(tx, "none") = <<>> THEN Chain!fail(FALSE)
          ELSE Chain!paid(Chain!Sum(Found(tx, "none")))
    BY <1>3, UsdtJudged
  <2> QED BY <1>3, <2>1
<1>5. \A later \in {at, "mined"} : lost => ~Outcome(tx, later, "none").ok
  BY <1>3, <1>4, Verdicts
<1> HIDE DEF r, v, f, out
<1>6. CASE fault \in Chain!Deaf \/ at # "mined"
  <2>1. out = Chain!fail(TRUE)
    BY <1>1, <1>6
  <2>2. ~out.ok /\ out.retryable
    BY <2>1, Verdicts
  <2>3. fault = "none" => at # "mined"
    BY <1>3, <1>6
  <2> QED BY <2>2, <2>3 DEF Reads, out, r, v
<1>7. CASE
           /\ ~(fault \in Chain!Deaf \/ at # "mined") 
           /\ (~tx.succeeded \/ fault = "status" \/ (fault # "moves" /\ f = <<>>))
  <2>1. out = Chain!fail(FALSE)
    BY <1>1, <1>7
  <2>2. ~out.ok /\ ~out.retryable
    BY <2>1, Verdicts
  <2>3. lost \/ Chain!TakenForWrong(tx, fault)
    BY <1>2, <1>7 DEF Chain!TakenForWrong
  <2>4. fault = "none" => lost
    BY <1>2, <1>7
  <2> QED BY <1>5, <1>7, <2>2, <2>3, <2>4 DEF Reads, out, r, v
<1>8. CASE
           /\ ~(fault \in Chain!Deaf \/ at # "mined") /\ tx.succeeded
           /\ fault = "moves"
  <2>1. out = Chain!fail(TRUE)
    BY <1>1, <1>8
  <2>2. ~out.ok /\ out.retryable
    BY <2>1, Verdicts
  <2> QED BY <1>8, <2>2 DEF Reads, out, r, v
<1>9. CASE
           /\ ~(fault \in Chain!Deaf \/ at # "mined") /\ tx.succeeded
           /\ fault \notin {"moves", "status"} /\ f # <<>>
  <2>1. out = Chain!paid(Chain!Sum(f))
    BY <1>1, <1>9
  <2>2. out.ok /\ ~out.retryable /\ out.amount = Chain!Sum(f)
    BY <2>1, Verdicts
  <2>3. fault = "none" => Chain!Sum(f) = v
    BY <1>2
  <2> QED BY <1>2, <1>9, <2>2, <2>3 DEF Reads, out, r, v
<1> QED BY <1>6, <1>7, <1>8, <1>9

LEMMA EtherReads ==
  ASSUME NEW tx \in Chain!Transactions, tx.currency = "ETH",
         NEW at \in Chain!Stages, NEW fault \in Chain!Faults
  PROVE  LET r == Chain!Received(tx) IN Reads(tx, at, fault, at = "mined" /\ r # {})
<1> DEFINE r == Chain!Received(tx)
           v == Chain!Worth(tx)
           out == Outcome(tx, at, fault)
           m == tx.moves[1]
<1>1. out = IF fault \in Chain!Deaf \/ at = "unseen" THEN Chain!fail(TRUE)
            ELSE IF fault = "recipients" \/ m.to.of # "us" THEN Chain!fail(FALSE)
            ELSE IF at # "mined" \/ fault \in {"amounts", "status"} THEN Chain!fail(TRUE)
            ELSE Chain!paid(m.amount)
  BY EtherJudged DEF EtherVerdict
<1>2. /\ r = {} <=> m.to.of # "us"
      /\ m.to.of = "us" => v = m.amount
  BY EtherReceived
<1>3. "none" \in Chain!Faults /\ "mined" \in Chain!Stages /\ "none" \notin Chain!Deaf /\ v \in Nat
  BY FoundIsReceived DEF Chain!Faults, Chain!Stages, Chain!Deaf
<1>4. \A later \in Chain!Stages :
        r = {} => \E b \in BOOLEAN : Outcome(tx, later, "none") = Chain!fail(b)
  <2> TAKE later \in Chain!Stages
  <2>1. Outcome(tx, later, "none") = EtherVerdict(tx, later, "none")
    BY <1>3, EtherJudged
  <2> QED BY <1>2, <2>1 DEF EtherVerdict
<1>5. \A later \in {at, "mined"} : r = {} => ~Outcome(tx, later, "none").ok
  BY <1>3, <1>4, Verdicts
<1> HIDE DEF r, v, out, m
<1>6. CASE fault \in Chain!Deaf \/ at = "unseen"
  <2>1. out = Chain!fail(TRUE)
    BY <1>1, <1>6
  <2>2. ~out.ok /\ out.retryable
    BY <2>1, Verdicts
  <2>3. fault = "none" => at # "mined"
    BY <1>3, <1>6
  <2> QED BY <2>2, <2>3 DEF Reads, out, r, v
<1>7. CASE ~(fault \in Chain!Deaf \/ at = "unseen") /\ (fault = "recipients" \/ m.to.of # "us")
  <2>1. out = Chain!fail(FALSE)
    BY <1>1, <1>7
  <2>2. ~out.ok /\ ~out.retryable
    BY <2>1, Verdicts
  <2> QED BY <1>2, <1>5, <1>7, <2>2 DEF Reads, Chain!TakenForWrong, out, r, v
<1>8. CASE /\ ~(fault \in Chain!Deaf \/ at = "unseen") /\ m.to.of = "us"
           /\ fault # "recipients" /\ (at # "mined" \/ fault \in {"amounts", "status"})
  <2>1. out = Chain!fail(TRUE)
    BY <1>1, <1>8
  <2>2. ~out.ok /\ out.retryable
    BY <2>1, Verdicts
  <2> QED BY <1>8, <2>2 DEF Reads, out, r, v
<1>9. CASE /\ ~(fault \in Chain!Deaf \/ at = "unseen") /\ m.to.of = "us"
           /\ fault # "recipients" /\ ~(at # "mined" \/ fault \in {"amounts", "status"})
  <2>1. out = Chain!paid(m.amount)
    BY <1>1, <1>9
  <2>2. out.ok /\ ~out.retryable /\ out.amount = v
    BY <1>2, <1>9, <2>1, Verdicts
  <2> QED BY <1>2, <1>3, <1>9, <2>2 DEF Reads, out, r, v
<1> QED BY <1>6, <1>7, <1>8, <1>9

LEMMA NothingIsReadBackwards ==
  ASSUME NEW tx \in Chain!Transactions, NEW at \in Chain!Stages, NEW fault \in Chain!Faults
  PROVE  Chain!NothingReadBackwards(tx, at, fault)
<1> DEFINE r == Chain!Received(tx)
           settled == at = "mined" /\ r # {} /\ (tx.currency = "USDT" => tx.succeeded)
<1>1. tx.currency \in {"BTC", "ETH", "USDT"}
  BY TxAreOk DEF TxOk
<1>2. Reads(tx, at, fault, settled)
  <2>1. CASE tx.currency = "BTC"
    <3>1. Reads(tx, at, fault, at = "mined" /\ r # {})
      BY <2>1, BitcoinReads
    <3> QED BY <2>1, <3>1 DEF Reads
  <2>2. CASE tx.currency = "ETH"
    <3>1. Reads(tx, at, fault, at = "mined" /\ r # {})
      BY <2>2, EtherReads
    <3> QED BY <2>2, <3>1 DEF Reads
  <2>3. CASE tx.currency = "USDT"
    <3>1. Reads(tx, at, fault, at = "mined" /\ r # {} /\ tx.succeeded)
      BY <2>3, UsdtReads
    <3> QED BY <2>3, <3>1 DEF Reads
  <2> QED BY <1>1, <2>1, <2>2, <2>3
<1> QED BY <1>2 DEF Reads, Outcome, Chain!NothingReadBackwards

LookupInv ==
  part = "chain" => /\ lookup.tx \in Chain!Transactions /\ lookup.at \in Chain!Stages
                    /\ lookup.fault \in Chain!Faults

\* For any number of outputs and logs and any amounts, a payment is accepted only
\* when the chain shows it settled, and refused for good only when it never will be,
\* whatever its node leaves out but a recipient or a token transfer's status: an
\* answer without one of these is refused for good (verify.ts:256, 301, 348, 381).
\* And the rate that judges its worth is recent (price.ts, above).
THEOREM PaymentsAreAlwaysReadRight == Spec => []PaymentsAreReadRight
<1>1. Init => LookupInv
  BY DEF Init, LookupInv
<1>2. LookupInv /\ [Next]_<<part, now, served_, shown_, address, lookup>> => LookupInv'
  BY DEF LookupInv, Next
<1>3. LookupInv /\ RateIsRecent => PaymentsAreReadRight
  BY NothingIsReadBackwards DEF LookupInv, PaymentsAreReadRight
<1> QED BY <1>1, <1>2, <1>3, RatesStayRecent, PTL DEF Spec

=============================================================================
