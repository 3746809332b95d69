------------------------------- MODULE Sessions -------------------------------
(***************************************************************************)
(* Accounts, their sessions and the browsers that carry one: signing up,   *)
(* in and out, and the settings that ask for the password again.  Supabase *)
(* keeps accounts and sessions; what it does is modelled as the code uses  *)
(* it.  A settings action is several calls to it, and anything can come    *)
(* between them; the browser gets the session of a response when the       *)
(* response arrives, over whatever it carries by then.                     *)
(***************************************************************************)
EXTENDS Naturals, FiniteSets

CONSTANTS Users, Passwords,
          Initial,       \* the password of the accounts that have one to begin with
          Browsers,
          MaxSessions,   \* bound: sessions ever made
          Requests,      \* settings actions, each used once
          None

VARIABLES account,    \* the state of each account and its password, None without one
          sessions,   \* the accounts of the sessions, in the order they were made
          live,       \* the sessions that are not revoked
          cookie,     \* the session each browser carries, or None
          codes,      \* links and redirects that can be exchanged for a session
          request,
          known,      \* history: the passwords in force for its account since a request began
          revokedTo   \* history: the sessions made before the last sign-out everywhere
sessionVars == <<account, sessions, live, cookie, codes, request, known, revokedTo>>

SessionIds == 1..MaxSessions
Minted == {s \in SessionIds : sessions[s] # None}
Fresh == {s \in SessionIds \ Minted : \A q \in 1..(s - 1) : q \in Minted}
Nothing == [at |-> "idle", kind |-> None, browser |-> None, session |-> None, user |-> None,
            hasPassword |-> FALSE, typed |-> None, new |-> None]

\* Accounts that signed up with a password or with GitHub, or do not exist yet.
Init ==
  /\ account \in [Users -> {[state |-> "absent", password |-> None]}
                           \cup [state : {"there"}, password : {Initial, None}]]
  /\ sessions = [s \in SessionIds |-> None] /\ live = {}
  /\ cookie = [b \in Browsers |-> None] /\ codes = {}
  /\ request = [r \in Requests |-> Nothing]
  /\ known = [r \in Requests |-> {}] /\ revokedTo = [u \in Users |-> 0]

There(u) == account[u].state = "there"
Of(u) == {s \in Minted : sessions[s] = u}
\* getUser: the account whose live session this is.
getUser(s) == IF s \in live THEN sessions[s] ELSE None

\* A new session of u.
Mints(u, s) == s \in Fresh /\ sessions' = [sessions EXCEPT ![s] = u] /\ live' = live \cup {s}
Revokes(gone) == live' = live \ gone /\ UNCHANGED sessions
Carries(b, s) == cookie' = [cookie EXCEPT ![b] = s]

-----------------------------------------------------------------------------
(* The way in *)

\* The origin and the two limiters can refuse before any of these.  With
\* confirmations on there is no session before the link is followed.
signUp(b, u, p) ==
  /\ account[u].state = "absent"
  /\ \/ /\ account' = [account EXCEPT ![u] = [state |-> "unconfirmed", password |-> p]]
        /\ codes' = codes \cup {[browser |-> b, user |-> u]}
        /\ UNCHANGED <<sessions, live, cookie>>
     \/ /\ account' = [account EXCEPT ![u] = [state |-> "there", password |-> p]]
        /\ \E s \in SessionIds : Mints(u, s) /\ Carries(b, s)
        /\ UNCHANGED codes
  /\ UNCHANGED <<request, known, revokedTo>>

signIn(b, u, p) ==
  /\ There(u) /\ account[u].password = p
  /\ \E s \in SessionIds : Mints(u, s) /\ Carries(b, s)
  /\ UNCHANGED <<account, codes, request, known, revokedTo>>

signInWithGitHub(b, u) ==
  /\ account[u].state \in {"absent", "there"} /\ account[u].password = None
  /\ codes' = codes \cup {[browser |-> b, user |-> u]}
  /\ UNCHANGED <<account, sessions, live, cookie, request, known, revokedTo>>

\* GET /auth/callback: a code is good once, in the browser that asked for it.
exchangeCodeForSession(c) ==
  /\ c \in codes /\ codes' = codes \ {c}
  /\ IF account[c.user].state = "deleted" THEN UNCHANGED <<account, sessions, live, cookie>>
     ELSE /\ account' = [account EXCEPT ![c.user].state = "there"]
          /\ \E s \in SessionIds : Mints(c.user, s) /\ Carries(c.browser, s)
  /\ UNCHANGED <<request, known, revokedTo>>

\* The library revokes this session, or all of the account's.
signOut(b) ==
  /\ cookie[b] # None /\ Carries(b, None)
  /\ \E gone \in {{cookie[b]}, Of(sessions[cookie[b]])} : Revokes(gone)
  /\ UNCHANGED <<account, codes, request, known, revokedTo>>

-----------------------------------------------------------------------------
(* Settings *)

\* What a request that is over leaves behind.
Done == [Nothing EXCEPT !.at = "done"]
Goes(r, step) == request' = [request EXCEPT ![r].at = step]

\* What may be typed into the form of u: a password, and a new one or, for want
\* of a password, an address.
Forms(u, kind) ==
  CASE kind = "change" -> {f \in [typed : Passwords, new : Passwords] : f.new # f.typed}
    [] kind = "delete" /\ account[u].password # None -> [typed : Passwords, new : {None}]
    [] kind = "delete" /\ account[u].password = None -> [typed : {None}, new : Users]
    [] kind = "everywhere" -> [typed : {None}, new : {None}]

\* guardAction: the origin, the session, the limiter.
guardAction(r, b, kind) ==
  LET u == getUser(cookie[b]) IN
  /\ request[r].at = "idle" /\ u # None
  /\ \E form \in Forms(u, kind) :
       request' = [request EXCEPT ![r] =
       [at |-> CASE kind = "everywhere" -> "revoke"
                 [] kind = "delete" /\ account[u].password = None -> "confirm"
                 [] OTHER -> "reauthenticate",
        kind |-> kind, browser |-> b, session |-> cookie[b], user |-> u,
        hasPassword |-> account[u].password # None, typed |-> form.typed, new |-> form.new]]
  /\ known' = [known EXCEPT ![r] = {account[u].password}]
  /\ UNCHANGED <<account, sessions, live, cookie, codes, revokedTo>>

\* A response: the browser carries the request's session from here on.
Answers(r, session) == request' = [request EXCEPT ![r] = Done] /\ Carries(request[r].browser, session)
Replies(r) == Answers(r, request[r].session)

\* Mutant of Matches: the account is looked at, not the password.
MatchesAnybody(u, typed) == There(u)
Matches(u, typed) == There(u) /\ typed # None /\ account[u].password = typed
\* signInWithPassword: proof, and a session that replaces the one of the request.
reauthenticate(r) ==
  LET q == request[r] IN
  /\ q.at = "reauthenticate"
  /\ IF Matches(q.user, q.typed)
     THEN /\ \E s \in SessionIds :
               /\ Mints(q.user, s)
               /\ request' = [request EXCEPT ![r].session = s,
                              ![r].at = IF q.kind = "delete" THEN "delete" ELSE "update"]
          /\ UNCHANGED cookie
     ELSE Replies(r) /\ UNCHANGED <<sessions, live>>
  /\ UNCHANGED <<account, codes, known, revokedTo>>

\* updateUser, as the new session; other sessions may be revoked with it.
changePassword(r) ==
  LET q == request[r] IN
  /\ q.at = "update"
  /\ IF getUser(q.session) # None
     THEN /\ account' = [account EXCEPT ![q.user].password = q.new]
          /\ known' = [o \in Requests |-> IF request[o].user = q.user
                                          THEN known[o] \cup {q.new} ELSE known[o]]
          /\ \E gone \in {{}, Of(q.user) \ {q.session}} : Revokes(gone)
     ELSE UNCHANGED <<account, known, live, sessions>>
  /\ Replies(r)
  /\ UNCHANGED <<codes, revokedTo>>

\* An account without a password is deleted by its address, typed in full.
confirm(r) ==
  /\ request[r].at = "confirm"
  /\ IF request[r].new = request[r].user THEN Goes(r, "delete") /\ UNCHANGED cookie ELSE Replies(r)
  /\ UNCHANGED <<account, sessions, live, codes, known, revokedTo>>

\* deleteAccount (Workspaces), which may refuse; then the cookie is cleared.
deleteAccountAction(r) ==
  LET q == request[r] IN
  /\ q.at = "delete"
  /\ \/ /\ There(q.user)
        /\ account' = [account EXCEPT ![q.user].state = "deleted"]
        /\ Revokes(Of(q.user))
        /\ Answers(r, None)
     \/ Replies(r) /\ UNCHANGED <<account, sessions, live>>
  /\ UNCHANGED <<codes, known, revokedTo>>

Everywhere(q) == Of(q.user)
\* As the session of the request; one that is gone by now is refused.
signOutEverywhere(r) ==
  LET q == request[r] IN
  /\ q.at = "revoke"
  /\ IF getUser(q.session) # None
     THEN /\ Revokes(Everywhere(q)) /\ revokedTo' = [revokedTo EXCEPT ![q.user] = Cardinality(Minted)]
          /\ Answers(r, None)
     ELSE Replies(r) /\ UNCHANGED <<sessions, live, revokedTo>>
  /\ UNCHANGED <<account, codes, known>>

Next ==
  \/ \E b \in Browsers, u \in Users :
       signInWithGitHub(b, u) \/ \E p \in Passwords : signUp(b, u, p) \/ signIn(b, u, p)
  \/ \E b \in Browsers : signOut(b)
  \/ \E c \in codes : exchangeCodeForSession(c)
  \/ \E r \in Requests :
       \/ \E b \in Browsers, kind \in {"change", "delete", "everywhere"} : guardAction(r, b, kind)
       \/ reauthenticate(r) \/ changePassword(r) \/ confirm(r)
       \/ deleteAccountAction(r) \/ signOutEverywhere(r)

-----------------------------------------------------------------------------

\* The request that takes a step here.
Acting(r, kind) == request[r].kind = kind /\ request[r].at # "done" /\ request'[r].at = "done"

\* What deletes an account or changes its password is a request on it, that came
\* with a password in force since it began, or with the address for want of one.
ByItsHolder ==
  \A u \in Users :
    /\ There(u) /\ account'[u].state = "deleted" =>
         \E r \in Requests : /\ Acting(r, "delete") /\ request[r].user = u
                             /\ IF request[r].hasPassword THEN request[r].typed \in known[r]
                                ELSE request[r].new = u
    /\ There(u) /\ account'[u].state = "there" /\ account'[u].password # account[u].password =>
         \E r \in Requests : /\ Acting(r, "change") /\ request[r].user = u
                             /\ request[r].typed \in known[r]

\* An account is deleted, and a password changed, only by a request that came
\* with a session of that account and with a password that was in force for it
\* since the request began (or with its address, when it has none): "a session
\* cookie alone must not be enough" (settings/actions.ts, deleteAccountAction).
OnlyTheHolder == [][ByItsHolder]_sessionVars

\* Once every session was signed out, only one made since is good, whatever was
\* under way then; and no session outlives its account (signOutEverywhere).
SignedOutStaysOut ==
  \A s \in live : There(sessions[s]) /\ s > revokedTo[sessions[s]]

=============================================================================
