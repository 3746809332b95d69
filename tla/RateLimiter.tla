------------------------------ MODULE RateLimiter ------------------------------
(***************************************************************************)
(* The rate limiter of the web app and of the engine without Redis: a      *)
(* sliding window per key, in a map that is emptied when it is full. With  *)
(* Redis the window is Redis's, and a Redis that fails lets everyone in.   *)
(***************************************************************************)
EXTENDS Filters, FiniteSets

CONSTANTS Users, Addresses,      \* who is limited: "user:<id>", "ip:<address>"
          Limit, WindowSeconds,  \* the policy of one surface
          Second,                \* ticks of the clock in a second
          MaxEntries,            \* 10,000 in the code
          MaxTime, MaxAdmissions, \* bound the clock, and the admissions of a key
          NoPromise

Keys == Users \cup Addresses
Window == WindowSeconds * Second

VARIABLES
    now,
    redis,      \* "none", or the state of the Redis configured: "up", "down"
    memoryHits, \* the map: key -> the times of its admissions
    admitted,   \* per key, its admissions: when, and how often it was forgotten before
    forgotten,  \* per key, how often the map lost its hits
    promise     \* per key, when its last refusal said to try again

vars == <<now, redis, memoryHits, admitted, forgotten, promise>>

Init ==
    /\ now = 0 /\ redis \in {"none", "up"}
    /\ memoryHits = [k \in {} |-> <<>>]
    /\ admitted = [k \in Keys |-> <<>>]
    /\ forgotten = [k \in Keys |-> 0]
    /\ promise = [k \in Keys |-> NoPromise]

unchanged == UNCHANGED <<now, redis, memoryHits, admitted, forgotten, promise>>

-----------------------------------------------------------------------------
(* One check *)

hitsOf(k) == IF k \in DOMAIN memoryHits THEN memoryHits[k] ELSE <<>>

\* Mutant of recent: windows are laid side by side.
recentFixed(k) == Filter(hitsOf(k), {at \in 0..now : at \div Window = now \div Window})
recent(k) == Filter(hitsOf(k), {at \in 0..now : at > now - Window})

\* ceil(ticks / Second), in whole seconds and at least one.
retryAfterSeconds(ticks) ==
    LET seconds == (ticks + Second - 1) \div Second IN IF seconds < 1 THEN 1 ELSE seconds

cleared == IF Cardinality(DOMAIN memoryHits) > MaxEntries
           THEN [k \in {} |-> <<>>] ELSE memoryHits

allows(k) == Len(recent(k)) < Limit

\* The map is emptied after the caller's own hits were read from it: an admitted
\* caller keeps them, a refused one loses them with everyone else.
checkInMemory(k) ==
    LET next == IF allows(k) THEN Append(recent(k), now) ELSE <<>>
        kept == IF allows(k)
                THEN [x \in DOMAIN cleared \cup {k} |-> IF x = k THEN next ELSE cleared[x]]
                ELSE cleared
    IN  /\ memoryHits' = kept
        /\ forgotten' = [x \in Keys |-> IF x \in DOMAIN memoryHits \ DOMAIN kept
                                        THEN forgotten[x] + 1 ELSE forgotten[x]]
        /\ admitted' = IF allows(k)
                       THEN [admitted EXCEPT ![k] = Append(@, [at |-> now, epoch |-> forgotten[k]])]
                       ELSE admitted
        /\ promise' = [promise EXCEPT ![k] =
                         IF allows(k) THEN NoPromise
                         ELSE now + Second * retryAfterSeconds(recent(k)[1] + Window - now)]
        /\ UNCHANGED <<now, redis>>

\* Redis answers what its own window says, or does not answer and everyone is let in.
checkRedis(k) == unchanged

checkRateLimit(k) ==
    /\ Len(admitted[k]) < MaxAdmissions
    /\ IF redis = "none" THEN checkInMemory(k) ELSE checkRedis(k)

-----------------------------------------------------------------------------
(* The guards in front of it *)

\* A request of `who`: a foreign origin and a stranger are turned away before
\* anybody's tokens are touched (guardAction, the export route, requireUser).
guardAction(who, sameOrigin, signedIn) ==
    IF sameOrigin /\ signedIn THEN checkRateLimit(who) ELSE unchanged

\* Signing in and the like: by address.
guardAnonymous(address, sameOrigin) ==
    IF sameOrigin THEN checkRateLimit(address) ELSE unchanged

Tick == now < MaxTime /\ now' = now + 1
        /\ UNCHANGED <<redis, memoryHits, admitted, forgotten, promise>>

RedisFails == redis # "none" /\ redis' = (IF redis = "up" THEN "down" ELSE "up")
              /\ UNCHANGED <<now, memoryHits, admitted, forgotten, promise>>

Next ==
    \/ \E u \in Users, sameOrigin \in BOOLEAN, signedIn \in BOOLEAN :
          guardAction(u, sameOrigin, signedIn)
    \/ \E a \in Addresses, sameOrigin \in BOOLEAN : guardAnonymous(a, sameOrigin)
    \/ Tick
    \/ RedisFails

-----------------------------------------------------------------------------
(* Properties *)

\* Limit + 1 admissions of a caller are never closer than a window, wherever the
\* window is laid, unless the full map forgot the caller between them
\* (rate-limit.ts, checkInMemory: "sliding rather than fixed").
WindowHolds ==
    \A k \in Keys : \A i \in 1..(Len(admitted[k]) - Limit) :
        LET first == admitted[k][i]
            last == admitted[k][i + Limit]
        IN  first.epoch = last.epoch => last.at - first.at >= Window

\* Who waits as long as the refusal said, is let in (retryAfterSeconds, what the
\* Retry-After header and the messages tell the user).
RetryIsHonest ==
    \A k \in Keys : promise[k] # NoPromise /\ promise[k] <= now => allows(k)

=============================================================================
