------------------------------- MODULE PriceFeed -------------------------------
(***************************************************************************)
(* The crypto prices of the billing page and of the judgement of a payment:*)
(* one cache and one request in flight for everyone who asks.              *)
(***************************************************************************)
EXTENDS Integers, FiniteSets

CONSTANTS Callers, Currencies,
          CacheTtl, Timeout,   \* ticks
          MaxTime, MaxRequests, \* bound the clock and the requests made
          None

VARIABLES
    now,
    cache,     \* None, or the rates kept: [at, read, rates], when they were stored,
               \* when the feed had them and for which currencies
    inFlight,  \* None, or the request that misses join
    requests,  \* the requests made: [since, read, open]
    waiting,   \* per caller, the request awaited, or None
    served     \* per caller, the rates it got last: [age, rates], or None

vars == <<now, cache, inFlight, requests, waiting, served>>

Init ==
    /\ now = 0 /\ cache = None /\ inFlight = None
    /\ requests = [r \in {} |-> None]
    /\ waiting = [c \in Callers |-> None] /\ served = [c \in Callers |-> None]

-----------------------------------------------------------------------------

\* Mutant of fresh: the last tick counts.
freshAtTheLimit == cache # None /\ now - cache.at <= CacheTtl
fresh == cache # None /\ now - cache.at < CacheTtl

newRequest == Cardinality(DOMAIN requests) + 1

\* getRates: the cache, the request in flight, or a new one.
getRates(c) ==
    /\ waiting[c] = None
    /\ IF fresh
       THEN /\ served' = [served EXCEPT ![c] = [age |-> now - cache.read, rates |-> cache.rates]]
            /\ UNCHANGED <<waiting, requests, inFlight>>
       ELSE IF inFlight # None
       THEN waiting' = [waiting EXCEPT ![c] = inFlight] /\ UNCHANGED <<served, requests, inFlight>>
       ELSE /\ Cardinality(DOMAIN requests) < MaxRequests
            /\ requests' = [r \in DOMAIN requests \cup {newRequest} |->
                              IF r = newRequest THEN [since |-> now, read |-> None, open |-> TRUE]
                                                ELSE requests[r]]
            /\ inFlight' = newRequest
            /\ waiting' = [waiting EXCEPT ![c] = newRequest]
            /\ UNCHANGED served
    /\ UNCHANGED <<now, cache>>

\* The feed reads its prices, some time before its answer is here.
FeedReads(r) ==
    /\ requests[r].open /\ requests[r].read = None
    /\ requests' = [requests EXCEPT ![r].read = now]
    /\ UNCHANGED <<now, cache, inFlight, waiting, served>>

\* The request ends; who awaited it goes on.
settle(r) ==
    /\ requests' = [requests EXCEPT ![r].open = FALSE]
    /\ inFlight' = None
    /\ waiting' = [c \in Callers |-> IF waiting[c] = r THEN None ELSE waiting[c]]
    /\ UNCHANGED now

\* An answer with a usable rate, for one currency at least, is kept and handed to
\* all who joined.
Answered(r, rates) ==
    /\ requests[r].open /\ requests[r].read # None /\ rates # {}
    /\ cache' = [at |-> now, read |-> requests[r].read, rates |-> rates]
    /\ served' = [c \in Callers |-> IF waiting[c] = r
                                    THEN [age |-> now - requests[r].read, rates |-> rates]
                                    ELSE served[c]]
    /\ settle(r)

\* An error status, no usable rate, the network or the abort: nobody is served,
\* nothing is kept.
Failed(r) ==
    /\ requests[r].open
    /\ served' = [c \in Callers |-> IF waiting[c] = r THEN None ELSE served[c]]
    /\ settle(r) /\ UNCHANGED cache

\* The abort timer is due on time.
Tick ==
    /\ now < MaxTime
    /\ \A r \in DOMAIN requests : requests[r].open => now < requests[r].since + Timeout
    /\ now' = now + 1 /\ UNCHANGED <<cache, inFlight, requests, waiting, served>>

Next ==
    \/ \E c \in Callers : getRates(c)
    \/ \E r \in DOMAIN requests :
         \/ FeedReads(r) \/ Failed(r)
         \/ \E rates \in SUBSET Currencies : Answered(r, rates)
    \/ Tick

-----------------------------------------------------------------------------
(* Properties *)

\* A price that is not known is told as null.
getUsdRate(c, currency) == served[c] # None /\ currency \in served[c].rates

\* The rate a payment is quoted or judged by was the feed's less than a period
\* and a request ago; a currency that the feed left out is unknown for no longer,
\* and only while another is known: an answer with none is not kept, "caching it
\* would suppress retries" (price.ts:72); and however many ask at once, the feed is
\* asked once (getRates and inFlight).
RateIsRecent ==
    /\ \A c \in Callers : served[c] # None =>
         /\ served[c].age < CacheTtl + Timeout
         /\ \E currency \in Currencies : getUsdRate(c, currency)
    /\ Cardinality({r \in DOMAIN requests : requests[r].open}) <= 1

=============================================================================
