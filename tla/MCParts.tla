-------------------------------- MODULE MCParts --------------------------------
(***************************************************************************)
(* The parts of the system that share no state with the rest, each by      *)
(* itself: a behaviour is one of one part, chosen in the initial state.    *)
(***************************************************************************)
EXTENDS Integers, Sequences, SequencesExt, FiniteSets, TLC

CONSTANTS
    Payloads, MaxWrites,                                           \* SseFrames
    Users, Addresses, Limit, WindowSeconds, Second, MaxEntries,    \* RateLimiter
    MaxAdmissions, NoPromise,
    Callers, Currencies, CacheTtl, Timeout, MaxRequests,           \* PriceFeed
    Urls, ConnectTimeout, TotalTimeout, MAX_REDIRECTS, MaxDelay,   \* Introspection
    Bits,                                                          \* Addresses
    MaxMoves, MaxAmount,                                           \* ChainLookup
    MaxLoads,                                                      \* ExportPanel
    Workspaces, MaxSeats, MaxClicks,                               \* BillingPanel
    People, Passwords, Initial, Browsers, MaxSessions, Requests,   \* Sessions
    Saved, Typed, MaxAttempts,                                     \* ServerDialog
    MaxTime, None

VARIABLES part, now,
    written, wire, buffer, applied, state,
    redis, memoryHits, admitted, forgotten, promise,
    cache, inFlight, requests, waiting, served,
    phase, opened, until, fetching, dials, transport, answer,
    address, lookup,
    open, target, document, loads, loading, error, files, copying, made, heard,
    params, navigating, card, result, submission, statusRead, sub, clicks, actives, crossed, administered,
    account, sessions, live, cookie, codes, request, known, revokedTo,
    dialog, underWay, timers, coldTimer, servers, attempts, strayed

\* JSON on one line has no line feed in it. Ten and thirty seconds, five redirects,
\* rates kept for a while, some admissions in some seconds; None is no account, no
\* verdict and no time.
ASSUME PartsAssumption ==
    /\ Payloads \cap {"\n", "keepalive"} = {}
    /\ ConnectTimeout \in Nat /\ TotalTimeout \in Nat /\ MAX_REDIRECTS \in Nat
    /\ CacheTtl \in Nat \ {0} /\ Timeout \in Nat
    /\ Limit \in Nat \ {0} /\ WindowSeconds \in Nat \ {0} /\ Second \in Nat \ {0}
    /\ MaxSessions \in Nat /\ None \notin People \cup {"verified"} /\ None \notin Nat

Sse == INSTANCE SseFrames
Limits == INSTANCE RateLimiter
Prices == INSTANCE PriceFeed
Introspect == INSTANCE Introspection
Exports == INSTANCE ExportPanel
Bills == INSTANCE BillingPanel
Accounts == INSTANCE Sessions WITH Users <- People
Dialogs == INSTANCE ServerDialog

\* Four bytes of two bits: the whole of the first byte, halves of one, a single
\* address, a range up to the last address.
Blocked4 == {[base |-> 0, bits |-> 2], [base |-> 80, bits |-> 4], [base |-> 160, bits |-> 3],
             [base |-> 201, bits |-> 8], [base |-> 252, bits |-> 6]}
Blocked6 == {[base |-> <<12, 0, 0, 0, 0, 0, 0, 0>>, bits |-> 2],
             [base |-> <<2, 1, 0, 0, 0, 0, 0, 0>>, bits |-> 8],
             [base |-> <<1, 0, 0, 0, 0, 0, 0, 0>>, bits |-> 16]}
Embedding == {<<0, 0, 0, 0, 0, 0>>, <<0, 0, 0, 0, 0, 15>>, <<0, 0, 0, 0, 15, 0>>,
              <<6, 4, 15, 9, 0, 0>>}
Url == INSTANCE Addresses WITH Nothing <- None
Chain == INSTANCE ChainLookup WITH Malformed <- None

ASSUME ChainAssumption ==
    /\ MaxMoves \in Nat /\ MaxAmount \in Nat
    /\ \A tx \in Chain!Transactions, at \in Chain!Stages, fault \in Chain!Faults :
         Chain!Distinguished(tx, at, fault)

sseVars == <<written, wire, buffer, applied, state>>
limitVars == <<redis, memoryHits, admitted, forgotten, promise>>
priceVars == <<cache, inFlight, requests, waiting, served>>
introspectVars == <<phase, opened, until, fetching, dials, transport, answer>>
exportVars == <<open, target, document, loads, loading, error, files, copying, made, heard>>
billingVars == <<params, navigating, card, result, submission, statusRead, sub, clicks, actives,
                 crossed, administered>>
sessionVars == <<account, sessions, live, cookie, codes, request, known, revokedTo>>
dialogVars == <<dialog, underWay, timers, coldTimer, servers, attempts, strayed>>
served_ == <<sseVars, limitVars, priceVars, introspectVars>>
shown_ == <<exportVars, billingVars, sessionVars, dialogVars>>

\* The parts that are not looked at have one initial state.
Init ==
    /\ part \in {"frames", "limits", "prices", "introspect", "urls", "export", "billing", "accounts",
                "dialog", "chain"}
    /\ Sse!Init /\ Limits!Init /\ Prices!Init /\ Introspect!Init
    /\ Exports!Init /\ Bills!Init /\ Accounts!Init /\ Dialogs!Init
    /\ address \in (IF part = "urls" THEN [1..4 -> 0..3] ELSE {<<0, 0, 0, 0>>})
    /\ IF part = "chain"
       THEN \E tx \in Chain!Transactions, at \in Chain!Stages, fault \in Chain!Faults :
              lookup = [tx |-> tx, at |-> at, fault |-> fault]
       ELSE lookup = None
    /\ part # "limits" => redis = "none"
    /\ part # "billing" => administered = {} /\ sub.status = "none"
    /\ part # "accounts" => \A u \in People : account[u].state = "absent"

Server ==
    \/ part = "frames" /\ Sse!Next /\ UNCHANGED <<now, limitVars, priceVars, introspectVars>>
    \/ part = "limits" /\ Limits!Next /\ UNCHANGED <<sseVars, priceVars, introspectVars>>
    \/ part = "prices" /\ Prices!Next /\ UNCHANGED <<sseVars, limitVars, introspectVars>>
    \/ part = "introspect" /\ Introspect!Next /\ UNCHANGED <<sseVars, limitVars, priceVars>>
Shown ==
    \/ part = "export" /\ Exports!Next /\ UNCHANGED <<billingVars, sessionVars, dialogVars>>
    \/ part = "billing" /\ Bills!Next /\ UNCHANGED <<exportVars, sessionVars, dialogVars>>
    \/ part = "accounts" /\ Accounts!Next /\ UNCHANGED <<exportVars, billingVars, dialogVars>>
    \/ part = "dialog" /\ Dialogs!Next /\ UNCHANGED <<exportVars, billingVars, sessionVars>>
Next ==
    /\ UNCHANGED <<part, address, lookup>>
    /\ \/ Server /\ UNCHANGED shown_
       \/ Shown /\ UNCHANGED <<now, served_>>
Spec == Init /\ [][Next]_<<part, now, served_, shown_, address, lookup>>

\* Accounts and the requests on them are interchangeable.
Alike == Permutations(People) \cup Permutations(Requests)

-----------------------------------------------------------------------------
(* The modules say what each of these is about. *)

\* What the browser applied is what the engine sent, in order and whole, however
\* the chunks were cut, and nothing that arrived is held back (SseFrames).
EventsAreRead == Sse!EventsInOrder /\ Sse!NothingHeldBack

\* No window admits more than the limit to a caller the map did not forget, and
\* waiting as told is enough (RateLimiter).
LimiterIsHonest == Limits!WindowHolds /\ Limits!RetryIsHonest

\* Rates are fresh and asked for once at a time (PriceFeed).
RateIsRecent == Prices!RateIsRecent

\* A payment is accepted or refused for what the chain says of it, but for answers
\* whose silence is taken for a no (ChainLookup), and its worth judged by a rate
\* that is recent.
PaymentsAreReadRight ==
    /\ RateIsRecent
    /\ part = "chain" => Chain!NothingReadBackwards(lookup.tx, lookup.at, lookup.fault)

\* Every transport is closed before the answer, the total bounds what a server
\* can hold, and each redirect is vetted (Introspection).
IntrospectionLetsGo ==
    Introspect!NothingLeftBehind /\ Introspect!ServerWaitsEnd /\ Introspect!EveryHopIsVetted

\* No panel waits for a request that is not under way or shows what nobody answered.
\* And the export dialog shows what was answered for what is chosen, unless an older
\* answer overtook it; the card says of a verified payment what was bought, unless a
\* status read crossed it; and the dialog that connects a server speaks of its own
\* attempt, unless it was closed over one (ExportPanel, BillingPanel, ServerDialog).
PanelsFollowTheirAnswers ==
    /\ Exports!FilesAreOfTheTarget
    /\ Bills!CardSpeaksForTheServer
    /\ Dialogs!DialogSpeaksOfItsAttempt

\* Accounts go, and passwords change, by the hand of who knows them; sessions
\* that were signed out stay out (Sessions).
HoldersOnly == Accounts!OnlyTheHolder /\ []Accounts!SignedOutStaysOut

(* Which URLs may be dialled *)

number(bytes, base) == FoldLeft(LAMBDA n, b : n * base + b, 0, bytes)
reserved(bytes) ==
    LET n == number(bytes, 4)
    IN  \E r \in Blocked4 : r.base <= n /\ n < r.base + 2 ^ (8 - r.bits)

\* The ways to write the four bytes down: in one to four numbers, each in its radix
\* (one for all when there are more than two).
digitsOf(n, radix) ==
    LET k == CHOOSE k \in 1..4 : n < radix ^ k /\ (k = 1 \/ n >= radix ^ (k - 1))
    IN  [i \in 1..k |-> (n \div radix ^ (k - i)) % radix]
part4(n, radix) == [prefix |-> IF radix = 16 THEN "0x" ELSE IF radix = 8 THEN "0" ELSE "",
                    digits |-> digitsOf(n, radix)]
radices(n) ==
    {r \in [1..n -> {8, 10, 16}] : n > 2 => \A i \in 1..n : r[i] = r[1]}
v4(numbers, r) == [kind |-> "v4", parts |-> [i \in DOMAIN numbers |-> part4(numbers[i], r[i])]]
dotted(a) == v4(a, <<10, 10, 10, 10>>)
shortened(a) ==
    UNION {{v4(SubSeq(a, 1, n - 1) \o <<number(SubSeq(a, n, 4), 4)>>, r) : r \in radices(n)} : n \in 1..4}
v6(head, rest, compressed, tail) ==
    [kind |-> "v6", text |-> [head |-> head, rest |-> rest, compressed |-> compressed, tail |-> tail]]
groups(a) == <<a[1] * 4 + a[2], a[3] * 4 + a[4]>>
wrapped(a) ==
    UNION {{v6(p, <<>>, FALSE, a), v6(p \o groups(a), <<>>, FALSE, <<>>)} : p \in Embedding}
      \cup {v6(<<>>, <<15>>, TRUE, a), v6(<<>>, groups(a), TRUE, <<>>),
            v6(<<6, 4, 15, 9>>, groups(a), TRUE, <<>>), v6(<<>>, <<15, 0>>, TRUE, a)}
spellings(a) == shortened(a) \cup wrapped(a)

\* The bytes as four groups of an IPv6 address of their own.
native(a) == v6(<<a[1] * 4 + a[2], a[3] * 4 + a[4]>>, <<1>>, TRUE, <<>>)
bit(g, i) == (g \div (2 ^ (4 - i))) % 2
bitsOf(gs) == [i \in 1..32 |-> bit(gs[(i + 3) \div 4], ((i - 1) % 4) + 1)]
reserved6(gs) == \E r \in Blocked6 : \A i \in 1..r.bits : bitsOf(gs)[i] = bitsOf(r.base)[i]

name(internal) == [kind |-> "name", internal |-> internal]
url(host) == [protocol |-> "https:", credentials |-> FALSE, port |-> 443, host |-> host]
others == {<<1, 3, 3, 3>>, <<2, 2, 0, 0>>, <<3, 0, 2, 1>>}

\* However an address is written, and whichever name stands for it alone or among
\* others, its URL is allowed exactly when no address behind it is reserved
\* (ssrf.ts:1-16: ranges are matched numerically, every address is checked).
SpellingDoesNotMatter ==
    part = "urls" =>
        /\ \A s \in spellings(address) :
             /\ (Url!assertUrlAllowed(url(s), <<>>, FALSE) = "allowed") = ~reserved(address)
             /\ \A o \in others : \A r \in {<<s, dotted(o)>>, <<dotted(o), s>>} :
                  (Url!assertUrlAllowed(url(name(FALSE)), r, FALSE) = "allowed")
                     = (~reserved(address) /\ ~reserved(o))
        /\ LET gs == groups(address) \o <<0, 0, 0, 0, 0, 1>> IN
             SubSeq(gs, 1, 6) \notin Embedding =>
                (Url!assertUrlAllowed(url(native(address)), <<>>, FALSE) = "allowed") = ~reserved6(gs)

=============================================================================
