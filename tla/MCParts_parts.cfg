\* Three writes cut anywhere; a limit of two in two seconds, two callers and
\* room for one; two payers and a page; two redirects;
\* three loads; four clicks; two accounts with three sessions;
\* three attempts to connect; two outputs or logs of at most two units.
CONSTANTS
    Payloads = {"p", "q"}
    MaxWrites = 3
    Users = {u1}
    Addresses = {a1}
    Limit = 2
    WindowSeconds = 2
    Second = 2
    MaxEntries = 1
    MaxAdmissions = 3
    NoPromise = NoPromise
    Callers = {page, judge}
    Currencies = {ether, tether}
    CacheTtl = 3
    Timeout = 2
    MaxRequests = 3
    Urls = {v1, v2}
    ConnectTimeout = 2
    TotalTimeout = 4
    MAX_REDIRECTS = 2
    MaxDelay = 6
    Bits = 2
    MaxTime = 8
    None = None
    MaxMoves = 2
    MaxAmount = 2
    MaxLoads = 3
    Workspaces = {w1}
    MaxSeats = 3
    MaxClicks = 4
    People = {x, y}
    Passwords = {k1, k2}
    Initial = k1
    Browsers = {b1}
    MaxSessions = 3
    Requests = {r1, r2}
    Saved = {c1}
    Typed = {t1, t2}
    MaxAttempts = 3
SPECIFICATION Spec
INVARIANTS EventsAreRead LimiterIsHonest PaymentsAreReadRight IntrospectionLetsGo
    SpellingDoesNotMatter PanelsFollowTheirAnswers
PROPERTIES HoldersOnly
SYMMETRY Alike
CHECK_DEADLOCK FALSE
