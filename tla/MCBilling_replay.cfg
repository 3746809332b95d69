SPECIFICATION FairSpec
CONSTANTS
    alice = alice
    bob = bob
    w1 = w1
    h1 = h1
    h2 = h2
    h3 = h3
    q1 = q1
    q2 = q2
    q3 = q3
    NoWorkspace = NoWorkspace
    Nobody = Nobody
    Users = {alice, bob}
    Workspaces = {}
    Hashes = {h1}
    Requests = {q1, q2, q3}
    Tx <- OneTx
    Offers <- ProOnly
    MonthlyDays = 1
    AnnualDays = 2
    MaxNow = 1
    MaxFaults = 2
INVARIANTS
    OneGrantPerPayment
    AnswersAreTrue
PROPERTIES
    SettledForGood
    LedgerSpec
    EveryRequestAnswered
\* The requests are finitely many and the clock is bounded: the system stops.
CHECK_DEADLOCK FALSE
