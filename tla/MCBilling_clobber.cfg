SPECIFICATION Spec
CONSTANTS
    alice = alice
    bob = bob
    w1 = w1
    h1 = h1
    h2 = h2
    h3 = h3
    q1 = q1
    q2 = q2
    q3 = q3
    NoWorkspace = NoWorkspace
    Nobody = Nobody
    Users = {alice}
    Workspaces = {}
    Hashes = {h1, h2}
    Requests = {q1, q2}
    Tx <- TwoTx
    Offers <- ProOnly
    MonthlyDays = 1
    AnnualDays = 2
    MaxNow = 1
    MaxFaults = 0
PROPERTIES
    PeriodSurvivesStatusChange
\* The requests are finitely many and the clock is bounded: the system stops.
CHECK_DEADLOCK FALSE
