SPECIFICATION Spec
CONSTANTS
    alice = alice
    bob = bob
    w1 = w1
    h1 = h1
    h2 = h2
    h3 = h3
    q1 = q1
    q2 = q2
    q3 = q3
    NoWorkspace = NoWorkspace
    Nobody = Nobody
    Users = {alice, bob}
    Workspaces = {w1}
    Hashes = {h1, h2, h3}
    Requests = {q1, q2}
    Tx <- GrantTx
    Offers <- TeamOrYear
    MonthlyDays = 1
    AnnualDays = 2
    MaxNow = 2
    MaxFaults = 0
INVARIANTS
    EntitlementIsEarned
    RejectedForAReason
    GrantedWasPaid
PROPERTIES
    PaidTimeIsKept
SYMMETRY Alike
\* The requests are finitely many and the clock is bounded: the system stops.
CHECK_DEADLOCK FALSE
