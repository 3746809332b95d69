\* A stream that ends before its run is shown as a success.
CONSTANTS
    m = m
    n = n
    None = None
    Nodes = {m, n}
    MaxRuns = 1
    MaxUnread = 2
SPECIFICATION Spec
INVARIANTS SuccessShowsOnlySuccesses
CHECK_DEADLOCK FALSE
