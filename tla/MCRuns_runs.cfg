\* Every document of MCExecutor, with a server that may answer, fail or hang; a
\* panel with two runs that may overlap, and connections that end in any way.
CONSTANTS
    a = a
    b = b
    c = c
    d = d
    s1 = s1
    s2 = s2
    PanelNodes = {m, n}
    None = None
    Nodes = {a, b, c, d}
    Servers = {s1, s2}
    Graphs <- AllGraphs
    MaxSteps = 3
    MaxRun = 3
    ConnectLimit = 1
    CallLimit = 2
    MaxRuns = 2
    MaxUnread = 1
SPECIFICATION RunsSpec
INVARIANTS FedByEverySource NothingLeftOpen RunIsToldOnce
    PanelFollowsItsRun
PROPERTIES RunStopsInTime StreamSpec EngineEnds RunSettles
CHECK_DEADLOCK FALSE
