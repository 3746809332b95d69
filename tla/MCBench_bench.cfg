\* Two members, an outsider and two requests; two editors and two edits.
CONSTANTS
    Unborn = Unborn
    Gone = Gone
    None = None
    Users = {ann, bob, eve}
    Fellows = {ann, bob}
    Admins = {ann}
    Targets = {old, new}
    Credentials = {k1}
    Requests = {p1, p2}
    Editors = {p1, p2}
    Ids = {1, 2, 3, 4}
    s1 = s1
    t1 = t1
    t2 = t2
    whole = whole
    Servers = {s1}
    Tools = {t1, t2}
    Outputs = {whole, part1}
    Pointers = {field}
    MaxNodes = 2
    MaxEdits = 2
    Deleted = Deleted
    ServerOf <- Home
    Fits <- Feeds
    Existing <- Stored
SPECIFICATION BenchSpec
INVARIANTS PadlockTellsTheTruth ToolsAreOfTheTarget OutsidersWriteTheirOwn
    DocumentsAreStored
PROPERTIES SavedMeansStored HistoryOnlyGrows
SYMMETRY Alike
CHECK_DEADLOCK FALSE
