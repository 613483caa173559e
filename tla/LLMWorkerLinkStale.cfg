SPECIFICATION LinkSpec
CONSTANTS
    r1 = r1
    r2 = r2
    w1 = w1
    e1 = e1
    e2 = e2
    Tasks = {t1}
    Requests = {r1}
    Workers = {w1}
    EventIDs = {e1, e2}
    ToolCalls = {}
    None = None
    Expiry = Expiry
    HasRouter = TRUE
    Attempts = {a1, a2}
    Inputs <- OneInput
    WorkerEvents <- FinalEvent
    Happens = {}
    MaxFaults = 0
    MaxCrashes = 0
    JournalLimit = 3
    MaxDrops = 0
INVARIANT StaleAssignmentHarmless
