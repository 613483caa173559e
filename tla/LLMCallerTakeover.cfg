SPECIFICATION CallerSpec
CONSTANTS
    r1 = r1
    r2 = r2
    w1 = w1
    e1 = e1
    e2 = e2
    Tasks = {t1}
    Requests = {r1, r2}
    Workers = {w1}
    EventIDs = {e1, e2}
    ToolCalls = {}
    None = None
    Expiry = Expiry
    HasRouter = TRUE
    Attempts = {a1, a2}
    Inputs <- SessionInputs
    WorkerEvents <- NoEvents
    Happens = {"detach"}
    MaxFaults = 0
    MaxCrashes = 0
    PageLimit = 1
SYMMETRY Symmetry
PROPERTY OnlyAbandonedSuperseded
