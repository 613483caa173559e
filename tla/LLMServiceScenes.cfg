SPECIFICATION SceneSpec
CONSTANTS
    Scenes = {"session", "chat", "retries", "restart"}
    r1 = r1
    r2 = r2
    w1 = w1
    w2 = w2
    e1 = e1
    e2 = e2
    c1 = c1
    c2 = c2
    t1 = t1
    Tasks = {t1, t2}
    Requests = {r1, r2}
    Workers = {w1}
    EventIDs = {e1, e2}
    ToolCalls = {c1, c2}
    None = None
    Expiry = Expiry
    HasRouter = TRUE
    Attempts = {a1, a2}
    Inputs <- SceneInputs
    WorkerEvents <- ToolEvents
    Happens = {"expiry", "retention"}
    MaxFaults = 1
    MaxCrashes = 1
SYMMETRY Symmetry
INVARIANT HandlersAreSound
PROPERTY ImplementsLedger
