SPECIFICATION FairCallerSpec
CONSTANTS
    r1 = r1
    r2 = r2
    w1 = w1
    e1 = e1
    e2 = e2
    Tasks = {t1}
    Requests = {r1}
    Workers = {w1}
    EventIDs = {e1, e2}
    ToolCalls = {}
    None = None
    Expiry = Expiry
    HasRouter = TRUE
    Attempts = {a1}
    Inputs <- EitherInput
    WorkerEvents <- AnswerEvents
    Happens = {"detach", "retention"}
    MaxFaults = 1
    MaxCrashes = 1
    PageLimit = 1
INVARIANT ExactResponse
 
