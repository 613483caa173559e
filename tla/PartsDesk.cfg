SPECIFICATION PartsSpec
CONSTANTS
    Running = {"desk"}
    Tasks = {t1}
    Requests = {r1, r2}
    Workers = {w1}
    EventIDs = {e1, e2}
    ToolCalls = {c1}
    None = None
    MaxLog = 2
    DeskTasks <- Conversations
    DeskTurns = 3
    DeskContents = {0, 1, 2}
    DeskParked = 1
    DeskRoots = {1, 2}
    DeskBudgets <- Desks
    ShimProcs = {1, 2}
    ShimPaths = {1, 2}
    ShimContents = {1, 2}
    ShimScenes <- Shims
    Appliers = {1, 2}
    ApplyIds = {"a", "b"}
    ApplyIntents = {"i", "j"}
    ApplyBudget <- Purses
    StoreHands = {1, 2}
    StoreScenes <- Stores
    AgendaScenes <- Agendas
    Workspaces = {1, 2}
    FrontScenes <- Fronts
    Crew = {1, 2}
    BridgeScenes <- Bridges
    StackScenes <- Stacks
    RestoreScenes <- Trials
CONSTRAINT ShortLogs
CHECK_DEADLOCK FALSE
INVARIANT NoHiddenEdit
