SPECIFICATION SceneSpec
CONSTANTS
    t1 = t1
    t2 = t2
    ws1 = ws1
    w1 = w1
    w2 = w2
    x1 = x1
    x2 = x2
    b1 = b1
    MaxFence = 3
    MaxRevision = 5
    Tasks = {t1, t2}
    Workspaces = {ws1}
    WorkspaceOf <- OneWorkspace
    Workers = {w1, w2}
    Artifacts = {x1, x2}
    Bases = {b1}
    IDs <- AllIDs
    Commands <- LinkCommands
    Watched <- LeaseIDs
    MaxInt64 = 4
    None = None
    ClaimIDs = {"poll1", "poll2"}
    Replies <- HumanReplies
    AssignmentBuffer = 1
    JournalLimit = 2
    MaxFaults = 1
INVARIANTS CommandsAreSound OneChain 
PROPERTIES TasksFinal WorkIsDelivered
