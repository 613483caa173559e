SPECIFICATION MCFairSpec
CONSTANTS
    k1 = k1  k2 = k2  k3 = k3  t1 = t1  t2 = t2  d1 = d1  d2 = d2  w1 = w1  tc = tc  s1 = s1
    None = None
    Tasks = {t1, t2}
    Keys = {k1, k2, k3}
    Digests = {d1, d2}
    Workers = {w1}
    Worker = w1
    Events <- MCEvents
    ToolCalls = {tc}
    Sessions = {s1}
    SessionOf <- MCSessionOf
    Calls <- MCCalls
    Chat = {t2}
    CallsOf <- MCCallsOf
    Answers <- MCEvents
    KeyOrder <- MCKeyOrder
    Capacity = 2
    Generations = 2
    MaxFaults = 1
    MaxBeats = 1
    DamageSettled = FALSE
    Scenes = {"links", "turns", "stops", "grants", "chats"}
CHECK_DEADLOCK FALSE
INVARIANTS RequestsAreSound AckImpliesDurable  
  
