\* Two tasks, one of which may wait for the other, on one worker, and what still runs beside the board.
SPECIFICATION HSpec
CONSTANTS
    None = None
    s1 = s1  s2 = s2  l1 = l1  l2 = l2  w1 = w1
    j1 = j1  i1 = i1  i2 = i2  t1 = t1  t2 = t2
    Peer = {s1}
    Admins = {s1}
    Agent = {l1, w1}
    AgentPeer <- MCAgentPeer
    AgentRole <- MCAgentRole
    MaxActive <- MCMaxActive
    Project = {j1}
    Offers <- MCOffers
    Task = {t1, t2}
    Incarnation = {i1}
    LeaseDuration = 1
    MaxPeers = 2
    MaxAgents = 3
    MaxPendingTasks = 2
    MaxAttempts = 2
    MaxStandbys = 0
    MaxTerm = 1
    MaxVersion = 4
INVARIANTS OneExecution DepsComplete CapacityRespected
PROPERTIES ImplementsLifecycle
SYMMETRY Sym
CHECK_DEADLOCK FALSE
