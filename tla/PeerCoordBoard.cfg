\* Two terms with standbys and failover; two attempts and two daemon incarnations with claims, rejoins and late reports.
SPECIFICATION MCSpec
CONSTANTS
    None = None
    s1 = s1  s2 = s2  l1 = l1  l2 = l2  w1 = w1
    j1 = j1  i1 = i1  i2 = i2  t1 = t1  t2 = t2
    Peer = {s1, s2}
    Admins = {s1}
    Agent = {l1, l2, w1}
    AgentPeer <- MCAgentPeer
    AgentRole <- MCAgentRole
    MaxActive <- MCMaxActive
    Project = {j1}
    Offers <- MCOffers
    Task = {t1}
    Incarnation = {i1, i2}
    LeaseDuration = 1
    MaxPeers = 2
    MaxAgents = 3
    MaxPendingTasks = 2
    MaxAttempts = 2
    MaxStandbys = 1
    MaxTerm = 2
    MaxVersion = 5
INVARIANTS OpenOffersCurrent CredentialsCurrent RevokedIdle
PROPERTIES VersionFences LeaseNeedsIncarnation
SYMMETRY Sym
CHECK_DEADLOCK FALSE
