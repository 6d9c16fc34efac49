SPECIFICATION Spec
CONSTANTS
    a = a
    b = b
    path1 = path1
    path2 = path2
    Senders = {s1, s2}
    messageQueueSize = 2
    messageBatchSize = 2
    messagePriorityBurst = 2
    messageEvictAttempts = 2
    Writers = {w1, w2}
    FrameSize = 3
    MaxFrames = 4
    Requests = {r1, r2}
    MaxTotal = 2
    CloseRetries = 1
    MaxSeq = 2
    Pumps = {1, 2, 3}
    LogBuffer = 2
    StateQueueSize = 1
    Budget = 4
    Actors = {x1, x2}
    Conns = {1}
    Policies <- MCPolicies
    PolicyEpochs = 3
    Ids = {x1, x2}
    Urls <- MCUrls
    Headers = {{"agent"}}
    maxConcurrent = 1
    maxRedirects = 2
    wireLimit = 1
    maxBytes = 1
    Callers = {1, 2, 3}
    Geos = {"geo"}
    Providers = {"provider"}
    probeConcurrency = 1
    MaxDials = 2
    ProbeEpochs = 1
    Sources = 3
    lookupConcurrency = 2
    LookupEpochs = 1
    Services = {a, b}
    Wanted <- MCWanted
    checkConcurrency = 1
    Nodes = 3
    Slots = 2
    Rivals = 2
    Order <- MCOrder
    Inodes = {n1, n2}
INVARIANTS
    QueuesAreFair
    FramesAreWhole
    TrafficIsReported
    LoggerIsNotWedged
    WatchAgrees
    
    LifecycleIsFollowed
    
    FetchIsContained
    ClaimHasItsOwner
    ProbeTellsItsRoute
    RaceIsFair
    NewestCheckStands
    BalancerAnswerIsWhole
    
    CoreIsAnchored
CHECK_DEADLOCK FALSE
