SPECIFICATION Spec
CONSTANTS
    Old = {"p"}
    Young = {"q"}
    Images = {"a", "b"}
    FirstImage = "a"
    NoImage = ""
    Files = {"f1", "f2", "f3"}
    Truncated = {"f3"}
    Domains = {"d1", "d2", "local"}
    Ignored = {"local"}
    StartScopes = {"host"}
    Acts <- MCActs
    RingSize = 1
    QueueSize = 1
    MaxSamples = 5
    MaxAncestorDepth = 1
    DedupLimit = 2
    DomainCap = 1
    ProcessCap = 1
    HostRules <- MCHostRules
    ProjectRules <- MCProjectRules
INVARIANTS SuppressibleWasDelivered DeliveredAreEvaluated AttributionExact  CorrelationsOneShot ObservationsAccounted
PROPERTIES DedupFIFO 
CHECK_DEADLOCK FALSE
