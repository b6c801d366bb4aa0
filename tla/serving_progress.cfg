SPECIFICATION FairServingSpec
CONSTANTS
    Redirects = {d1}
    Probes = {p1}
    MaxConns = 1
    Configs <- Uncached
PROPERTIES
    ShutdownTerminates
    RedirectsEnd
    ProbesEnd
CHECK_DEADLOCK FALSE
