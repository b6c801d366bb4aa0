SPECIFICATION ServingSpec
CONSTANTS
    Redirects = {d1}
    Probes = {p1}
    MaxConns = 1
    Configs <- TwoConfigs
INVARIANTS
    ServingTypeOK
    CleanExitCutsNobody
    MetricsAddUp
    AnalyticsAccounted
    DiagnosticsAgree
PROPERTIES
    DrainsThenCloses
CHECK_DEADLOCK FALSE
