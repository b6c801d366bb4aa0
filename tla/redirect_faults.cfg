SPECIFICATION FairSystemSpec
CONSTANTS
    Codes = {c1}
    Destinations = {d1}
    Owners = {alice}
    Times = {0, 1, 2, 3}
    Expirations = {2, 3}
    NoExpiry = NoExpiry
    Resolution = 1
    NoLink = NoLink
    NoEntry = NoEntry
    Requests = {r1, r2}
    Redirects = {h1}
    ActiveTTL = 2
    InactiveTTL = 1
    Latency = 1
    Faults = {"database", "disconnect", "redis", "timeout", "evict"}
INVARIANTS
    SystemTypeOK
    OnlyCommittedMappings
    StalenessBounded
PROPERTIES
    RedirectsAnswered
CHECK_DEADLOCK FALSE
