SPECIFICATION SystemSpec
CONSTANTS
    Codes = {c1}
    Destinations = {d1}
    Owners = {alice}
    Times = {0, 1, 2, 3, 4}
    Expirations = {3}
    NoExpiry = NoExpiry
    Resolution = 1
    NoLink = NoLink
    NoEntry = NoEntry
    Requests = {r1}
    Redirects = {h1}
    ActiveTTL = 2
    InactiveTTL = 2
    Latency = 1
    Faults = {}
INVARIANTS
    MutationChangesNextRedirect
CHECK_DEADLOCK FALSE
