SPECIFICATION SystemSpec
CONSTANTS
    Codes = {c1}
    Destinations = {d1}
    Owners = {alice}
    Times = {0, 1, 2, 3, 4}
    Expirations = {}
    NoExpiry = NoExpiry
    Resolution = 1
    NoLink = NoLink
    NoEntry = NoEntry
    Requests = {r1, r2}
    Redirects = {h1, h2}
    ActiveTTL = 2
    InactiveTTL = 2
    Latency = 1
    Faults = {"database", "disconnect"}
SYMMETRY Interchangeable
INVARIANTS
    MutationChangesNextRedirect
PROPERTIES
    DelayedFillsRestoreNothing
CHECK_DEADLOCK FALSE
