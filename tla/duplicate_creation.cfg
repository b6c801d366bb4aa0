SPECIFICATION CreationSpec
CONSTANTS
    Codes = {c1, c2}
    Destinations = {d1}
    Owners = {alice}
    Times = {0, 1, 2}
    Expirations = {2}
    NoExpiry = NoExpiry
    Resolution = 1
    NoLink = NoLink
    Creations = {x1, x2}
    Keys = {k1}
    NoKey = NoKey
    NoCode = NoCode
    NoCreation = NoCreation
    MaxAttempts = 2
    Faults = {}
INVARIANTS
    OneLinkPerKey
CHECK_DEADLOCK FALSE
