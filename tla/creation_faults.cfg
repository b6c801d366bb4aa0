SPECIFICATION CreationSpec
CONSTANTS
    Codes = {c1, c2, c3}
    Destinations = {d1}
    Owners = {alice, bob}
    Times = {0, 2, 4, 5}
    Expirations = {5}
    NoExpiry = NoExpiry
    Resolution = 2
    NoLink = NoLink
    Creations = {x1, x2, x3}
    Keys = {k1}
    NoKey = NoKey
    NoCode = NoCode
    NoCreation = NoCreation
    MaxAttempts = 2
    Faults = {"database", "disconnect"}
SYMMETRY Interchangeable
INVARIANTS
    CreationTypeOK
    SameKeySameCode
    OwnLinkForOwnRequest
    CreatedLinkIsStored
    AtMostOneLinkPerRequest
    KeyConflictHasWinner
CHECK_DEADLOCK FALSE
