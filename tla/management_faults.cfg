SPECIFICATION ManagementSpec
CONSTANTS
    Codes = {c1}
    Destinations = {d1, d2}
    Owners = {alice, bob}
    Times = {0, 3, 4, 5, 6, 8}
    Expirations = {5, 8}
    NoExpiry = NoExpiry
    Resolution = 3
    NoLink = NoLink
    Requests = {r1, r2, r3}
    Faults = {"database", "disconnect"}
SYMMETRY Interchangeable
INVARIANTS
    ManagementTypeOK
    StoredLinksRehydrate
    ETagIdentifiesRow
    OneWriterPerVersion
    ConflictHasWinner
PROPERTIES
    AtomicMutations
    LinksMoveForward
CHECK_DEADLOCK FALSE
