SPECIFICATION FairManagementSpec
CONSTANTS
    Codes = {c1}
    Destinations = {d1, d2}
    Owners = {alice}
    Times = {0, 3, 4, 5, 6}
    Expirations = {5}
    NoExpiry = NoExpiry
    Resolution = 3
    NoLink = NoLink
    Requests = {r1, r2, r3}
    Faults = {}
PROPERTIES
    UpdatesMakeProgress
CHECK_DEADLOCK FALSE
