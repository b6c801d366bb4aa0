SPECIFICATION FairMigrationsSpec
CONSTANTS
    Migrators = {p1, p2}
    Versions = {1, 2, 3}
    a = a
    b = b
    Contents = {a, b}
    Releases <- FewReleases
    NoContents = NoContents
    NoMigrator = NoMigrator
    Faults = {"database", "kill"}
INVARIANTS
    MigrationsTypeOK
    AppliedOnce
    AppliedInOrder
    PendingStaysPending
    AnswersAreTrue
PROPERTIES
    MigratorsFinish
CHECK_DEADLOCK FALSE
