SPECIFICATION Spec
CONSTANTS
    Requests <- SomeRequests
    Stray <- Banned
    Regions = {"lines", "one", "words"}
    MaxGenerations = 2
INVARIANTS
    PassesExactlyWhenNamed
    PassedShowsCopy
    NoForbiddenPassed
CHECK_DEADLOCK FALSE
