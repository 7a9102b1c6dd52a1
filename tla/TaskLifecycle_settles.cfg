SPECIFICATION FairSpec
CONSTANTS
    Tasks = {t1, t2}
    Workers = {w1}
    Handlers = {h1}
    MaxReviewRounds = 1
    FirstRounds = {0, 2}
    EngineStatuses = {"completed"}
    ReviewRequired = {t1}
    SeedRoom <- AmpleSeed
    Decisions = {"approve", "revise"}
    Faults = {"execute", "provenance", "experience"}
    Crashable = {}
    MaxRestarts = 0
    Overrun = FALSE
PROPERTIES
    Settles
CHECK_DEADLOCK FALSE
