SPECIFICATION Spec
CONSTANTS
    Tasks = {t1}
    Workers = {w1, w2}
    Handlers = {h1}
    MaxReviewRounds = 1
    FirstRounds = {0, 2}
    EngineStatuses = {"completed"}
    ReviewRequired = {t1}
    SeedRoom <- AmpleSeed
    Decisions = {"approve", "revise"}
    Faults = {}
    Crashable = {}
    MaxRestarts = 0
    Overrun = FALSE
INVARIANT
    QueuedTaskHasJob
CHECK_DEADLOCK FALSE
