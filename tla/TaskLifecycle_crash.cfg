SPECIFICATION Spec
CONSTANTS
    Tasks = {t1, t2}
    Workers = {w1, w2}
    Handlers = {h1}
    MaxReviewRounds = 1
    FirstRounds = {0}
    EngineStatuses = {"completed"}
    ReviewRequired = {t2}
    SeedRoom <- TopSeed
    Decisions = {"approve", "revise"}
    Faults = {}
    Crashable = {"worker", "api"}
    MaxRestarts = 1
    Overrun = FALSE
SYMMETRY ProcessSymmetry
INVARIANTS
    NothingLost
    RowFollowsFile
CHECK_DEADLOCK FALSE
