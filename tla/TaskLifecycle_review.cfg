SPECIFICATION Spec
CONSTANTS
    Tasks = {t1}
    Workers = {w1, w2}
    Handlers = {h1, h2}
    MaxReviewRounds = 2
    FirstRounds = {0, 1, 3}
    EngineStatuses = {"completed", "aborted"}
    ReviewRequired = {t1}
    SeedRoom <- AmpleSeed
    Decisions = {"approve", "revise", "blank"}
    Faults = {"execute", "memory"}
    Crashable = {"api"}
    MaxRestarts = 0
    Overrun = FALSE
SYMMETRY ProcessSymmetry
INVARIANTS
    TypeOK
    OneOwner
    ReviewGate
    HistoryMatchesRounds
    RecordedOnce
PROPERTIES
    TerminalIsFinal
    KeepsPromise
CHECK_DEADLOCK FALSE
