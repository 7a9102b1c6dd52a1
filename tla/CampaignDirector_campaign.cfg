SPECIFICATION FairSpec
CONSTANTS
    square = square
    story = story
    Formats = {square, story}
    RequestFormats <- TwoFormats
    MaxIterations = 4
    ReviewRequired = FALSE
    BriefFormats <- AskedOrNone
    Panels <- OnePanel
    QualityVerdicts <- Verdicts
    ComplianceFindings <- CleanOrVeto
    ComplianceEnabled = TRUE
    LayoutRepair = TRUE
    MaxAttempts = 2
    MaxRestarts = 2
INVARIANTS
    TypeOK
    CompletedMeansDelivered
    ReviewedInStep
    PlanIsCurrent
    ConflictsRecorded
    VetoRepaired
    RecoveryBoundary
PROPERTIES
    KeepsPromise
    RunEnds
CHECK_DEADLOCK FALSE
