SPECIFICATION Spec
CONSTANTS
    Processes = {"worker", "api"}
    Issues = {1, 2}
    Instructed = {1}
    Runs <- SomeRuns
    Threshold = 2
    Tasks = {1, 2}
    Requests <- SomeRequests
    Provenance = "signer"
    StepsFail = TRUE
    MaxRestarts = 1
INVARIANTS
    TypeOK
    BestDelivered
    StatusOfPrimary
    LessonsWithinRun
    CredentialsKept
    CasesMatchDelivery
CHECK_DEADLOCK FALSE
