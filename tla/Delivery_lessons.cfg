SPECIFICATION Spec
CONSTANTS
    Processes = {"worker", "api"}
    Issues = {1, 2, 3}
    Instructed = {1, 2}
    Runs <- UninstructedRuns
    Threshold = 2
    Tasks = {1}
    Requests <- PlainRequests
    Provenance = "off"
    StepsFail = FALSE
    MaxRestarts = 0
INVARIANT
    LessonsNameTheirIssue
CHECK_DEADLOCK FALSE
