SPECIFICATION Spec
CONSTANTS
    Iterations = {12}
    TaskTypes = {"text_to_image"}
    MaxScore = 5
    Threshold = 5
    ToolsFail = FALSE
    RecursionLimit = 25
INVARIANT
    EndsWithReason
CHECK_DEADLOCK FALSE
