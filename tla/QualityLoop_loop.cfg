SPECIFICATION Spec
CONSTANTS
    Iterations = {4, 5, 12}
    TaskTypes = {"text_to_image", "image_edit", "ambiguous"}
    MaxScore = 3
    Threshold = 3
    ToolsFail = TRUE
    RecursionLimit = 25
INVARIANTS
    BestOfHistory
    PlateauIsReal
    CompletedMeansPassed
    BudgetKept
CHECK_DEADLOCK FALSE
