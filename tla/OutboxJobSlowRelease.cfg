CONSTANTS
    MaxTerms = 20
    PromptRelease = FALSE
    ReleaseMayFail = FALSE
SPECIFICATION JobSpec
INVARIANT LoopOnlyWhileLeading
CHECK_DEADLOCK FALSE
