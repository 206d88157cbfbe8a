CONSTANTS
    MaxTasks = 2
    MaxAttempts = 2
    a = a
    b = b
    Submission <- MCSubmission
    Batches <- MCBatches
    Exec = {p, q}
    FaultPoints = {"claim", "resolve", "post", "record", "recover"}
    Crashes = TRUE
SYMMETRY Processes
SPECIFICATION Spec
INVARIANTS TypeOK SingleExecution HeldCopyIsCurrent AttemptsBounded ResultMeansSucceeded OneTaskPerKey
PROPERTIES SettledIsFinal ImplementsContract
