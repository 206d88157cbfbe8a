CONSTANTS
    MaxTasks = 1
    MaxAttempts = 2
    a = a
    b = b
    Submission <- MCSubmission
    Batches <- MCBatches
    Exec = {p}
    FaultPoints = {"refresh"}
    Crashes = FALSE
SPECIFICATION Spec
PROPERTIES OutcomeIsFinal
