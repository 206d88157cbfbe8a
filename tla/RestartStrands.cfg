CONSTANTS
    MaxTasks = 1
    MaxAttempts = 2
    a = a
    b = b
    Submission <- MCSubmission
    Batches <- MCBatches
    Exec = {p}
    FaultPoints = {}
    Crashes = TRUE
SPECIFICATION FairSpec
PROPERTIES SettledAfterRestarts
