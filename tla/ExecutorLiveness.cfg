CONSTANTS
    MaxTasks = 1
    MaxAttempts = 3
    a = a
    b = b
    Submission <- MCSubmission
    Batches <- MCBatches
    Exec = {p, q}
    FaultPoints = {"claim", "resolve", "post", "record", "refresh"}
    Crashes = FALSE
SPECIFICATION FairSpec
INVARIANTS AttemptIdentity
PROPERTIES LeaseEndsByRelease EventuallySettled
