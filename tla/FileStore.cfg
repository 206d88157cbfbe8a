CONSTANTS
    None = None
    Malformed = Malformed
    MaxTasks = 3
    MaxAttempts = 2
    Submission <- MCSubmission
    Batches <- MCBatches
    Raw <- MCRaw
    MaxFaults = 1
SPECIFICATION Spec
INVARIANTS TypeOK AcknowledgedIsDurable WorkIsAccounted PlanServesTasks
PROPERTIES OutcomeOnFileIsFinal NoSecondTurn
