CONSTANTS
    MaxSent = 4
    MaxSession = 1
    FailureLimit = 3
    SuspendFails = FALSE
SPECIFICATION Spec
PROPERTY CompletedIsIdle
CHECK_DEADLOCK FALSE
