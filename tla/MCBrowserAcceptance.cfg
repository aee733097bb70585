\* One control, the runner or none, two cleanup commands.
SPECIFICATION Spec
CONSTANTS
    Controls = 1
    Cleanups = 2
INVARIANTS
    VerifiedRemovalIsFinal
    CleanupIsAttempted
    OneCommandAtATime
    PassedIsClean
PROPERTIES
    
    ReceiptIsTrue
    OrchestrationEnds
CHECK_DEADLOCK FALSE
