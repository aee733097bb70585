\* Four calls of retry(), so that three race behind the first failure.
SPECIFICATION Spec
CONSTANT
    MaxRetries = 4
INVARIANTS
    NotWhileRunning
PROPERTIES
    RetriesSettle
CHECK_DEADLOCK FALSE
