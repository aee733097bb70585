\* Three runs one after the other, three paths, two faults anywhere.
SPECIFICATION Spec
CONSTANTS
    Entries = 3
    Runs = 3
    MaxRunning = 1
    MaxFaults = 2
INVARIANTS
    LeftoversAreHarmless
PROPERTIES
    ReplacesAtomically
