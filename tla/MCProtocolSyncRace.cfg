\* A run is killed, and two others recover from it at the same time.
SPECIFICATION Spec
CONSTANTS
    Entries = 2
    Runs = 3
    MaxRunning = 2
    MaxFaults = 1
PROPERTIES
    RestoredBeforeRemoval
