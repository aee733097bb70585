\* Every log of three blocks, the policy of streamEvents or any policy, two
\* broken connections, two subscriptions on one store.
SPECIFICATION FairSpec
CONSTANTS
    Blocks = 3
    MaxBreaks = 2
    MaxSubscriptions = 2
    Policies = {"protocol", "custom"}
INVARIANTS
    CheckpointCovered
PROPERTIES
    NoReplayOfSaved
    AbortIsSilent
    EventsReachConsumer
