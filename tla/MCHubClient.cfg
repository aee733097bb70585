\* Two concurrent calls, two discovery fetches, one logout and a disposal.
SPECIFICATION ClientSpec
CONSTANTS
    Calls = {c1, c2}
    Kinds = {"query", "claim", "rotate"}
    MaxFetches = 2
    MaxGenerations = 1
    MaxCredentials = 3
SYMMETRY Symmetry
INVARIANTS
    LogoutIsFinal
    SuccessIsSaved
    LockoutIsReported
PROPERTIES
    BearerAfterIdentity
    SuccessIsKept
