\* Three concurrent calls, two discovery fetches, one logout and a disposal.
SPECIFICATION Spec
CONSTANTS
    Calls = {c1, c2, c3}
    Kinds = {"discover", "query"}
    MaxFetches = 2
    MaxGenerations = 1
SYMMETRY Symmetry
INVARIANTS
    IdentityOfThisSession
    FetchIsJoinable
    OneLiveFetch
    NoForeignAbort
    FailedRefreshInvalidates
