\* A session and two operations on it, of every kind, with a limit of three
\* bytes reached by buffers of one, two and three bytes, and at most two chunks
\* without a byte in a row.
SPECIFICATION FairSessionSpec
CONSTANTS
    Kinds <- EveryKind
    MaxBytes = 3
    FirstBytes = 1
    MaxEmpty = 2
    Operations <- SomeMethods
    MaxCalls = 2
    Requests <- SomeRequests
    Descriptions <- SomeDescriptions
    Bodies = {b1, b2}
    Fitting <- OneFits
    b1 = b1
    b2 = b2
    s1 = s1
    s2 = s2
    NoBody = NoBody
    NoSchema = NoSchema
    Schemas = {s1, s2}
    Accepted <- MCAccepted
INVARIANTS
    CommandIsNotDenied
    BodyIsReleased
    BufferFits
    SentIsAdmitted
    AnswersAreUnderstood
PROPERTIES
    AbortWins
    AbortSettles
    ReadingEnds
