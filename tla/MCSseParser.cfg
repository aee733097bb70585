\* Every stream of up to four, five or six symbols over small alphabets and of
\* up to four blocks, cut in every way, with an event budget of four bytes and
\* windows of three symbols.
SPECIFICATION Spec
CONSTANTS
    Streams <- EveryStream
    InitialLastEventId <- LastSaved
    Window = 3
    MaxData = 4
INVARIANTS
    ParsesAsWhole
    LimitsAreExact
    BuffersAreBounded
