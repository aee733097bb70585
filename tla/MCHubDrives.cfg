\* Two filters; three drives on pages of one, two pages allowed: an honest
\* Hub may have one page too many, another hands out the same cursor again.
SPECIFICATION Spec
CONSTANTS
    Filters = {"a", "b"}
    WalkFilter = "a"
    Limit = 1
    MaxPages = 2
    MaxDrives = 3
INVARIANTS
    BindingsAreTrue
    WalkIsComplete
