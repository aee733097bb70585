\* Liveness: no symmetry, one discovery fetch.
SPECIFICATION FairClientSpec
CONSTANTS
    Calls = {c1, c2}
    Kinds = {"discover", "rotate"}
    MaxFetches = 1
    MaxGenerations = 1
    MaxCredentials = 2
PROPERTIES
    CallsAreAnswered
    LogoutsClear
