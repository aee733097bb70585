\* A refresh fails while an authenticated read is on its way.
SPECIFICATION ClientSpec
CONSTANTS
    Calls = {c1, c2}
    Kinds = {"discover", "query"}
    MaxFetches = 2
    MaxGenerations = 0
    MaxCredentials = 1
PROPERTIES
    DispatchNeedsIdentity
