SPECIFICATION Spec
CONSTANTS
    File = {"f", "g"}
    Inside = {"g"}
    Content = {"a", "b"}
    Reconcile = TRUE
    MaxChanges = 3
    MaxFaults = 1
PROPERTIES
    LiveIsIndexed
    GoneIsRemoved
    Settles
CHECK_DEADLOCK FALSE
