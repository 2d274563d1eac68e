SPECIFICATION Spec
CONSTANTS
    Configured <- ConfiguredServers
    Run = {"r"}
    Name = {"x"}
    Def = {"d"}
    Own = {}
    MaxChanges = 2
    MaxFaults = 2
INVARIANTS
    OneToolAName
    NoSessionLeft
PROPERTIES
    Latest
CHECK_DEADLOCK FALSE
