SPECIFICATION Spec
CONSTANTS
    Handle = {h1, h2, h3}
    MaxLine = 3
    MaxDelete = 1
    MaxPowerLoss = 1
    MayTear = TRUE
    EntriesSync = TRUE
SYMMETRY HandleSymmetry
INVARIANTS
    OneHolder
PROPERTIES
    ContractWhileUsable
CHECK_DEADLOCK FALSE
