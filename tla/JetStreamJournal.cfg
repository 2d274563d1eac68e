SPECIFICATION Spec
CONSTANTS
    Handle = {h1, h2, h3}
    MaxLog = 3
    MaxTry = 2
    MaxDelete = 1
SYMMETRY HandleSymmetry
VIEW View
INVARIANTS
    AckedIsOwn
    RestMeansNoTurn
PROPERTIES
    ImplementsRunJournal
CHECK_DEADLOCK FALSE
