CONSTANTS
    KeyLen = 3
    TextBytes = {0, 1}
    DEFAULT_KEY_NAME <- MCDefaultName
    Procs = {p1, p2}
    Commands <- MCCommands
    MaxKeys = 2
    MaxBlocks = 1
    MaxMishaps = 1
    CutPoints = {4}
    MaxCommands = 4
    p1 = p1
    p2 = p2
SYMMETRY Symmetric
SPECIFICATION Spec
INVARIANTS
    ReportedWorkIsKept
    
    OnlyGeneratedKeysArePaid
CHECK_DEADLOCK FALSE
