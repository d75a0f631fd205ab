SPECIFICATION Spec
CONSTANTS
    None = None
    f1 = f1
    f2 = f2
    Folders <- MCFolders
    MaxChanges = 3
SYMMETRY MCSymmetry
CHECK_DEADLOCK FALSE
INVARIANTS TypeOK
PROPERTIES RemoteKept LocalKept
