SPECIFICATION Spec
CONSTANTS
    None = None
    Root0 = Root0
    Outer = Outer
    Note = Note
    Deep = Deep
    Root = Root0
    Folders <- MCFolders
    Files <- MCFiles
    Parent <- MCParent
    Above <- MCAbove
    Filters <- MCFilters
    MaxEvents = 4
INVARIANTS StaleCacheIsDetected
CHECK_DEADLOCK FALSE
