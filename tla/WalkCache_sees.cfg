SPECIFICATION FairSpec
CONSTANTS
    None = None
    Root0 = Root0
    Outer = Outer
    Note = Note
    Deep = Deep
    Root = Root0
    Folders <- MCFolders
    Files <- MCFiles
    Parent <- MCParent
    Above <- MCAbove
    Filters <- MCFilters
    MaxEvents = 4
INVARIANTS TypeOK
PROPERTIES EventuallySeen CacheIsTransparent
CHECK_DEADLOCK FALSE
