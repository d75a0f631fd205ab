SPECIFICATION Spec
CONSTANTS
    None = None
    MTimeTol = 0
    VerifyEtag = FALSE
    Outer = Outer
    Inner = Inner
    Note = Note
    Twin = Twin
    Deep = Deep
    Junk = Junk
    Paths <- MCPaths
    Above <- MCAbove
    FilePaths <- MCFiles
    FolderPaths <- MCFolders
    Fold <- MCFold
    Ignored <- MCIgnored
    Start0 <- MCStart
    ThresholdCount = 1
    ThresholdPct = 100
    MaxEdits = 2
    MaxFaults = 1
INVARIANTS TypeOK ThresholdHolds SoonAgrees
PROPERTIES OnlyDoomedFilesGo DeletedStaysDeleted
