SPECIFICATION FairSpec
CONSTANTS
    None = None
    MTimeTol = 2
    VerifyEtag = TRUE
    Policy = "both"
    RemoteTrash = TRUE
    SettleMaxPasses = 2
    UnreadableMaxPasses = 2
    DownloadMaxFails = 1
    Sizes <- MCSizes
    Gaps <- MCApart
    Stages <- MCAllStages
    MaxEdits = 1
    MaxMishaps = 1
PROPERTIES EventuallySettled
