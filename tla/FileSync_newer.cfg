SPECIFICATION Spec
CONSTANTS
    None = None
    MTimeTol = 2
    VerifyEtag = TRUE
    Policy = "newer"
    RemoteTrash = TRUE
    SettleMaxPasses = 2
    UnreadableMaxPasses = 2
    DownloadMaxFails = 1
    Sizes <- MCSizes
    Gaps <- MCApart
    Stages <- MCAllStages
    MaxEdits = 2
    MaxMishaps = 1
INVARIANTS TypeOK NoSilentLoss AgreementIsReal
PROPERTIES DeletionsAreUsers UnreadableIsNotJudged NoBlindUpload
