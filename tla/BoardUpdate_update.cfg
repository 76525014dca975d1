SPECIFICATION FairSpec
CONSTANTS
    Files <- MCFiles
    Firmware <- MCFirmware
    SecureChip = TRUE
    Noise = {255}
    MaxAnswers = 1
    PipeSize = 1
INVARIANTS
    LoaderTypeOK
    SendsOnlyWhole
    AckedIsStored
    UpdateTypeOK
    CompletedMeansSent
PROPERTIES
    LoaderEnds
    UpdateEnds
