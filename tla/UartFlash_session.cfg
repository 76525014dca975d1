SPECIFICATION FairSpec
CONSTANTS
    Requests <- MCRequests
    Sectors <- MCSectors
    Strays <- MCStrays
    MaxLine = 1
INVARIANTS
    FlashTypeOK
    DoneSectionsWhole
    RateAgreed
PROPERTIES
    OnlyItsSection
    AnswerIsOwn
    ImplementsFlashStore
    Terminates
