SPECIFICATION CfgSpec
CONSTANTS
    bin = bin
    out = out
    none = none
    NoPath <- none
    Unknown = Unknown
    Paths <- MCPaths
    Jsons <- MCJsons
    Edits <- MCEdits
    Shipped <- MCShipped
    Padding <- MCPadding
    Cuts <- MCCuts
    MaxUses = 2
    FileLengths <- Lengths
    SizeFields <- Sizes
CHECK_DEADLOCK FALSE
INVARIANTS
    AcceptsOnlyWhole
    AcceptsSmall
    EditorAgreesWithBuilder
    CompletedIsValid
    ValidWasCompleted
