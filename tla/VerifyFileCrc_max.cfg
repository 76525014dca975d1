SPECIFICATION Spec
CONSTANTS
    FileLengths <- Lengths
    SizeFields <- Sizes
CHECK_DEADLOCK FALSE
INVARIANTS
    AcceptsUpToMax
