\* ethereum and starknet: three blocks for finality, of which two may be replaced.
CONSTANTS
    Finality = 3
    MaxReorg = 2
    MaxAdvance = 1
    MaxBlocks = 6
    MaxFaults = 2
SPECIFICATION FairSpec
INVARIANTS
    TypeOK
    FinalTrue
PROPERTY Reported
CHECK_DEADLOCK FALSE
