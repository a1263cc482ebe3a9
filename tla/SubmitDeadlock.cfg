SPECIFICATION FairSpec
CONSTANTS
    Rpc = {t1}
    Main = main
    Uses <- RivalUses
    MaxBlocks = 2
    MaxCalls = 1
CHECK_DEADLOCK FALSE
PROPERTIES
    SubmissionAnswered
