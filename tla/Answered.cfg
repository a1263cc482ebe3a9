SPECIFICATION FairSpec
CONSTANTS
    Rpc = {t1, t2}
    Main = main
    Uses <- AloneUses
    MaxBlocks = 3
    MaxCalls = 1
CHECK_DEADLOCK FALSE
PROPERTIES
    SubmissionAnswered
    ListIsDrained
