CONSTANTS
    Tabs = {t1}
    MaxEdits = 3
    Kinds = {"result", "title"}
    MAX_BATCH_SIZE = 1
    MaxRequeues = 2
    MaxFaults = 2
    MaxBootstraps = 0
    MaxSubmits = 0
    MaxReturns = 0
    MaxOtherEdits = 1
    MaxReassigns = 1
SPECIFICATION FairSpec
PROPERTY EveryEditSettles
CHECK_DEADLOCK FALSE
