CONSTANTS
    Tabs = {t1, t2}
    MaxEdits = 2
    Kinds = {"result"}
    MAX_BATCH_SIZE = 2
    MaxRequeues = 0
    MaxFaults = 0
    MaxBootstraps = 1
    MaxSubmits = 0
    MaxReturns = 0
    MaxOtherEdits = 0
    MaxReassigns = 0
SPECIFICATION Spec
PROPERTY BootstrapProtectsEdits
CHECK_DEADLOCK FALSE
