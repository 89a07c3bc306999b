CONSTANTS
    Tabs = {t1}
    MaxEdits = 2
    Kinds = {"result"}
    MAX_BATCH_SIZE = 2
    MaxRequeues = 0
    MaxFaults = 1
    MaxBootstraps = 0
    MaxSubmits = 2
    MaxReturns = 1
    MaxOtherEdits = 0
    MaxReassigns = 0
SPECIFICATION Spec
INVARIANT ReceivedMeansSubmitted
CHECK_DEADLOCK FALSE
