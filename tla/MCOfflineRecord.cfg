CONSTANTS
    Tabs = {t1, t2}
    MaxEdits = 2
    Kinds = {"result"}
    MAX_BATCH_SIZE = 2
    MaxRequeues = 0
    MaxFaults = 1
    MaxBootstraps = 1
    MaxSubmits = 1
    MaxReturns = 1
    MaxOtherEdits = 0
    MaxReassigns = 0
SPECIFICATION Spec
SYMMETRY TabSymmetry
INVARIANTS TypeOK NothingLost AppliedOncePerId SubmitCarriesAll
CHECK_DEADLOCK FALSE
