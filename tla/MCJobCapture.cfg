SPECIFICATION Spec
CONSTANTS
    s = s
    a = a
    b = b
    f1 = f1
    f2 = f2
    r1 = r1
    r2 = r2
    None = None
    Users <- MCUsers
    RoleOf <- MCRoleOf
    StageCount = 1
    StageRoles <- MCOneStage
    Fields <- MCTwoFields
    Mandatory <- MCSecondField
    TitleHasBlank = TRUE
    Assignable <- MCAssignable
    Requests <- MCRequests
    MaxAttachments = 1
    MaxDraft = 2
    MaxParts = 1
    MaxSteps = 3
SYMMETRY MCSymmetry
CHECK_DEADLOCK FALSE
INVARIANTS
    MandatoryRecorded
    AttachmentOvershoot
PROPERTIES
    TerminalRecordFrozen
