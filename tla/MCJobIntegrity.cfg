SPECIFICATION Spec
CONSTANTS
    s = s
    a = a
    b = b
    f1 = f1
    f2 = f2
    r1 = r1
    r2 = r2
    None = None
    Users <- MCUsers
    RoleOf <- MCRoleOf
    StageCount = 2
    StageRoles <- MCStageRoles
    Fields <- MCFields
    Mandatory <- MCFields
    TitleHasBlank = TRUE
    Assignable <- MCAssignable
    Requests <- MCRequests
    MaxAttachments = 0
    MaxDraft = 1
    MaxParts = 1
    MaxSteps = 3
SYMMETRY MCSymmetry
CHECK_DEADLOCK FALSE
INVARIANTS
    NewestStepBindsRecord
