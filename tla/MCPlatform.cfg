SPECIFICATION PlatformSpec
CONSTANTS
    \* SecondFactor
    r1 = r1
    r2 = r2
    c1 = c1
    c2 = c2
    none = none
    MfaRequests = {r1,r2}
    Challenges = {c1,c2}
    NoChallenge = none
    LoginMaxAttempts = 1
    MaxResets = 2
    MaxTotpStep = 1
    \* ClientSession
    a = a
    b = b
    s1 = s1
    s2 = s2
    NoUser = NoUser
    Late = Late
    People = {a,b}
    MfaPeople = {b}
    Calls = {s1,s2}
    MaxTokens = 3
    \* UserAdmin
    A = A
    B = B
    k1 = k1
    k2 = k2
    Unset = Unset
    Accounts = {A,B}
    RoleCodes = {"ADMIN","TECHNICIAN"}
    Updates = {k1,k2}
    \* AreaScopes
    AreaIds = {"wb", "cr"}
    AdminScreens = {"s1", "s2"}
    MaxSaves = 3
    \* VerifierQueue
    v1 = v1
    v2 = v2
    d1 = d1
    Nobody = Nobody
    Verifiers = {v1,v2}
    StageRoles <- MCStageRoles
    HeldRoles <- MCHeldRoles
    Delegations = {d1}
    MaxClock = 1
    MaxCycles = 2
    MaxReviews = 2
    \* Escalation
    StageCount = 2
    TimedStages = {2}
    MaxSubmissions = 2
    \* TemplateLoad
    e1 = e1
    e2 = e2
    q1 = q1
    Editors = {e1,e2}
    RevRequests = {q1,q2}
    q2 = q2
    Codes = {"A"}
    MaxRevisions = 4
    Texts = {"v1","v2"}
    Author = e1
    Approver = e2
    Plan <- MCPlan
    Yaml <- MCYaml
    SampleMachines = 1
    MaxLoads = 3
    \* MachineRecords
    Admins = {"boss", "local"}
    AdminArea <- MCAdminArea
    RegMachines = {"ma", "mb"}
    Areas = {"bay"}
    NoArea = "no area"
    RealCodes = {"A1", "A2"}
    ProvisionalCodes = {"P1"}
    NoCode = "no code"
    FormNumbers = {"07"}
    NoNumber = "no number"
    TitleBlank = TRUE
    RegRecords = {"old", "new"}
    RecordOf <- MCRecordOf
    LegacyRecords = {"old"}
    SignerNames = {"Ann", "Anne"}
    MaxEdits = 2
    \* MasterlistImport
    Sheets <- MCSheets
    FormDefines <- MCFormDefines
    KnownTypes = {"wire", "bump"}
    LoadedForms = {"wire"}
    MachineCodes = {"c1", "c2"}
    Intervals <- MCIntervals
    NoType = "no type"
    MaxImports = 2
    MaxTouches = 2
    \* AuditChain
    Writers = {"w1", "w2"}
    PageRows = 2
    MaxEvents = 5
    MaxVerifications = 2
    MaxTampers = 2
    \* RecordRendering
    Downloads = {"d1", "d2"}
    Exports = {"e1"}
    EXPORT_MAX_RECORDS = 1
    WORKER_CONCURRENCY = 3
    PDF_RENDER_CONCURRENCY = 1
    MaxWorkerCrashes = 1
    MaxBrowserFaults = 1
    \* PlannerScreen
    RuleCount = 3
    LastYear = 2
    PageSize = 1
    MaxPages = 2
    MaxReads = 2
    \* VisitAssignment
    PlanPeople = {"v1","v2"}
    Unassigned = "-"
    PlanJobs = {"j1","j2"}
    BatchLimit = 1
    \* RaiseJobForm
    MachineTypes = {"t"}
    Machines = {"ma","mb"}
    MachineDocs <- MCMachineDocs
    NoChoice = "-"
    MaxRaised = 1
    \* SharedTablet
    TabletPeople = {"ann", "bob"}
    TabletJobs = {"j1"}
    MaxSessions = 2
    \* AppUpdate
    Works = {w1,w2}
    w1 = w1
    w2 = w2
    MaxBuild = 3
    MaxReloadsPerWindow = 2
    MaxManualReloads = 1
    \* AndroidShell
    Servers = {"s1","s2"}
    Foreign = "x"
    DefaultServer = "s1"
    MaxRendererCrashes = 1
    \* ShellUpdate
    Apks = {"a2","b2","a3","x2"}
    OurApks = {"a2","b2","a3"}
    ApkCode <- MCApkCode
    InstalledCode = 1
    MaxActivities = 2
    MaxPublished = 2
    \* Reports
    PlanVisits = {"v"}
    VisitDue <- MCVisitDue
    ReportAreas = {"wire", "bump"}
    VisitArea <- MCVisitArea
    MaxRows = 2
    PageLimit = 1
    MaxHalfDay = 2
    MaxRescopes = 1
    \* SignaturePad
    MaxStrokes = 2
INVARIANTS
    ChallengeBuysOneSession
    EvidenceBuysOneSession
    LatchesFollowTheAccount
    AnAdminRemains
    OwnQueueIsActionable
    EscalationArmed
    LoadRecovers
    OnlyAnotherDownloadSpoilsTheApk
    PlanIsWhole
    RequestNamesTheMachinesForm
    ChooserWillAnswer
    ArchivedPrintHolds
    VerdictIsRight
    NoIdlePermit
    SettledListIsHonest
    UnrestrictedByChoice
    PeriodCountedOnce
    ReadingIsExact
    BlankOnlyAfterWipe
PROPERTIES
    CodesGoWithAnotherSession
    FrozenOnceIssued
    ReloadSparesWork
    DecisionsSurviveImport
CHECK_DEADLOCK FALSE
