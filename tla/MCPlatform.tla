---------------------------- MODULE MCPlatform ----------------------------
(***************************************************************************)
(* The parts of the platform around the job record, checked together.      *)
(* They share no state at the grain they are modelled at, so interleaving  *)
(* them adds no behaviour to any of them: a behaviour of this module is a  *)
(* behaviour of one part, named by focus, with the others at rest.         *)
(***************************************************************************)
EXTENDS SecondFactor, ClientSession, UserAdmin, AreaScopes, VerifierQueue,
        Escalation, TemplateLoad, MachineRecords, MasterlistImport, AuditChain,
        RecordRendering, PlannerScreen, VisitAssignment, RaiseJobForm,
        SharedTablet, AppUpdate, AndroidShell, ShellUpdate, Reports, SignaturePad,
        PlanCalendar, TLC

CONSTANTS r1, r2, c1, c2, v1, v2, s2

(* VerifierQueue: v1 may sign both stages of the route, v2 only the first. *)
MCStageRoles == <<{"TEAM_LEADER"}, {"ENGINEER"}>>
MCHeldRoles == v1 :> {"TEAM_LEADER", "ENGINEER"} @@ v2 :> {"TEAM_LEADER"}

(* TemplateLoad: two printed revisions, the second code with a trailing    *)
(* blank, and a YAML whose measurements are corrected once.                *)
MCPlan == <<"A", "B ">>
MCYaml == <<[standing |-> "v1", items |-> "v1", measurements |-> "v1"],
            [standing |-> "v1", items |-> "v1", measurements |-> "v2"]>>

(* ShellUpdate: two builds of one version, a later one, and a stranger.    *)
MCApkCode == "a2" :> 2 @@ "b2" :> 2 @@ "a3" :> 3 @@ "x2" :> 2

MCMachineDocs == "ma" :> {"d1"} @@ "mb" :> {"d2", "d3"}

(* MasterlistImport: a workbook, a corrected one, and one with every kind  *)
(* of row the importer leaves out.                                         *)
SheetRow(code, type, visits) ==
    [code |-> code, type |-> type, visits |-> visits, skipped |-> FALSE]
MCSheets == << <<SheetRow("c1", "wire", {<<"M1", 2>>, <<"M1", 6>>, <<"Y", 3>>}),
                 SheetRow("c2", "wire", {<<"M1", 2>>})>>,
               <<SheetRow("c1", "wire", {<<"M1", 3>>, <<"Y", 3>>}),
                 SheetRow("c2", NoType, {<<"M1", 2>>}),
                 SheetRow("c3", NoType, {<<"M1", 2>>})>>,
               <<[SheetRow("c1", "wire", {<<"Y", 3>>}) EXCEPT !.skipped = TRUE],
                 SheetRow("c2", "bump", {<<"M1", 2>>, <<"Y", 2>>}),
                 SheetRow("c2", "bare", {<<"M1", 2>>}),
                 SheetRow("c2", "gone", {<<"M1", 2>>}),
                 SheetRow("c2", "bump", {<<"M1", 2>>})>> >>
MCFormDefines == "wire" :> {"M1", "Y"} @@ "bump" :> {"M1"} @@ "gone" :> {"M1"}
MCIntervals == "M1" :> 30 @@ "Y" :> 365

MCAdminArea == "boss" :> NoArea @@ "local" :> "bay"
MCRecordOf == "old" :> "ma" @@ "new" :> "mb"

(* Reports: one period, due on the first day; off-plan work elsewhere.     *)
MCVisitDue == "v" :> 0
MCVisitArea == "v" :> "wire"

(* PlanCalendar: a leap year, a common one and the centuries; every date   *)
(* of two years, the month ends left out where the plan drifts.            *)
TwoYears == {d \in (0 .. 23) \X (1 .. 31) : d[2] <= DaysInMonth(d[1])}
ASSUME CalendarChecked ==
    /\ \A y \in {1, 4, 100, 400} : \A day \in 0 .. DaysInYear(y) - 1 : WeekHoldsItsDays(y, day)
    /\ \A d \in TwoYears : DayIndex(d) \in 0 .. DaysInYear(YearOf(d)) - 1
    /\ \A d \in {e \in TwoYears : e[2] <= 28}, n \in 0 .. 3, i \in {1, 3, 6, 12} :
          PunctualFollowsPlan(d, n, i)
    /\ \A d \in TwoYears, i \in {1, 12}, year \in {0, 1}, now \in {<<12, 1>>, <<13, 28>>, <<14, 5>>} :
          LateIsVisible(d, PlannerRowsOf(d, i, year, 24), year, now)
    /\ resolveWindow(<<0, 1>>, <<59, 31>>, 366 * 5) /\ ~resolveWindow(<<0, 2>>, <<0, 1>>, 366 * 5)

-----------------------------------------------------------------------------
VARIABLE focus            \* the part this behaviour is about

templateVars == <<revisionVars, loadVars>>

(* Two revisions and one edit: enough for an approval to meet another      *)
(* approval, a rejection or a late edit.                                   *)
SmallRevisions ==
    /\ Len(revisions') <= 2
    /\ LET edited == {e \in (1 .. Len(revisions')) \X Parts : revisions'[e[1]].content[e[2]] # "none"}
       IN  Cardinality(edited) <= 1 /\ \A e \in edited : revisions'[e[1]].content[e[2]] = "v1"

(* Requests and challenges are interchangeable, so the second is used only *)
(* when the first is.  One challenge expires; two of a wrong code, a new   *)
(* step, an enrolment and a reset happen.                                  *)
InTurn ==
    /\ inFlight[r2] = NoRequest /\ inFlight'[r2] # NoRequest => inFlight[r1] # NoRequest
    /\ challenges'[c2] # "unsigned" => challenges'[c1] # "unsigned"
    /\ challenges'[c2] # "expired"
    /\ account'.failed + resets' + totpNow' <= 2

(* One slot carries whatever the person does, the other the fetches of the *)
(* background; the third token goes to a newcomer.                         *)
BackgroundSlot ==
    /\ calls'[s2].op \in {"none", "fetch"}
    /\ Len(tokens') = 3 => \A i \in {1, 2} : tokens'[i].user # tokens'[3].user

(* Once an administrator was removed by somebody else, or a guard counted  *)
(* a dropped role, AnAdminRemains promises nothing more.                   *)
Accountable == ~othersActed /\ ~staleGuard

(* Two review screens are open at once only while nothing is delegated.    *)
SignOrDelegate ==
    \/ \A d \in Delegations : delegations'[d] = NoDelegation
    \/ \E p \in Verifiers : review'[p] = ClosedReview

(* The chooser covers the page: no new request to switch comes from it.    *)
NoSwitchBehindChooser == shellMessages' = {} \/ choosers' = {}

(* A reader whose list ended has seen it.  At most one job is somebody     *)
(* else's, off-plan work is done in the other area, and the reader is      *)
(* confined to the plan's area.                                            *)
OneReader ==
    /\ ~reading.done
    /\ Cardinality({i \in DOMAIN jobRows' : ~jobRows'[i].mine}) <= 1
    /\ \A i \in DOMAIN jobRows' : jobRows'[i].visit = OffPlan => jobRows'[i].mine /\ jobRows'[i].area = "bump"
    /\ scopeRows' # scopeRows => scopeRows' = {"wire"}

(* A part that is not in focus starts in one of its initial states.  The   *)
(* account has a second factor: a reset takes it away.                     *)
AtRest ==
    /\ account.enrolled
    /\ focus = "planner" \/ planDue = [r \in PlanRules |-> 1]
    /\ focus = "machines" \/ \A m \in RegMachines : documentRow[m].number = NoNumber
    /\ focus = "tablet" \/ \A j \in TabletJobs :
         attested[j] = NoCopy /\ serverAssignee[j] = CHOOSE a \in TabletPeople : TRUE
    /\ focus = "apk" \/ served.apk = "a2"

PlatformInit ==
    /\ focus \in {"revisions", "mfa", "session", "users", "scopes", "queue",
                   "escalation", "load", "machines", "import", "audit", "rendering",
                   "planner", "visits", "raise", "tablet", "app", "shell",
                   "apk", "reports", "signature"}
    /\ MfaInit
    /\ SessionInit
    /\ UserInit
    /\ ScopeInit
    /\ QueueInit
    /\ EscalationInit
    /\ LoadInit
    /\ RegisterInit
    /\ ImportInit
    /\ AuditInit
    /\ RenderInit
    /\ PlannerInit
    /\ VisitInit
    /\ RaiseInit
    /\ TabletInit
    /\ AppInit
    /\ ShellInit
    /\ ShellUpdateInit
    /\ ReportsInit
    /\ PadInit
    /\ AtRest

(* The other parts do not move. *)
Rest ==
    /\ UNCHANGED focus
    /\ IF focus = "mfa" THEN TRUE ELSE UNCHANGED mfaVars
    /\ IF focus = "session" THEN TRUE ELSE UNCHANGED sessionVars
    /\ IF focus = "users" THEN TRUE ELSE UNCHANGED userVars
    /\ IF focus = "scopes" THEN TRUE ELSE UNCHANGED scopeVars
    /\ IF focus = "queue" THEN TRUE ELSE UNCHANGED queueVars
    /\ IF focus = "escalation" THEN TRUE ELSE UNCHANGED escalationVars
    /\ IF focus \in {"load", "revisions"} THEN TRUE ELSE UNCHANGED templateVars
    /\ IF focus = "machines" THEN TRUE ELSE UNCHANGED registerVars
    /\ IF focus = "import" THEN TRUE ELSE UNCHANGED importVars
    /\ IF focus = "audit" THEN TRUE ELSE UNCHANGED auditVars
    /\ IF focus = "rendering" THEN TRUE ELSE UNCHANGED renderVars
    /\ IF focus = "planner" THEN TRUE ELSE UNCHANGED plannerVars
    /\ IF focus = "visits" THEN TRUE ELSE UNCHANGED visitVars
    /\ IF focus = "raise" THEN TRUE ELSE UNCHANGED raiseVars
    /\ IF focus = "tablet" THEN TRUE ELSE UNCHANGED tabletVars
    /\ IF focus = "app" THEN TRUE ELSE UNCHANGED appVars
    /\ IF focus = "shell" THEN TRUE ELSE UNCHANGED shellVars
    /\ IF focus = "apk" THEN TRUE ELSE UNCHANGED updateVars
    /\ IF focus = "reports" THEN TRUE ELSE UNCHANGED reportVars
    /\ IF focus = "signature" THEN TRUE ELSE UNCHANGED padVars

PlatformNext ==
    \/ focus = "mfa" /\ MfaNext /\ InTurn /\ Rest
    \/ focus = "session" /\ SessionNext /\ BackgroundSlot /\ Rest
    \/ focus = "users" /\ UserNext /\ Accountable /\ Rest
    \/ focus = "scopes" /\ ScopeNext /\ Rest
    \/ focus = "queue" /\ QueueNext /\ SignOrDelegate /\ Rest
    \/ focus = "escalation" /\ EscalationNext /\ Rest
    \/ focus = "revisions" /\ RevisionsNext /\ SmallRevisions /\ UNCHANGED loadVars /\ Rest
    \/ focus = "load" /\ LoadNext /\ Rest
    \/ focus = "machines" /\ RegisterNext /\ Rest
    \/ focus = "import" /\ ImportNext /\ Rest
    \/ focus = "audit" /\ AuditNext /\ Rest
    \/ focus = "rendering" /\ RenderNext /\ Rest
    \/ focus = "planner" /\ PlannerNext /\ Rest
    \/ focus = "visits" /\ VisitNext /\ Rest
    \/ focus = "raise" /\ RaiseNext /\ Rest
    \/ focus = "tablet" /\ TabletNext /\ Rest
    \/ focus = "app" /\ AppNext /\ Rest
    \/ focus = "shell" /\ ShellNext /\ NoSwitchBehindChooser /\ Rest
    \/ focus = "apk" /\ ShellUpdateNext /\ Rest
    \/ focus = "reports" /\ ReportsNext /\ OneReader /\ Rest
    \/ focus = "signature" /\ PadNext /\ Rest

platformVars ==
    <<focus, mfaVars, sessionVars, userVars, scopeVars, queueVars,
      escalationVars, templateVars, registerVars, importVars, auditVars,
      renderVars, plannerVars, visitVars, raiseVars,
      tabletVars, appVars, shellVars, updateVars,
      reportVars, padVars>>

PlatformSpec == PlatformInit /\ [][PlatformNext]_platformVars

=============================================================================
