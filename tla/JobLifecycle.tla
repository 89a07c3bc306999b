---------------------------- MODULE JobLifecycle ----------------------------
(***************************************************************************)
(* The life of one job (a maintenance record) on the server: capture,       *)
(* assignment, submission, staged verification, return, recall and void.    *)
(*                                                                          *)
(* Every mutating request of api/src/jobs has the same two halves.  It      *)
(* first reads the job with its content (JobsService.loadForMutation) and   *)
(* checks its preconditions on that snapshot, outside any transaction; it   *)
(* then runs ONE database transaction against whatever the job has become.  *)
(* An X_Read action below is the first half, X the second; any number of    *)
(* other requests may commit in between.  A transaction is one step: every  *)
(* one that writes an approval_step first takes the job's row lock by its   *)
(* guarded update.  A request whose guard no longer holds, whose insert a   *)
(* trigger refuses, or whose process dies, leaves nothing behind (GiveUp).  *)
(*                                                                          *)
(* Data is abstracted to identities.  The value of a captured result is the *)
(* number of times it was written (0: not recorded); likewise the parts     *)
(* list; attachments are counted.  A content hash is the tuple of what is   *)
(* hashed.  Time is measured in committed approval steps: a request draws   *)
(* its timestamp (`now`) in some epoch between its read and its commit.     *)
(***************************************************************************)
EXTENDS Integers, Sequences, FiniteSets

CONSTANTS
    Users,           \* the people who send requests
    None,            \* SQL NULL
    RoleOf,          \* [Users -> SUBSET Roles]: the roles in the access token
    StageCount,      \* stages of the job's approval route
    StageRoles,      \* [1..StageCount -> SUBSET Roles]: who may sign a stage
    Fields,          \* checklist items and measurements of the frozen revision
    Mandatory,       \* the items the submission gate insists on
    TitleHasBlank,   \* whether the form's title carries a blank to fill
    Assignable,      \* the people assertAssignable accepts for this job's area
    Requests,        \* slots for requests in flight at the same time
    MaxAttachments,  \* ATTACHMENT_MAX_PER_JOB
    MaxDraft,        \* bound: result writes
    MaxParts,        \* bound: part writes
    MaxSteps         \* bound: approval steps

JOB_RECORD_ROLES == {"MAINTAINER", "TEAM_LEADER", "ENGINEER"}
JOB_VIEW_ALL_ROLES ==
    {"PLANNER", "TEAM_LEADER", "ENGINEER", "DOC_CONTROLLER", "ADMIN", "AUDITOR"}
Roles == JOB_RECORD_ROLES \cup JOB_VIEW_ALL_ROLES

ASSUME UsersAssumption == None \notin Users
ASSUME RolesAssumption == RoleOf \in [Users -> SUBSET Roles]
ASSUME RouteAssumption ==
    /\ StageCount \in Nat \ {0}
    /\ StageRoles \in [1..StageCount -> SUBSET Roles]
ASSUME AssignableAssumption ==
    Assignable \subseteq {u \in Users : RoleOf[u] \cap JOB_RECORD_ROLES # {}}
ASSUME TemplateAssumption == Mandatory \subseteq Fields /\ TitleHasBlank \in BOOLEAN
ASSUME RequestsAssumption == IsFiniteSet(Requests) /\ Requests # {}
ASSUME BoundsAssumption ==
    MaxAttachments \in Nat /\ MaxDraft \in Nat /\ MaxParts \in Nat /\ MaxSteps \in Nat

VARIABLES
    job,      \* the job row
    content,  \* item_result, measurement_result, part_used and attachment rows
    steps,    \* approval_step rows, in commit order
    signed,   \* the record whose hash the newest approval step carries
    req       \* what each request in flight carries from its read

vars == <<job, content, steps, signed, req>>

-----------------------------------------------------------------------------
(* The state space. *)

JobStatusT == {"scheduled", "assigned", "in_progress", "submitted", "archived", "voided"}
ApprovalActionT == {"submitted", "verified", "returned", "recalled", "voided"}

Content == [results : [Fields -> Nat], parts : Nat, attachments : Nat]

\* The text in the blank of the form's title, as far as the gate looks at it.
TitleText == {"blank", "filled"}

\* submittedAt identifies the submission by the position of its approval step
\* (0: never submitted); stage 0 is a NULL currentStageOrdinal.
JobRow == [status : JobStatusT, assignedTo : Users \cup {None},
           submittedBy : Users \cup {None}, submittedAt : Nat,
           stage : Nat, draftVersion : Nat, titleMachineNumber : TitleText]

\* What buildCanonicalJobRecord hashes, apart from identifiers that never
\* change and the approval steps, which are read inside the transaction.
CanonicalRecord == [status : JobStatusT, submittedBy : Users \cup {None},
                    submittedAt : Nat, content : Content]

\* submission is the submittedAt of the record the step signed: the submission
\* its request read.  Only the newest step's hash is ever compared with the data
\* (checkIntegrity), so the records of older steps are not kept.
ApprovalStep == [action : ApprovalActionT, stage : Nat, actor : Users,
                 actedAt : Nat, submission : Nat]

\* seen: how many approval steps existed at the read, the epoch of the read.
Snapshot == [status : JobStatusT, stage : Nat, submittedBy : Users \cup {None},
             submittedAt : Nat, content : Content, seen : Nat]

Idle == [op |-> "idle"]

\* A request keeps of its snapshot exactly what its transaction still uses.
Request ==
    {Idle}
    \cup [op : {"result"}, field : Fields, status : JobStatusT]
    \cup [op : {"part", "attachment"}]
    \cup [op : {"title"}, text : TitleText]
    \cup [op : {"assign"}, assignee : Assignable, status : JobStatusT]
    \cup [op : {"submit", "verify", "return", "recall", "void"},
          actor : Users, snap : Snapshot]

TypeOK ==
    /\ job \in JobRow
    /\ content \in Content
    /\ steps \in Seq(ApprovalStep)
    /\ signed \in CanonicalRecord
    /\ req \in [Requests -> Request]

Holds(u, roles) == RoleOf[u] \cap roles # {}

\* JobGenerationService and AdhocJobService create a job scheduled, or assigned
\* when there is an assignee to give it.
Init ==
    /\ \E u \in Assignable \cup {None} :
          job = [status |-> IF u = None THEN "scheduled" ELSE "assigned",
                 assignedTo |-> u, submittedBy |-> None, submittedAt |-> 0,
                 stage |-> 0, draftVersion |-> 0, titleMachineNumber |-> "blank"]
    /\ content = [results |-> [f \in Fields |-> 0], parts |-> 0, attachments |-> 0]
    /\ steps = <<>>
    /\ signed = [status |-> job.status, submittedBy |-> None, submittedAt |-> 0,
                 content |-> content]
    /\ req = [r \in Requests |-> Idle]

-----------------------------------------------------------------------------
(* The tables and checks the requests share. *)

LEGAL_TRANSITIONS ==
    [scheduled   |-> {"ASSIGN", "VOID"},
     assigned    |-> {"ASSIGN", "START", "VOID"},
     in_progress |-> {"ASSIGN", "SUBMIT", "VOID"},
     submitted   |-> {"VERIFY_ADVANCE", "VERIFY_FINAL", "RETURN", "RECALL", "VOID"},
     archived    |-> {"VOID"},
     voided      |-> {}]

assertLegalTransition(transition) == transition \in LEGAL_TRANSITIONS[job.status]

assertJobWritable == job.status \in {"assigned", "in_progress"}

\* A role without the broad view acts only on the jobs assigned to it.
assertAccessible(u) == Holds(u, JOB_VIEW_ALL_ROLES) \/ job.assignedTo = u

\* The trigger prevent_archived_job_update: an archived row accepts only the
\* void annotation, a voided row accepts nothing.
RowAcceptsUpdateDropped == TRUE
RowAcceptsUpdate == job.status \notin {"archived", "voided"}

\* loadForMutation: the route's role guard, the access rule, and the read.
Load(r, u, roles, m) ==
    /\ req[r] = Idle
    /\ Holds(u, roles)
    /\ assertAccessible(u)
    /\ req' = [req EXCEPT ![r] = m]
    /\ UNCHANGED <<job, content, steps, signed>>

Snap == [status |-> job.status, stage |-> job.stage, submittedBy |-> job.submittedBy,
         submittedAt |-> job.submittedAt, content |-> content, seen |-> Len(steps)]

Done(r) == req' = [req EXCEPT ![r] = Idle]

\* currentStageOrdinal ?? default
StageOr(snap, default) == IF snap.stage = 0 THEN default ELSE snap.stage

-----------------------------------------------------------------------------
(* Capture: results, parts, attachments and the blank in the title. *)

\* The If-Match check compares with the snapshot's draftVersion and leaves no
\* trace in the transaction, so it constrains only which requests get this far.
RecordResult_Read(r, u, f) ==
    /\ assertJobWritable
    /\ Load(r, u, JOB_RECORD_ROLES, [op |-> "result", field |-> f, status |-> job.status])

\* transitionToInProgress decides from the snapshot and updates unconditionally.
transitionToInProgress(snapStatus) ==
    job' = [job EXCEPT !.status = IF snapStatus = "assigned" THEN "in_progress" ELSE @,
                       !.draftVersion = @ + 1]

RecordResult(r) ==
    /\ req[r].op = "result"
    /\ RowAcceptsUpdate
    /\ job.draftVersion < MaxDraft
    /\ content' = [content EXCEPT !.results[req[r].field] = @ + 1]
    /\ transitionToInProgress(req[r].status)
    /\ Done(r)
    /\ UNCHANGED <<steps, signed>>

RecordPart_Read(r, u) ==
    /\ assertJobWritable
    /\ Load(r, u, JOB_RECORD_ROLES, [op |-> "part"])

\* recordPart creates a row, upsertPart creates, edits or soft-removes one: each
\* changes the active parts list and nothing else.
RecordPart(r) ==
    /\ req[r].op = "part"
    /\ content.parts < MaxParts
    /\ content' = [content EXCEPT !.parts = @ + 1]
    /\ Done(r)
    /\ UNCHANGED <<job, steps, signed>>

\* existingCount >= maxPerJob is refused, on a count taken before the insert.
BelowAttachmentCapUnchecked == TRUE
BelowAttachmentCap == content.attachments < MaxAttachments

UploadAttachment_Read(r, u) ==
    /\ assertJobWritable
    /\ BelowAttachmentCap
    /\ Load(r, u, JOB_RECORD_ROLES, [op |-> "attachment"])

UploadAttachment(r) ==
    /\ req[r].op = "attachment"
    /\ content' = [content EXCEPT !.attachments = @ + 1]
    /\ Done(r)
    /\ UNCHANGED <<job, steps, signed>>

\* null clears the blank.
RecordTitle_Read(r, u, text) ==
    /\ assertJobWritable
    /\ Load(r, u, JOB_RECORD_ROLES, [op |-> "title", text |-> text])

RecordTitle(r) ==
    /\ req[r].op = "title"
    /\ RowAcceptsUpdate
    /\ job' = [job EXCEPT !.titleMachineNumber = req[r].text]
    /\ Done(r)
    /\ UNCHANGED <<content, steps, signed>>

-----------------------------------------------------------------------------
(* Assignment. *)

Assign_Read(r, u, a) ==
    /\ assertLegalTransition("ASSIGN")
    /\ Load(r, u, {"PLANNER", "TEAM_LEADER", "ENGINEER", "ADMIN"},
            [op |-> "assign", assignee |-> a, status |-> job.status])

Assign(r) ==
    /\ req[r].op = "assign"
    /\ job.status = req[r].status
    /\ job' = [job EXCEPT !.assignedTo = req[r].assignee,
                          !.status = IF @ = "scheduled" THEN "assigned" ELSE @]
    /\ Done(r)
    /\ UNCHANGED <<content, steps, signed>>

-----------------------------------------------------------------------------
(* Signing.  Each of these transactions appends one approval step whose      *)
(* content hash is computed from the request's SNAPSHOT of the content.  The *)
(* timestamps of submissions and voids are compared with nothing.            *)

createApprovalStep(q, action, stage, actedAt, record) ==
    /\ steps' = Append(steps, [action |-> action, stage |-> stage, actor |-> q.actor,
                               actedAt |-> actedAt, submission |-> record.submittedAt])
    /\ signed' = record

\* `now` is drawn after the read and before the transaction.  Two timestamps of
\* one epoch are equal here, and the code's strict comparison then lets the
\* request through: the outcome a finer clock could also produce.
Now(q) == q.snap.seen .. Len(steps)

Canonical(snap, status) ==
    [status |-> status, submittedBy |-> snap.submittedBy,
     submittedAt |-> snap.submittedAt, content |-> snap.content]

findOutstandingMandatoryItemsSkipped == {}
findOutstandingMandatoryItems == {f \in Mandatory : content.results[f] = 0}

Submit_Read(r, u) ==
    /\ job.status = "in_progress"
    /\ findOutstandingMandatoryItems = {}
    /\ TitleHasBlank => job.titleMachineNumber = "filled"
    /\ Load(r, u, JOB_RECORD_ROLES, [op |-> "submit", actor |-> u, snap |-> Snap])

Submit(r) ==
    LET q == req[r]
        me == Len(steps) + 1
    IN  /\ q.op = "submit"
        /\ Len(steps) < MaxSteps
        /\ job.status = "in_progress"
        /\ job' = [job EXCEPT !.status = "submitted", !.submittedBy = q.actor,
                              !.submittedAt = me, !.stage = 1]
        /\ createApprovalStep(q, "submitted", 0, Len(steps),
              [status |-> "submitted", submittedBy |-> q.actor,
               submittedAt |-> me, content |-> q.snap.content])
        /\ Done(r)
        /\ UNCHANGED content

\* A verified step counts towards the current cycle when it was acted after
\* every return and recall (both the service's check and the trigger
\* enforce_distinct_stage_verifiers compare acted_at).
alreadyVerifiedThisCycleNever(u) == FALSE
alreadyVerifiedThisCycle(u) ==
    \E i \in 1..Len(steps) :
        /\ steps[i].action = "verified"
        /\ steps[i].actor = u
        /\ \A b \in 1..Len(steps) :
              steps[b].action \in {"returned", "recalled"}
                 => steps[i].actedAt > steps[b].actedAt

\* The trigger enforce_verifier_not_submitter, on the row as it is now.
VerifierNotSubmitterTriggerDropped(u) == TRUE
VerifierNotSubmitterTrigger(u) == job.submittedBy # u

\* The WHERE of the guarded update.
StillAtStageUnchecked(k) == job.status = "submitted"
StillAtStage(k) == job.status = "submitted" /\ job.stage = k

\* VERIFIED is never a resting status: the last stage's signature archives the
\* record in the same transaction.
StatusAfterVerifyEarly(k) == IF k >= StageCount - 1 THEN "archived" ELSE "submitted"
StatusAfterVerify(k) == IF k >= StageCount THEN "archived" ELSE "submitted"

Verify_Read(r, u) ==
    LET k == StageOr(Snap, 1)
    IN  /\ assertLegalTransition("VERIFY_ADVANCE")
        /\ job.submittedBy # u
        /\ k \in 1..StageCount
        /\ Holds(u, StageRoles[k])
        /\ Load(r, u, {"TEAM_LEADER", "ENGINEER"},
                [op |-> "verify", actor |-> u, snap |-> Snap])

Verify(r) ==
    LET q == req[r]
        k == StageOr(q.snap, 1)
    IN  /\ q.op = "verify"
        /\ Len(steps) < MaxSteps
        /\ StillAtStage(k)
        /\ ~alreadyVerifiedThisCycle(q.actor)
        /\ VerifierNotSubmitterTrigger(q.actor)
        /\ job' = [job EXCEPT !.status = StatusAfterVerify(k),
                              !.stage = IF k >= StageCount THEN 0 ELSE k + 1]
        /\ \E now \in Now(q) :
              createApprovalStep(q, "verified", k, now,
                                 Canonical(q.snap, StatusAfterVerify(k)))
        /\ Done(r)
        /\ UNCHANGED content

Return_Read(r, u) ==
    /\ assertLegalTransition("RETURN")
    /\ Load(r, u, {"TEAM_LEADER", "ENGINEER"},
            [op |-> "return", actor |-> u, snap |-> Snap])

Recall_Read(r, u) ==
    /\ assertLegalTransition("RECALL")
    /\ job.submittedBy = u
    /\ Load(r, u, JOB_RECORD_ROLES, [op |-> "recall", actor |-> u, snap |-> Snap])

\* Return and recall share runTransition and differ only in their checks.
TakeBack(r, op, action) ==
    LET q == req[r]
    IN  /\ q.op = op
        /\ Len(steps) < MaxSteps
        /\ job.status = "submitted"
        /\ job' = [job EXCEPT !.status = "in_progress", !.stage = 0]
        /\ \E now \in Now(q) :
              createApprovalStep(q, action, StageOr(q.snap, 1), now,
                                 Canonical(q.snap, "in_progress"))
        /\ Done(r)
        /\ UNCHANGED content

Return(r) == TakeBack(r, "return", "returned")
Recall(r) == TakeBack(r, "recall", "recalled")

Void_Read(r, u) ==
    /\ assertLegalTransition("VOID")
    /\ job.status = "archived" => Holds(u, {"ADMIN"})
    /\ Load(r, u, {"TEAM_LEADER", "ENGINEER", "ADMIN"},
            [op |-> "void", actor |-> u, snap |-> Snap])

\* An archived record is voided only by a request that read it archived.
VoidStillApplies(snapStatus) ==
    IF snapStatus = "archived"
    THEN job.status = "archived"
    ELSE job.status \in {"scheduled", "assigned", "in_progress", "submitted"}

Void(r) ==
    LET q == req[r]
    IN  /\ q.op = "void"
        /\ Len(steps) < MaxSteps
        /\ VoidStillApplies(q.snap.status)
        /\ job' = [job EXCEPT !.status = "voided"]
        /\ createApprovalStep(q, "voided", StageOr(q.snap, 0), Len(steps),
                              Canonical(q.snap, "voided"))
        /\ Done(r)
        /\ UNCHANGED content

-----------------------------------------------------------------------------

\* A guard that no longer holds, a trigger's exception, a lost database
\* connection or a dying process: the transaction rolls back as a whole.
GiveUp(r) ==
    /\ req[r] # Idle
    /\ Done(r)
    /\ UNCHANGED <<job, content, steps, signed>>

Next ==
    \E r \in Requests :
        \/ \E u \in Users, f \in Fields : RecordResult_Read(r, u, f)
        \/ RecordResult(r)
        \/ \E u \in Users : RecordPart_Read(r, u)
        \/ RecordPart(r)
        \/ \E u \in Users : UploadAttachment_Read(r, u)
        \/ UploadAttachment(r)
        \/ \E u \in Users, text \in TitleText : RecordTitle_Read(r, u, text)
        \/ RecordTitle(r)
        \/ \E u \in Users, a \in Assignable : Assign_Read(r, u, a)
        \/ Assign(r)
        \/ \E u \in Users : Submit_Read(r, u)
        \/ Submit(r)
        \/ \E u \in Users : Verify_Read(r, u)
        \/ Verify(r)
        \/ \E u \in Users : Return_Read(r, u)
        \/ Return(r)
        \/ \E u \in Users : Recall_Read(r, u)
        \/ Recall(r)
        \/ \E u \in Users : Void_Read(r, u)
        \/ Void(r)
        \/ GiveUp(r)

Spec == Init /\ [][Next]_vars

-----------------------------------------------------------------------------

(* Properties. *)

\* The steps of the latest submission, that step excluded.
Cycle == (job.submittedAt + 1) .. Len(steps)

\* INV-05: nobody verifies their own submission.  Among the signatures of the
\* latest submission there is none by the person the job row names as its
\* submitter, whatever was read before the submission changed hands.
VerifierNotSubmitter ==
    \A i \in Cycle : steps[i].action = "verified" => steps[i].actor # job.submittedBy

\* A record at stage k carries, since its latest submission, exactly one
\* verification for each stage before k, in order; an archived record carries
\* one for every stage of its route.  Two verifiers of one stage, a verification
\* racing a return, or one that read an earlier submission never skip a stage.
StageSignatures ==
    LET SignedUpTo(n) ==
          /\ Len(steps) = job.submittedAt + n
          /\ \A k \in 1..n : /\ steps[job.submittedAt + k].action = "verified"
                             /\ steps[job.submittedAt + k].stage = k
    IN  /\ job.status = "submitted" => job.stage \in 1..StageCount /\ SignedUpTo(job.stage - 1)
        /\ job.status = "archived" => SignedUpTo(StageCount)

\* SYS-8, for requests that do not straddle a resubmission: of the signatures
\* of one submission that were read within it, no two are by the same person.
DistinctVerifiersInCycle ==
    job.status \in {"submitted", "archived"} =>
        \A i, j \in Cycle :
            /\ steps[i].submission = job.submittedAt
            /\ steps[j].submission = job.submittedAt
            /\ steps[i].actor = steps[j].actor
            => i = j

\* PR-045: no record is out for signature, or archived, with a mandatory item
\* unrecorded, although the gate only looked at the submitter's snapshot.
MandatoryRecorded ==
    job.status \in {"submitted", "archived"} => \A f \in Mandatory : content.results[f] > 0

\* ATTACHMENT_MAX_PER_JOB: uploads that counted the photos before one another's
\* insert overshoot the cap, but never by more than the requests that were in
\* flight together, however many cycles of return and rework the job goes through.
AttachmentOvershoot ==
    content.attachments < MaxAttachments + Cardinality(Requests)

\* INV-09: from the archiving signature on, no request that read the record
\* while it was open can change the job row or a captured result; the one
\* change the row still admits is the void annotation.
TerminalRecordFrozen ==
    [][job.status \in {"archived", "voided"} =>
          /\ content'.results = content.results
          /\ \/ job' = job
             \/ job.status = "archived" /\ job' = [job EXCEPT !.status = "voided"]]_vars

\* The signing workflow keeps the promise stated in ApprovalProtocol.
Approval == INSTANCE ApprovalProtocol WITH
    Signatories <- Users,
    NoOne <- None,
    Stages <- StageCount,
    phase <- CASE job.status = "submitted" -> "out"
               [] job.status = "archived" -> "archived"
               [] job.status = "voided" -> "void"
               [] OTHER -> "open",
    submitter <- job.submittedBy,
    signatures <- IF job.status \in {"submitted", "archived"}
                  THEN {<<steps[i].stage, steps[i].actor>> : i \in Cycle}
                  ELSE {}

ImplementsApproval == Approval!ASpec

-----------------------------------------------------------------------------
(* Claims of the repository that do not survive interleaved requests. *)

\* checkIntegrity: the record as it stands hashes to what the newest step signed.
checkIntegrity == signed = Canonical(Snap, job.status)

\* integrity.service.ts: "nothing can have changed since the newest step without
\* creating a newer step".  The record out for signature or archived is the one
\* its newest approval step signed.
NewestStepBindsRecord ==
    job.status \in {"submitted", "archived"} => checkIntegrity

\* 20260727090000_distinct_stage_verifiers: "the two verification signatures
\* must come from two different people".
TwoPeopleSign ==
    job.status = "archived" =>
        \A i, j \in Cycle : steps[i].actor = steps[j].actor => i = j

\* job-state-machine.ts: a submitted record leaves SUBMITTED for IN_PROGRESS
\* only by RETURN or RECALL.  So a second submission always follows a step that
\* took the record back.
ResubmittedOnlyAfterTakeBack ==
    \A i, j \in 1..Len(steps) :
        /\ i < j
        /\ steps[i].action = "submitted"
        /\ steps[j].action = "submitted"
        => \E b \in i..j : steps[b].action \in {"returned", "recalled"}

=============================================================================
