------------------------- MODULE JobLifecycleProofs -------------------------
(***************************************************************************)
(* Machine-checked proofs about JobLifecycle, for every set of users, every *)
(* approval route, every template and any number of requests in flight.     *)
(***************************************************************************)
EXTENDS JobLifecycle, FiniteSetTheorems, TLAPS

-----------------------------------------------------------------------------
(* Type correctness. *)

SnapRequest == [op : {"submit", "verify", "return", "recall", "void"},
                actor : Users, snap : Snapshot]

\* What a request in flight carries, by its operation.
LEMMA RequestShape ==
    ASSUME NEW q \in Request
    PROVE  /\ q.op = "result" => q.field \in Fields /\ q.status \in JobStatusT
           /\ q.op = "title" => q.text \in TitleText
           /\ q.op = "assign" => q.assignee \in Assignable /\ q.status \in JobStatusT
           /\ q.op \in {"submit", "verify", "return", "recall", "void"} => q \in SnapRequest
BY DEF Request, Idle, SnapRequest

\* The snapshot a request takes is well formed.
LEMMA SnapType == TypeOK => Snap \in Snapshot
BY DEF TypeOK, Snap, Snapshot, JobRow, ApprovalStep

\* loadForMutation keeps the state well typed when what it keeps is a request.
LEMMA LoadType ==
    ASSUME TypeOK, NEW r \in Requests, NEW u, NEW roles, NEW m \in Request,
           Load(r, u, roles, m)
    PROVE  TypeOK'
BY DEF TypeOK, Load

\* Ending a request keeps the request slots well typed.
LEMMA DoneType ==
    ASSUME TypeOK, NEW r \in Requests, Done(r)
    PROVE  req' \in [Requests -> Request]
BY DEF TypeOK, Done, Request

\* createApprovalStep appends a well-formed step.
LEMMA StepType ==
    ASSUME TypeOK, NEW q \in SnapRequest, NEW action \in ApprovalActionT,
           NEW stage \in Nat, NEW actedAt \in Nat, NEW record \in CanonicalRecord,
           createApprovalStep(q, action, stage, actedAt, record)
    PROVE  /\ steps' \in Seq(ApprovalStep)
           /\ signed' \in CanonicalRecord
<1> DEFINE st == [action |-> action, stage |-> stage, actor |-> q.actor,
                  actedAt |-> actedAt, submission |-> record.submittedAt]
<1>1. st \in ApprovalStep
  BY DEF ApprovalStep, SnapRequest, CanonicalRecord
<1>2. steps' = Append(steps, st) /\ signed' = record
  BY DEF createApprovalStep
<1> QED
  BY <1>1, <1>2 DEF TypeOK

\* Requests that only read keep the state well typed.
LEMMA ReadType ==
    ASSUME TypeOK, NEW r \in Requests, NEW u \in Users,
           \/ \E f \in Fields : RecordResult_Read(r, u, f)
           \/ RecordPart_Read(r, u)
           \/ UploadAttachment_Read(r, u)
           \/ \E text \in TitleText : RecordTitle_Read(r, u, text)
           \/ \E a \in Assignable : Assign_Read(r, u, a)
           \/ Submit_Read(r, u)
           \/ Verify_Read(r, u)
           \/ Return_Read(r, u)
           \/ Recall_Read(r, u)
           \/ Void_Read(r, u)
    PROVE  TypeOK'
<1>1. job.status \in JobStatusT
  BY DEF TypeOK, JobRow
<1>2. ASSUME NEW op \in {"submit", "verify", "return", "recall", "void"}
      PROVE  [op |-> op, actor |-> u, snap |-> Snap] \in Request
  BY SnapType DEF Request
<1>3. CASE \E f \in Fields : RecordResult_Read(r, u, f)
  <2>1. PICK f \in Fields : RecordResult_Read(r, u, f)
    BY <1>3
  <2>2. [op |-> "result", field |-> f, status |-> job.status] \in Request
    BY <1>1 DEF Request
  <2> QED
    BY <2>1, <2>2, LoadType DEF RecordResult_Read
<1>4. CASE RecordPart_Read(r, u)
  <2>1. [op |-> "part"] \in Request
    BY DEF Request
  <2> QED
    BY <1>4, <2>1, LoadType DEF RecordPart_Read
<1>5. CASE UploadAttachment_Read(r, u)
  <2>1. [op |-> "attachment"] \in Request
    BY DEF Request
  <2> QED
    BY <1>5, <2>1, LoadType DEF UploadAttachment_Read
<1>6. CASE \E text \in TitleText : RecordTitle_Read(r, u, text)
  <2>1. PICK text \in TitleText : RecordTitle_Read(r, u, text)
    BY <1>6
  <2>2. [op |-> "title", text |-> text] \in Request
    BY DEF Request
  <2> QED
    BY <2>1, <2>2, LoadType DEF RecordTitle_Read
<1>7. CASE \E a \in Assignable : Assign_Read(r, u, a)
  <2>1. PICK a \in Assignable : Assign_Read(r, u, a)
    BY <1>7
  <2>2. [op |-> "assign", assignee |-> a, status |-> job.status] \in Request
    BY <1>1 DEF Request
  <2> QED
    BY <2>1, <2>2, LoadType DEF Assign_Read
<1>8. CASE Submit_Read(r, u)
  BY <1>2, <1>8, LoadType DEF Submit_Read
<1>9. CASE Verify_Read(r, u)
  BY <1>2, <1>9, LoadType DEF Verify_Read
<1>10. CASE Return_Read(r, u)
  BY <1>2, <1>10, LoadType DEF Return_Read
<1>11. CASE Recall_Read(r, u)
  BY <1>2, <1>11, LoadType DEF Recall_Read
<1>12. CASE Void_Read(r, u)
  BY <1>2, <1>12, LoadType DEF Void_Read
<1> QED
  BY <1>3, <1>4, <1>5, <1>6, <1>7, <1>8, <1>9, <1>10, <1>11, <1>12

\* Transactions of the capture requests and of assignment keep it well typed.
LEMMA CaptureType ==
    ASSUME TypeOK, NEW r \in Requests,
           \/ RecordResult(r) \/ RecordPart(r) \/ UploadAttachment(r)
           \/ RecordTitle(r) \/ Assign(r) \/ GiveUp(r)
    PROVE  TypeOK'
<1>1. req[r] \in Request
  BY DEF TypeOK
<1>2. CASE RecordResult(r)
  <2>1. req[r].field \in Fields /\ req[r].status \in JobStatusT
    BY <1>1, <1>2, RequestShape DEF RecordResult
  <2>2. content' \in Content
    <3> DEFINE f == req[r].field
    <3>1. content' = [content EXCEPT !.results[f] = @ + 1]
      BY <1>2 DEF RecordResult
    <3>2. content \in Content /\ f \in Fields
      BY <2>1 DEF TypeOK
    <3> HIDE DEF f
    <3> QED
      BY <3>1, <3>2 DEF Content
  <2>3. job' \in JobRow
    <3> DEFINE st == IF req[r].status = "assigned" THEN "in_progress" ELSE job.status
               n == job.draftVersion + 1
    <3>1. job' = [job EXCEPT !.status = st, !.draftVersion = n]
      BY <1>2 DEF RecordResult, transitionToInProgress
    <3>2. job \in JobRow /\ st \in JobStatusT /\ n \in Nat
      BY DEF TypeOK, JobRow, JobStatusT
    <3> HIDE DEF st, n
    <3> QED
      BY <3>1, <3>2 DEF JobRow
  <2> QED
    BY <1>2, <2>2, <2>3, DoneType DEF RecordResult, TypeOK
<1>3. CASE RecordPart(r)
  <2>1. content' \in Content
    BY <1>3 DEF RecordPart, TypeOK, Content
  <2> QED
    BY <1>3, <2>1, DoneType DEF RecordPart, TypeOK
<1>4. CASE UploadAttachment(r)
  <2>1. content' \in Content
    BY <1>4 DEF UploadAttachment, TypeOK, Content
  <2> QED
    BY <1>4, <2>1, DoneType DEF UploadAttachment, TypeOK
<1>5. CASE RecordTitle(r)
  <2>1. job' \in JobRow
    BY <1>1, <1>5, RequestShape DEF RecordTitle, TypeOK, JobRow
  <2> QED
    BY <1>5, <2>1, DoneType DEF RecordTitle, TypeOK
<1>6. CASE Assign(r)
  <2>1. req[r].assignee \in Users
    BY <1>1, <1>6, RequestShape, AssignableAssumption DEF Assign
  <2>2. job' \in JobRow
    BY <1>6, <2>1 DEF Assign, TypeOK, JobRow, JobStatusT
  <2> QED
    BY <1>6, <2>2, DoneType DEF Assign, TypeOK
<1>7. CASE GiveUp(r)
  BY <1>7, DoneType DEF GiveUp, TypeOK
<1> QED
  BY <1>2, <1>3, <1>4, <1>5, <1>6, <1>7

\* What a signing transaction draws and hashes is well typed.
LEMMA SigningData ==
    ASSUME TypeOK, NEW q \in SnapRequest
    PROVE  /\ Len(steps) \in Nat
           /\ Now(q) \subseteq Nat
           /\ StageOr(q.snap, 1) \in Nat \ {0}
           /\ StageOr(q.snap, 0) \in Nat
           /\ \A st \in JobStatusT : Canonical(q.snap, st) \in CanonicalRecord
BY DEF TypeOK, SnapRequest, Snapshot, Now, StageOr, Canonical, CanonicalRecord

\* Transactions that append an approval step keep the state well typed.
LEMMA SigningType ==
    ASSUME TypeOK, NEW r \in Requests,
           Submit(r) \/ Verify(r) \/ Return(r) \/ Recall(r) \/ Void(r)
    PROVE  TypeOK'
<1> DEFINE q == req[r]
<1>1. q \in Request
  BY DEF TypeOK
<1>2. q \in SnapRequest
  BY <1>1, RequestShape DEF Submit, Verify, Return, Recall, TakeBack, Void
<1>3. q.actor \in Users /\ q.snap \in Snapshot /\ q.snap.content \in Content
  BY <1>2 DEF SnapRequest, Snapshot
<1>4. CASE Submit(r)
  <2>1. job' \in JobRow
    <3>1. job' = [job EXCEPT !.status = "submitted", !.submittedBy = q.actor,
                             !.submittedAt = Len(steps) + 1, !.stage = 1]
      BY <1>4 DEF Submit
    <3>2. job \in JobRow /\ Len(steps) + 1 \in Nat
      BY <1>2, SigningData DEF TypeOK
    <3> HIDE DEF q
    <3> QED
      BY <1>3, <3>1, <3>2 DEF JobRow, JobStatusT
  <2>2. [status |-> "submitted", submittedBy |-> q.actor,
         submittedAt |-> Len(steps) + 1, content |-> q.snap.content] \in CanonicalRecord
    BY <1>2, <1>3, SigningData DEF CanonicalRecord, JobStatusT
  <2>3. steps' \in Seq(ApprovalStep) /\ signed' \in CanonicalRecord
    BY <1>2, <1>4, <2>2, SigningData, StepType DEF Submit, ApprovalActionT
  <2> QED
    BY <1>4, <2>1, <2>3, DoneType DEF Submit, TypeOK
<1>5. CASE Verify(r)
  <2> DEFINE k == StageOr(q.snap, 1)
  <2>1. job' \in JobRow
    <3> DEFINE st == StatusAfterVerify(k)
               n == IF k >= StageCount THEN 0 ELSE k + 1
    <3>1. job' = [job EXCEPT !.status = st, !.stage = n]
      BY <1>5 DEF Verify
    <3>2. job \in JobRow /\ k \in Nat
      BY <1>2, SigningData DEF TypeOK
    <3>3. st \in JobStatusT /\ n \in Nat
      BY <3>2 DEF StatusAfterVerify, JobStatusT
    <3> HIDE DEF st, n
    <3> QED
      BY <3>1, <3>2, <3>3 DEF JobRow
  <2>2. steps' \in Seq(ApprovalStep) /\ signed' \in CanonicalRecord
    <3>1. PICK now \in Now(q) :
            createApprovalStep(q, "verified", k, now,
               Canonical(q.snap, StatusAfterVerify(k)))
      BY <1>5 DEF Verify
    <3>2. Canonical(q.snap, StatusAfterVerify(k)) \in CanonicalRecord
      BY <1>2, SigningData DEF JobStatusT, StatusAfterVerify
    <3>3. now \in Nat /\ k \in Nat
      BY <1>2, SigningData
    <3> QED
      BY <1>2, <3>1, <3>2, <3>3, StepType DEF ApprovalActionT
  <2> QED
    BY <1>5, <2>1, <2>2, DoneType DEF Verify, TypeOK
<1>6. CASE Return(r) \/ Recall(r)
  <2>1. PICK op \in {"return", "recall"}, action \in {"returned", "recalled"} :
            TakeBack(r, op, action)
    BY <1>6 DEF Return, Recall
  <2>2. job' \in JobRow
    BY <2>1 DEF TakeBack, TypeOK, JobRow, JobStatusT
  <2>3. steps' \in Seq(ApprovalStep) /\ signed' \in CanonicalRecord
    BY <1>2, <2>1, SigningData, StepType DEF TakeBack, ApprovalActionT, JobStatusT
  <2> QED
    BY <2>1, <2>2, <2>3, DoneType DEF TakeBack, TypeOK
<1>7. CASE Void(r)
  <2>1. job' \in JobRow
    BY <1>7 DEF Void, TypeOK, JobRow, JobStatusT
  <2>2. steps' \in Seq(ApprovalStep) /\ signed' \in CanonicalRecord
    BY <1>2, <1>7, SigningData, StepType DEF Void, ApprovalActionT, JobStatusT
  <2> QED
    BY <1>7, <2>1, <2>2, DoneType DEF Void, TypeOK
<1> QED
  BY <1>4, <1>5, <1>6, <1>7

\* A job is created well typed.
LEMMA InitType == Init => TypeOK
BY AssignableAssumption
   DEF Init, TypeOK, JobRow, Content, CanonicalRecord, JobStatusT, TitleText, Request, Idle

\* Every step of the specification keeps the state well typed.
LEMMA NextType == TypeOK /\ [Next]_vars => TypeOK'
<1> SUFFICES ASSUME TypeOK, [Next]_vars PROVE TypeOK'
  OBVIOUS
<1>1. CASE UNCHANGED vars
  BY <1>1 DEF vars, TypeOK
<1>2. CASE Next
  <2>1. PICK r \in Requests : Next!(r)
    BY <1>2 DEF Next
  <2> QED
    BY <2>1, ReadType, CaptureType, SigningType
<1> QED
  BY <1>1, <1>2

\* The state of JobLifecycle is well typed in every reachable state, however
\* many requests of the job endpoints are in flight.
THEOREM TypeCorrect == Spec => []TypeOK
BY InitType, NextType, PTL DEF Spec

-----------------------------------------------------------------------------
(* The inductive invariant. *)

AllRecorded == \A f \in Mandatory : content.results[f] > 0

\* What a request's transaction may still rely on from its read.
CarriedOver ==
    \A r \in Requests :
        /\ req[r].op = "assign" => req[r].status \in {"scheduled", "assigned", "in_progress"}
        /\ req[r].op = "submit" => AllRecorded
        /\ req[r].op \in {"submit", "verify", "return", "recall", "void"} =>
              req[r].snap.submittedAt <= req[r].snap.seen /\ req[r].snap.seen <= Len(steps)

\* A step's timestamp lies before its commit and, for a verification, not
\* before the submission it read.
StepTimes ==
    \A i \in 1..Len(steps) :
        /\ steps[i].actedAt < i
        /\ steps[i].action = "verified" => steps[i].submission <= steps[i].actedAt

IInv ==
    /\ TypeOK
    /\ job.submittedAt <= Len(steps)
    /\ CarriedOver
    /\ StepTimes
    /\ StageSignatures
    /\ VerifierNotSubmitter
    /\ DistinctVerifiersInCycle
    /\ MandatoryRecorded

\* A request that only reads, or dies: nothing in the database changes.
Quiet(r) ==
    \/ \E u \in Users, f \in Fields : RecordResult_Read(r, u, f)
    \/ \E u \in Users : RecordPart_Read(r, u)
    \/ \E u \in Users : UploadAttachment_Read(r, u)
    \/ \E u \in Users, text \in TitleText : RecordTitle_Read(r, u, text)
    \/ \E u \in Users, a \in Assignable : Assign_Read(r, u, a)
    \/ \E u \in Users : Submit_Read(r, u)
    \/ \E u \in Users : Verify_Read(r, u)
    \/ \E u \in Users : Return_Read(r, u)
    \/ \E u \in Users : Recall_Read(r, u)
    \/ \E u \in Users : Void_Read(r, u)
    \/ GiveUp(r)

\* Quiet steps leave the four tables alone.
LEMMA QuietUnchanged ==
    ASSUME NEW r \in Requests, Quiet(r)
    PROVE  UNCHANGED <<job, content, steps, signed>>
BY DEF Quiet, Load, GiveUp, RecordResult_Read, RecordPart_Read, UploadAttachment_Read,
       RecordTitle_Read, Assign_Read, Submit_Read, Verify_Read, Return_Read, Recall_Read,
       Void_Read

\* The transactions of the capture requests and of assignment append no step,
\* leave the submission alone, never move the record into a signed status, and
\* only ever raise the count of a result.
LEMMA CaptureEffect ==
    ASSUME TypeOK, NEW r \in Requests,
           \/ RecordResult(r) \/ RecordPart(r) \/ UploadAttachment(r)
           \/ RecordTitle(r) \/ Assign(r)
    PROVE  /\ UNCHANGED <<steps, signed>>
           /\ Done(r)
           /\ job'.submittedAt = job.submittedAt
           /\ job'.submittedBy = job.submittedBy
           /\ job'.stage = job.stage
           /\ job'.status # job.status => job'.status \in {"assigned", "in_progress"}
           /\ AllRecorded => AllRecorded'
<1>1. req[r] \in Request /\ job \in JobRow /\ content \in Content
  BY DEF TypeOK
<1>2. CASE RecordResult(r)
  <2>1. req[r].field \in Fields
    BY <1>1, <1>2, RequestShape DEF RecordResult
  <2>2. AllRecorded => AllRecorded'
    <3> DEFINE f == req[r].field
    <3>1. content' = [content EXCEPT !.results[f] = @ + 1]
      BY <1>2 DEF RecordResult
    <3> HIDE DEF f
    <3> QED
      BY <1>1, <2>1, <3>1, TemplateAssumption DEF AllRecorded, Content
  <2> QED
    BY <1>1, <1>2, <2>2 DEF RecordResult, transitionToInProgress, JobRow
<1>3. CASE RecordPart(r) \/ UploadAttachment(r)
  BY <1>1, <1>3 DEF RecordPart, UploadAttachment, AllRecorded, Content
<1>4. CASE RecordTitle(r)
  BY <1>1, <1>4 DEF RecordTitle, AllRecorded, JobRow
<1>5. CASE Assign(r)
  BY <1>1, <1>5 DEF Assign, AllRecorded, JobRow
<1> QED
  BY <1>2, <1>3, <1>4, <1>5

\* What appending an approval step does to the sequence of steps.
LEMMA AppendStep ==
    ASSUME TypeOK, NEW q, NEW action, NEW stage, NEW actedAt, NEW record,
           createApprovalStep(q, action, stage, actedAt, record)
    PROVE  /\ Len(steps) \in Nat
           /\ Len(steps') = Len(steps) + 1
           /\ \A i \in 1..Len(steps) : steps'[i] = steps[i]
           /\ steps'[Len(steps) + 1].action = action
           /\ steps'[Len(steps) + 1].stage = stage
           /\ steps'[Len(steps) + 1].actor = q.actor
           /\ steps'[Len(steps) + 1].actedAt = actedAt
           /\ steps'[Len(steps) + 1].submission = record.submittedAt
BY DEF createApprovalStep, TypeOK

\* Nothing a request keeps from its read goes stale when the database moves on
\* in ways that keep the recorded results and the steps.
LEMMA CarriedPreserved ==
    ASSUME TypeOK, CarriedOver, NEW r \in Requests, Done(r),
           AllRecorded => AllRecorded',
           Len(steps') \in Nat, Len(steps) \in Nat, Len(steps) <= Len(steps')
    PROVE  CarriedOver'
<1> SUFFICES ASSUME NEW x \in Requests
             PROVE  /\ req'[x].op = "assign" =>
                         req'[x].status \in {"scheduled", "assigned", "in_progress"}
                    /\ req'[x].op = "submit" => AllRecorded'
                    /\ req'[x].op \in {"submit", "verify", "return", "recall", "void"} =>
                         req'[x].snap.submittedAt <= req'[x].snap.seen
                         /\ req'[x].snap.seen <= Len(steps')
  BY DEF CarriedOver
<1>1. CASE x = r
  BY <1>1 DEF Done, TypeOK, Idle
<1>2. CASE x # r
  <2>1. req'[x] = req[x] /\ req[x] \in Request
    BY <1>2 DEF Done, TypeOK
  <2>2. req[x].op \in {"submit", "verify", "return", "recall", "void"} =>
          req[x].snap.seen \in Nat
    BY <2>1, RequestShape DEF SnapRequest, Snapshot
  <2> QED
    BY <2>1, <2>2 DEF CarriedOver
<1> QED
  BY <1>1, <1>2

\* A read carries over only what holds when it is made.
LEMMA CarriedQuiet ==
    ASSUME IInv, NEW r \in Requests, Quiet(r)
    PROVE  CarriedOver'
<1>1. UNCHANGED <<job, content, steps, signed>>
  BY QuietUnchanged
<1>2. TypeOK /\ CarriedOver /\ Len(steps) \in Nat /\ job.submittedAt <= Len(steps)
      /\ job \in JobRow
  BY DEF IInv, TypeOK
<1>3. CASE GiveUp(r)
  BY <1>1, <1>2, <1>3, CarriedPreserved DEF GiveUp, AllRecorded
<1>4. CASE ~GiveUp(r)
  <2>1. req \in [Requests -> Request]
    BY <1>2 DEF TypeOK
  <2>2. ASSUME NEW u, NEW roles, NEW m, Load(r, u, roles, m)
        PROVE  req'[r] = m /\ \A x \in Requests \ {r} : req'[x] = req[x]
    BY <2>1, <2>2 DEF Load
  <2>3. /\ \A x \in Requests \ {r} : req'[x] = req[x]
        /\ req'[r].op = "assign" =>
              req'[r].status \in {"scheduled", "assigned", "in_progress"}
        /\ req'[r].op = "submit" => AllRecorded
        /\ req'[r].op \in {"submit", "verify", "return", "recall", "void"} =>
              req'[r].snap = Snap
    <3>1. CASE \E u \in Users, a \in Assignable : Assign_Read(r, u, a)
      <4>1. PICK u \in Users, a \in Assignable : Assign_Read(r, u, a)
        BY <3>1
      <4>2. job.status \in {"scheduled", "assigned", "in_progress"}
        BY <1>2, <4>1 DEF Assign_Read, assertLegalTransition, LEGAL_TRANSITIONS,
                          JobRow, JobStatusT
      <4> QED
        BY <2>2, <4>1, <4>2 DEF Assign_Read
    <3>2. CASE \E u \in Users : Submit_Read(r, u)
      <4>1. PICK u \in Users : Submit_Read(r, u)
        BY <3>2
      <4>2. AllRecorded
        BY <1>2, <4>1, TemplateAssumption
           DEF Submit_Read, findOutstandingMandatoryItems, AllRecorded, TypeOK, Content
      <4> QED
        BY <2>2, <4>1, <4>2 DEF Submit_Read
    <3>3. CASE \E u \in Users : \/ Verify_Read(r, u) \/ Return_Read(r, u)
                               \/ Recall_Read(r, u) \/ Void_Read(r, u)
      <4>1. PICK u \in Users : \/ Verify_Read(r, u) \/ Return_Read(r, u)
                               \/ Recall_Read(r, u) \/ Void_Read(r, u)
        BY <3>3
      <4> QED
        BY <2>2, <4>1 DEF Verify_Read, Return_Read, Recall_Read, Void_Read
    <3>4. CASE \E u \in Users : \/ \E f \in Fields : RecordResult_Read(r, u, f)
                               \/ RecordPart_Read(r, u)
                               \/ UploadAttachment_Read(r, u)
                               \/ \E text \in TitleText : RecordTitle_Read(r, u, text)
      <4>1. PICK u \in Users : \/ \E f \in Fields : RecordResult_Read(r, u, f)
                               \/ RecordPart_Read(r, u)
                               \/ UploadAttachment_Read(r, u)
                               \/ \E text \in TitleText : RecordTitle_Read(r, u, text)
        BY <3>4
      <4>2. CASE \E f \in Fields : RecordResult_Read(r, u, f)
        BY <2>2, <4>2 DEF RecordResult_Read
      <4>3. CASE RecordPart_Read(r, u) \/ UploadAttachment_Read(r, u)
        BY <2>2, <4>3 DEF RecordPart_Read, UploadAttachment_Read
      <4>4. CASE \E text \in TitleText : RecordTitle_Read(r, u, text)
        BY <2>2, <4>4 DEF RecordTitle_Read
      <4> QED
        BY <4>1, <4>2, <4>3, <4>4
    <3> QED
      BY <1>4, <3>1, <3>2, <3>3, <3>4 DEF Quiet
  <2>4. Snap.submittedAt <= Snap.seen /\ Snap.seen <= Len(steps)
    BY <1>2 DEF Snap
  <2>5. AllRecorded' = AllRecorded
    BY <1>1 DEF AllRecorded
  <2> QED
    BY <1>1, <1>2, <2>3, <2>4, <2>5 DEF CarriedOver
<1> QED
  BY <1>3, <1>4

-----------------------------------------------------------------------------
(* Every step preserves the invariant. *)

\* The signatures' half of the invariant, apart from types and requests.
SignatureInv ==
    /\ job.submittedAt <= Len(steps)
    /\ StepTimes
    /\ StageSignatures
    /\ VerifierNotSubmitter
    /\ DistinctVerifiersInCycle
    /\ MandatoryRecorded

\* It survives any step that adds no approval step, leaves the submission alone
\* and at most takes the record out of the signed statuses.
LEMMA FrameSignatures ==
    ASSUME SignatureInv, steps' = steps,
           job'.submittedAt = job.submittedAt, job'.submittedBy = job.submittedBy,
           job'.stage = job.stage,
           job'.status # job.status => job'.status \in {"assigned", "in_progress"},
           AllRecorded => AllRecorded'
    PROVE  SignatureInv'
BY DEF SignatureInv, StepTimes, StageSignatures, VerifierNotSubmitter, Cycle,
       DistinctVerifiersInCycle, MandatoryRecorded, AllRecorded

\* A transaction that appends a step acts for the request that carries it.
LEMMA Signer ==
    ASSUME IInv, NEW r \in Requests,
           Submit(r) \/ Verify(r) \/ Return(r) \/ Recall(r) \/ Void(r)
    PROVE  /\ req[r] \in SnapRequest
           /\ req[r].snap.seen \in Nat /\ req[r].snap.submittedAt \in Nat
           /\ req[r].snap.submittedAt <= req[r].snap.seen
           /\ req[r].snap.seen <= Len(steps)
           /\ Len(steps) \in Nat
           /\ job \in JobRow
           /\ content' = content
           /\ Done(r)
<1>1. req[r] \in Request /\ job \in JobRow /\ Len(steps) \in Nat
  BY DEF IInv, TypeOK
<1>2. req[r].op \in {"submit", "verify", "return", "recall", "void"}
      /\ content' = content /\ Done(r)
  BY DEF Submit, Verify, Return, Recall, TakeBack, Void
<1>3. req[r] \in SnapRequest
  BY <1>1, <1>2, RequestShape
<1> QED
  BY <1>1, <1>2, <1>3 DEF IInv, CarriedOver, SnapRequest, Snapshot

LEMMA SubmitSignatures ==
    ASSUME IInv, NEW r \in Requests, Submit(r)
    PROVE  SignatureInv'
<1> DEFINE n == Len(steps)
<1>1. n \in Nat /\ job \in JobRow /\ content' = content
  BY Signer
<1>2. /\ job'.status = "submitted" /\ job'.submittedAt = n + 1 /\ job'.stage = 1
  BY <1>1 DEF Submit, JobRow
<1>3. PICK record : createApprovalStep(req[r], "submitted", 0, n, record)
  BY DEF Submit
<1>4. /\ Len(steps') = n + 1
      /\ \A i \in 1..n : steps'[i] = steps[i]
      /\ steps'[n + 1].action = "submitted" /\ steps'[n + 1].actedAt = n
  BY <1>3, AppendStep DEF IInv
<1>5. AllRecorded'
  BY <1>1 DEF IInv, CarriedOver, Submit, AllRecorded
<1> HIDE DEF n
<1>6. StepTimes'
  <2>1. \A i \in 1..n : steps[i].actedAt < i
          /\ (steps[i].action = "verified" => steps[i].submission <= steps[i].actedAt)
    BY DEF IInv, StepTimes, n
  <2> QED
    BY <1>1, <1>4, <2>1 DEF StepTimes
<1>7. Cycle' = {}
  BY <1>1, <1>2, <1>4 DEF Cycle
<1>8. StageSignatures'
  BY <1>1, <1>2, <1>4, RouteAssumption DEF StageSignatures
<1> QED
  BY <1>1, <1>2, <1>4, <1>5, <1>6, <1>7, <1>8
     DEF SignatureInv, VerifierNotSubmitter, DistinctVerifiersInCycle, MandatoryRecorded,
         AllRecorded

\* A return, a recall or a void takes the record out of the signed statuses.
LEMMA LeaveSignatures ==
    ASSUME IInv, NEW r \in Requests, Return(r) \/ Recall(r) \/ Void(r)
    PROVE  SignatureInv'
<1> DEFINE n == Len(steps)
<1>1. n \in Nat /\ job \in JobRow /\ req[r] \in SnapRequest
      /\ req[r].snap.seen \in Nat
  BY Signer
<1>2. /\ job'.status \in {"in_progress", "voided"}
      /\ job'.submittedAt = job.submittedAt
      /\ job'.submittedBy = job.submittedBy
  BY <1>1 DEF Return, Recall, TakeBack, Void, JobRow
<1>3. PICK action \in {"returned", "recalled", "voided"}, stage \in Nat,
           actedAt \in 0..n, record \in CanonicalRecord :
         createApprovalStep(req[r], action, stage, actedAt, record)
  <2>1. /\ StageOr(req[r].snap, 1) \in Nat /\ StageOr(req[r].snap, 0) \in Nat
        /\ \A st \in {"in_progress", "voided"} : Canonical(req[r].snap, st) \in CanonicalRecord
        /\ Now(req[r]) \subseteq 0..n
    BY <1>1, SigningData DEF IInv, JobStatusT, Now
  <2>2. CASE Void(r)
    BY <1>1, <2>1, <2>2 DEF Void
  <2>3. CASE Return(r)
    BY <1>1, <2>1, <2>3 DEF Return, TakeBack
  <2>4. CASE Recall(r)
    BY <1>1, <2>1, <2>4 DEF Recall, TakeBack
  <2> QED
    BY <2>2, <2>3, <2>4
<1>4. /\ Len(steps') = n + 1
      /\ \A i \in 1..n : steps'[i] = steps[i]
      /\ steps'[n + 1].action = action /\ steps'[n + 1].actedAt = actedAt
  BY <1>3, AppendStep DEF IInv
<1>5. /\ job.submittedAt <= n /\ job.submittedAt \in Nat
      /\ \A i \in 1..n : steps[i].actedAt < i
          /\ (steps[i].action = "verified" => steps[i].submission <= steps[i].actedAt)
      /\ \A i \in (job.submittedAt + 1)..n :
            steps[i].action = "verified" => steps[i].actor # job.submittedBy
  BY <1>1 DEF IInv, StepTimes, VerifierNotSubmitter, Cycle, JobRow
<1> HIDE DEF n
<1>6. StepTimes'
  BY <1>1, <1>3, <1>4, <1>5 DEF StepTimes
<1>7. VerifierNotSubmitter'
  BY <1>1, <1>2, <1>3, <1>4, <1>5 DEF VerifierNotSubmitter, Cycle
<1> QED
  BY <1>1, <1>2, <1>4, <1>5, <1>6, <1>7
     DEF SignatureInv, StageSignatures, DistinctVerifiersInCycle, MandatoryRecorded

\* Under StageSignatures every step since the submission is a verification, so
\* every return and recall was committed, and dated, before it.
LEMMA SignedCycle ==
    ASSUME IInv, job.status \in {"submitted", "archived"}
    PROVE  /\ \A i \in Cycle : i \in 1..Len(steps) /\ steps[i].action = "verified"
           /\ \A b \in 1..Len(steps) : steps[b].action \in {"returned", "recalled"}
                 => steps[b].actedAt < job.submittedAt
<1> DEFINE s == job.submittedAt
           n == Len(steps)
<1>1. s \in Nat /\ n \in Nat /\ job.stage \in Nat /\ s <= n
      /\ \A b \in 1..n : steps[b] \in ApprovalStep
  BY DEF IInv, TypeOK, JobRow
<1>2. PICK m \in Nat : n = s + m /\ \A k \in 1..m : steps[s + k].action = "verified"
  <2>1. CASE job.status = "submitted"
    <3>1. job.stage - 1 \in Nat
      BY <1>1, <2>1, RouteAssumption DEF IInv, StageSignatures
    <3> QED
      BY <2>1, <3>1 DEF IInv, StageSignatures
  <2>2. CASE job.status = "archived"
    BY <2>2, RouteAssumption DEF IInv, StageSignatures
  <2> QED
    BY <2>1, <2>2
<1>3. ASSUME NEW i \in Cycle
      PROVE  i \in 1..n /\ steps[i].action = "verified"
  <2>1. i \in 1..n /\ i - s \in 1..m /\ i = s + (i - s)
    BY <1>1, <1>2 DEF Cycle
  <2> QED
    BY <1>2, <2>1
<1>4. ASSUME NEW b \in 1..n, steps[b].action \in {"returned", "recalled"}
      PROVE  steps[b].actedAt < s
  <2>1. b \notin Cycle
    BY <1>3, <1>4
  <2>2. b <= s
    BY <1>1, <2>1 DEF Cycle
  <2>3. steps[b].actedAt < b /\ steps[b].actedAt \in Nat
    BY <1>1 DEF IInv, StepTimes, ApprovalStep
  <2> QED
    BY <1>1, <2>2, <2>3
<1> QED
  BY <1>3, <1>4

LEMMA VerifySignatures ==
    ASSUME IInv, NEW r \in Requests, Verify(r)
    PROVE  SignatureInv'
<1> DEFINE n == Len(steps)
           s == job.submittedAt
           q == req[r]
           k == job.stage
<1>1. /\ n \in Nat /\ job \in JobRow /\ q \in SnapRequest /\ content' = content
      /\ q.snap.seen \in Nat /\ q.snap.submittedAt \in Nat
      /\ q.snap.submittedAt <= q.snap.seen /\ q.snap.seen <= n
  BY Signer
<1>2. s \in Nat /\ k \in Nat /\ s <= n
  BY <1>1 DEF IInv, JobRow
<1>3. job.status = "submitted" /\ StageOr(q.snap, 1) = k
      /\ job.submittedBy # q.actor /\ ~alreadyVerifiedThisCycle(q.actor)
  BY DEF Verify, StillAtStage, VerifierNotSubmitterTrigger
<1>4. /\ k \in 1..StageCount /\ n = s + (k - 1)
      /\ \A j \in 1..(k - 1) : steps[s + j].action = "verified" /\ steps[s + j].stage = j
  BY <1>3 DEF IInv, StageSignatures
<1>5. /\ job'.status = IF k >= StageCount THEN "archived" ELSE "submitted"
      /\ job'.stage = IF k >= StageCount THEN 0 ELSE k + 1
      /\ job'.submittedAt = s /\ job'.submittedBy = job.submittedBy
  BY <1>1, <1>3 DEF Verify, JobRow, StatusAfterVerify
<1>6. PICK now \in q.snap.seen .. n :
         createApprovalStep(q, "verified", k, now,
            Canonical(q.snap, StatusAfterVerify(k)))
  BY <1>3 DEF Verify, Now
<1>7. /\ Len(steps') = n + 1
      /\ \A i \in 1..n : steps'[i] = steps[i]
      /\ steps'[n + 1].action = "verified" /\ steps'[n + 1].actedAt = now
      /\ steps'[n + 1].stage = k /\ steps'[n + 1].actor = q.actor
      /\ steps'[n + 1].submission = q.snap.submittedAt
  BY <1>6, AppendStep DEF IInv, Canonical
<1>8. now \in Nat /\ now <= n /\ q.snap.submittedAt <= now
  BY <1>1
<1> HIDE DEF n, s, q, k
<1>9. StepTimes'
  <2>1. \A i \in 1..n : steps[i].actedAt < i
          /\ (steps[i].action = "verified" => steps[i].submission <= steps[i].actedAt)
    BY DEF IInv, StepTimes, n
  <2> QED
    BY <1>1, <1>7, <1>8, <2>1 DEF StepTimes
<1>10. StageSignatures'
  <2>1. ASSUME NEW j \in 1..k
        PROVE  steps'[s + j].action = "verified" /\ steps'[s + j].stage = j
    <3>1. CASE j = k
      <4>1. s + j = n + 1
        BY <1>1, <1>2, <1>4, <3>1
      <4> QED
        BY <1>7, <3>1, <4>1
    <3>2. CASE j \in 1..(k - 1)
      <4>1. s + j \in 1..n
        BY <1>1, <1>2, <1>4, <3>2
      <4> QED
        BY <1>4, <1>7, <3>2, <4>1
    <3> QED
      BY <1>2, <3>1, <3>2
  <2>2. Len(steps') = s + k
    BY <1>1, <1>2, <1>4, <1>7
  <2>3. CASE k >= StageCount
    <3>1. k = StageCount
      BY <1>2, <1>4, <2>3, RouteAssumption
    <3> QED
      BY <1>5, <2>1, <2>2, <2>3, <3>1 DEF StageSignatures
  <2>4. CASE ~(k >= StageCount)
    <3>1. k + 1 \in 1..StageCount /\ (k + 1) - 1 = k
      BY <1>2, <1>4, <2>4, RouteAssumption
    <3> QED
      BY <1>5, <2>1, <2>2, <2>4, <3>1 DEF StageSignatures
  <2> QED
    BY <2>3, <2>4
<1>11. Cycle = (s + 1)..n /\ Cycle' = (s + 1)..(n + 1)
  BY <1>5, <1>7 DEF Cycle, n, s
<1>12. VerifierNotSubmitter'
  <2>1. \A i \in (s + 1)..n : steps[i].action = "verified" => steps[i].actor # job.submittedBy
    BY <1>11 DEF IInv, VerifierNotSubmitter
  <2> QED
    BY <1>1, <1>2, <1>3, <1>5, <1>7, <1>11, <2>1 DEF VerifierNotSubmitter
<1>13. DistinctVerifiersInCycle'
  <2>1. ASSUME NEW i \in (s + 1)..n, steps[i].submission = s
        PROVE  steps[i].actor # q.actor
    <3>1. i \in 1..n /\ steps[i].action = "verified"
      BY <1>3, <1>11, SignedCycle DEF n
    <3>2. steps[i].actedAt >= s
      <4>1. steps[i] \in ApprovalStep
        BY <3>1 DEF IInv, TypeOK, n
      <4>2. steps[i].submission <= steps[i].actedAt
        BY <3>1 DEF IInv, StepTimes, n
      <4> QED
        BY <1>2, <2>1, <3>1, <4>1, <4>2 DEF ApprovalStep
    <3>3. ASSUME NEW b \in 1..n, steps[b].action \in {"returned", "recalled"}
          PROVE  steps[i].actedAt > steps[b].actedAt
      <4>1. steps[b].actedAt < s
        BY <1>3, <3>3, SignedCycle DEF n, s
      <4>2. steps \in Seq(ApprovalStep)
        BY DEF IInv, TypeOK
      <4>3. steps[i] \in ApprovalStep /\ steps[b] \in ApprovalStep
        BY <3>1, <4>2 DEF n
      <4> QED
        BY <1>2, <3>2, <4>1, <4>3 DEF ApprovalStep
    <3> QED
      BY <1>3, <3>1, <3>3 DEF alreadyVerifiedThisCycle, n
  <2>2. \A i, j \in (s + 1)..n :
           /\ steps[i].submission = s /\ steps[j].submission = s
           /\ steps[i].actor = steps[j].actor
           => i = j
    BY <1>3, <1>11 DEF IInv, DistinctVerifiersInCycle, s
  <2>3. ASSUME NEW i \in (s + 1)..(n + 1)
        PROVE  \/ i = n + 1
               \/ i \in (s + 1)..n /\ steps'[i] = steps[i]
    BY <1>1, <1>2, <1>7
  <2> QED
    BY <1>5, <1>7, <1>11, <2>1, <2>2, <2>3 DEF DistinctVerifiersInCycle
<1>14. MandatoryRecorded'
  BY <1>1, <1>3 DEF IInv, MandatoryRecorded
<1> QED
  BY <1>1, <1>2, <1>5, <1>7, <1>9, <1>10, <1>12, <1>13, <1>14 DEF SignatureInv

\* IInv is inductive.
LEMMA NextInv == IInv /\ [Next]_vars => IInv'
<1> SUFFICES ASSUME IInv, [Next]_vars PROVE IInv'
  OBVIOUS
<1>1. TypeOK'
  BY NextType DEF IInv
<1>2. SignatureInv /\ TypeOK /\ CarriedOver /\ Len(steps) \in Nat
  BY DEF IInv, SignatureInv, TypeOK
<1>3. SUFFICES CarriedOver' /\ SignatureInv'
  BY <1>1 DEF IInv, SignatureInv
<1>4. CASE UNCHANGED vars
  BY <1>2, <1>4, FrameSignatures DEF vars, CarriedOver, AllRecorded
<1>5. CASE Next
  <2>1. PICK r \in Requests :
           \/ Quiet(r)
           \/ RecordResult(r) \/ RecordPart(r) \/ UploadAttachment(r)
           \/ RecordTitle(r) \/ Assign(r)
           \/ Submit(r) \/ Verify(r) \/ Return(r) \/ Recall(r) \/ Void(r)
    BY <1>5 DEF Next, Quiet
  <2>2. CASE Quiet(r)
    <3>1. UNCHANGED <<job, content, steps, signed>>
      BY <2>2, QuietUnchanged
    <3> QED
      BY <1>2, <2>2, <3>1, CarriedQuiet, FrameSignatures DEF AllRecorded
  <2>3. CASE \/ RecordResult(r) \/ RecordPart(r) \/ UploadAttachment(r)
             \/ RecordTitle(r) \/ Assign(r)
    BY <1>2, <2>3, CaptureEffect, CarriedPreserved, FrameSignatures
  <2>4. CASE Submit(r) \/ Verify(r) \/ Return(r) \/ Recall(r) \/ Void(r)
    <3>1. content' = content /\ Done(r)
      BY <2>4, Signer
    <3>2. Len(steps') = Len(steps) + 1
      <4>1. PICK action, stage, actedAt, record :
               createApprovalStep(req[r], action, stage, actedAt, record)
        BY <2>4 DEF Submit, Verify, Return, Recall, TakeBack, Void
      <4> QED
        BY <1>2, <4>1, AppendStep
    <3>3. CarriedOver'
      BY <1>2, <3>1, <3>2, CarriedPreserved DEF AllRecorded
    <3> QED
      BY <2>4, <3>3, SubmitSignatures, VerifySignatures, LeaveSignatures
  <2> QED
    BY <2>1, <2>2, <2>3, <2>4
<1> QED
  BY <1>4, <1>5

\* The invariant holds in every reachable state.
LEMMA Invariant == Spec => []IInv
<1>1. Init => IInv
  <2> SUFFICES ASSUME Init PROVE IInv
    OBVIOUS
  <2>1. TypeOK
    BY AssignableAssumption
       DEF Init, TypeOK, JobRow, Content, CanonicalRecord, JobStatusT, TitleText,
           Request, Idle
  <2>2. /\ job.status \in {"scheduled", "assigned"} /\ job.submittedAt = 0
        /\ Len(steps) = 0 /\ \A r \in Requests : req[r].op = "idle"
    BY DEF Init, Idle
  <2>3. Cycle = {}
    BY <2>2 DEF Cycle
  <2> QED
    BY <2>1, <2>2, <2>3
       DEF IInv, CarriedOver, StepTimes, StageSignatures, VerifierNotSubmitter,
           DistinctVerifiersInCycle, MandatoryRecorded
<1> QED
  BY <1>1, NextInv, PTL DEF Spec

-----------------------------------------------------------------------------
(* The theorems. *)

\* The signatures of a record are one per stage, in order, whatever verifies,
\* returns, recalls and stale result writes interleave (verify's guarded update).
THEOREM StageSignaturesHold == Spec => []StageSignatures
<1>1. IInv => StageSignatures
  BY DEF IInv
<1> QED
  BY <1>1, Invariant, PTL

\* INV-05: the person the row names as submitter has verified nothing of that
\* submission, for any number of racing resubmissions.
THEOREM VerifierNotSubmitterHolds == Spec => []VerifierNotSubmitter
<1>1. IInv => VerifierNotSubmitter
  BY DEF IInv
<1> QED
  BY <1>1, Invariant, PTL

\* SYS-8 among the signatures that were read within the submission they sign:
\* the service's and the trigger's comparison of acted_at suffices there.
THEOREM DistinctVerifiers == Spec => []DistinctVerifiersInCycle
<1>1. IInv => DistinctVerifiersInCycle
  BY DEF IInv
<1> QED
  BY <1>1, Invariant, PTL

\* PR-045: a record out for signature or archived has every mandatory item,
\* because results are never deleted after the gate looked.
THEOREM MandatoryHolds == Spec => []MandatoryRecorded
<1>1. IInv => MandatoryRecorded
  BY DEF IInv
<1> QED
  BY <1>1, Invariant, PTL

\* INV-09: no request changes the row or a result of an archived or voided
\* record, except the void annotation of an archived one.
THEOREM ArchiveFrozen == Spec => TerminalRecordFrozen
<1> DEFINE Frozen ==
      job.status \in {"archived", "voided"} =>
          /\ content'.results = content.results
          /\ \/ job' = job
             \/ job.status = "archived" /\ job' = [job EXCEPT !.status = "voided"]
<1>1. ASSUME IInv, [Next]_vars PROVE Frozen \/ UNCHANGED vars
  <2> SUFFICES ASSUME Next, job.status \in {"archived", "voided"}
               PROVE  /\ content'.results = content.results
                      /\ \/ job' = job
                         \/ /\ job.status = "archived"
                            /\ job' = [job EXCEPT !.status = "voided"]
    BY <1>1
  <2>1. PICK r \in Requests :
           \/ Quiet(r)
           \/ RecordResult(r) \/ RecordPart(r) \/ UploadAttachment(r)
           \/ RecordTitle(r) \/ Assign(r)
           \/ Submit(r) \/ Verify(r) \/ Return(r) \/ Recall(r) \/ Void(r)
    BY DEF Next, Quiet
  <2>2. CASE Quiet(r)
    BY <2>2, QuietUnchanged
  <2>3. CASE RecordResult(r) \/ RecordTitle(r)
    BY <2>3 DEF RecordResult, RecordTitle, RowAcceptsUpdate
  <2>4. CASE RecordPart(r) \/ UploadAttachment(r)
    BY <1>1, <2>4 DEF RecordPart, UploadAttachment, IInv, TypeOK, Content
  <2>5. CASE Assign(r)
    BY <1>1, <2>5 DEF Assign, IInv, CarriedOver
  <2>6. CASE Submit(r) \/ Verify(r) \/ Return(r) \/ Recall(r)
    BY <2>6 DEF Submit, Verify, Return, Recall, TakeBack, StillAtStage
  <2>7. CASE Void(r)
    BY <2>7 DEF Void, VoidStillApplies
  <2> QED
    BY <2>1, <2>2, <2>3, <2>4, <2>5, <2>6, <2>7
<1>2. IInv /\ [Next]_vars => [Frozen]_vars
  BY <1>1
<1> QED
  BY <1>2, Invariant, PTL DEF Spec, TerminalRecordFrozen

-----------------------------------------------------------------------------
(* Refinement of ApprovalProtocol. *)

Phase == CASE job.status = "submitted" -> "out"
           [] job.status = "archived" -> "archived"
           [] job.status = "voided" -> "void"
           [] OTHER -> "open"
Signatures == IF job.status \in {"submitted", "archived"}
              THEN {<<steps[i].stage, steps[i].actor>> : i \in Cycle}
              ELSE {}

\* A verification's transaction is the signature of the stage the record is at.
LEMMA VerifyIsSign ==
    ASSUME IInv, NEW r \in Requests, Verify(r)
    PROVE  Approval!Sign(req[r].actor, job.stage)
<1> DEFINE n == Len(steps)
           s == job.submittedAt
           u == req[r].actor
           k == job.stage
<1>1. /\ n \in Nat /\ s \in Nat /\ k \in Nat /\ job \in JobRow
  BY Signer DEF JobRow
<1>2. /\ job.status = "submitted" /\ StageOr(req[r].snap, 1) = k /\ job.submittedBy # u
  BY DEF Verify, StillAtStage, VerifierNotSubmitterTrigger
<1>3. /\ k \in 1..StageCount /\ n = s + (k - 1)
      /\ \A j \in 1..(k - 1) : steps[s + j].stage = j
  BY <1>2 DEF IInv, StageSignatures
<1>4. /\ job'.status = IF k >= StageCount THEN "archived" ELSE "submitted"
      /\ job'.submittedAt = s /\ job'.submittedBy = job.submittedBy
  BY <1>1, <1>2 DEF Verify, JobRow, StatusAfterVerify
<1>5. PICK now, record : createApprovalStep(req[r], "verified", k, now, record)
  BY <1>2 DEF Verify
<1>6. /\ Len(steps') = n + 1
      /\ \A i \in 1..n : steps'[i] = steps[i]
      /\ steps'[n + 1].stage = k /\ steps'[n + 1].actor = u
  BY <1>5, AppendStep DEF IInv
<1>7. Cycle = (s + 1)..n /\ Cycle' = (s + 1)..(n + 1)
  BY <1>4, <1>6 DEF Cycle
<1> HIDE DEF n, s, u, k
<1>8. Signatures = {<<steps[i].stage, steps[i].actor>> : i \in (s + 1)..n}
  BY <1>2, <1>7 DEF Signatures
<1>9. Signatures' = {<<steps'[i].stage, steps'[i].actor>> : i \in (s + 1)..(n + 1)}
  BY <1>4, <1>7 DEF Signatures
<1>10. Signatures' = Signatures \cup {<<k, u>>}
  <2>1. \A i \in (s + 1)..n : steps'[i] = steps[i]
    BY <1>1, <1>6
  <2>2. (s + 1)..(n + 1) = ((s + 1)..n) \cup {n + 1}
    BY <1>1, <1>3
  <2> QED
    BY <1>6, <1>8, <1>9, <2>1, <2>2
<1>11. {sig[1] : sig \in Signatures} = 1..(k - 1)
  <2>1. ASSUME NEW i \in (s + 1)..n
        PROVE  steps[i].stage = i - s /\ i - s \in 1..(k - 1)
    <3>1. i - s \in 1..(k - 1) /\ s + (i - s) = i
      BY <1>1, <1>3
    <3> QED
      BY <1>3, <3>1
  <2>2. ASSUME NEW j \in 1..(k - 1)
        PROVE  s + j \in (s + 1)..n /\ steps[s + j].stage = j
    BY <1>1, <1>3
  <2>3. \A sig \in Signatures : sig[1] \in 1..(k - 1)
    BY <1>8, <2>1
  <2>4. ASSUME NEW j \in 1..(k - 1)
        PROVE  \E sig \in Signatures : sig[1] = j
    <3> DEFINE w == <<steps[s + j].stage, steps[s + j].actor>>
    <3>1. w \in Signatures /\ w[1] = j
      BY <1>8, <2>2
    <3> QED
      BY <3>1
  <2> QED
    BY <2>3, <2>4
<1>12. Phase = "out" /\ Phase' = IF k = StageCount THEN "archived" ELSE "out"
  BY <1>1, <1>2, <1>3, <1>4, RouteAssumption DEF Phase
<1> QED
  BY <1>2, <1>3, <1>4, <1>10, <1>11, <1>12
     DEF Approval!Sign, Approval!Signed, Phase, Signatures, u, k

\* Every step of the job's specification is a step of the protocol or changes
\* nothing it speaks of.
LEMMA StepRefines ==
    ASSUME IInv, [Next]_vars
    PROVE  [Approval!ANext]_(Approval!avars)
<1> SUFFICES Approval!ANext \/ UNCHANGED <<Phase, job.submittedBy, Signatures>>
  BY DEF Approval!avars, Phase, Signatures
<1>1. job \in JobRow /\ TypeOK
  BY DEF IInv, TypeOK
<1>2. CASE UNCHANGED vars
  BY <1>2 DEF vars, Phase, Signatures, Cycle
<1>3. CASE Next
  <2>1. PICK r \in Requests :
           \/ Quiet(r)
           \/ RecordResult(r) \/ RecordPart(r) \/ UploadAttachment(r)
           \/ RecordTitle(r) \/ Assign(r)
           \/ Submit(r) \/ Verify(r) \/ Return(r) \/ Recall(r) \/ Void(r)
    BY <1>3 DEF Next, Quiet
  <2>2. CASE Quiet(r)
    <3>1. UNCHANGED <<job, steps>>
      BY <2>2, QuietUnchanged
    <3> QED
      BY <3>1 DEF Phase, Signatures, Cycle
  <2>3. CASE \/ RecordResult(r) \/ RecordPart(r) \/ UploadAttachment(r)
             \/ RecordTitle(r) \/ Assign(r)
    <3>1. /\ UNCHANGED steps
          /\ job'.submittedAt = job.submittedAt /\ job'.submittedBy = job.submittedBy
          /\ job'.status # job.status => job'.status \in {"assigned", "in_progress"}
      BY <1>1, <2>3, CaptureEffect
    <3>2. CASE job.status = "submitted" /\ job'.status # job.status
      BY <3>1, <3>2 DEF Approval!ANext, Approval!Withdraw
    <3>3. CASE job'.status = job.status
      BY <3>1, <3>3 DEF Phase, Signatures, Cycle
    <3>4. CASE job.status # "submitted" /\ job'.status # job.status
      <4>1. job.status \in {"scheduled", "assigned", "in_progress"}
        BY <1>1, <2>3, <3>4
           DEF RecordResult, RecordPart, UploadAttachment, RecordTitle, Assign,
               RowAcceptsUpdate, JobRow, JobStatusT, IInv, CarriedOver
      <4> QED
        BY <3>1, <3>4, <4>1 DEF Phase, Signatures
    <3> QED
      BY <3>2, <3>3, <3>4
  <2>4. CASE Submit(r)
    <3>1. req[r].actor \in Users
      BY <2>4, Signer DEF SnapRequest
    <3>2. /\ job.status = "in_progress" /\ job'.status = "submitted"
          /\ job'.submittedBy = req[r].actor /\ job'.submittedAt = Len(steps) + 1
      BY <1>1, <2>4 DEF Submit, JobRow
    <3>3. Cycle' = {}
      <4>1. Len(steps) \in Nat /\ Len(steps') = Len(steps) + 1
        BY <1>1, <2>4, AppendStep DEF Submit
      <4> QED
        BY <3>2, <4>1 DEF Cycle
    <3>4. Signatures' = {}
      BY <3>3 DEF Signatures
    <3>5. Phase = "open" /\ Phase' = "out"
      BY <3>2 DEF Phase
    <3>6. Approval!Submit(req[r].actor)
      BY <3>2, <3>4, <3>5 DEF Approval!Submit, Signatures, Phase
    <3> QED
      BY <3>1, <3>6 DEF Approval!ANext, Approval!Submit
  <2>5. CASE Verify(r)
    <3>1. req[r].actor \in Users /\ job.stage \in 1..StageCount
      <4>1. req[r].actor \in Users
        BY <2>5, Signer DEF SnapRequest
      <4>2. job.status = "submitted"
        BY <2>5 DEF Verify, StillAtStage
      <4> QED
        BY <4>1, <4>2 DEF IInv, StageSignatures
    <3> QED
      BY <2>5, <3>1, VerifyIsSign DEF Approval!ANext, Approval!Sign
  <2>6. CASE Return(r) \/ Recall(r)
    <3>1. /\ job.status = "submitted" /\ job'.status = "in_progress"
          /\ job'.submittedBy = job.submittedBy
      BY <1>1, <2>6 DEF Return, Recall, TakeBack, JobRow
    <3> QED
      BY <3>1 DEF Approval!ANext, Approval!Withdraw
  <2>7. CASE Void(r)
    <3>1. /\ job.status # "voided" /\ job'.status = "voided"
          /\ job'.submittedBy = job.submittedBy
      BY <1>1, <2>7 DEF Void, VoidStillApplies, JobRow
    <3>2. Approval!Void
      BY <1>1, <3>1 DEF Approval!Void, JobRow, JobStatusT
    <3> QED
      BY <3>2 DEF Approval!ANext
  <2> QED
    BY <2>1, <2>2, <2>3, <2>4, <2>5, <2>6, <2>7
<1> QED
  BY <1>2, <1>3

\* The signing endpoints implement the protocol: records are archived only by
\* one signature per stage, in order, none of them the submitter's.
THEOREM Refinement == Spec => ImplementsApproval
<1>1. Init => Approval!AInit
  BY DEF Init, Approval!AInit
<1>2. IInv /\ [Next]_vars => [Approval!ANext]_(Approval!avars)
  BY StepRefines
<1> QED
  BY <1>1, <1>2, Invariant, PTL DEF Spec, ImplementsApproval, Approval!ASpec
-----------------------------------------------------------------------------
(* Photos over the cap. *)

Uploads == {r \in Requests : req[r].op = "attachment"}

\* The photos there are and the uploads still to be inserted, counted together:
\* an upload begins below the cap, and occupies a request until it is inserted.
OvershootInv ==
    /\ TypeOK
    /\ content.attachments + Cardinality(Uploads) < MaxAttachments + Cardinality(Requests)

\* Uploads under way are finitely many, and no more than the requests.
LEMMA UploadsFinite ==
    /\ IsFiniteSet(Uploads) /\ Cardinality(Uploads) \in Nat
    /\ Cardinality(Requests) \in Nat /\ Cardinality(Uploads) <= Cardinality(Requests)
    /\ IsFiniteSet(Uploads')
<1>1. Uploads \subseteq Requests /\ Uploads' \subseteq Requests
    BY DEF Uploads
<1> QED BY <1>1, RequestsAssumption, FS_Subset, FS_CardinalityType

\* A request that ends, or begins as anything but an upload, adds no upload.
LEMMA FewerUploads ==
    ASSUME TypeOK, NEW r \in Requests, NEW m, req' = [req EXCEPT ![r] = m], m.op # "attachment"
    PROVE  Cardinality(Uploads') \in Nat /\ Cardinality(Uploads') <= Cardinality(Uploads)
<1>1. Uploads' \subseteq Uploads
    BY DEF Uploads, TypeOK
<1> QED BY <1>1, UploadsFinite, FS_Subset, FS_CardinalityType

\* The transactions other than the insert of a photo end a request and leave
\* the photos alone.
LEMMA OtherCommits ==
    ASSUME TypeOK, NEW r \in Requests,
           \/ RecordResult(r) \/ RecordPart(r) \/ RecordTitle(r) \/ Assign(r)
           \/ Submit(r) \/ Verify(r) \/ Return(r) \/ Recall(r) \/ Void(r)
    PROVE  Done(r) /\ content'.attachments = content.attachments
<1>1. content \in Content
    BY DEF TypeOK
<1>2. CASE RecordResult(r)
    BY <1>1, <1>2 DEF RecordResult, Content
<1>3. CASE RecordPart(r)
    BY <1>1, <1>3 DEF RecordPart, Content
<1>4. CASE RecordTitle(r)
    BY <1>4 DEF RecordTitle
<1>5. CASE Assign(r)
    BY <1>5 DEF Assign
<1>6. CASE Submit(r)
    BY <1>6 DEF Submit
<1>7. CASE Verify(r)
    BY <1>7 DEF Verify
<1>8. CASE Return(r)
    BY <1>8 DEF Return, TakeBack
<1>9. CASE Recall(r)
    BY <1>9 DEF Recall, TakeBack
<1>10. CASE Void(r)
    BY <1>10 DEF Void
<1> QED BY <1>2, <1>3, <1>4, <1>5, <1>6, <1>7, <1>8, <1>9, <1>10

\* A request other than an upload begins, or any request is given up.
LEMMA OtherReads ==
    ASSUME TypeOK, NEW r \in Requests, Quiet(r), ~\E u \in Users : UploadAttachment_Read(r, u)
    PROVE  \E m : m.op # "attachment" /\ req' = [req EXCEPT ![r] = m]
<1>1. ASSUME NEW u, NEW roles, NEW m, Load(r, u, roles, m), m.op # "attachment"
      PROVE  \E n : n.op # "attachment" /\ req' = [req EXCEPT ![r] = n]
    BY <1>1 DEF Load
<1>2. CASE \E u \in Users, f \in Fields : RecordResult_Read(r, u, f)
    BY <1>1, <1>2 DEF RecordResult_Read
<1>3. CASE \E u \in Users : RecordPart_Read(r, u)
    BY <1>1, <1>3 DEF RecordPart_Read
<1>4. CASE \E u \in Users, text \in TitleText : RecordTitle_Read(r, u, text)
    BY <1>1, <1>4 DEF RecordTitle_Read
<1>5. CASE \E u \in Users, a \in Assignable : Assign_Read(r, u, a)
    BY <1>1, <1>5 DEF Assign_Read
<1>6. CASE \E u \in Users : Submit_Read(r, u)
    BY <1>1, <1>6 DEF Submit_Read
<1>7. CASE \E u \in Users : Verify_Read(r, u)
    BY <1>1, <1>7 DEF Verify_Read
<1>8. CASE \E u \in Users : Return_Read(r, u)
    BY <1>1, <1>8 DEF Return_Read
<1>9. CASE \E u \in Users : Recall_Read(r, u)
    BY <1>1, <1>9 DEF Recall_Read
<1>10. CASE \E u \in Users : Void_Read(r, u)
    BY <1>1, <1>10 DEF Void_Read
<1>11. CASE GiveUp(r)
    BY <1>11 DEF GiveUp, Done, Idle
<1> QED BY <1>2, <1>3, <1>4, <1>5, <1>6, <1>7, <1>8, <1>9, <1>10, <1>11 DEF Quiet

\* Every step keeps the count below the cap and the requests together.
LEMMA OvershootNext == OvershootInv /\ [Next]_vars => OvershootInv'
<1> SUFFICES ASSUME OvershootInv, [Next]_vars PROVE OvershootInv'
    OBVIOUS
<1> USE BoundsAssumption
<1>1. TypeOK /\ TypeOK' /\ content.attachments \in Nat /\ content'.attachments \in Nat
    BY NextType DEF OvershootInv, TypeOK, Content
<1>2. CASE UNCHANGED vars
    BY <1>2, <1>1 DEF OvershootInv, vars, Uploads
<1>3. ASSUME NEW r \in Requests, NEW m, req' = [req EXCEPT ![r] = m], m.op # "attachment",
             content'.attachments = content.attachments
      PROVE  OvershootInv'
  <2>1. Cardinality(Uploads') \in Nat /\ Cardinality(Uploads') <= Cardinality(Uploads)
      BY <1>1, <1>3, FewerUploads
  <2> QED BY <1>1, <1>3, <2>1, UploadsFinite DEF OvershootInv
<1>4. ASSUME NEW r \in Requests, NEW u \in Users, UploadAttachment_Read(r, u) PROVE OvershootInv'
  <2>1. content.attachments < MaxAttachments /\ content' = content
      BY <1>4 DEF UploadAttachment_Read, BelowAttachmentCap, Load
  <2>2. Uploads' \subseteq Requests
      BY DEF Uploads
  <2>3. Cardinality(Uploads') <= Cardinality(Requests) /\ Cardinality(Uploads') \in Nat
      BY <2>2, RequestsAssumption, FS_Subset, FS_CardinalityType
  <2> QED BY <1>1, <2>1, <2>3, UploadsFinite DEF OvershootInv
<1>5. ASSUME NEW r \in Requests, UploadAttachment(r) PROVE OvershootInv'
  <2>1. r \in Uploads /\ content'.attachments = content.attachments + 1
      BY <1>1, <1>5 DEF UploadAttachment, Uploads, TypeOK, Content
  <2>2. Uploads' = Uploads \ {r}
      BY <1>1, <1>5 DEF UploadAttachment, Done, Idle, Uploads, TypeOK
  <2>3. Cardinality(Uploads') = Cardinality(Uploads) - 1
      BY <2>1, <2>2, UploadsFinite, FS_RemoveElement
  <2> QED BY <1>1, <2>1, <2>3, UploadsFinite DEF OvershootInv
<1>6. ASSUME NEW r \in Requests,
             \/ RecordResult(r) \/ RecordPart(r) \/ RecordTitle(r) \/ Assign(r)
             \/ Submit(r) \/ Verify(r) \/ Return(r) \/ Recall(r) \/ Void(r)
      PROVE  OvershootInv'
  <2>1. Done(r) /\ content'.attachments = content.attachments
      BY <1>1, <1>6, OtherCommits
  <2>2. req' = [req EXCEPT ![r] = Idle] /\ Idle.op # "attachment"
      BY <2>1 DEF Done, Idle
  <2> QED BY <1>3, <2>1, <2>2
<1>7. ASSUME NEW r \in Requests, Quiet(r) PROVE OvershootInv'
  <2>1. content' = content
      BY <1>7, QuietUnchanged
  <2> QED BY <1>1, <1>3, <1>4, <1>7, <2>1, OtherReads
<1> QED BY <1>2, <1>5, <1>6, <1>7 DEF Next, Quiet

\* However many cycles of return and rework a job goes through, its photos
\* exceed ATTACHMENT_MAX_PER_JOB by less than the requests in flight together
\* (AttachmentsService.upload counts before it inserts).
THEOREM OvershootIsBounded == Spec => []AttachmentOvershoot
<1>1. Init => OvershootInv
  <2> SUFFICES ASSUME Init PROVE OvershootInv
      OBVIOUS
  <2>1. TypeOK
      BY InitType
  <2>2. Uploads = {}
      BY DEF Init, Uploads, Idle
  <2>3. Cardinality(Requests) > 0
      BY RequestsAssumption, FS_EmptySet, FS_CardinalityType
  <2> QED BY <2>1, <2>2, <2>3, UploadsFinite, FS_EmptySet, BoundsAssumption DEF OvershootInv, Init
<1>2. OvershootInv => AttachmentOvershoot
    BY UploadsFinite, BoundsAssumption DEF OvershootInv, AttachmentOvershoot, TypeOK, Content
<1> QED BY <1>1, <1>2, OvershootNext, PTL DEF Spec

=============================================================================
