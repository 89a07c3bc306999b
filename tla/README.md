# BamForm: TLA+ models and proofs

BamForm keeps a plant's preventive-maintenance records. A scheduler raises a
*job* (a controlled form) for a machine, a technician fills it in, often
offline, a chain of verifiers signs it, and it is archived under a content hash.
This directory models the parts of that system whose correctness depends on the
order in which requests, browser tabs and lost answers interleave, checks them
with TLC and proves the main results with TLAPS.

## 1. Inventory

Line references are to `src/`. Each component is listed in `PROJECT.json`.

| Component | State | Operations | Hard part | What makes it correct |
|---|---|---|---|---|
| Job lifecycle and approval (`api/src/jobs`) | job row, result / part / attachment rows, approval steps | record, assign, submit, verify, return, recall, void | every request checks a snapshot and commits later; row locks and triggers decide | stages signed once, in order, by others than the submitter; archive frozen; signed hash is the record |
| Offline outbox and sync (`web/src/offline`, `api/src/sync`, `common/idempotency`) | outbox table, cached job, idempotency rows | append, drain, recover, bootstrap, submit | several tabs, lost answers, dead tabs, resends | nothing is lost, nothing is applied twice, submission never overtakes an edit, every edit settles |
| Scheduling (`api/src/scheduling`) | schedule rules, jobs, Redis lock | sweep, generate, cascade, void recompute, planner edits | lock expiry, stale rule list, unique index as the last guard | a rule credits exactly the valid completions; a due visit is raised |
| Ad-hoc jobs, default assignment (`jobs/adhoc-job`, `jobs/rule-default-assignment`, the panel and the form) | jobs, rule default | raise, apply default | job-number collisions, a machine chosen while its documents are on their way | the batch takes no job that was somebody's when it was listed; the form asked for is the machine's |
| Escalation, notifications (`jobs/stage-escalation`, `notifications`) | delayed jobs in BullMQ, queued messages | arm, cancel, mature, dispatch | queue calls after the commit they belong to, lost with the process | a record that waits is armed |
| Template revisions, loader (`templates`, `scripts/template-load`) | revisions per template | draft, edit, submit, approve, reject; load | check outside, unconditional update inside; a loader that dies half way | what was issued is frozen; what a load reports is there; a re-run never refuses its own work |
| Audit chain (`audit`) | `audit_event` rows | insert, verify | concurrent inserts, paged walk while writers go on | no false alarm; what leaves a trace in a later row is found |
| Sign-in (`auth`) | accounts, challenges, recovery codes, refresh tokens | password, second factor, enrol, rotate, log out | evidence checked before it is spent | one session per challenge and per code |
| Web session (`web/src/auth`) | page stores, cookie | call, answer, refresh | answers that arrive under another account | latches belong to the account on the page; codes go only with another session |
| People and areas (`users`, `areas`, their screens) | accounts, roles, area scopes | create, change roles, deactivate, restrict | last administrator; two narrowings at once | an administrator remains; a restriction stays one |
| Queue, review, delegations | delegations, roles, review screen | delegate, open, sign, step up, return | three readers of roles and windows | what is offered in one's own name can be signed |
| Machine register (`assets`, its screens) | machines, documents, form numbers | register, rename, tag, retire | records print live rows | an archived record keeps printing what it was archived with |
| Masterlist import (`scripts/template-load/src/masterlist`) | a run's position | register, attach, set dates | runs against a live plant, is interrupted and repeated | decisions made meanwhile survive |
| PDF, exports (`pdf`, `exports`) | permits, browser, export rows | render, export, download | crashes, stalls, redelivery | permits are those in use; nobody waits beside a free one |
| Capture screen, job list, planner (`web/src/screens`) | form state, cached rows, list | record, sign, submit; list; page through a year | state set around awaits; sessions that overlap on a tablet | what is shown from a row is held; what was signed is sent; the list and the plan are true |
| Web update, Android shell | update state, activity, chooser | check, download, apply, switch server | update against critical work; activity re-created | no reload over work; only another download spoils what the installer reads; a chooser is answered |
| Reports, job list, archive (`reports`, `records`, `common/pagination`) | none of their own: filters over the job table | overdue, pending, compliance, trend; a list page by page | each filter is written apart from the others; rows move between two pages | a period counts once; a list misses no row that stayed; the filters agree |
| Signature pad (`web/src/components/SignaturePad`) | ink flag, canvas | stroke, resize, disable, done | the flag and the canvas change apart | a blank image needs a wipe |
| Plan calendar (`shared` and `scheduling` date arithmetic, the planner's grid) | none | add months, project visits, place in a week | ends of months, ends of years | every day has its column; punctual visits follow the plan; what is late is shown |
| Asset types, infrastructure, workbook parsing, deployment scripts | - | single-row edits, I/O | - | not modelled; see section 6 |

Interaction: the screens call the offline layer; the offline layer sends
`POST /sync/outbox`, `GET /sync/bootstrap` and `POST /jobs/{id}/submit`; the
outbox endpoint dispatches every mutation to the job services; the job services
write in one transaction each and afterwards call the queues; the last
verification and a post-archive void move the schedule rules inside their
transaction; the scheduler creates jobs.

## 2. Structure

| Module | Part | Checked by |
|---|---|---|
| `ApprovalProtocol` | what the signing workflow promises (abstract) | implemented by `JobLifecycle` |
| `JobLifecycle` | one job on the server | `record`, `job_*`, `JobLifecycleProofs` |
| `OfflineSync` | device, network and server side of synchronisation | `offline_*`, `OfflineSyncProofs` |
| `Scheduling` | lock, sweeps, rules and jobs of the scheduler | `scheduling`, `schedule_void`, `WorkflowProofs` |
| `SecondFactor`, `ClientSession`, `AreaScopes` | sign-in, the page's session, area access | `platform`, `AccessProofs` |
| `Escalation`, `VisitAssignment`, `VerifierQueue` | timers after a commit; the assignment panel; queue and review | `platform`, `WorkflowProofs` |
| `RecordRendering`, `MachineRecords` | PDF pipeline; the machine register | `platform`, `WorkflowProofs` |
| `UserAdmin`, `AuditChain`, `Reports` | accounts; audit log and verifier; the read side of the job table | `platform`, `RegisterProofs` |
| `TemplateRevisions`, `TemplateLoad`, `MasterlistImport` | the revision service, the loader composed with it, the import of the plan | `platform`, `RegisterProofs` |
| `CaptureScreen` | the capture screen over the outbox, and a submission under way | `record`, `ScreenProofs` |
| `PlannerScreen`, `RaiseJobForm`, `SignaturePad` | screens that keep state across an await or an event | `platform`, `ScreenProofs` |
| `PlanCalendar` | the calendar arithmetic of the plan (operators only) | `platform` (`CalendarChecked`), `ScreenProofs` |
| `SharedTablet`, `AndroidShell` | several people on a tablet; the Android activity | `platform`, `DeviceProofs` |
| `AppUpdate`, `ShellUpdate` | updates of the web app and of the shell | `platform`, `DeviceProofs` |
| `OrderLemmas` | sets of numbers in order, and pages of them, for the proofs about lists | used by `ScreenProofs`, `RegisterProofs` |
| `MCJobLifecycle`, `MCOfflineSync`, `MCScheduling`, `MCRecord`, `MCPlatform` | instances for TLC | |

`TemplateLoad` extends `TemplateRevisions` and drives its actions, so a load is
checked against the service itself. The other modules of `MCPlatform` share no
state at the grain they are modelled at: where one needs a commit of another (a
signature in `VerifierQueue`, `Escalation` or `MachineRecords`), that commit is
one step with the effect the owning module gives it.

What would come next, in this order: the lost edit behind
`results.service.ts` line 76, which needs the outbox's version chain and
concurrent requests in one module; the override table and more than two
frequencies in the liveness run of the schedule.

## 3. Correspondence

### `JobLifecycle` (one job on the server)

| Variable | Code |
|---|---|
| `job` | the `job` row (`prisma/schema.prisma` 727-807) |
| `content` | result, part and attachment rows; a value is how often it was written |
| `steps` | `approval_step` rows in commit order |
| `signed` | what the newest step's hash was computed from |
| `req` | per request in flight: what it still carries of its read |

A request is `X_Read` (load and check outside a transaction) followed by `X`
(the transaction) or `GiveUp` (the guard fails, a trigger refuses, the process
dies). The transaction is one step because the guarded `updateMany` takes the
row lock first. Role checks, legal transitions, the writable check, the
completeness gate, the attachment cap, the distinct-person rule and the database
triggers `prevent_archived_job_update` and `enforce_verifier_not_submitter` are
operators of their own, so that each can be mutated. `Users` are the people
whose area scope covers the job; a delegate's roles are part of `RoleOf`. Time is
counted in committed steps: `Now(r)` is some epoch between a request's read and
its commit, which is all that the comparison of `acted_at` with the last return
can tell apart. Audit rows, notification calls and idempotency rows of these
endpoints are not kept; the last are in `OfflineSync`.

### `OfflineSync` (one person, one job, one device)

| Variable | Code |
|---|---|
| `outbox`, `sequence` | Dexie table `outbox`, `meta.outboxSequenceCounter` |
| `cache` | the cached job: pending flag, submit state and key, predicted version |
| `ctx` | per browser context: the call under way and its local variables |
| `req` | per context: its request as the server sees it |
| `server` | status, draft version, assignment, applied ids, submit keys |
| `discarded` | ghost: entries given up by an explicit choice |
| `used` | how much of every bound is spent |

An IndexedDB transaction is one step; every `await` between two of them is a
place where others step in, so `refreshJobPendingFlag` is three steps and
opening a database is a read step (`OpenTab`) and a write step
(`recoverStuckSendingRows`). A context runs one call at a time; overlapping
calls of one tab are two contexts. A context has one request outstanding; a
request whose caller gave up (`DrainNetworkError`, `SubmitNetworkError`,
`CloseTab`) keeps running on the server and is answered into the void
(`AnswerUnheard`). The server handles a mutation as replay check, load and
commit, three steps, because the code uses separate transactions for them.
Entries come in three kinds that differ in If-Match and version bump. Not
modelled: the partition of the tables by user and the claim of legacy rows, the
25-round cap of `drainAll` (no run makes that many rows), the mandatory-item
gate (part of `JobLifecycle`) and `discardConflict` (not called by the app).

### `Scheduling` (one scheduler, its rules and their jobs)

| Variable | Code |
|---|---|
| `lock`, `sweep` | the Redis key of `SchedulerLockService`; per worker, where `SchedulerService.run` is |
| `rules`, `jobs` | `schedule_rule` and `job` rows |
| `request`, `voiding`, `batch` | an ad-hoc request, a post-archive void and an apply-default batch under way |
| `current`, `inService`, `eligible` | the form's current revision, active documents, assignable people |

A sweep takes the lock, bootstraps missing rules, reads every rule once, and
works through that list one document at a time; it may lose the lock, die, or
meet a number another request took. A date is a month number. The completion
cascade is part of the last signature's transaction. A void reads the latest
valid completion and writes the rule in a later step; `VoidInOneStep` joins the
two, to ask whether the schedule is right apart from that race.

### The modules of `MCRecord` and `MCPlatform`

| Module | State | A step is |
|---|---|---|
| `SecondFactor` | account row, challenges, claims, recovery codes (one batch per confirmation), requests in flight | a handler's read, or its transaction with the guarded update and the claim |
| `ClientSession` | refresh tokens, cookie, page stores, calls | a call sent, handled, or its answer applied |
| `UserAdmin` | accounts, tokens, updates in flight | a read, the `FOR UPDATE` guard, the commit |
| `AreaScopes` | areas, scopes, pages, saves | one row of a save, its commit, or a deadlock's abort |
| `VerifierQueue` | roles, delegations, the record, review screens | a committed transition, or a move of the review screen |
| `Escalation` | the waiting record, obligations, timers | a commit, or one queue call after it |
| `TemplateRevisions` | revision rows, requests | a read with its checks, or the transaction |
| `TemplateLoad` | the loader's position, masters | one HTTP call, its death, or a correction of the YAML |
| `MachineRecords` | machines, documents, records, pages, edits | a check, the transaction it decided with the unique index at its commit, a captured number, an archive |
| `MasterlistImport` | plant, importer | one HTTP call, answered or not; a touch by somebody else |
| `AuditChain` | committed and open rows as functions of their sequence numbers, sequence, advisory lock, walk | an insert, a commit, a rollback, one page |
| `RecordRendering` | queue, tasks, permits, browser, exports, downloads | one await of a worker, a crash, a redelivery |
| `CaptureScreen` | outbox rows, cached job, screen, submission | a tap, a debounce, one await of a read, a drain's answer |
| `PlannerScreen` | due years, reads, grid | one page, a move, a change of year |
| `VisitAssignment`, `RaiseJobForm` | the panel; the form | a choice, an answer, one job of a batch |
| `SharedTablet` | rows and their owner, sessions, bootstraps | a sign-in, a bootstrap's read, claim or end, a list refresh |
| `AppUpdate` | builds, worker, page, critical work | a deployment, a take-over, a poll, a release |
| `Reports` | job rows, time in half days, the reader's area scopes, the list being read | a move of a job, an edit of the scopes, one page |
| `SignaturePad` | ink flag, canvas, the image last handed over | a pointer event, a resize, a change of `disabled`, Done |
| `PlanCalendar` | none; a date is a month number and a day | - |
| `AndroidShell`, `ShellUpdate` | activity, messages, choosers; manifest, file, workers | a callback of the platform; one await of a worker thread |

History variables (`restricted`, `othersActed`, `staleGuard`, `disturbed`,
`overtaken`, `contested`, `unheard`, `leased`, `witnesses`, `evidence`, `decided`,
`signedIn`, `steady`) record what a property refers to; no action reads them.
Properties name what the code leaves open instead of assuming it away:
`ArchivedPrintHolds` excepts a record archived between an edit's check and its
transaction; `AnAdminRemains` excepts a removal by somebody else and a role that
was dropped since the guard's statement began; `EscalationArmed` excepts
obligations that were lost or overtaken, and counts a timer that matured with
nobody to tell (`notification-dispatch.service.ts` lines 131-136) as done;
`EveryEditSettles` excepts an entry behind as many refused rows as a batch holds;
`CodesGoWithAnotherSession` lets the codes go with the first session accepted after
a refused refresh; `FrozenOnceIssued` excepts requests that had read the revision
before it was issued; `OnlyAnotherDownloadSpoilsTheApk` excepts a file that a
worker of another activity opened; `ShownEntryIsHeld` does not speak of text still
in a box, nor after a discard of what the screen has not read again;
`DueVisitIsRaised` excepts a visit whose very work stands under another
frequency's rule; `VerdictIsRight` says nothing of newest rows removed or re-hashed
together. Section 5 lists where such an exception contradicts a comment of the
code.

## 4. Runs

Passing:

- `record`: a record at its two ends, each on its own. On the server: three
  people, two stages, two requests in flight, five approval steps (submit, sign,
  return, submit, sign and beyond); `VerifierNotSubmitter`, `StageSignatures`,
  `DistinctVerifiersInCycle` and that `JobLifecycle` implements
  `ApprovalProtocol`. On the tablet: one technician, an item result, a part, the
  form number and a photo, two outbox rows, one submission at a time;
  `SubmitCarriesWhatWasSigned` and `ShownEntryIsHeld`.
- `job_capture`: capture racing submission, verification and void on a
  one-stage route with an optional and a mandatory item. Checks
  `MandatoryRecorded`, `AttachmentOvershoot` and `TerminalRecordFrozen`.
- `offline_record`: two contexts, two entries in one batch or two, one fault, one
  bootstrap, one submit, one return. Checks `TypeOK`, `NothingLost`,
  `AppliedOncePerId` and `SubmitCarriesAll`.
- `offline_settles`: one context at a time, three entries with or without
  If-Match sent one by one, two faults, two re-queues, one edit from elsewhere, one
  reassignment, under `FairSpec`. Checks `EveryEditSettles`.
- `scheduling`: a document, two jobs, three months, one event (an edit, a request,
  a crash, a failed check), in two instances: one worker with a form of monthly and
  quarterly items of which one revision withdraws the quarterly ones and the next
  the rest, and two overlapping workers with a monthly form. Checks
  `ScheduleCreditsWorkDone`, `LeasedSweepsAreAlone` and, under
  `MCSchedFairSpec`, `DueVisitIsRaised`.
- `platform`: the twenty-one other parts, each on its own (`focus`), 23
  properties. What each says is stated above it in its module. The operators of
  `PlanCalendar` are evaluated on two years by the assumption `CalendarChecked`.

The type invariants of the modules are proved where a proof needs them, most of
them inside the inductive invariants of section 5; only `offline_record` spends
a property on one.

Violations, each the subject of a finding in `PROJECT.json`:

- `job_integrity`: a part or photo that commits between a signer's read and the
  signer's transaction is in the record and not in the signed hash.
- `job_two_people`: a verification read before a return and committed after the
  resubmission is dated before the return, is not counted by the distinct-person
  rule, and its author signs the second stage as well.
- `job_unsubmit`: a result write that read the job ASSIGNED takes a submitted
  record back to IN_PROGRESS.
- `offline_replayed_submit`: a submit that reuses the key of an earlier attempt
  is answered from the replay store, and the device shows as received what was
  never submitted.
- `offline_bootstrap`: the pending flag is cleared under an entry appended
  meanwhile, and a bootstrap overwrites that job.
- `schedule_void`: a void reads that no completion is left, another visit of the
  document is verified and archived and advances the rule, and the void's write
  erases it.

**Bounds.** Every bound is a constant used in a guard. Two requests or contexts
are what each of the races needs (the one that read early and the one that
commits in between); a third actor, the verifier or another device of the same
person, is an action of its own. Five approval steps hold a complete cycle of
return and resubmission. Two entries in a batch make batches that are applied by
half. Re-queueing after a conflict is left to `offline_settles` and to the
proofs, to keep the state space of `offline_record` small. For every
safety property of the passing runs but `ScheduleCreditsWorkDone` the bounds only
matter to TLC: the theorems below hold for all of them (`ScheduleCreditsWorkDone`
is an invariant of that instance only, see `CreditIsLostOneWay`).
`offline_settles` has a batch of one, so that one refused row is a full head of
the outbox: the entries behind it are not sent (`outbox.ts` line 113) until the
technician decides about it, and the property says so. Deadlock is not checked: a job
that is voided, or a device whose bounds are spent, rightly stops.

In `MCPlatform` a behaviour is about one part and the others rest in an initial
state: they share nothing, so this loses no behaviour and keeps the state space
a sum. Beyond the constants, six parts are cut: `InTurn` uses interchangeable
requests and challenges in order and limits wrong codes, steps and resets to
two in total; `BackgroundSlot` leaves the second call to background fetches and
the third token to a newcomer; `SmallRevisions` keeps the free-standing revision
service to two revisions and one edit (the loader goes to four);
`SignOrDelegate` opens two review screens at once only while nothing is delegated;
`NoSwitchBehindChooser` sends no server switch from a page that a chooser covers;
`OneReader` lets one list be read, with one job of somebody else's, off-plan
work in the other area only and a reader confined to the plan's area. `Accountable`
stops where `AnAdminRemains` promises nothing more. In `MCRecord`,
`SmallState` keeps photos apart from outbox rows, text being typed apart from
submissions, bootstraps, reads waiting to be applied and a job that is no longer
open, text a closed screen left behind apart from drains, and a form that lost its
form number and a second row to moments when nothing is under way; by
`SmallCapture` a second row only takes a part back or is the form number. The audit part allows two tamperings, so that
one can hide another. Two actors are what each race needs: two
requests, two administrators, two workers, two people on a tablet, two reads.
Where a limit matters it is reached: the lockout, the permits, the worker's
concurrency, the batch of the assignment panel, the planner's page limit, the
reload breaker and the renderer's crash limit all are. `scheduling` gives the two
frequencies one worker and the two workers one frequency, so that liveness is
checked in minutes; what the cascade does to the completions is covered by
`CreditIsLostOneWay`, for any set of frequencies and any override table.

**Symmetry.** Request slots and contexts are interchangeable; symmetry is used
for them in safety runs only.

**Fairness.** `JobLifecycle` states none: nothing in it has to happen.
`OfflineSync!Fairness` assumes weak fairness of the steps of a call that has
begun (JavaScript runs a resolved continuation), of the server's work on a
request it received, and of opening a closed app again; and strong fairness of
`drain`. A drain is triggered after every append and on every reconnect without
waiting for the other calls of the tab, whereas here a context is busy while it
has a call under way, so `drain` is enabled again and again rather than
continuously. No fairness is assumed of losses, recovery, submits or other people.

`SchedFairness` assumes weak fairness of a worker's next step (the cron tick
starts a sweep, and a process that runs goes on), of the lock's expiry (Redis)
and of the ad-hoc insert and the void's write once begun. A crash, a failed
check and every human action are free. `DueVisitIsRaised` would fail without the
TTL, which is its mutant. The other modules state no fairness.

## 5. Proofs

Eight modules hold proofs (`JobLifecycleProofs`, `OfflineSyncProofs`,
`AccessProofs`, `DeviceProofs`, `WorkflowProofs`, `ScreenProofs`,
`RegisterProofs`, and `OrderLemmas` with what they share about ordered sets).
They prove, for every value of the constants that satisfies the named assumptions
(any set of users, any route, any finite number of requests in flight, any set of
contexts, any page size, any bounds):

| Theorem | States |
|---|---|
| `JobLifecycleProofs!TypeCorrect` | `Spec => []TypeOK` |
| `StageSignaturesHold` | one verification per stage, in order, since the latest submission |
| `VerifierNotSubmitterHolds` | no verifier of a submission is its submitter |
| `DistinctVerifiers` | no two verifications read within one submission are by one person |
| `MandatoryHolds` | nothing is out or archived with a mandatory item unrecorded |
| `ArchiveFrozen` | an archived or voided record changes only by the void annotation |
| `OvershootIsBounded` | racing uploads overshoot the photo cap by fewer than the requests in flight |
| `Refinement` | `JobLifecycle` implements `ApprovalProtocol` |
| `OfflineSyncProofs!TypeCorrect` | `Spec => []TypeOK`, unique outbox ids included |
| `NothingIsLost` | every entry is held, applied or given up by choice |
| `AppliesOnce` | no id is applied twice |
| `SubmitIsComplete` | a submit under way carries all entries its guard counted |
| `AccessProofs!OneSessionPerChallenge` | a challenge buys one session at most |
| `OneSessionPerCode` | so does a one-time code of one step, and a recovery code |
| `LatchesFollow` | nobody who signs in keeps what was latched for another; only a later answer to an earlier person's call can latch their page |
| `CodesGoOneWay` | unacknowledged recovery codes go only with a logout, a reload or another session |
| `RestrictionHolds` | narrowing areas never adds up to no restriction |
| `DeviceProofs!WorkIsHeldForItsOwner` | legacy work is never held for a person it is not attested to |
| `ListsAreHonest` | a settled list on a shared tablet is the signed-in person's |
| `ChooserAnswers` | a waiting file input will be answered |
| `ApkIsSpoiltOneWay` | the installer reads the file that was offered, unless a worker of another activity opened it |
| `ReloadsSpareWork` | no reload is issued over critical work |
| `WorkflowProofs!WaitingRecordIsArmed` | a waiting record has its timer, or it matured and told whoever could be found |
| `OfferHandsOverNobodysJobs` | a batch takes a job only from a person it was given to after the batch listed it |
| `QueueIsActionable` | what the queue offers in one's own name the endpoint accepts |
| `PermitsAreUsed` | no render permit is idle while a job waits for one |
| `PrintsHold` | an archived record keeps printing what it was archived with |
| `CreditIsLostOneWay` | only the commit of an overtaken void takes the credit for work done from a rule; each signature restores it |
| `LeasesExclude` | no two sweeps within their leases overlap |
| `ScreenProofs!SubmissionIsComplete` | a submission carries all that was held when it was signed |
| `ShownIsHeld` | an entry shown from a row is held or was applied, until a discard not read again |
| `BlankNeedsAWipe` | a blank signature leaves the pad only after a wipe |
| `RequestNamesItsForm` | the ad-hoc form asks for a document of the machine it asks for |
| `DrawnPlanIsWhole` | a rule that stayed in the year is drawn exactly once |
| `EveryDayHasItsWeek`, `PunctualVisitsFollowThePlan`, `LateRulesAreShown` | the calendar of the plan, for every date and year |
| `RegisterProofs!AdministratorsRemain` | people who deactivate themselves leave an active administrator |
| `IssuedFormsAreFrozen` | an issued revision that no earlier request is on its way to stays as it is |
| `VerdictsAreRight` | the audit verifier raises no false alarm, and calls intact no chain with a row that still tells of a tampering before the walk |
| `PeriodsAreCounted`, `OneStory` | a period counts once in the compliance report; the reports' filters agree |
| `PagesMissNothing`, `ArchiveIsKept` | a list read to its end has every row that stayed on it; an archived row stays archived |
| `DecisionsSurvive` | the importer moves no date that was decided before its run |
| `ReloadsRecover` | the loader never refuses its own rows, and what it reports is there |

**Arguments.** None of these properties is inductive as it stands. What had to be
added, and why (each strengthening was first an invariant of a TLC run):

The inductive invariant of `JobLifecycle` adds to the checked invariants what
requests in flight know: a submit in flight read every mandatory item recorded,
and recorded items stay recorded (the gate looked only at a snapshot); a
snapshot's submission precedes its epoch, which is not later than the present
(`CarriedOver`); and every step is dated before its commit and, for a
verification, not before the submission it read (`StepTimes`, needed because the
distinct-person rule compares timestamps). `OvershootInv` counts the photos there
are and the uploads still to be inserted together: an upload begins below the cap
and occupies a request until it is inserted.

The inductive invariant of `OfflineSync` adds that every "applied" answer, on
its way or received, is about an id that was applied (`AnswersTrue`), because a
row is removed on the strength of an answer only; that all that any submit
claimed, on the device or in flight, is applied or given up (`ClaimsHold`);
and that ids in the outbox and in every batch in memory are unique and made from
the two counters (`BatchesKeyed`), because a context may put a batch back long
after the rows were settled or re-queued.

`AccessProofs` strengthens `ChallengeBuysOneSession` by "every session's
challenge is claimed" (the claim is what the second commit meets);
`EvidenceBuysOneSession` by "evidence that signed somebody in is spent": a code
of the current secret lies at or below the replay mark, one of an earlier secret
belongs to a mark cleared since (`StepSpent`), a recovery code is used
(`CodeSpent`), and no batch of codes comes back (`BatchesAreOld`); and
`UnrestrictedByChoice` by what a save in progress has locked: it upserts every
area asked for, held or not, before it revokes any, so two saves that narrow to
different areas meet at a row (`RowsFollowRequest`). `LatchesFollow` and
`CodesGoOneWay` need only the shape of the page's stores and of the answers.

`DeviceProofs` adds that a cached copy names the owner of the row it attests
(`CopyNamesTheOwner`): a claim goes by the copy, and copies outlive sessions.
`ListInv` adds only that a list is on screen under a session. For the APK: a
worker that outlives its activity was told so (`OthersAreTold`), an activity has
one download, of the manifest it offered (`OneOffer`), the one cache file is at
most half written until the download has checked it, and then whole unless the
worker of an earlier activity truncates it (`FileFollows`), and what was handed
over stays what it was, or spoilt in that way (`HandOverHolds`), until the
installer reads it.
`WorkIsHeld` ties the counter of critical sections to the release functions not
yet called.

`WorkflowProofs` needs four parts for `EscalationArmed`: a record waits at a stage
exactly while it is submitted, cancellations still to run are for stages left
behind, no timer has failed unnoticed, and a timer that is not there is still owed
(`ArmedOrDue`: it matured, or one of the obligations will schedule it); for the
panel, that a hand-over under way is to the person who was offered
(`OfferIsHandedOver`) and that the jobs still on its list are nobody's or were
given to somebody since (`ListedOrOvertaken`); for the queue, that delegations name people; for
the permits, that a job is in the queue or with the worker and only once
(`JobsOnce`), without which a redelivered job could hold a permit and wait for
one; for the register, that an edit which has passed its check leaves the prints
of all archived records of its machine alone, until one is archived behind it
(`UnderWayIsHarmless`). `CreditIsLostOneWay` is about steps, and its hypotheses are
in its statement: a rule that had the latest valid completion of its document and
frequency keeps it through every step but the commit of a void whose search has
been overtaken. Neither that a void runs undisturbed nor that no revision adds a
frequency is assumed. A rule for an added frequency is created without a last
completion although records archived before may cover it; nothing takes a credit
from it that it had, and the next signature gives it. `LeasesExclude` needs that a
worker within its lease is the one whose token is stored (`LeaseIsTheLock`).

`ScreenProofs` adds for the capture screen that rows have the numbers they were
made under and that what the server has and the cached copy shows was applied
(`RecordsInOrder`), and that behind every record on the screen is a row of that
very entry or something applied, unless a discard is still to be read again
(`ScreenIsBacked`, `ReadIsOld`); for the form, that a read
still wanted is of the machine on the form (`WantedReadIsTheMachines`) and so is
the pair in a request under way (`PostingIsTheMachines`); for the
planner, that a read has every rule up to its cursor that stayed in the year,
none beyond it and none twice (`WholeSoFar`); for the pad, that remembered ink is
on the canvas or was wiped (`InkOrWiped`). A page is the first `n` elements of a
set in order; `OrderLemmas` proves what both paged readers need of it (`IsPage`).
The calendar theorems are about operators. `PunctualVisitsFollowThePlan` is stated
for days up to the 28th because it is false beyond: a rule anchored on the 31st
drifts to an earlier day at the first shorter month.

`RegisterProofs`: reports rest on the partial unique index (one live row per
period, `OneLiveRowPerVisit`) and on the archive stamp following the status. An
administrator remains because accounts never cease to exist and the guard counts
under its row locks. A request reaches an issued revision only if it had read it
earlier, which the guards of every request begun later rule out; `RevisionsInv`
adds that requests name rows that exist. The
audit proof has two halves. Without tampering every chain a transaction sees is
whole: the advisory lock keeps the rows of one open transaction after all committed
ones, and each is linked to the one before it (`ChainInv`, `Whole`). With it, a
witness, a row altered without a new hash or an untouched one after the place of a
tampering, has at or before it a row that will not pass (`TellsAfter`), and what
was a witness when the walk began stays ahead of it until the walk stops (`WalkInv`,
`Standing`). `ImportInv` says that what was decided before a run stays decided and that
the importer read each machine's rules after the run began. `LoadInv` says that at
any moment a run may die the rows are a prefix of the plan, or its last revision
or a correction of it is current (`PlanOrFinal`); that a plan under way has
exactly the listed rows and those it made since (`PlanProceeds`); and that of a
revision being given its content the calls left end with the approval, and a part
none of them writes is already the YAML's (`ContentProceeds`).

**Only model-checked.** `EveryEditSettles` and `DueVisitIsRaised`: liveness under
fairness is outside what the prover handles, and so is `ENABLED`.
`ScheduleCreditsWorkDone`: it holds of the instance the run checks, in which a
void's read and write are one step and no revision adds a frequency; what holds
without that is `CreditIsLostOneWay`. The six violations. What a recursive
definition computes for every input would need induction with an operator as
parameter, which the prover cannot instantiate; the modules that are proved about
use none, and counting arguments go through the library's facts about finite sets.

Assumptions: `UsersAssumption`, `RolesAssumption`, `RouteAssumption`,
`AssignableAssumption`, `TemplateAssumption`, `RequestsAssumption` (the requests
in flight are finitely many) and `BoundsAssumption` in `JobLifecycle`;
`BoundsAssumption` and `KindsAssumption` in `OfflineSync`; the one named
assumption of each further module. They say that bounds are natural numbers, that
page and batch sizes are not zero, that model values for "nobody" are nobody, and
in a few modules a little more: `MachineRecordsAssumption` that real and
provisional codes are apart, `ShellUpdateAssumption` that the marks for a missing
or damaged file are no file, `MasterlistImportAssumption` that no form is called by
the mark for none, `TemplateLoadAssumption` that the loader's two accounts differ
and that the plan and the versions of the YAML are not empty. TLC evaluates them
in every run of an instance that extends the module.

**Known disagreements without a run of their own.** The models follow the code in
each of these; the property that touches it names it as an exception.

- Refused rows: `drainAll` stops short of the rows behind as many refused ones as a
  batch holds (`outbox.ts` line 113); its comment (lines 380-384) says it drains
  "until nothing drainable remains" and each iteration "takes the next 200".
- Recovery codes: a refresh that is refused clears token and user
  (`auth-client.ts` lines 166-169) and the next sign-in, the same person's too, drops
  codes nobody acknowledged (line 99), against `App.tsx` lines 108-109 and
  `recovery-codes-store.ts` lines 34-35. An answer to an earlier person's call that
  arrives after another has signed in latches the page of the second, against
  `recovery-codes-store.ts` lines 41-44.
- Shell update: the worker of a destroyed activity that is still connecting truncates
  the one cache file (`UpdateService.kt` line 185) after the next activity has
  verified it, and the installer opens the `FileProvider` URI later
  (`UpdateController.kt` lines 306-321); the comments at `UpdateService.kt` 21-26 and
  `UpdateController.kt` 283-288 say that nothing unverified reaches it.
- Issued revisions: a reject or an edit that read the revision as a draft or pending
  and commits after the approval changes a current revision (`revisions.service.ts`
  line 491), against `prisma/schema.prisma` 579-580 and `revisions.service.ts` 69-71.
- Assignment: a job that another planner assigns between the batch's listing and its
  turn is assigned again (`rule-default-assignment.service.ts` line 113), against lines
  29-31: "A job with somebody on it is never touched". The panel's outcome text calls
  the refused ones "still unassigned" (`VisitAssignment.tsx` line 385), which a job
  submitted meanwhile is not.
- Administrators: two people who drop their own ADMIN roles at once both pass the
  guard: its locks are on account rows, the roles are read from its snapshot
  (`users.service.ts` lines 437-446 call this closed).
- Capture screen: after "Discard mine" a failed reload
  (`RecordCapture.tsx` lines 373-380) leaves the discarded entries on the screen, and
  the next successful reading of the outbox clears the banner that says the device
  could not be read. Typed text whose write failed stays on the glass; a later
  successful write of another entry clears the banner, and the record can be submitted
  without the text.
- Ad-hoc jobs: when the answer to `POST /jobs` is lost the form says that nothing was
  raised (`RaiseJob.tsx` lines 186-216), though the job may exist.
- Schedule: when two frequencies of a document resolve to the same items on one date,
  only the first gets a job; the insert for the second meets the period index and is
  taken for "exists" (`job-generation.service.ts` lines 461-470), so its rule shows no
  job and is not advanced when that one is completed.
- Audit: removing the newest rows, or altering and re-hashing them together, is not
  found; `chain-verification.service.ts` lines 65-80 names this a known limitation.
- The compliance report compares the moment of archiving with midnight at the start of
  the due date, so a record archived on its due day counts as late
  (`reports.service.ts` line 214). For a reader with area scopes, `applyAreaScope`
  replaces an area that was asked for. A rule anchored at the end of a month drifts
  (`planner-projection.ts`). A blank signature can be handed over after a wipe
  (`SignaturePad.tsx` line 59).

## 6. Not modelled

- Incremental bootstraps with a sync token: the client does not ask for them.
- Rate limits: they refuse a request and change nothing else.
- The layout of reports and lists; of the read side, the filters and the paging
  are modelled.
- Asset types and names of areas: single-row edits with nothing to race.
- Ciphers, signatures, canonical byte layout, HTML of the PDF, QR codes:
  computation without state. A hash is the tuple of what is hashed.
- Parsing of workbooks and printed forms (`parse.ts`, `xlsx.ts`, `yaml-io.ts`) and
  evidence files: conversions of text whose cases are in their fixtures.
- Generated types (`openapi-types.ts`), shared schemas, the mock transport.
- Deployment, backup and database bootstrap scripts; secrets, storage, health.

## 7. Running

    tlc -config MCRecord.cfg MCRecord
    tlc -config MCJobCapture.cfg MCJobLifecycle
    tlc -config MCOfflineRecord.cfg MCOfflineSync
    tlc -config MCOfflineSettles.cfg MCOfflineSync
    tlc -config MCScheduling.cfg MCScheduling
    tlc -config MCPlatform.cfg MCPlatform
    tlapm JobLifecycleProofs.tla
    tlapm OfflineSyncProofs.tla
    tlapm AccessProofs.tla
    tlapm DeviceProofs.tla
    tlapm WorkflowProofs.tla
    tlapm ScreenProofs.tla
    tlapm RegisterProofs.tla
    tlapm OrderLemmas.tla
