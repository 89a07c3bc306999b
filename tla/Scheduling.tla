----------------------------- MODULE Scheduling -----------------------------
(***************************************************************************)
(* The scheduling engine of the API: the Redis lock around a sweep, the    *)
(* sweeps of several worker processes that raise the jobs that are due,    *)
(* off-plan jobs that draw from the same numbering, the advance of the     *)
(* schedule when a record is verified and its reversal when an archived    *)
(* record is voided, and the planner's edits of a rule.                    *)
(*                                                                         *)
(* A frequency is its interval in months and a date is a month number; the *)
(* clamping at the end of a month is left out.  A job's stages between     *)
(* creation and the last signature are                                     *)
(* JobLifecycle's; here a job is open, submitted, archived or voided.      *)
(***************************************************************************)
EXTENDS Integers, FiniteSets, Sequences, FiniteSetsExt

CONSTANTS
  Workers,          \* worker processes that may run a sweep
  Documents,        \* documents tagged to machines
  Frequencies,      \* frequencies, each its interval in months
  Technicians,      \* people who may be given work
  NoOne,            \* no assignee
  RevisionItems,    \* RevisionItems[r]: frequencies with an active item
  CascadeOverride,  \* CascadeOverride[r][f]: standing override, {} for none
  LeadTime,         \* lead time in months
  MaxDay,           \* bound: last month of the model
  MaxJobs,          \* bound: jobs ever created
  MaxEvents,        \* bound: edits, requests, crashes and failed checks
  MaxAttempts,      \* MAX_JOB_NUMBER_ATTEMPTS
  VoidInOneStep     \* TRUE: no other transaction runs inside a void's

ASSUME SchedulingAssumption ==
  /\ Frequencies \subseteq Nat \ {0}
  /\ RevisionItems \in Seq(SUBSET Frequencies)
  /\ CascadeOverride \in [DOMAIN RevisionItems -> [Frequencies -> SUBSET Frequencies]]
  /\ NoOne \notin Technicians \cup Workers
  /\ {LeadTime, MaxDay, MaxJobs, MaxEvents} \subseteq Nat
  /\ MaxAttempts \in Nat \ {0}
  /\ VoidInOneStep \in BOOLEAN

VARIABLES
  lock,      \* bf:lock:scheduler: the worker whose token is stored, or NoOne
  leased,    \* ghost: the workers whose sweep's own lease has not run out
  sweep,     \* sweep[w]: where worker w is in SchedulerService.run
  rules,     \* schedule_rule rows, keyed by <<document, frequency>>
  jobs,      \* job rows in the order they were inserted
  request,   \* the POST /jobs/adhoc under way
  voiding,   \* the post-archive void under way
  batch,     \* the apply-default-assignee batch under way
  current,   \* the CURRENT revision of the form, 0 before the first approval
  inService, \* documents that are active on an active machine
  eligible,  \* technicians assertAssignable accepts
  today,
  events     \* what people and faults have done so far (bound)

schedVars == <<lock, leased, sweep, rules, jobs, request, voiding, batch, current,
               inService, eligible, today, events>>

Null == -1          \* a date column that is null
Assignees == Technicians \cup {NoOne}
Keys == Documents \X Frequencies
Idle == [pc |-> "idle"]

(* frequency-cascade.ts: the frequencies whose interval divides the job's, *)
(* or the template's override verbatim, kept to what the form has items of. *)
resolveCascadeFrequencyScope(r, f) ==
  LET override == CascadeOverride[r][f]
  IN  {i \in RevisionItems[r] :
         IF override # {} THEN i \in override ELSE f % i = 0}

(* job-number.ts: the successor of the highest number visible. *)
nextJobNumber == Max({jobs[j].number : j \in DOMAIN jobs} \cup {0}) + 1

(* The partial unique index on (document, scope, due date): voided and     *)
(* ad-hoc rows are outside it.                                             *)
PeriodTaken(d, scope, due) ==
  \E j \in DOMAIN jobs :
    /\ ~jobs[j].adhoc /\ jobs[j].status # "voided"
    /\ jobs[j].doc = d /\ jobs[j].scope = scope /\ jobs[j].due = due

NumberTaken(n) == \E j \in DOMAIN jobs : jobs[j].number = n

SchedInit ==
  /\ lock = NoOne
  /\ leased = {}
  /\ sweep = [w \in Workers |-> Idle]
  /\ rules = <<>>
  /\ jobs = <<>>
  /\ request = Idle /\ voiding = Idle /\ batch = Idle
  /\ current = 0
  /\ inService = Documents
  /\ eligible = Technicians
  /\ today = 0
  /\ events = 0

-----------------------------------------------------------------------------
(* One sweep: SchedulerService.run.                                        *)

Event == events < MaxEvents /\ events' = events + 1

GotoSweep(w, next) == sweep' = [sweep EXCEPT ![w] = next]

(* acquire: SET NX EX; a worker that finds the key set skips the tick. *)
Acquire(w) ==
  /\ sweep[w] = Idle /\ lock = NoOne
  /\ lock' = w
  /\ leased' = leased \cup {w}
  /\ GotoSweep(w, [pc |-> "list"])
  /\ UNCHANGED <<rules, jobs, request, voiding, batch, current, inService, eligible, today, events>>

LockExpires_NoTTL == FALSE /\ UNCHANGED schedVars

(* The TTL runs out.  The key is not renewed while a sweep runs. *)
LockExpires ==
  /\ lock # NoOne
  /\ lock' = NoOne
  /\ leased' = leased \ {lock}
  /\ UNCHANGED <<sweep, rules, jobs, request, voiding, batch, current, inService, eligible, today, events>>

(* ensureForAsset and ensureForAllActiveAssets: every frequency the current *)
(* revision of an active document has items of gets a rule due at the      *)
(* anchor date; a rule that exists is left as it is (skipDuplicates).      *)
Bootstrapped(docs) ==
  LET missing == IF current = 0 THEN {}
                 ELSE ((docs \cap inService) \X RevisionItems[current]) \ DOMAIN rules
  IN  [k \in DOMAIN rules \cup missing |->
         IF k \in DOMAIN rules THEN rules[k]
         ELSE [due |-> 0, last |-> Null, default |-> NoOne]]

jobGenerationOpensOn(due) == due - LeadTime

(* The sweep creates the rules that are missing, then generateDueJobs reads *)
(* the rules once and the rest of the sweep works on what it read.  (One   *)
(* step: whatever comes between the two could come before both.)           *)
ListDueRules(w) ==
  /\ sweep[w].pc = "list"
  /\ rules' = Bootstrapped(Documents)
  /\ LET due == {k \in DOMAIN rules' :
                   k[1] \in inService /\ today >= jobGenerationOpensOn(rules'[k].due)}
     IN  GotoSweep(w, [pc |-> "next",
                       todo |-> {[key |-> k, due |-> rules'[k].due,
                                  default |-> rules'[k].default] : k \in due}])
  /\ UNCHANGED <<lock, leased, jobs, request, voiding, batch, current, inService, eligible, today, events>>

(* checkAssignable: the check passes, refuses, or cannot be completed. *)
Verdicts(u) ==
  {IF u \in eligible THEN "assignable" ELSE "not-assignable"}
    \cup (IF events < MaxEvents THEN {"unknown"} ELSE {})

(* resolveDefaultAssignee: an ineligible standing assignee gives an        *)
(* unassigned job, annotated with the reason.                              *)
DefaultOutcome(u, verdict) ==
  IF u = NoOne THEN [who |-> NoOne, trace |-> "none"]
  ELSE IF verdict = "assignable" THEN [who |-> u, trace |-> "none"]
  ELSE [who |-> NoOne,
        trace |-> IF verdict = "unknown" THEN "checkFailed" ELSE "unavailable"]

(* generateForRule up to its insert: the form, the scope, the person, and   *)
(* the highest job number.                                                 *)
ResolveRule(w) ==
  /\ sweep[w].pc = "next"
  /\ \E r \in sweep[w].todo :
       LET scope == IF current = 0 THEN {}
                    ELSE resolveCascadeFrequencyScope(current, r.key[2])
           rest  == sweep[w].todo \ {r}
       IN \/ /\ scope = {}                       \* no revision, or no items
             /\ GotoSweep(w, [pc |-> "next", todo |-> rest])
             /\ UNCHANGED events
          \/ /\ scope # {}
             /\ \E verdict \in Verdicts(r.default) :
                  LET outcome == DefaultOutcome(r.default, verdict)
                  IN /\ GotoSweep(w, [pc |-> "insert", todo |-> rest, rule |-> r,
                                      scope |-> scope, outcome |-> outcome,
                                      number |-> nextJobNumber])
                     /\ events' = IF r.default # NoOne /\ verdict = "unknown"
                                  THEN events + 1 ELSE events
  /\ UNCHANGED <<lock, leased, rules, jobs, request, voiding, batch, current, inService, eligible, today>>

NewJob(d, f, scope, due, who, trace, number, adhoc) ==
  [doc |-> d, freq |-> f, scope |-> scope, due |-> due, assignee |-> who,
   trace |-> trace, number |-> number, adhoc |-> adhoc, status |-> "open",
   verified |-> Null]

(* The insert.  Any unique violation is answered 'exists', whichever index *)
(* raised it.                                                              *)
InsertJob(w) ==
  /\ sweep[w].pc = "insert"
  /\ LET s == sweep[w]
         collides == PeriodTaken(s.rule.key[1], s.scope, s.rule.due) \/ NumberTaken(s.number)
     IN  /\ collides \/ Len(jobs) < MaxJobs
         /\ jobs' = IF collides THEN jobs
                    ELSE Append(jobs, NewJob(s.rule.key[1], s.rule.key[2], s.scope, s.rule.due,
                                             s.outcome.who, s.outcome.trace, s.number, FALSE))
         /\ GotoSweep(w, [pc |-> "next", todo |-> s.todo])
  /\ UNCHANGED <<lock, leased, rules, request, voiding, batch, current, inService, eligible, today, events>>

(* The key is deleted whoever's token it holds. *)
ReleasedBy_AnyToken(w) == NoOne

(* The list is done: last-run is recorded and the lock released, by its    *)
(* token only.                                                             *)
ReleasedBy(w) == IF lock = w THEN NoOne ELSE lock

Release(w) ==
  /\ sweep[w].pc = "next" /\ sweep[w].todo = {}
  /\ lock' = ReleasedBy(w)
  /\ leased' = leased \ {w}
  /\ GotoSweep(w, Idle)
  /\ UNCHANGED <<rules, jobs, request, voiding, batch, current, inService, eligible, today, events>>

(* The process dies in a sweep: nothing is released, an open transaction   *)
(* is rolled back.                                                         *)
WorkerCrash(w) ==
  /\ sweep[w] # Idle
  /\ GotoSweep(w, Idle)
  /\ leased' = leased \ {w}
  /\ Event
  /\ UNCHANGED <<lock, rules, jobs, request, voiding, batch, current, inService, eligible, today>>

-----------------------------------------------------------------------------
(* Off-plan work: AdhocJobService.                                         *)

(* create: the machine and the document are active, the form has a current *)
(* revision, the person named is assignable; then the first number is read. *)
AdhocCreate(d, u) ==
  /\ request = Idle
  /\ d \in inService /\ current # 0
  /\ u = NoOne \/ u \in eligible
  /\ request' = [pc |-> "insert", doc |-> d, who |-> u, number |-> nextJobNumber, attempt |-> 1]
  /\ Event
  /\ UNCHANGED <<lock, leased, sweep, rules, jobs, voiding, batch, current, inService, eligible, today>>

(* An ad-hoc job carries an empty scope. *)
AdhocScope == {}

(* insert, and createWithRetry's answer to a collision of the number. *)
AdhocInsert ==
  /\ request.pc = "insert"
  /\ \/ /\ ~NumberTaken(request.number) /\ Len(jobs) < MaxJobs
        /\ \E f \in Frequencies :
             jobs' = Append(jobs, NewJob(request.doc, f, AdhocScope, today, request.who,
                                         "none", request.number, TRUE))
        /\ request' = Idle
     \/ /\ NumberTaken(request.number)
        /\ request' = IF request.attempt = MaxAttempts THEN Idle
                      ELSE [request EXCEPT !.number = nextJobNumber, !.attempt = @ + 1]
        /\ UNCHANGED jobs
  /\ UNCHANGED <<lock, leased, sweep, rules, voiding, batch, current, inService, eligible, today, events>>

-----------------------------------------------------------------------------
(* The job's own transitions, as far as the schedule sees them.            *)

SetJob(j, field, value) == jobs' = [jobs EXCEPT ![j] = [@ EXCEPT ![field] = value]]

(* Capture ends with a submission. *)
Submit(j) ==
  /\ jobs[j].status = "open" /\ jobs[j].assignee # NoOne
  /\ SetJob(j, "status", "submitted")
  /\ UNCHANGED <<lock, leased, sweep, rules, request, voiding, batch, current, inService, eligible, today, events>>

(* computeCompletionCascade for every rule of the document in the scope. *)
Advanced(d, scope, on) ==
  [k \in DOMAIN rules |->
     IF k[1] = d /\ k[2] \in scope
     THEN [rules[k] EXCEPT !.last = on, !.due = on + k[2]] ELSE rules[k]]

(* The last signature archives the job and advances the schedule in the    *)
(* same transaction.                                                       *)
VerifyLast(j) ==
  /\ jobs[j].status = "submitted"
  /\ jobs' = [jobs EXCEPT ![j] = [@ EXCEPT !.status = "archived", !.verified = today]]
  /\ rules' = Advanced(jobs[j].doc, jobs[j].scope, today)
  /\ UNCHANGED <<lock, leased, sweep, request, voiding, batch, current, inService, eligible, today, events>>

VoidBeforeArchive(j) ==
  /\ jobs[j].status \in {"open", "submitted"}
  /\ SetJob(j, "status", "voided")
  /\ Event
  /\ UNCHANGED <<lock, leased, sweep, rules, request, voiding, batch, current, inService, eligible, today>>

(* The most recent completion of document d covering f, other than job j:  *)
(* its date, or Null.                                                      *)
Completions(d, f, j) ==
  {i \in DOMAIN jobs \ {j} :
     jobs[i].doc = d /\ jobs[i].status = "archived" /\ f \in jobs[i].scope}

LatestCompletion(d, f, j) ==
  Max({jobs[i].verified : i \in Completions(d, f, j)} \cup {Null})

(* The due date is put back, the completion it came from is not. *)
Recomputed_KeepsLast(k, j, prior) ==
  [rules[k] EXCEPT !.due = IF prior = Null THEN jobs[j].due ELSE prior + k[2]]

(* The rule after the recompute: as if the voided record never happened. *)
Recomputed(k, j, prior) ==
  IF prior = Null THEN [rules[k] EXCEPT !.last = Null, !.due = jobs[j].due]
  ELSE [rules[k] EXCEPT !.last = prior, !.due = prior + k[2]]

(* A post-archive void: the guarded update of the job, then the search for *)
(* the prior completion of the first frequency.  No lock that another      *)
(* verification would wait for is held yet.                                *)
VoidArchived(j) ==
  /\ voiding = Idle
  /\ jobs[j].status = "archived"
  /\ voiding' = [pc |-> "recompute", job |-> j,
                 priors |-> [f \in jobs[j].scope |-> LatestCompletion(jobs[j].doc, f, j)]]
  /\ Event
  /\ UNCHANGED <<lock, leased, sweep, rules, jobs, request, batch, current, inService, eligible, today>>

(* The rule of the first frequency is written from what was read; its audit *)
(* row takes the chain lock, and from there to the commit no other         *)
(* schedule-moving transaction can commit, so the other frequencies are    *)
(* read and written in this step.                                          *)
VoidCommit ==
  /\ voiding.pc = "recompute"
  /\ LET j == voiding.job
         d == jobs[j].doc
         scope == jobs[j].scope
         prior(f) == IF f = Min(scope) THEN voiding.priors[f] ELSE LatestCompletion(d, f, j)
     IN  /\ SetJob(j, "status", "voided")
         /\ rules' = [k \in DOMAIN rules |->
                        IF k[1] = d /\ k[2] \in scope
                        THEN Recomputed(k, j, prior(k[2])) ELSE rules[k]]
  /\ voiding' = Idle
  /\ UNCHANGED <<lock, leased, sweep, request, batch, current, inService, eligible, today, events>>

-----------------------------------------------------------------------------
(* The planner.                                                            *)

(* GET /assets/{id}/schedule creates the rules that are missing first. *)
ListSchedule(d) ==
  /\ rules' = Bootstrapped({d})
  /\ rules' # rules
  /\ Event
  /\ UNCHANGED <<lock, leased, sweep, jobs, request, voiding, batch, current, inService, eligible, today>>

(* PUT /assets/{id}/schedule: an active document's rule gets another due date. *)
Adjust(k, due) ==
  /\ k[1] \in inService
  /\ rules' = [rules EXCEPT ![k].due = due]
  /\ rules' # rules
  /\ Event
  /\ UNCHANGED <<lock, leased, sweep, jobs, request, voiding, batch, current, inService, eligible, today>>

(* PUT /schedule/{id}/default-assignee. *)
SetDefaultAssignee(k, u) ==
  /\ u = NoOne \/ u \in eligible
  /\ rules[k].default # u
  /\ rules' = [rules EXCEPT ![k].default = u]
  /\ Event
  /\ UNCHANGED <<lock, leased, sweep, jobs, request, voiding, batch, current, inService, eligible, today>>

(* POST /jobs/{id}/assign: assigns or reassigns an open job. *)
Assignable(j, u) == jobs[j].status = "open" /\ u \in eligible

Assign(j, u) ==
  /\ Assignable(j, u) /\ jobs[j].assignee # u
  /\ SetJob(j, "assignee", u)
  /\ UNCHANGED <<lock, leased, sweep, rules, request, voiding, batch, current, inService, eligible, today, events>>

(* unassignedJobsForRuleWhere *)
UnassignedJobs(k) ==
  {j \in DOMAIN jobs :
     /\ jobs[j].doc = k[1] /\ jobs[j].freq = k[2] /\ ~jobs[j].adhoc
     /\ jobs[j].assignee = NoOne /\ jobs[j].status = "open"}

(* findScheduledJobsForVisits: the live scheduled jobs of one visit. *)
VisitJobs(k, due) ==
  {j \in DOMAIN jobs :
     /\ ~jobs[j].adhoc /\ jobs[j].status # "voided"
     /\ jobs[j].doc = k[1] /\ jobs[j].freq = k[2] /\ jobs[j].due = due}

(* GET /schedule: the job a row links to, the first generated; 0 for none. *)
nextDueJob(k) ==
  LET visits == VisitJobs(k, rules[k].due)
  IN  IF visits = {} THEN 0 ELSE Min(visits)

(* resolveEligibility: the verdict a row shows of its standing assignee. *)
resolveEligibility(u) ==
  IF u = NoOne THEN "none" ELSE IF u \in eligible THEN "assignable" ELSE "not-assignable"

toPlannerRow(k) ==
  [nextDueOn |-> rules[k].due, lastCompletedOn |-> rules[k].last,
   opensOn |-> jobGenerationOpensOn(rules[k].due), nextDueJob |-> nextDueJob(k),
   eligibility |-> resolveEligibility(rules[k].default)]

(* The rows of GET /schedule up to a date: rules of active documents. *)
PlannerRows(to) == {k \in DOMAIN rules : rules[k].due <= to /\ k[1] \in inService}

PlannerGrid(to) == [k \in PlannerRows(to) |-> toPlannerRow(k)]

(* applyToExistingJobs: the person is stated again and must still be the   *)
(* plan's; the jobs are listed once.                                       *)
ApplyDefault(k, u) ==
  /\ batch = Idle
  /\ rules[k].default = u /\ u # NoOne
  /\ UnassignedJobs(k) # {}
  /\ batch' = [pc |-> "apply", who |-> u, todo |-> UnassignedJobs(k)]
  /\ UNCHANGED <<lock, leased, sweep, rules, jobs, request, voiding, current, inService, eligible, today, events>>

(* Each job goes through AssignmentService.assign; a refusal is reported   *)
(* and the batch goes on.                                                  *)
ApplyNext ==
  /\ batch.pc = "apply"
  /\ LET j == Min(batch.todo)
     IN  /\ IF Assignable(j, batch.who) THEN SetJob(j, "assignee", batch.who) ELSE UNCHANGED jobs
         /\ batch' = IF batch.todo = {j} THEN Idle ELSE [batch EXCEPT !.todo = @ \ {j}]
  /\ UNCHANGED <<lock, leased, sweep, rules, request, voiding, current, inService, eligible, today, events>>

-----------------------------------------------------------------------------
(* What the rest of the system does meanwhile.                             *)

(* A revision is approved and becomes CURRENT. *)
Publish ==
  /\ current < Len(RevisionItems)
  /\ current' = current + 1
  /\ UNCHANGED <<lock, leased, sweep, rules, jobs, request, voiding, batch, inService, eligible, today, events>>

(* A document or its machine is deactivated or brought back. *)
SetDocumentActive(d) ==
  /\ inService' = IF d \in inService THEN inService \ {d} ELSE inService \cup {d}
  /\ Event
  /\ UNCHANGED <<lock, leased, sweep, rules, jobs, request, voiding, batch, current, eligible, today>>

(* An account, its roles or its area scope change. *)
SetEligible(u) ==
  /\ eligible' = IF u \in eligible THEN eligible \ {u} ELSE eligible \cup {u}
  /\ Event
  /\ UNCHANGED <<lock, leased, sweep, rules, jobs, request, voiding, batch, current, inService, today>>

Tick ==
  /\ today < MaxDay
  /\ today' = today + 1
  /\ UNCHANGED <<lock, leased, sweep, rules, jobs, request, voiding, batch, current, inService, eligible, events>>

-----------------------------------------------------------------------------
SweepStep(w) ==
  \/ Acquire(w) \/ ListDueRules(w) \/ ResolveRule(w) \/ InsertJob(w) \/ Release(w)

(* With VoidInOneStep, nothing runs between the two halves of a void. *)
SchedNext ==
  \/ VoidCommit
  \/ /\ VoidInOneStep => voiding = Idle
     /\ \/ \E w \in Workers : SweepStep(w) \/ WorkerCrash(w)
        \/ LockExpires
        \/ \E d \in Documents, u \in Assignees : AdhocCreate(d, u)
        \/ AdhocInsert
        \/ \E j \in DOMAIN jobs : \/ Submit(j) \/ VerifyLast(j)
                                 \/ VoidBeforeArchive(j) \/ VoidArchived(j)
                                 \/ \E u \in Technicians : Assign(j, u)
        \/ \E d \in Documents : ListSchedule(d) \/ SetDocumentActive(d)
        \/ \E k \in DOMAIN rules : \/ \E due \in 0..MaxDay : Adjust(k, due)
                                  \/ \E u \in Assignees :
                                       SetDefaultAssignee(k, u) \/ ApplyDefault(k, u)
        \/ ApplyNext
        \/ Publish \/ Tick
        \/ \E u \in Technicians : SetEligible(u)

SchedSpec == SchedInit /\ [][SchedNext]_schedVars

(* Cron ticks come again and again and a sweep that has begun goes on; the *)
(* lock expires if nobody releases it; a request that is under way ends.   *)
SchedFairness ==
  /\ \A w \in Workers : WF_schedVars(SweepStep(w))
  /\ WF_schedVars(LockExpires)
  /\ WF_schedVars(AdhocInsert)
  /\ WF_schedVars(VoidCommit)

SchedFairSpec == SchedSpec /\ SchedFairness

-----------------------------------------------------------------------------
(* Properties.                                                             *)

(* The schedule credits exactly the work that was done: a rule's last      *)
(* completion is the latest signature among the archived records of ITS    *)
(* document whose scope covers ITS frequency, and neither an ad-hoc record *)
(* nor a voided one moves it.  Completion cascade and void recompute       *)
(* (completion-cascade.service.ts, void-schedule-recompute.service.ts)     *)
(* together.  A frequency that a later revision adds is credited from its  *)
(* rule's creation on, so the instances add none.                          *)
ScheduleCreditsWorkDone ==
  \A k \in DOMAIN rules : rules[k].last = LatestCompletion(k[1], k[2], 0)

Credited(k) == rules[k].last = LatestCompletion(k[1], k[2], 0)

(* Job j's record is signed off, and covers rule k.                        *)
SignsOff(j, k) == VerifyLast(j) /\ jobs[j].doc = k[1] /\ k[2] \in jobs[j].scope

(* A void writes rule k from a search that a signature has overtaken.      *)
WritesStaleSearch(k) ==
  /\ VoidCommit
  /\ LET j == voiding.job
     IN  /\ jobs[j].scope # {}
         /\ k[1] = jobs[j].doc /\ k[2] = Min(jobs[j].scope)
         /\ voiding.priors[k[2]] # LatestCompletion(k[1], k[2], j)

(* However voids, signatures, sweeps and re-issues overlap, one step alone *)
(* takes from a rule the credit for the work done: the commit of a void    *)
(* whose search another signature has overtaken (void-schedule-recompute   *)
(* .service.ts, line 68).  And each signature sets right the rules its     *)
(* record covers, whatever went wrong before.                              *)
CreditIsKept ==
  [][\A k \in DOMAIN rules :
       /\ (Credited(k) \/ \E j \in DOMAIN jobs : SignsOff(j, k))
       /\ ~WritesStaleSearch(k)
       => k \in DOMAIN rules' /\ Credited(k)']_schedVars

(* Two sweeps overlap only when one of them has outlived its lease: while   *)
(* the TTL of a sweep's own lock runs, no other sweep is within its own.   *)
(* A sweep that outlived its lease and ends later must leave the next      *)
(* one's lock alone, or a third joins it (scheduler-lock.service.ts,       *)
(* acquire and release; PR-051).                                           *)
LeasedSweepsAreAlone == \A v, w \in leased : v = w

(* A row of the planner whose job generation has opened. *)
VisitDue(k) ==
  /\ k \in PlannerRows(MaxDay) /\ current # 0
  /\ today >= PlannerGrid(MaxDay)[k].opensOn
  /\ resolveCascadeFrequencyScope(current, k[2]) # {}
  /\ Len(jobs) < MaxJobs

VisitRaised(k) == PlannerGrid(MaxDay)[k].nextDueJob # 0

(* The work the visit asks for stands already: a job of the document for   *)
(* that date with exactly that scope, raised by a rule of another          *)
(* frequency.  Generation answers 'exists' and the visit gets no job.      *)
WorkStandsUnderAnotherRule(k) ==
  PeriodTaken(k[1], resolveCascadeFrequencyScope(current, k[2]), rules[k].due)

(* A visit whose lead time has come gets its job, unless the very work it   *)
(* asks for stands under another frequency's rule, as when a re-issue      *)
(* leaves two frequencies the same items: sweeps that crash, a lock left   *)
(* behind, an overlapping sweep and a job-number collision answered        *)
(* 'exists' only delay it (scheduler.service.ts, job-generation.service).  *)
DueVisitIsRaised ==
  \A k \in Keys :
    VisitDue(k) ~> (~VisitDue(k) \/ VisitRaised(k) \/ WorkStandsUnderAnotherRule(k))
=============================================================================
