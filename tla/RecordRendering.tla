--------------------------- MODULE RecordRendering ---------------------------
(***************************************************************************)
(* The PDF pipeline: downloads and bulk exports ask for renders through    *)
(* one BullMQ queue, a worker runs several of its jobs at a time, and      *)
(* every render passes a semaphore in front of one shared Chromium.  The   *)
(* worker process may die, after which BullMQ runs its jobs once more; the *)
(* browser may fail to launch or die under the worker; the client may give *)
(* up waiting.                                                             *)
(***************************************************************************)
EXTENDS Naturals, Sequences, FiniteSets, SequencesExt

CONSTANTS
    Downloads,            \* requests for one record's PDF
    Exports,              \* bulk export requests
    EXPORT_MAX_RECORDS,
    WORKER_CONCURRENCY,
    PDF_RENDER_CONCURRENCY,
    MaxWorkerCrashes, MaxBrowserFaults  \* bounds on the faults

ASSUME RenderingAssumption ==
    /\ PDF_RENDER_CONCURRENCY \in Nat \ {0}
    /\ WORKER_CONCURRENCY \in Nat \ {0}
    /\ EXPORT_MAX_RECORDS \in Nat \ {0}
    /\ Downloads \cap Exports = {}

VARIABLES
    pdfQueue,             \* waiting jobs, first in first out
    task,                 \* what the worker does for each job, and how many
                          \* PDFs an export's archive holds so far
    stalls,               \* how often each job was found stalled
    active, waiters,      \* RenderSemaphore
    browserPromise,       \* ChromiumBrowserService's cached browser
    exportRow,            \* record_export: status and number of records
    archive,              \* the PDFs of exports/<id>.zip in MinIO, 0 if absent
    answer,               \* what each download got
    workerCrashes, browserFaults

renderVars == <<pdfQueue, task, stalls, active, waiters, browserPromise, exportRow,
                archive, answer, workerCrashes, browserFaults>>
semaphore == <<active, waiters>>
client == <<exportRow, archive, answer>>
faults == <<workerCrashes, browserFaults>>

RenderJobs == Downloads \cup Exports
NoTask == [step |-> "none", got |-> 0]
HoldsPermit == {"holding", "launching", "printing", "failing"}
RunningSteps == HoldsPermit \cup
    {"started", "assemble", "waiting", "storing", "marking", "unmarked", "completing"}

RenderInit ==
    /\ pdfQueue = <<>> /\ task = [j \in RenderJobs |-> NoTask]
    /\ stalls = [j \in RenderJobs |-> 0]
    /\ active = 0 /\ waiters = <<>> /\ browserPromise = "none"
    /\ exportRow = [e \in Exports |-> [status |-> "none", count |-> 0]]
    /\ archive = [e \in Exports |-> 0]
    /\ answer = [d \in Downloads |-> "none"]
    /\ workerCrashes = 0 /\ browserFaults = 0

(* --- The API's side. ------------------------------------------------------ *)
(* A record is refused when it is unknown, out of the actor's scope or not   *)
(* yet signed by an approver; otherwise the request waits for its job.       *)
getRecordPdf(d) ==
    /\ answer[d] = "none"
    /\ \E accessible, approved \in BOOLEAN :
          IF accessible /\ approved
          THEN answer' = [answer EXCEPT ![d] = "awaited"] /\ pdfQueue' = Append(pdfQueue, d)
          ELSE answer' = [answer EXCEPT ![d] = "refused"] /\ UNCHANGED pdfQueue
    /\ UNCHANGED <<task, stalls, semaphore, browserPromise, exportRow, archive, faults>>

(* RENDER_TIMEOUT_MS passed: the job stays where it is.                      *)
waitTimesOut(d) ==
    /\ answer[d] = "awaited" /\ answer' = [answer EXCEPT ![d] = "timed out"]
    /\ UNCHANGED <<pdfQueue, task, stalls, semaphore, browserPromise, exportRow, archive, faults>>

(* The records the actor may see, at most one more than an export may hold.  *)
findIds == 0..EXPORT_MAX_RECORDS + 1

createWithinTx(found) == [status |-> "pending", count |-> found]

requestExport(e) ==
    /\ exportRow[e].status = "none"
    /\ \E found \in findIds :
          /\ found # 0 /\ found <= EXPORT_MAX_RECORDS
          /\ exportRow' = [exportRow EXCEPT ![e] = createWithinTx(found)]
    /\ UNCHANGED <<pdfQueue, task, stalls, semaphore, browserPromise, archive, answer, faults>>

(* What getStatus tells the requester, and what download then needs.         *)
Downloadable(e) == exportRow[e].status = "done"

Enqueued(j) == \E i \in DOMAIN pdfQueue : pdfQueue[i] = j

(* The job is added after the transaction committed.                         *)
enqueueExport(e) ==
    /\ exportRow[e].status = "pending" /\ stalls[e] = 0
    /\ ~Enqueued(e) /\ task[e] = NoTask
    /\ pdfQueue' = Append(pdfQueue, e)
    /\ UNCHANGED <<task, stalls, semaphore, browserPromise, client, faults>>

(* --- The worker. ----------------------------------------------------------- *)
BusyJobs == {j \in RenderJobs : task[j] # NoTask}

At_(j, step) == task[j].step = step
Goes(j, step) == [task EXCEPT ![j].step = step]

takeJob(j) ==
    /\ pdfQueue # <<>> /\ Head(pdfQueue) = j /\ Cardinality(BusyJobs) < WORKER_CONCURRENCY
    /\ pdfQueue' = Tail(pdfQueue)
    /\ task' = Goes(j, IF j \in Exports THEN "started" ELSE "assemble")
    /\ UNCHANGED <<stalls, semaphore, browserPromise, client, faults>>

markProcessing(e) ==
    /\ At_(e, "started") /\ task' = Goes(e, "assemble")
    /\ exportRow' = [exportRow EXCEPT ![e].status = "processing"]
    /\ UNCHANGED <<pdfQueue, stalls, semaphore, browserPromise, archive, answer, faults>>

(* renderRecordPdf: the record is read, then a permit is taken or awaited.   *)
acquire(j) ==
    /\ At_(j, "assemble")
    /\ IF active < PDF_RENDER_CONCURRENCY
       THEN active' = active + 1 /\ task' = Goes(j, "holding") /\ UNCHANGED waiters
       ELSE waiters' = Append(waiters, j) /\ task' = Goes(j, "waiting") /\ UNCHANGED active
    /\ UNCHANGED <<pdfQueue, stalls, browserPromise, client, faults>>

(* The first waiter is not woken.                                            *)
buildRelease_Strands(next) == active' = active - 1 /\ task' = next /\ UNCHANGED waiters

(* A permit given back goes to the first waiter; next is what becomes of the *)
(* tasks otherwise.                                                          *)
buildRelease(next) ==
    IF waiters = <<>>
    THEN active' = active - 1 /\ task' = next /\ UNCHANGED waiters
    ELSE /\ task' = [next EXCEPT ![Head(waiters)].step = "holding"]
         /\ waiters' = Tail(waiters) /\ UNCHANGED active

getBrowser(j) ==
    /\ At_(j, "holding")
    /\ browserPromise' = IF browserPromise = "none" THEN "launching" ELSE browserPromise
    /\ task' = Goes(j, CASE browserPromise = "up" -> "printing"
                         [] browserPromise = "gone" -> "failing"
                         [] OTHER -> "launching")
    /\ UNCHANGED <<pdfQueue, stalls, semaphore, client, faults>>

AllGo(from, to) == [j \in RenderJobs |-> IF At_(j, from) THEN [task[j] EXCEPT !.step = to]
                                         ELSE task[j]]

launched ==
    /\ browserPromise = "launching"
    /\ browserPromise' = "up" /\ task' = AllGo("launching", "printing")
    /\ UNCHANGED <<pdfQueue, stalls, semaphore, client, faults>>

(* A failed launch is forgotten, so that a later render tries again.         *)
launchFails ==
    /\ browserPromise = "launching" /\ browserFaults < MaxBrowserFaults
    /\ browserPromise' = "none" /\ task' = AllGo("launching", "failing")
    /\ browserFaults' = browserFaults + 1
    /\ UNCHANGED <<pdfQueue, stalls, semaphore, client, workerCrashes>>

(* A browser that dies stays cached: newPage fails for every later render.   *)
browserDies ==
    /\ browserPromise = "up" /\ browserFaults < MaxBrowserFaults
    /\ browserPromise' = "gone" /\ task' = AllGo("printing", "failing")
    /\ browserFaults' = browserFaults + 1
    /\ UNCHANGED <<pdfQueue, stalls, semaphore, client, workerCrashes>>

Replied(d, how) == [answer EXCEPT ![d] = IF @ = "awaited" THEN how ELSE @]

(* renderPdf resolves: a download is answered, an export goes on to its next *)
(* record or to storing its archive.                                         *)
printed(j) ==
    /\ At_(j, "printing")
    /\ IF j \in Downloads
       THEN /\ buildRelease([task EXCEPT ![j] = NoTask])
            /\ answer' = Replied(j, "served")
       ELSE LET got == task[j].got + 1
                step == IF got < exportRow[j].count THEN "assemble" ELSE "storing"
            IN buildRelease([task EXCEPT ![j] = [step |-> step, got |-> got]]) /\ UNCHANGED answer
    /\ UNCHANGED <<pdfQueue, stalls, browserPromise, exportRow, archive, faults>>

(* renderPdf rejects: the permit is released on this way out too.            *)
renderFails(j) ==
    /\ At_(j, "failing")
    /\ IF j \in Downloads
       THEN /\ buildRelease([task EXCEPT ![j] = NoTask])
            /\ answer' = Replied(j, "failed")
       ELSE buildRelease(Goes(j, "unmarked")) /\ UNCHANGED answer
    /\ UNCHANGED <<pdfQueue, stalls, browserPromise, exportRow, archive, faults>>

putObject(e) ==
    /\ At_(e, "storing") /\ task' = Goes(e, "marking")
    /\ archive' = [archive EXCEPT ![e] = task[e].got]
    /\ UNCHANGED <<pdfQueue, stalls, semaphore, browserPromise, exportRow, answer, faults>>

putObjectFails(e) ==
    /\ At_(e, "storing") /\ task' = Goes(e, "unmarked")
    /\ UNCHANGED <<pdfQueue, stalls, semaphore, browserPromise, client, faults>>

markDone(e) ==
    /\ At_(e, "marking") /\ task' = Goes(e, "completing")
    /\ exportRow' = [exportRow EXCEPT ![e].status = "done"]
    /\ UNCHANGED <<pdfQueue, stalls, semaphore, browserPromise, archive, answer, faults>>

(* The row says so and the job fails; no attempt follows.                    *)
markFailed(e) ==
    /\ At_(e, "unmarked") /\ task' = Goes(e, "completing")
    /\ exportRow' = [exportRow EXCEPT ![e].status = "failed"]
    /\ UNCHANGED <<pdfQueue, stalls, semaphore, browserPromise, archive, answer, faults>>

jobFinished(e) ==
    /\ At_(e, "completing") /\ task' = [task EXCEPT ![e] = NoTask]
    /\ UNCHANGED <<pdfQueue, stalls, semaphore, browserPromise, client, faults>>

(* The worker process stops or dies and another starts: BullMQ gives each of *)
(* the jobs it was running one more run, and fails it the second time.       *)
workerRestarts ==
    LET again == {j \in BusyJobs : stalls[j] = 0}
    IN /\ workerCrashes < MaxWorkerCrashes /\ workerCrashes' = workerCrashes + 1
       /\ \E order \in SetToSeqs(again) : pdfQueue' = order \o pdfQueue
       /\ stalls' = [j \in RenderJobs |-> IF j \in again THEN 1 ELSE stalls[j]]
       /\ answer' = [d \in Downloads |-> IF d \in BusyJobs \ again /\ answer[d] = "awaited"
                                         THEN "failed" ELSE answer[d]]
       /\ task' = [j \in RenderJobs |-> NoTask]
       /\ active' = 0 /\ waiters' = <<>> /\ browserPromise' = "none"
       /\ UNCHANGED <<exportRow, archive, browserFaults>>

RenderNext ==
    \/ \E d \in Downloads : getRecordPdf(d) \/ waitTimesOut(d)
    \/ \E e \in Exports :
          \/ requestExport(e) \/ enqueueExport(e) \/ markProcessing(e) \/ putObject(e)
          \/ putObjectFails(e) \/ markDone(e) \/ markFailed(e) \/ jobFinished(e)
    \/ \E j \in RenderJobs :
          takeJob(j) \/ acquire(j) \/ getBrowser(j) \/ printed(j) \/ renderFails(j)
    \/ launched \/ launchFails \/ browserDies \/ workerRestarts

RenderSpec == RenderInit /\ [][RenderNext]_renderVars

----------------------------------------------------------------------------
(* The variables stay in their types.                                        *)
RenderTypeOK ==
    /\ pdfQueue \in Seq(RenderJobs) /\ waiters \in Seq(RenderJobs)
    /\ task \in [RenderJobs -> [step : {"none"} \cup RunningSteps, got : 0..EXPORT_MAX_RECORDS]]
    /\ stalls \in [RenderJobs -> 0..1]
    /\ active \in 0..PDF_RENDER_CONCURRENCY
    /\ browserPromise \in {"none", "launching", "up", "gone"}
    /\ exportRow \in [Exports -> [status : {"none", "pending", "processing", "done", "failed"},
                                  count : 0..EXPORT_MAX_RECORDS]]
    /\ archive \in [Exports -> 0..EXPORT_MAX_RECORDS]
    /\ answer \in [Downloads -> {"none", "refused", "awaited", "served", "failed", "timed out"}]
    /\ workerCrashes \in 0..MaxWorkerCrashes /\ browserFaults \in 0..MaxBrowserFaults

(* No permit leaks and none lies idle: the permits counted are those of the  *)
(* renders under way, whichever way earlier ones ended, and a render waits   *)
(* only while every permit is in use (RenderSemaphore behind                 *)
(* ChromiumBrowserService.renderPdf).                                        *)
NoIdlePermit ==
    /\ active = Cardinality({j \in RenderJobs : task[j].step \in HoldsPermit})
    /\ \A j \in RenderJobs : At_(j, "waiting") <=> \E i \in DOMAIN waiters : waiters[i] = j
    /\ waiters # <<>> => active = PDF_RENDER_CONCURRENCY
=============================================================================
