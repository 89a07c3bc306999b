---------------------------- MODULE OfflineSync ----------------------------
(***************************************************************************)
(* One technician's copy of one job on one device, and the server it is    *)
(* synchronised with.                                                      *)
(*                                                                         *)
(* The device keeps two tables in IndexedDB: the outbox of unacknowledged  *)
(* mutations and the cached job.  Several browser contexts (tabs, or the   *)
(* overlapping async calls of one tab) work on them.  An IndexedDB         *)
(* transaction is one atomic step; everything the code awaits between two  *)
(* transactions is a place where other contexts, the network and the       *)
(* server may step in.  A context runs one call at a time: drain,          *)
(* appendJobMutation, bootstrap, submitJob or recoverJobConflicts.         *)
(*                                                                         *)
(* An edit is named by its outbox sequence number.  Its idempotency key is *)
(* the pair <<edit, generation>>: recovery re-queues an edit under a new   *)
(* generation, every other resend keeps the key.                           *)
(***************************************************************************)
EXTENDS Integers, FiniteSets

CONSTANTS
    Tabs,             \* browser contexts that share the device's database
    MaxEdits,         \* bound: edits the technician makes
    Kinds,            \* the kinds of mutation the technician makes
    MAX_BATCH_SIZE,   \* rows one drain may claim
    MaxRequeues,      \* bound: rows re-queued under a fresh id
    MaxFaults,        \* bound: lost responses and contexts that die
    MaxBootstraps,    \* bound: bootstraps
    MaxSubmits,       \* bound: submit attempts
    MaxReturns,       \* bound: returns by a verifier
    MaxOtherEdits,    \* bound: edits the same person makes elsewhere
    MaxReassigns      \* bound (0 or 1): the job is assigned to someone else

ASSUME BoundsAssumption ==
    /\ \A n \in {MaxEdits, MaxRequeues, MaxFaults, MaxBootstraps, MaxSubmits,
                 MaxReturns, MaxOtherEdits, MaxReassigns} : n \in Nat
    /\ MAX_BATCH_SIZE \in Nat \ {0}

(***************************************************************************)
(* A result (item or measurement) carries If-Match and bumps the draft     *)
(* version; a part and the form number in the title do neither.            *)
(***************************************************************************)
ASSUME KindsAssumption == Kinds \subseteq {"result", "part", "title"}

VARIABLES
    outbox,    \* the outbox table: a set of rows, keyed by id
    sequence,  \* meta.outboxSequenceCounter
    cache,     \* the cached job row
    ctx,       \* per context: where its call is, and its local variables
    req,       \* per context: the request it sent, as the server sees it
    server,    \* the job and the idempotency store on the server
    discarded, \* ghost: edits the technician chose to give up
    used       \* how much of every bound is spent

vars == <<outbox, sequence, cache, ctx, req, server, discarded, used>>

Edits == 1..MaxEdits
Ids == Edits \X (0..MaxRequeues)
None == -1
RowStatus == {"pending", "sending", "conflict", "failed"}
Row == [id : Ids, kind : Kinds, ifMatch : Nat \cup {None}, status : RowStatus]
EditOf(row) == row.id[1]

CachedJob == [hasPendingOutbox : BOOLEAN,
              submitState : {"none", "submitting", "submitted"},
              predictedDraftVersion : Nat,
              submitIdempotencyKey : Nat \cup {None},
              serverRemoved : BOOLEAN]

(***************************************************************************)
(* Where a context is in its call.  "put" writes the copy of the cached    *)
(* job it read and changed earlier (job), then continues at after.         *)
(***************************************************************************)
Pcs == {"closed", "idle", "append_tx", "append_fresh", "drain", "drain_sent",
        "results", "confirm", "refresh", "put", "boot_sent",
        "submit_count", "submit_put", "submit_sent", "recover_get",
        "recover_tx", "recover_gone", "opening"}
Afters == {"idle", "results", "drain", "recover_get"}
Goals == {"drain", "keep-mine", "accept-server"}
Results == [id : Ids, result : {"applied", "conflict", "refused"}]

Context == [pc : Pcs, after : Afters, goal : Goals, kind : Kinds \cup {"none"},
            batch : SUBSET Row, results : SUBSET Results, acked : BOOLEAN,
            remaining : BOOLEAN, ifMatch : Nat \cup {None}, job : CachedJob,
            number : Nat, claim : SUBSET Edits]

(***************************************************************************)
(* A request on the server.  todo holds the mutations still to be applied, *)
(* phase is how far the first of them (or the submit) has got; claim is a  *)
(* ghost: the edits that existed when submitJob's guard let it through.    *)
(***************************************************************************)
Request == [kind : {"none", "outbox", "submit"},
            phase : {"replay", "load", "commit", "ok", "rejected", "error"},
            todo : SUBSET Row, results : SUBSET Results, key : Nat \cup {None},
            claim : SUBSET Edits]

Server == [version : Nat, status : {"in_progress", "submitted"},
           assigned : BOOLEAN, log : [Ids -> Nat], keys : SUBSET (Nat \cup {None}),
           covered : SUBSET Edits]

Bounds == [requeues : 0..MaxRequeues, faults : 0..MaxFaults,
           bootstraps : 0..MaxBootstraps, submits : 0..MaxSubmits,
           returns : 0..MaxReturns, others : 0..MaxOtherEdits,
           reassigns : 0..MaxReassigns]

NoJob == [hasPendingOutbox |-> FALSE, submitState |-> "none",
          predictedDraftVersion |-> 1, submitIdempotencyKey |-> None,
          serverRemoved |-> FALSE]
Idle == [pc |-> "idle", after |-> "idle", goal |-> "drain", kind |-> "none",
         batch |-> {}, results |-> {}, acked |-> FALSE, remaining |-> FALSE,
         ifMatch |-> None, job |-> NoJob, number |-> 0, claim |-> {}]
NoRequest == [kind |-> "none", phase |-> "replay", todo |-> {}, results |-> {},
              key |-> None, claim |-> {}]

(* The device has bootstrapped a job in progress at draft version 1. *)
Init ==
    /\ outbox = {}
    /\ sequence = 0
    /\ cache = NoJob
    /\ ctx = [t \in Tabs |-> Idle]
    /\ req = [t \in Tabs |-> NoRequest]
    /\ server = [version |-> 1, status |-> "in_progress", assigned |-> TRUE,
                 log |-> [i \in Ids |-> 0], keys |-> {}, covered |-> {}]
    /\ discarded = {}
    /\ used = [requeues |-> 0, faults |-> 0, bootstraps |-> 0, submits |-> 0,
               returns |-> 0, others |-> 0, reassigns |-> 0]

-----------------------------------------------------------------------------
(* Helpers *)

At(t, pc) == ctx[t].pc = pc
Goto(t, pc) == ctx' = [ctx EXCEPT ![t].pc = pc]
Finish(t) == ctx' = [ctx EXCEPT ![t] = Idle]

(* Mutant of Put: the row is added beside the one it should replace. *)
PutBeside(table, rows) == table \cup rows

(* bulkPut: replaces the rows with these ids, or adds them back. *)
Put(table, rows) ==
    {row \in table : \A new \in rows : new.id # row.id} \cup rows
WithStatus(rows, status) == {[row EXCEPT !.status = status] : row \in rows}

Retained == {row \in outbox : row.status \in {"conflict", "failed"}}

Applied == {i \in Ids : server.log[i] > 0}
AppliedEdits == {i[1] : i \in Applied}

-----------------------------------------------------------------------------
(* append and appendJobMutation: a screen records one entry. *)

appendJobMutation(t, kind) ==
    /\ At(t, "idle")
    /\ sequence < MaxEdits
    /\ ctx' = [ctx EXCEPT
         ![t].pc = "append_tx",
         ![t].kind = kind,
         ![t].ifMatch = IF kind = "result" THEN cache.predictedDraftVersion ELSE None]
    /\ UNCHANGED <<outbox, sequence, cache, req, server, discarded, used>>

append(t) ==
    /\ At(t, "append_tx")
    /\ sequence < MaxEdits
    /\ sequence' = sequence + 1
    /\ outbox' = outbox \cup {[id |-> <<sequence + 1, 0>>, kind |-> ctx[t].kind,
                               ifMatch |-> ctx[t].ifMatch, status |-> "pending"]}
    /\ cache' = [cache EXCEPT !.hasPendingOutbox = TRUE]
    /\ IF ctx[t].ifMatch = None THEN Finish(t) ELSE Goto(t, "append_fresh")
    /\ UNCHANGED <<req, server, discarded, used>>

(* The storage quota is exceeded: the transaction aborts, the screen is told. *)
QuotaExceeded(t) ==
    /\ At(t, "append_tx")
    /\ Finish(t)
    /\ UNCHANGED <<outbox, sequence, cache, req, server, discarded, used>>

(* After the append: re-read the cached job, then write it back with PutJob. *)
AdvancePrediction(t) ==
    /\ At(t, "append_fresh")
    /\ ctx' = [ctx EXCEPT
         ![t].pc = "put",
         ![t].job = [cache EXCEPT !.predictedDraftVersion = ctx[t].ifMatch + 1]]
    /\ UNCHANGED <<outbox, sequence, cache, req, server, discarded, used>>

(* db.jobs.put({...job, ...}): the whole row, as it was when it was read. *)
PutJob(t) ==
    /\ At(t, "put")
    /\ cache' = ctx[t].job
    /\ IF ctx[t].after = "idle" THEN Finish(t) ELSE Goto(t, ctx[t].after)
    /\ UNCHANGED <<outbox, sequence, req, server, discarded, used>>

-----------------------------------------------------------------------------
(* drain and drainAll *)

(* What a finished drainAll returns to: its caller, or recovery's next step. *)
AfterDrain(goal) == IF goal = "drain" THEN "idle" ELSE "recover_get"

listDrainable ==
    LET rows == {row \in outbox : row.status \in {"pending", "failed"}}
    IN  {batch \in SUBSET rows :
           /\ batch # {}
           /\ Cardinality(batch) <= MAX_BATCH_SIZE
           /\ batch = rows \/ Cardinality(batch) = MAX_BATCH_SIZE
           /\ \A row \in batch, other \in rows \ batch : EditOf(row) <= EditOf(other)}

(* One transaction selects the batch and marks it; then the request leaves. *)
drain(t) ==
    /\ ctx[t].pc \in {"idle", "drain"}
    /\ req[t].kind = "none"
    /\ \E batch \in listDrainable :
         /\ outbox' = Put(outbox, WithStatus(batch, "sending"))
         /\ ctx' = [ctx EXCEPT ![t].pc = "drain_sent", ![t].batch = batch]
         /\ req' = [req EXCEPT ![t] = [NoRequest EXCEPT !.kind = "outbox", !.todo = batch]]
    /\ UNCHANGED <<sequence, cache, server, discarded, used>>

NothingToDrain(t) ==
    /\ At(t, "drain")
    /\ listDrainable = {}
    /\ IF ctx[t].goal = "drain" THEN Finish(t) ELSE Goto(t, "recover_get")
    /\ UNCHANGED <<outbox, sequence, cache, req, server, discarded, used>>

ReceiveResults(t) ==
    /\ At(t, "drain_sent")
    /\ req[t].phase = "ok"
    /\ ctx' = [ctx EXCEPT ![t].pc = "results", ![t].results = req[t].results]
    /\ req' = [req EXCEPT ![t] = NoRequest]
    /\ UNCHANGED <<outbox, sequence, cache, server, discarded, used>>

(* No per-row answer: every row of the batch is put back as pending. *)
ReturnBatch(t) ==
    /\ outbox' = Put(outbox, WithStatus(ctx[t].batch, "pending"))
    /\ Finish(t)
    /\ UNCHANGED <<sequence, cache, server, discarded>>

DrainServerError(t) ==
    /\ At(t, "drain_sent")
    /\ req[t].phase = "error"
    /\ ReturnBatch(t)
    /\ req' = [req EXCEPT ![t] = NoRequest]
    /\ UNCHANGED used

(* The request may have been lost, or may still be under way on the server. *)
DrainNetworkError(t) ==
    /\ At(t, "drain_sent")
    /\ used.faults < MaxFaults
    /\ used' = [used EXCEPT !.faults = @ + 1]
    /\ ReturnBatch(t)
    /\ req' \in {req, [req EXCEPT ![t] = NoRequest]}

(* Mutant of SettledRows: a row that was answered at all is removed. *)
SettledOnAnyAnswer(row, answers) ==
    IF \E answer \in answers : answer.id = row.id THEN {} ELSE WithStatus({row}, "failed")

(* The row is removed only for the answer that says it was applied. *)
SettledRows(row, answers) ==
    IF [id |-> row.id, result |-> "applied"] \in answers THEN {}
    ELSE IF [id |-> row.id, result |-> "conflict"] \in answers
         THEN WithStatus({row}, "conflict")
         ELSE WithStatus({row}, "failed")

HandleResult(t) ==
    /\ At(t, "results")
    /\ \E row \in ctx[t].batch :
         LET settled == SettledRows(row, ctx[t].results) IN
         /\ \A other \in ctx[t].batch : EditOf(row) <= EditOf(other)
         /\ outbox' = Put({r \in outbox : r.id # row.id}, settled)
         /\ ctx' = [ctx EXCEPT
              ![t].batch = @ \ {row},
              ![t].acked = @ \/ settled = {},
              ![t].pc = IF settled = {} /\ row.kind = "title" THEN "confirm" ELSE @]
    /\ UNCHANGED <<sequence, cache, req, server, discarded, used>>

(* The acknowledged form number is folded into the cached job (content only). *)
confirmAckIntoCachedJob(t) ==
    /\ At(t, "confirm")
    /\ ctx' = [ctx EXCEPT ![t].pc = "put", ![t].after = "results", ![t].job = cache]
    /\ UNCHANGED <<outbox, sequence, cache, req, server, discarded, used>>

(* refreshJobPendingFlag counts, then reads the job, then (PutJob) writes it. *)
CountRemaining(t) ==
    /\ At(t, "results")
    /\ ctx[t].batch = {}
    /\ ctx' = [ctx EXCEPT ![t].pc = "refresh", ![t].remaining = outbox # {}]
    /\ UNCHANGED <<outbox, sequence, cache, req, server, discarded, used>>

refreshJobPendingFlag(t) ==
    /\ At(t, "refresh")
    /\ ctx' = [ctx EXCEPT
         ![t].pc = "put",
         ![t].job = [cache EXCEPT !.hasPendingOutbox = ctx[t].remaining],
         ![t].after = IF ctx[t].acked THEN "drain" ELSE AfterDrain(ctx[t].goal),
         ![t].acked = FALSE,
         ![t].results = {}]
    /\ UNCHANGED <<outbox, sequence, cache, req, server, discarded, used>>

-----------------------------------------------------------------------------
(* bootstrap: a read on the server, later one transaction on the device. *)

bootstrap(t) ==
    /\ At(t, "idle")
    /\ used.bootstraps < MaxBootstraps
    /\ server.assigned
    /\ used' = [used EXCEPT !.bootstraps = @ + 1]
    /\ ctx' = [ctx EXCEPT ![t].pc = "boot_sent", ![t].number = server.version]
    /\ UNCHANGED <<outbox, sequence, cache, req, server, discarded>>

(* The cached job after a snapshot of the server's job was merged into it. *)
Merged(job, version) ==
    IF job.hasPendingOutbox
    THEN job
    ELSE [job EXCEPT !.serverRemoved = FALSE, !.predictedDraftVersion = version]

BootstrapMerge(t) ==
    /\ At(t, "boot_sent")
    /\ cache' = Merged(cache, ctx[t].number)
    /\ Finish(t)
    /\ UNCHANGED <<outbox, sequence, req, server, discarded, used>>

(* A read that does not come back changes nothing on the device. *)
ReadLost(t) ==
    /\ ctx[t].pc \in {"boot_sent", "recover_get", "recover_tx", "recover_gone"}
    /\ Finish(t)
    /\ UNCHANGED <<outbox, sequence, cache, req, server, discarded, used>>

-----------------------------------------------------------------------------
(* submitJob: read the job, count the rows, persist the key, send. *)

submitJob(t) ==
    /\ At(t, "idle")
    /\ used.submits < MaxSubmits
    /\ ~cache.serverRemoved
    /\ used' = [used EXCEPT !.submits = @ + 1]
    /\ ctx' = [ctx EXCEPT ![t].pc = "submit_count", ![t].job = cache,
                          ![t].number = used.submits + 1]
    /\ UNCHANGED <<outbox, sequence, cache, req, server, discarded>>

(* Mutant of AllAcknowledged: rows that need a decision are not counted. *)
NothingSendable == outbox = Retained

(* The guard of submitJob: no row of the job remains, whatever its status. *)
AllAcknowledged == outbox = {}

SubmitGuard(t) ==
    /\ At(t, "submit_count")
    /\ IF AllAcknowledged
       THEN ctx' = [ctx EXCEPT ![t].pc = "submit_put", ![t].claim = 1..sequence]
       ELSE Finish(t)
    /\ UNCHANGED <<outbox, sequence, cache, req, server, discarded, used>>

SubmitSend(t) ==
    /\ At(t, "submit_put")
    /\ req[t].kind = "none"
    /\ LET job == ctx[t].job
           key == IF job.submitIdempotencyKey = None THEN ctx[t].number
                                                     ELSE job.submitIdempotencyKey
       IN  /\ cache' = [job EXCEPT !.submitState = "submitting", !.submitIdempotencyKey = key]
           /\ req' = [req EXCEPT ![t] = [NoRequest EXCEPT !.kind = "submit", !.key = key,
                                                          !.claim = ctx[t].claim]]
    /\ Goto(t, "submit_sent")
    /\ UNCHANGED <<outbox, sequence, server, discarded, used>>

(* The answer arrives; the job is read again and (PutJob) written back. *)
SubmitReply(t) ==
    /\ At(t, "submit_sent")
    /\ req[t].phase \in {"ok", "rejected"}
    /\ ctx' = [ctx EXCEPT
         ![t].pc = "put",
         ![t].job = [cache EXCEPT
            !.submitState = IF req[t].phase = "ok" THEN "submitted" ELSE "none",
            !.submitIdempotencyKey = None]]
    /\ req' = [req EXCEPT ![t] = NoRequest]
    /\ UNCHANGED <<outbox, sequence, cache, server, discarded, used>>

SubmitNetworkError(t) ==
    /\ At(t, "submit_sent")
    /\ used.faults < MaxFaults
    /\ used' = [used EXCEPT !.faults = @ + 1]
    /\ ctx' = [ctx EXCEPT ![t].pc = "put", ![t].claim = {},
                          ![t].job = [cache EXCEPT !.submitState = "none"]]
    /\ req' \in {req, [req EXCEPT ![t] = NoRequest]}
    /\ UNCHANGED <<outbox, sequence, cache, server, discarded>>

-----------------------------------------------------------------------------
(* recoverJobConflicts: drain, read the server's job, one transaction. *)

recoverJobConflicts(t, choice) ==
    /\ At(t, "idle")
    /\ Retained # {}
    /\ ctx' = [ctx EXCEPT ![t].pc = "drain", ![t].goal = choice]
    /\ UNCHANGED <<outbox, sequence, cache, req, server, discarded, used>>

RecoverGetJob(t) ==
    /\ At(t, "recover_get")
    /\ IF server.assigned
       THEN ctx' = [ctx EXCEPT ![t].pc = "recover_tx", ![t].number = server.version]
       ELSE IF ctx[t].goal = "keep-mine" THEN Finish(t) ELSE Goto(t, "recover_gone")
    /\ UNCHANGED <<outbox, sequence, cache, req, server, discarded, used>>

(* Retained rows in the order the table returns them: sequence, then age. *)
Before(r, s) ==
    \/ r.id[1] < s.id[1]
    \/ r.id[1] = s.id[1] /\ r.id[2] <= s.id[2]
UpTo(row) == {r \in Retained : Before(r, row)}

(* retryConflictWithNewId: a fresh id and the next If-Match of the chain. *)
Requeued(row, version) ==
    [row EXCEPT
       !.id = <<EditOf(row), used.requeues + Cardinality(UpTo(row))>>,
       !.ifMatch = IF @ = None THEN None
                   ELSE version + Cardinality({r \in UpTo(row) : r.ifMatch # None}) - 1,
       !.status = "pending"]

Rebaselined(rows, version) ==
    [cache EXCEPT !.hasPendingOutbox = rows # {},
                  !.serverRemoved = FALSE,
                  !.predictedDraftVersion =
                      version + Cardinality({row \in rows : row.ifMatch # None})]

KeepMine(t) ==
    /\ At(t, "recover_tx")
    /\ ctx[t].goal = "keep-mine"
    /\ used.requeues + Cardinality(Retained) <= MaxRequeues
    /\ used' = [used EXCEPT !.requeues = @ + Cardinality(Retained)]
    /\ outbox' = (outbox \ Retained) \cup {Requeued(row, ctx[t].number) : row \in Retained}
    /\ cache' = Rebaselined(outbox', ctx[t].number)
    /\ ctx' = [ctx EXCEPT ![t] = [Idle EXCEPT !.pc = "drain"]]
    /\ UNCHANGED <<sequence, req, server, discarded>>

AcceptServer(t) ==
    /\ At(t, "recover_tx")
    /\ ctx[t].goal = "accept-server"
    /\ outbox' = outbox \ Retained
    /\ discarded' = discarded \cup {EditOf(row) : row \in Retained}
    /\ cache' = Rebaselined(outbox', ctx[t].number)
    /\ Finish(t)
    /\ UNCHANGED <<sequence, req, server, used>>

discardRetainedForGoneJob(t) ==
    /\ At(t, "recover_gone")
    /\ outbox' = outbox \ Retained
    /\ discarded' = discarded \cup {EditOf(row) : row \in Retained}
    /\ cache' = [cache EXCEPT !.serverRemoved = TRUE, !.hasPendingOutbox = outbox' # {}]
    /\ Finish(t)
    /\ UNCHANGED <<sequence, req, server, used>>

-----------------------------------------------------------------------------
(* The server: applyOne on the mutations of a batch in sequence order, each   *)
(* with its replay check, its load and guards, and its transaction.           *)

FirstOf(todo) == {row \in todo : \A other \in todo : EditOf(row) <= EditOf(other)}

Answer(t, row, result) ==
    req' = [req EXCEPT ![t].phase = "replay", ![t].todo = {r \in @ : r.id # row.id},
                       ![t].results = @ \cup {[id |-> row.id, result |-> result]}]

checkReplay(t) ==
    /\ req[t].kind = "outbox"
    /\ req[t].phase = "replay"
    /\ \E row \in FirstOf(req[t].todo) :
         IF row.id \in Applied THEN Answer(t, row, "applied")
                               ELSE req' = [req EXCEPT ![t].phase = "load"]
    /\ UNCHANGED <<outbox, sequence, cache, ctx, server, discarded, used>>

assertIfMatch(row) == row.ifMatch \in {None, server.version}

loadForMutation(t) ==
    /\ req[t].kind = "outbox"
    /\ req[t].phase = "load"
    /\ \E row \in FirstOf(req[t].todo) :
         CASE ~server.assigned -> Answer(t, row, "refused")
           [] server.assigned /\ (server.status # "in_progress" \/ ~assertIfMatch(row))
                -> Answer(t, row, "conflict")
           [] OTHER -> req' = [req EXCEPT ![t].phase = "commit"]
    /\ UNCHANGED <<outbox, sequence, cache, ctx, server, discarded, used>>

(* Mutant of KeyIsFree: only the replay check before the transaction counts. *)
KeyUnchecked(id) == TRUE

(* The idempotency row is inserted in the transaction that applies the        *)
(* mutation: a key that exists aborts it, and the whole batch answers 500.    *)
KeyIsFree(id) == server.log[id] = 0

commitMutation(t) ==
    /\ req[t].kind = "outbox"
    /\ req[t].phase = "commit"
    /\ \E row \in FirstOf(req[t].todo) :
         IF KeyIsFree(row.id)
         THEN /\ server' = [server EXCEPT
                   !.log[row.id] = @ + 1,
                   !.version = IF row.kind = "result" THEN @ + 1 ELSE @]
              /\ Answer(t, row, "applied")
         ELSE /\ req' = [req EXCEPT ![t].phase = "error"]
              /\ UNCHANGED server
    /\ UNCHANGED <<outbox, sequence, cache, ctx, discarded, used>>

RespondToBatch(t) ==
    /\ req[t].kind = "outbox"
    /\ req[t].phase = "replay"
    /\ req[t].todo = {}
    /\ req' = [req EXCEPT ![t].phase = "ok"]
    /\ UNCHANGED <<outbox, sequence, cache, ctx, server, discarded, used>>

SubmitReplay(t) ==
    /\ req[t].kind = "submit"
    /\ req[t].phase = "replay"
    /\ req' = [req EXCEPT ![t].phase = IF req[t].key \in server.keys THEN "ok" ELSE "load"]
    /\ UNCHANGED <<outbox, sequence, cache, ctx, server, discarded, used>>

SubmitLoad(t) ==
    /\ req[t].kind = "submit"
    /\ req[t].phase = "load"
    /\ req' = [req EXCEPT ![t].phase =
                 IF server.assigned /\ server.status = "in_progress" THEN "commit"
                                                                     ELSE "rejected"]
    /\ UNCHANGED <<outbox, sequence, cache, ctx, server, discarded, used>>

SubmitCommit(t) ==
    /\ req[t].kind = "submit"
    /\ req[t].phase = "commit"
    /\ IF server.status = "in_progress" /\ req[t].key \notin server.keys
       THEN /\ server' = [server EXCEPT !.status = "submitted", !.covered = AppliedEdits,
                                        !.keys = @ \cup {req[t].key}]
            /\ req' = [req EXCEPT ![t].phase = "ok"]
       ELSE /\ req' = [req EXCEPT ![t].phase = "rejected"]
            /\ UNCHANGED server
    /\ UNCHANGED <<outbox, sequence, cache, ctx, discarded, used>>

(* The answer to a request nobody waits for any more goes nowhere. *)
AnswerUnheard(t) ==
    /\ req[t].kind # "none"
    /\ req[t].phase \in {"ok", "rejected", "error"}
    /\ ctx[t].pc \notin {"drain_sent", "submit_sent"}
    /\ req' = [req EXCEPT ![t] = NoRequest]
    /\ UNCHANGED <<outbox, sequence, cache, ctx, server, discarded, used>>

(* What else happens to the job on the server. *)
VerifierReturns ==
    /\ server.status = "submitted"
    /\ used.returns < MaxReturns
    /\ used' = [used EXCEPT !.returns = @ + 1]
    /\ server' = [server EXCEPT !.status = "in_progress"]
    /\ UNCHANGED <<outbox, sequence, cache, ctx, req, discarded>>

EditFromElsewhere ==
    /\ server.status = "in_progress"
    /\ used.others < MaxOtherEdits
    /\ used' = [used EXCEPT !.others = @ + 1]
    /\ server' = [server EXCEPT !.version = @ + 1]
    /\ UNCHANGED <<outbox, sequence, cache, ctx, req, discarded>>

Reassigned ==
    /\ server.assigned
    /\ used.reassigns < MaxReassigns
    /\ used' = [used EXCEPT !.reassigns = @ + 1]
    /\ server' = [server EXCEPT !.assigned = FALSE]
    /\ UNCHANGED <<outbox, sequence, cache, ctx, req, discarded>>

-----------------------------------------------------------------------------
(* Contexts come and go. *)

(* The tab dies: its call is gone, its request may still be on its way. *)
CloseTab(t) ==
    /\ ctx[t].pc # "closed"
    /\ used.faults < MaxFaults
    /\ used' = [used EXCEPT !.faults = @ + 1]
    /\ ctx' = [ctx EXCEPT ![t] = [Idle EXCEPT !.pc = "closed"]]
    /\ UNCHANGED <<outbox, sequence, cache, req, server, discarded>>

(* A database is opened: the rows still marked as sending are read first. *)
OpenTab(t) ==
    /\ At(t, "closed")
    /\ ctx' = [ctx EXCEPT ![t].pc = "opening",
                          ![t].batch = {row \in outbox : row.status = "sending"}]
    /\ UNCHANGED <<outbox, sequence, cache, req, server, discarded, used>>

(* Mutant of recoverStuckSendingRows: rows stay claimed by the dead context. *)
stuckSendingRowsStay(t) ==
    /\ At(t, "opening")
    /\ Finish(t)
    /\ UNCHANGED <<outbox, sequence, cache, req, server, discarded, used>>

(* Then they are put back as pending, whoever has claimed or settled them.    *)
recoverStuckSendingRows(t) ==
    /\ At(t, "opening")
    /\ outbox' = Put(outbox, WithStatus(ctx[t].batch, "pending"))
    /\ Finish(t)
    /\ UNCHANGED <<sequence, cache, req, server, discarded, used>>

-----------------------------------------------------------------------------
(* One context's steps inside a call it has begun. *)
CallStep(t) ==
    \/ append(t) \/ AdvancePrediction(t) \/ PutJob(t)
    \/ NothingToDrain(t) \/ ReceiveResults(t) \/ DrainServerError(t)
    \/ HandleResult(t) \/ confirmAckIntoCachedJob(t) \/ CountRemaining(t)
    \/ refreshJobPendingFlag(t)
    \/ BootstrapMerge(t) \/ ReadLost(t)
    \/ SubmitGuard(t) \/ SubmitSend(t) \/ SubmitReply(t)
    \/ RecoverGetJob(t) \/ KeepMine(t) \/ AcceptServer(t)
    \/ discardRetainedForGoneJob(t) \/ recoverStuckSendingRows(t)

ServerStep(t) ==
    \/ checkReplay(t) \/ loadForMutation(t) \/ commitMutation(t)
    \/ RespondToBatch(t) \/ SubmitReplay(t) \/ SubmitLoad(t) \/ SubmitCommit(t)
    \/ AnswerUnheard(t)

Next ==
    \/ \E t \in Tabs :
         \/ \E kind \in Kinds : appendJobMutation(t, kind)
         \/ \E choice \in {"keep-mine", "accept-server"} : recoverJobConflicts(t, choice)
         \/ drain(t) \/ bootstrap(t) \/ submitJob(t)
         \/ CallStep(t) \/ QuotaExceeded(t)
         \/ ServerStep(t)
         \/ DrainNetworkError(t) \/ SubmitNetworkError(t)
         \/ CloseTab(t) \/ OpenTab(t)
    \/ VerifierReturns \/ EditFromElsewhere \/ Reassigned

Spec == Init /\ [][Next]_vars

(***************************************************************************)
(* A begun call goes on, the server works on what it received, a closed    *)
(* app is opened again, and drains keep being triggered (after every       *)
(* append, on every reconnect): strong fairness, because in the code the   *)
(* trigger does not wait for the context's other calls as it does here.    *)
(***************************************************************************)
Fairness ==
    \A t \in Tabs : /\ WF_vars(CallStep(t) \/ QuotaExceeded(t))
                    /\ WF_vars(ServerStep(t))
                    /\ WF_vars(OpenTab(t))
                    /\ SF_vars(drain(t))

FairSpec == Spec /\ Fairness

-----------------------------------------------------------------------------
(* Properties *)

(* Every table, call and request is well formed, and ids are unique keys. *)
TypeOK ==
    /\ outbox \subseteq Row
    /\ sequence \in 0..MaxEdits
    /\ cache \in CachedJob
    /\ ctx \in [Tabs -> Context]
    /\ req \in [Tabs -> Request]
    /\ server \in Server
    /\ discarded \subseteq Edits
    /\ used \in Bounds
    /\ \A row, other \in outbox : row.id = other.id => row = other

Held(e) == \E row \in outbox : EditOf(row) = e

(***************************************************************************)
(* An entry the technician made is in the outbox, or applied by the        *)
(* server, or was given up by an explicit choice: no lost answer, dead tab *)
(* or second context ever makes it vanish (drain's invariant).             *)
(***************************************************************************)
NothingLost ==
    \A e \in 1..sequence : Held(e) \/ e \in AppliedEdits \/ e \in discarded

(* However often a row is sent, the server applies its id at most once. *)
AppliedOncePerId == \A i \in Ids : server.log[i] <= 1

(***************************************************************************)
(* A submit that is on its way carries the whole record: every entry that  *)
(* existed when submitJob counted the outbox is applied on the server or   *)
(* was given up, so submission can never overtake a mutation.              *)
(***************************************************************************)
SubmitCarriesAll ==
    \A t \in Tabs : req[t].kind = "submit" => req[t].claim \subseteq AppliedEdits \cup discarded

(***************************************************************************)
(* Every entry keeps coming to the server, to a state in which the         *)
(* technician is asked to decide about it, or behind a head of the outbox  *)
(* that is full of refused rows: none stays "sending" for ever, and only   *)
(* refused rows hold another row back.                                     *)
(***************************************************************************)
Undecided(e) == \E row \in outbox : EditOf(row) = e /\ row.status \in {"conflict", "failed"}
BehindRefusedRows(e) ==
    Cardinality({row \in outbox : EditOf(row) < e /\ row.status = "failed"}) >= MAX_BATCH_SIZE
EveryEditSettles ==
    \A e \in Edits :
       Held(e) ~> (e \in AppliedEdits \/ e \in discarded \/ Undecided(e) \/ BehindRefusedRows(e))

(***************************************************************************)
(* "received by server" is reserved for the job having been submitted:     *)
(* when a submit is acknowledged, the submission the server holds covers   *)
(* every entry the technician submitted.                                   *)
(***************************************************************************)
ReceivedMeansSubmitted ==
    \A t \in Tabs : (At(t, "put") /\ ctx[t].job.submitState = "submitted")
                      => ctx[t].claim \subseteq server.covered \cup discarded

(***************************************************************************)
(* A job that has unsynced outbox entries is never overwritten by an       *)
(* incoming bootstrap snapshot.                                            *)
(***************************************************************************)
BootstrapProtectsEdits ==
    [][\A t \in Tabs : At(t, "boot_sent") /\ ctx'[t].pc = "idle" /\ outbox # {}
                         => cache' = cache]_vars

=============================================================================
