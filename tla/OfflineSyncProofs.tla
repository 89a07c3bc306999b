------------------------- MODULE OfflineSyncProofs -------------------------
(***************************************************************************)
(* Proofs about OfflineSync, for every set of contexts and every bound: no *)
(* entry is lost, no id is applied twice, a submit carries the record.     *)
(***************************************************************************)
EXTENDS OfflineSync, FiniteSetTheorems, TLAPS

(* An answer "applied", in flight or received, is about an applied id. *)
AnswersTrue ==
    \A t \in Tabs, i \in Ids :
        [id |-> i, result |-> "applied"] \in req[t].results \cup ctx[t].results
            => i \in Applied

(* Everything a submit has claimed, at any stage, is applied or given up. *)
ClaimsHold ==
    \A t \in Tabs : /\ req[t].claim \subseteq AppliedEdits \cup discarded
                    /\ ctx[t].claim \subseteq AppliedEdits \cup discarded

(* A call that is about to append knows what kind of entry it appends. *)
AppendsKnownKind == \A t \in Tabs : At(t, "append_tx") => ctx[t].kind \in Kinds

(* Ids are unique keys, made of the two counters. *)
Keyed(rows) ==
    /\ \A row, other \in rows : row.id = other.id => row = other
    /\ \A row \in rows : row.id[1] <= sequence /\ row.id[2] <= used.requeues
BatchesKeyed == Keyed(outbox) /\ \A t \in Tabs : Keyed(ctx[t].batch)

IInv == /\ TypeOK
        /\ AppendsKnownKind
        /\ BatchesKeyed
        /\ AnswersTrue
        /\ NothingLost
        /\ AppliedOncePerId
        /\ ClaimsHold

USE BoundsAssumption, KindsAssumption

-----------------------------------------------------------------------------
(* The helpers on tables. *)

(* Putting rows of the same type back keeps the table well formed. *)
LEMMA PutType ==
    ASSUME NEW table \in SUBSET Row, NEW rows \in SUBSET Row
    PROVE  Put(table, rows) \in SUBSET Row
  BY DEF Put

LEMMA WithStatusType ==
    ASSUME NEW rows \in SUBSET Row, NEW status \in RowStatus
    PROVE  /\ WithStatus(rows, status) \in SUBSET Row
           /\ \A row \in rows : \E new \in WithStatus(rows, status) : new.id = row.id
           /\ \A new \in WithStatus(rows, status) : \E row \in rows :
                 new.id = row.id /\ new = [row EXCEPT !.status = status]
  <1>1. \A row \in rows : /\ [row EXCEPT !.status = status] \in Row
                          /\ [row EXCEPT !.status = status].id = row.id
      BY DEF Row
  <1> QED BY <1>1 DEF WithStatus

(* A table whose rows are told apart by their ids is finite. *)
LEMMA KeyedFinite ==
    ASSUME NEW rows \in SUBSET Row,
           \A row, other \in rows : row.id = other.id => row = other
    PROVE  IsFiniteSet(rows)
  <1>1. IsFiniteSet(Ids)
      <2>1. IsFiniteSet(Edits) /\ IsFiniteSet(0..MaxRequeues)
          BY FS_Interval DEF Edits
      <2> QED BY <2>1, FS_Product DEF Ids
  <1> DEFINE f == [row \in rows |-> row.id]
  <1>2. f \in Injection(rows, Ids)
      BY DEF Injection, IsInjective, Row
  <1> QED BY <1>1, <1>2, FS_Injection DEF ExistsInjection

LEMMA InitInv == Init => IInv
  <1> SUFFICES ASSUME Init PROVE IInv
      OBVIOUS
  <1>1. NoJob \in CachedJob
      BY DEF NoJob, CachedJob, None
  <1>2. Idle \in Context
      BY <1>1 DEF Idle, Context, Pcs, Afters, Goals, None
  <1>3. NoRequest \in Request
      BY DEF NoRequest, Request, None
  <1>4. TypeOK
      BY <1>1, <1>2, <1>3 DEF Init, TypeOK, Server, Bounds, Row, Edits
  <1>5. AppendsKnownKind
      BY DEF Init, AppendsKnownKind, At, Idle
  <1>6. BatchesKeyed
      BY DEF Init, BatchesKeyed, Keyed, Idle
  <1>7. AnswersTrue /\ ClaimsHold
      BY DEF Init, AnswersTrue, ClaimsHold, Idle, NoRequest
  <1>8. NothingLost /\ AppliedOncePerId
      BY DEF Init, NothingLost, AppliedOncePerId
  <1> QED BY <1>4, <1>5, <1>6, <1>7, <1>8 DEF IInv

-----------------------------------------------------------------------------
(* Types *)

Types ==
    /\ outbox \subseteq Row
    /\ sequence \in 0..MaxEdits
    /\ cache \in CachedJob
    /\ ctx \in [Tabs -> Context]
    /\ req \in [Tabs -> Request]
    /\ server \in Server
    /\ discarded \subseteq Edits
    /\ used \in Bounds

LEMMA Constants_ == NoJob \in CachedJob /\ Idle \in Context /\ NoRequest \in Request
  <1>1. NoJob \in CachedJob
      BY DEF NoJob, CachedJob, None
  <1>2. Idle \in Context
      BY <1>1 DEF Idle, Context, Pcs, Afters, Goals, None
  <1>3. NoRequest \in Request
      BY DEF NoRequest, Request, None
  <1> QED BY <1>1, <1>2, <1>3

(* Moving a context on, or ending its call, keeps it well formed. *)
LEMMA MoveType ==
    ASSUME NEW t \in Tabs, ctx \in [Tabs -> Context]
    PROVE  /\ \A pc \in Pcs : Goto(t, pc) => ctx' \in [Tabs -> Context]
           /\ Finish(t) => ctx' \in [Tabs -> Context]
  <1>1. \A pc \in Pcs : [ctx[t] EXCEPT !.pc = pc] \in Context
      BY DEF Context
  <1> QED BY <1>1, Constants_ DEF Goto, Finish

LEMMA AppendTypes ==
    ASSUME Types, AppendsKnownKind, NEW t \in Tabs,
           \/ \E kind \in Kinds : appendJobMutation(t, kind)
           \/ append(t) \/ QuotaExceeded(t) \/ AdvancePrediction(t) \/ PutJob(t)
    PROVE  Types'
  <1>0. ctx[t] \in Context
      BY DEF Types
  <1>1. ASSUME NEW kind \in Kinds, appendJobMutation(t, kind) PROVE Types'
      <2> DEFINE match == IF kind = "result" THEN cache.predictedDraftVersion ELSE None
      <2>0. match \in Nat \cup {None}
          BY DEF Types, CachedJob
      <2> HIDE DEF match
      <2>2. [ctx[t] EXCEPT !.pc = "append_tx", !.kind = kind, !.ifMatch = match] \in Context
          BY <1>0, <2>0 DEF Context, Pcs
      <2>1. ctx' \in [Tabs -> Context]
          BY <1>1, <2>2 DEF Types, appendJobMutation, match
      <2> QED BY <1>1, <2>1 DEF Types, appendJobMutation
  <1>2. CASE append(t)
      <2>1. /\ [id |-> <<sequence + 1, 0>>, kind |-> ctx[t].kind,
                ifMatch |-> ctx[t].ifMatch, status |-> "pending"] \in Row
            /\ sequence' \in 0..MaxEdits
          BY <1>0, <1>2 DEF Types, append, AppendsKnownKind, Row, Ids, Edits, RowStatus,
                       Context, At
      <2>2. cache' \in CachedJob
          BY <1>2 DEF Types, append, CachedJob
      <2>3. ctx' \in [Tabs -> Context]
          BY <1>2, MoveType DEF Types, append, Pcs
      <2> QED BY <1>2, <2>1, <2>2, <2>3 DEF Types, append
  <1>3. CASE QuotaExceeded(t)
      BY <1>3, MoveType DEF Types, QuotaExceeded
  <1>4. CASE AdvancePrediction(t)
      <2>1. [cache EXCEPT !.predictedDraftVersion = ctx[t].ifMatch + 1] \in CachedJob
          BY <1>0 DEF Types, CachedJob, Context, None
      <2>3. \A job \in CachedJob : [ctx[t] EXCEPT !.pc = "put", !.job = job] \in Context
          BY <1>0 DEF Context, Pcs
      <2>2. ctx' \in [Tabs -> Context]
          BY <1>4, <2>1, <2>3 DEF Types, AdvancePrediction
      <2> QED BY <1>4, <2>2 DEF Types, AdvancePrediction
  <1>5. CASE PutJob(t)
      <2>1. cache' \in CachedJob /\ ctx[t].after \in Pcs
          BY <1>0, <1>5 DEF PutJob, Context, Afters, Pcs
      <2> QED BY <1>5, <2>1, MoveType DEF Types, PutJob
  <1> QED BY <1>1, <1>2, <1>3, <1>4, <1>5

LEMMA DrainTypes ==
    ASSUME Types, NEW t \in Tabs,
           \/ drain(t) \/ NothingToDrain(t) \/ ReceiveResults(t)
           \/ DrainServerError(t) \/ DrainNetworkError(t) \/ HandleResult(t)
           \/ confirmAckIntoCachedJob(t) \/ CountRemaining(t) \/ refreshJobPendingFlag(t)
    PROVE  Types'
  <1>0. ctx[t] \in Context /\ req[t] \in Request /\ ctx[t].batch \in SUBSET Row
      BY DEF Types, Context
  <1>1. CASE drain(t)
      <2>1. PICK batch \in listDrainable :
              /\ outbox' = Put(outbox, WithStatus(batch, "sending"))
              /\ ctx' = [ctx EXCEPT ![t].pc = "drain_sent", ![t].batch = batch]
              /\ req' = [req EXCEPT ![t] = [NoRequest EXCEPT !.kind = "outbox", !.todo = batch]]
          BY <1>1 DEF drain
      <2>2. batch \in SUBSET Row
          BY DEF listDrainable, Types
      <2>3. outbox' \subseteq Row
          BY <2>1, <2>2, PutType, WithStatusType DEF Types, RowStatus
      <2>6. [ctx[t] EXCEPT !.pc = "drain_sent", !.batch = batch] \in Context
          BY <1>0, <2>2 DEF Context, Pcs
      <2>4. ctx' \in [Tabs -> Context]
          BY <2>1, <2>6 DEF Types
      <2>5. [NoRequest EXCEPT !.kind = "outbox", !.todo = batch] \in Request
          BY <2>2 DEF NoRequest, Request, None
      <2> QED BY <1>1, <2>1, <2>3, <2>4, <2>5 DEF Types, drain
  <1>2. CASE NothingToDrain(t)
      BY <1>2, MoveType DEF Types, NothingToDrain, Pcs
  <1>3. CASE ReceiveResults(t)
      <2>1. ctx' \in [Tabs -> Context]
          BY <1>0, <1>3 DEF Types, ReceiveResults, Context, Request, Pcs
      <2> QED BY <1>3, <2>1, Constants_ DEF Types, ReceiveResults
  <1>4. ASSUME ReturnBatch(t) PROVE outbox' \subseteq Row /\ ctx' \in [Tabs -> Context]
      BY <1>0, <1>4, PutType, WithStatusType, MoveType DEF Types, ReturnBatch, RowStatus
  <1>5. CASE DrainServerError(t)
      BY <1>4, <1>5, Constants_ DEF Types, DrainServerError, ReturnBatch
  <1>6. CASE DrainNetworkError(t)
      <2>1. used' \in Bounds
          BY <1>6 DEF DrainNetworkError, Types, Bounds
      <2>2. req' \in [Tabs -> Request]
          BY <1>6, Constants_ DEF DrainNetworkError, Types
      <2> QED BY <1>4, <1>6, <2>1, <2>2 DEF Types, DrainNetworkError, ReturnBatch
  <1>7. CASE HandleResult(t)
      <2>1. PICK row \in ctx[t].batch :
              /\ outbox' = Put({r \in outbox : r.id # row.id}, SettledRows(row, ctx[t].results))
              /\ ctx' = [ctx EXCEPT
                   ![t].batch = @ \ {row},
                   ![t].acked = @ \/ SettledRows(row, ctx[t].results) = {},
                   ![t].pc = IF SettledRows(row, ctx[t].results) = {} /\ row.kind = "title"
                             THEN "confirm" ELSE @]
          BY <1>7 DEF HandleResult
      <2>2. SettledRows(row, ctx[t].results) \in SUBSET Row
          BY <1>0, WithStatusType DEF SettledRows, RowStatus
      <2>3. outbox' \subseteq Row
          BY <2>1, <2>2, PutType DEF Types
      <2> DEFINE empty == SettledRows(row, ctx[t].results) = {}
      <2>4. empty \in BOOLEAN
          OBVIOUS
      <2> HIDE DEF empty
      <2>5. [ctx[t] EXCEPT !.batch = @ \ {row}, !.acked = @ \/ empty,
                           !.pc = IF empty /\ row.kind = "title" THEN "confirm" ELSE @] \in Context
          BY <1>0, <2>4 DEF Context, Pcs
      <2>6. ctx' \in [Tabs -> Context]
          BY <2>1, <2>5 DEF Types, empty
      <2> QED BY <1>7, <2>3, <2>6 DEF Types, HandleResult
  <1>8. CASE confirmAckIntoCachedJob(t)
      <2>2. \A job \in CachedJob :
              [ctx[t] EXCEPT !.pc = "put", !.after = "results", !.job = job] \in Context
          BY <1>0 DEF Context, Pcs, Afters
      <2>1. ctx' \in [Tabs -> Context]
          BY <1>8, <2>2 DEF Types, confirmAckIntoCachedJob
      <2> QED BY <1>8, <2>1 DEF Types, confirmAckIntoCachedJob
  <1>9. CASE CountRemaining(t)
      <2>2. \A b \in BOOLEAN : [ctx[t] EXCEPT !.pc = "refresh", !.remaining = b] \in Context
          BY <1>0 DEF Context, Pcs
      <2>3. (outbox # {}) \in BOOLEAN
          OBVIOUS
      <2>1. ctx' \in [Tabs -> Context]
          BY <1>9, <2>2, <2>3 DEF Types, CountRemaining
      <2> QED BY <1>9, <2>1 DEF Types, CountRemaining
  <1>10. CASE refreshJobPendingFlag(t)
      <2>1. [cache EXCEPT !.hasPendingOutbox = ctx[t].remaining] \in CachedJob
          BY <1>0 DEF Types, CachedJob, Context
      <2>5. "put" \in Pcs /\ {} \in SUBSET Results
          BY DEF Pcs
      <2>6. \A job \in CachedJob, pc \in Afters, next \in Pcs, none \in SUBSET Results :
              [ctx[t] EXCEPT !.pc = next, !.job = job, !.after = pc, !.acked = FALSE,
                             !.results = none] \in Context
          BY <1>0 DEF Context
      <2>3. \A job \in CachedJob, pc \in Afters :
              [ctx[t] EXCEPT !.pc = "put", !.job = job, !.after = pc, !.acked = FALSE,
                             !.results = {}] \in Context
          BY <2>5, <2>6
      <2>4. (IF ctx[t].acked THEN "drain" ELSE AfterDrain(ctx[t].goal)) \in Afters
          BY DEF AfterDrain, Afters
      <2>2. ctx' \in [Tabs -> Context]
          BY <1>10, <2>1, <2>3, <2>4 DEF Types, refreshJobPendingFlag
      <2> QED BY <1>10, <2>2 DEF Types, refreshJobPendingFlag
  <1> QED BY <1>1, <1>2, <1>3, <1>5, <1>6, <1>7, <1>8, <1>9, <1>10

LEMMA CallTypes ==
    ASSUME Types, NEW t \in Tabs,
           \/ bootstrap(t) \/ BootstrapMerge(t) \/ ReadLost(t) \/ submitJob(t)
           \/ SubmitGuard(t) \/ SubmitSend(t) \/ SubmitReply(t) \/ SubmitNetworkError(t)
           \/ (\E choice \in {"keep-mine", "accept-server"} : recoverJobConflicts(t, choice))
           \/ RecoverGetJob(t) \/ CloseTab(t) \/ OpenTab(t) \/ recoverStuckSendingRows(t)
    PROVE  Types'
  <1>0. /\ ctx[t] \in Context /\ req[t] \in Request
        /\ \A pc \in {"boot_sent", "submit_count", "submit_put", "submit_sent", "put", "drain",
                      "recover_get", "recover_tx", "recover_gone", "closed", "opening"} : pc \in Pcs
      BY DEF Types, Pcs
  <1>a. \A pc \in Pcs, n \in Nat : [ctx[t] EXCEPT !.pc = pc, !.number = n] \in Context
      BY <1>0 DEF Context
  <1>b. \A pc \in Pcs, job \in CachedJob : [ctx[t] EXCEPT !.pc = pc, !.job = job] \in Context
      BY <1>0 DEF Context
  <1>1. CASE bootstrap(t)
      <2>1. server.version \in Nat /\ used' \in Bounds
          BY <1>1 DEF Types, Server, bootstrap, Bounds
      <2>2. ctx' \in [Tabs -> Context]
          BY <1>0, <1>1, <1>a, <2>1 DEF Types, bootstrap
      <2> QED BY <1>1, <2>1, <2>2 DEF Types, bootstrap
  <1>2. CASE BootstrapMerge(t)
      <2>1. Merged(cache, ctx[t].number) \in CachedJob
          BY <1>0 DEF Types, Merged, Context, CachedJob
      <2> QED BY <1>2, <2>1, MoveType DEF Types, BootstrapMerge
  <1>3. CASE ReadLost(t)
      BY <1>3, MoveType DEF Types, ReadLost
  <1>4. CASE submitJob(t)
      <2>1. used.submits + 1 \in Nat /\ used' \in Bounds
          BY <1>4 DEF Types, submitJob, Bounds
      <2>2. \A job \in CachedJob, n \in Nat, pc \in Pcs :
              [ctx[t] EXCEPT !.pc = pc, !.job = job, !.number = n] \in Context
          BY <1>0 DEF Context
      <2>3. ctx' \in [Tabs -> Context]
          BY <1>0, <1>4, <2>1, <2>2 DEF Types, submitJob
      <2> QED BY <1>4, <2>1, <2>3 DEF Types, submitJob
  <1>5. CASE SubmitGuard(t)
      <2>1. 1..sequence \in SUBSET Edits
          BY DEF Types, Edits
      <2>2. \A claim \in SUBSET Edits, pc \in Pcs :
              [ctx[t] EXCEPT !.pc = pc, !.claim = claim] \in Context
          BY <1>0 DEF Context
      <2>3. ctx' \in [Tabs -> Context]
          BY <1>0, <1>5, <2>1, <2>2, MoveType DEF Types, SubmitGuard
      <2> QED BY <1>5, <2>3 DEF Types, SubmitGuard
  <1>6. CASE SubmitSend(t)
      <2> DEFINE job == ctx[t].job
                 key == IF job.submitIdempotencyKey = None THEN ctx[t].number
                                                           ELSE job.submitIdempotencyKey
      <2>1. job \in CachedJob /\ key \in Nat \cup {None} /\ ctx[t].claim \in SUBSET Edits
          BY <1>0 DEF Context, CachedJob
      <2>2. /\ cache' = [job EXCEPT !.submitState = "submitting", !.submitIdempotencyKey = key]
            /\ req' = [req EXCEPT ![t] = [NoRequest EXCEPT !.kind = "submit", !.key = key,
                                                           !.claim = ctx[t].claim]]
            /\ Goto(t, "submit_sent")
          BY <1>6 DEF SubmitSend
      <2> HIDE DEF job, key
      <2>3. cache' \in CachedJob
          BY <2>1, <2>2 DEF CachedJob
      <2>4. req' \in [Tabs -> Request]
          BY <2>1, <2>2 DEF NoRequest, Request, Types
      <2> QED BY <1>0, <1>6, <2>2, <2>3, <2>4, MoveType DEF Types, SubmitSend
  <1>7. CASE SubmitReply(t)
      <2>1. \A state \in {"none", "submitted"} :
              [cache EXCEPT !.submitState = state, !.submitIdempotencyKey = None] \in CachedJob
          BY DEF Types, CachedJob
      <2>2. ctx' \in [Tabs -> Context]
          BY <1>0, <1>7, <1>b, <2>1 DEF Types, SubmitReply
      <2> QED BY <1>7, <2>2, Constants_ DEF Types, SubmitReply
  <1>8. CASE SubmitNetworkError(t)
      <2>1. [cache EXCEPT !.submitState = "none"] \in CachedJob
          BY DEF Types, CachedJob
      <2>2. \A job \in CachedJob, claim \in SUBSET Edits, pc \in Pcs :
              [ctx[t] EXCEPT !.pc = pc, !.claim = claim, !.job = job] \in Context
          BY <1>0 DEF Context
      <2>3. ctx' \in [Tabs -> Context]
          BY <1>0, <1>8, <2>1, <2>2 DEF Types, SubmitNetworkError
      <2>4. used' \in Bounds
          BY <1>8 DEF Types, SubmitNetworkError, Bounds
      <2>5. req' \in [Tabs -> Request]
          BY <1>8, Constants_ DEF Types, SubmitNetworkError
      <2> QED BY <1>8, <2>3, <2>4, <2>5 DEF Types, SubmitNetworkError
  <1>9. ASSUME NEW choice \in {"keep-mine", "accept-server"}, recoverJobConflicts(t, choice)
        PROVE  Types'
      <2>1. \A goal \in Goals, pc \in Pcs : [ctx[t] EXCEPT !.pc = pc, !.goal = goal] \in Context
          BY <1>0 DEF Context
      <2>2. choice \in Goals
          BY DEF Goals
      <2>3. ctx' \in [Tabs -> Context]
          BY <1>0, <1>9, <2>1, <2>2 DEF Types, recoverJobConflicts
      <2> QED BY <1>9, <2>3 DEF Types, recoverJobConflicts
  <1>10. CASE RecoverGetJob(t)
      <2>1. server.version \in Nat
          BY DEF Types, Server
      <2>2. ctx' \in [Tabs -> Context]
          <3>1. CASE server.assigned
              <4>1. ctx' = [ctx EXCEPT ![t].pc = "recover_tx", ![t].number = server.version]
                  BY <1>10, <3>1 DEF RecoverGetJob
              <4>2. [ctx[t] EXCEPT !.pc = "recover_tx", !.number = server.version] \in Context
                  BY <1>0, <1>a, <2>1
              <4> QED BY <4>1, <4>2 DEF Types
          <3>2. CASE ~server.assigned
              BY <1>0, <1>10, <3>2, MoveType DEF Types, RecoverGetJob
          <3> QED BY <3>1, <3>2
      <2> QED BY <1>10, <2>2 DEF Types, RecoverGetJob
  <1>11. CASE CloseTab(t)
      <2>1. [Idle EXCEPT !.pc = "closed"] \in Context
          BY <1>0, Constants_ DEF Context
      <2>2. used' \in Bounds
          BY <1>11 DEF Types, CloseTab, Bounds
      <2> QED BY <1>11, <2>1, <2>2 DEF Types, CloseTab
  <1>12. CASE OpenTab(t)
      <2>1. {row \in outbox : row.status = "sending"} \in SUBSET Row
          BY DEF Types
      <2>2. \A rows \in SUBSET Row, pc \in Pcs :
              [ctx[t] EXCEPT !.pc = pc, !.batch = rows] \in Context
          BY <1>0 DEF Context
      <2>3. ctx' \in [Tabs -> Context]
          BY <1>0, <1>12, <2>1, <2>2 DEF Types, OpenTab
      <2> QED BY <1>12, <2>3 DEF Types, OpenTab
  <1>13. CASE recoverStuckSendingRows(t)
      <2>1. ctx[t].batch \in SUBSET Row
          BY <1>0 DEF Context
      <2>2. outbox' \subseteq Row
          BY <1>13, <2>1, PutType, WithStatusType DEF Types, recoverStuckSendingRows, RowStatus
      <2> QED BY <1>13, <2>2, MoveType DEF Types, recoverStuckSendingRows
  <1> QED BY <1>1, <1>2, <1>3, <1>4, <1>5, <1>6, <1>7, <1>8, <1>9, <1>10, <1>11, <1>12, <1>13

LEMMA ServerTypes ==
    ASSUME Types, NEW t \in Tabs, ServerStep(t)
    PROVE  Types'
  <1>0. req[t] \in Request /\ FirstOf(req[t].todo) \subseteq Row /\ server \in Server
      BY DEF Types, Request, FirstOf
  <1>a. \A phase \in {"replay", "load", "commit", "ok", "rejected", "error"} :
          [req[t] EXCEPT !.phase = phase] \in Request
      BY <1>0 DEF Request
  <1>b. ASSUME NEW row \in Row, NEW result \in {"applied", "conflict", "refused"},
               Answer(t, row, result)
        PROVE  req' \in [Tabs -> Request]
      <2>1. /\ {r \in req[t].todo : r.id # row.id} \in SUBSET Row
            /\ req[t].results \cup {[id |-> row.id, result |-> result]} \in SUBSET Results
          BY <1>0 DEF Request, Results, Row
      <2>2. \A todo \in SUBSET Row, results \in SUBSET Results :
              [req[t] EXCEPT !.phase = "replay", !.todo = todo, !.results = results] \in Request
          BY <1>0 DEF Request
      <2> QED BY <1>b, <2>1, <2>2 DEF Answer, Types
  <1>1. CASE checkReplay(t)
      BY <1>0, <1>1, <1>a, <1>b DEF Types, checkReplay
  <1>2. CASE loadForMutation(t)
      <2>1. PICK row \in FirstOf(req[t].todo) :
              \/ Answer(t, row, "refused")
              \/ Answer(t, row, "conflict")
              \/ req' = [req EXCEPT ![t].phase = "commit"]
          BY <1>2 DEF loadForMutation
      <2> QED BY <1>0, <1>2, <1>a, <1>b, <2>1 DEF Types, loadForMutation
  <1>3. CASE commitMutation(t)
      <2>1. PICK row \in FirstOf(req[t].todo) :
              \/ /\ server' = [server EXCEPT
                       !.log[row.id] = @ + 1,
                       !.version = IF row.kind = "result" THEN @ + 1 ELSE @]
                 /\ Answer(t, row, "applied")
              \/ /\ req' = [req EXCEPT ![t].phase = "error"]
                 /\ UNCHANGED server
          BY <1>3 DEF commitMutation
      <2>2. req' \in [Tabs -> Request]
          BY <1>0, <1>a, <1>b, <2>1 DEF Types
      <2>3. server' \in Server
          <3>1. row.id \in Ids
              BY <1>0 DEF Row
          <3>2. /\ [server.log EXCEPT ![row.id] = @ + 1] \in [Ids -> Nat]
                /\ server.version \in Nat
              BY <1>0, <3>1 DEF Server
          <3>3. \A log \in [Ids -> Nat], v \in Nat :
                  [server EXCEPT !.log = log, !.version = v] \in Server
              BY <1>0 DEF Server
          <3>4. (IF row.kind = "result" THEN server.version + 1 ELSE server.version) \in Nat
              BY <3>2
          <3>5. [server EXCEPT !.log[row.id] = @ + 1,
                               !.version = IF row.kind = "result" THEN @ + 1 ELSE @]
                = [server EXCEPT !.log = [server.log EXCEPT ![row.id] = @ + 1],
                     !.version = IF row.kind = "result" THEN server.version + 1
                                                        ELSE server.version]
              BY <1>0 DEF Server
          <3>6. [server EXCEPT !.log = [server.log EXCEPT ![row.id] = @ + 1],
                     !.version = IF row.kind = "result" THEN server.version + 1
                                                        ELSE server.version] \in Server
              BY <3>2, <3>3, <3>4
          <3> QED BY <1>0, <2>1, <3>5, <3>6
      <2> QED BY <1>3, <2>2, <2>3 DEF Types, commitMutation
  <1>4. CASE RespondToBatch(t) \/ SubmitReplay(t) \/ SubmitLoad(t)
      BY <1>4, <1>a DEF Types, RespondToBatch, SubmitReplay, SubmitLoad
  <1>5. CASE SubmitCommit(t)
      <2>1. AppliedEdits \in SUBSET Edits
          BY DEF AppliedEdits, Applied, Ids
      <2>2. req' \in [Tabs -> Request]
          BY <1>5, <1>a DEF Types, SubmitCommit
      <2>3. CASE UNCHANGED server
          BY <1>5, <2>2, <2>3 DEF Types, SubmitCommit
      <2>4. CASE server' = [server EXCEPT !.status = "submitted", !.covered = AppliedEdits,
                                          !.keys = @ \cup {req[t].key}]
          <3>1. req[t].key \in Nat \cup {None}
              BY <1>0 DEF Request
          <3>2. server' \in Server
              BY <1>0, <2>1, <2>4, <3>1 DEF Server
          <3> QED BY <1>5, <2>2, <3>2 DEF Types, SubmitCommit
      <2> QED BY <1>5, <2>3, <2>4 DEF SubmitCommit
  <1>6. CASE AnswerUnheard(t)
      BY <1>6, Constants_ DEF Types, AnswerUnheard
  <1> QED BY <1>1, <1>2, <1>3, <1>4, <1>5, <1>6 DEF ServerStep

LEMMA ElsewhereTypes ==
    ASSUME Types, VerifierReturns \/ EditFromElsewhere \/ Reassigned
    PROVE  Types'
  <1>0. server \in Server /\ used \in Bounds
      BY DEF Types
  <1>1. used' \in Bounds
      <2>1. CASE VerifierReturns
          BY <1>0, <2>1 DEF VerifierReturns, Bounds
      <2>2. CASE EditFromElsewhere
          BY <1>0, <2>2 DEF EditFromElsewhere, Bounds
      <2>3. CASE Reassigned
          BY <1>0, <2>3 DEF Reassigned, Bounds
      <2> QED BY <2>1, <2>2, <2>3
  <1>2. server' \in Server
      <2>1. CASE VerifierReturns
          BY <1>0, <2>1 DEF VerifierReturns, Server
      <2>2. CASE EditFromElsewhere
          BY <1>0, <2>2 DEF EditFromElsewhere, Server
      <2>3. CASE Reassigned
          BY <1>0, <2>3 DEF Reassigned, Server
      <2> QED BY <2>1, <2>2, <2>3
  <1> QED BY <1>1, <1>2 DEF Types, VerifierReturns, EditFromElsewhere, Reassigned

-----------------------------------------------------------------------------
(* Recovery *)

(* A re-queued row keeps its entry and gets an id nobody has used before. *)
LEMMA RequeueFacts ==
    ASSUME Types, Keyed(outbox), NEW version \in Nat,
           used.requeues + Cardinality(Retained) <= MaxRequeues
    PROVE  /\ IsFiniteSet(Retained) /\ Cardinality(Retained) \in Nat
           /\ \A row \in Retained :
                /\ Requeued(row, version) \in Row
                /\ EditOf(Requeued(row, version)) = EditOf(row)
                /\ Requeued(row, version).id[2] > used.requeues
                /\ Requeued(row, version).id[2] <= used.requeues + Cardinality(Retained)
           /\ \A r, s \in Retained :
                Requeued(r, version).id = Requeued(s, version).id => r = s
  <1>1. IsFiniteSet(outbox) /\ Retained \in SUBSET outbox /\ Retained \in SUBSET Row
      BY KeyedFinite DEF Types, Keyed, Retained
  <1>2. IsFiniteSet(Retained) /\ Cardinality(Retained) \in Nat
      BY <1>1, FS_Subset, FS_CardinalityType
  <1>3. \A row \in Retained : /\ row \in UpTo(row) /\ UpTo(row) \in SUBSET Retained
                              /\ row.id \in Edits \X (0..MaxRequeues)
      BY <1>1 DEF UpTo, Before, Row, Ids, Edits
  <1>4. \A row \in Retained : /\ IsFiniteSet(UpTo(row))
                              /\ Cardinality(UpTo(row)) \in Nat
                              /\ Cardinality(UpTo(row)) <= Cardinality(Retained)
      BY <1>2, <1>3, FS_Subset, FS_CardinalityType
  <1>5. \A row \in Retained : Cardinality(UpTo(row)) >= 1
      BY <1>3, <1>4, FS_EmptySet
  <1>6. used.requeues \in Nat
      BY DEF Types, Bounds
  <1>7. ASSUME NEW row \in Retained
        PROVE  /\ Requeued(row, version) \in Row
               /\ Requeued(row, version).id = <<row.id[1], used.requeues + Cardinality(UpTo(row))>>
      <2> DEFINE versioned == {r \in UpTo(row) : r.ifMatch # None}
                 match == IF row.ifMatch = None THEN None
                          ELSE version + Cardinality(versioned) - 1
                 id == <<row.id[1], used.requeues + Cardinality(UpTo(row))>>
      <2>1. row \in Row /\ row.id[1] \in Edits
          BY <1>1, <1>3
      <2>2. id \in Ids
          BY <2>1, <1>2, <1>4, <1>6 DEF Ids
      <2>3. match \in Nat \cup {None}
          <3>1. IsFiniteSet(versioned) /\ Cardinality(versioned) \in Nat
              BY <1>4, FS_Subset, FS_CardinalityType
          <3>2. row.ifMatch # None => Cardinality(versioned) # 0
              BY <1>3, <3>1, FS_EmptySet
          <3> QED BY <3>1, <3>2
      <2>4. Requeued(row, version) = [row EXCEPT !.id = id, !.ifMatch = match,
                                                 !.status = "pending"]
          BY <2>1 DEF Requeued, EditOf, Row
      <2> HIDE DEF id, match
      <2>5. /\ [row EXCEPT !.id = id, !.ifMatch = match, !.status = "pending"] \in Row
            /\ [row EXCEPT !.id = id, !.ifMatch = match, !.status = "pending"].id = id
          BY <2>1, <2>2, <2>3 DEF Row, RowStatus
      <2> QED BY <2>4, <2>5 DEF id
  <1>8. ASSUME NEW r \in Retained, NEW s \in Retained,
               Requeued(r, version).id = Requeued(s, version).id
        PROVE  r = s
      <2>1. /\ r.id[1] = s.id[1]
            /\ used.requeues + Cardinality(UpTo(r)) = used.requeues + Cardinality(UpTo(s))
          BY <1>7, <1>8
      <2>2. Cardinality(UpTo(r)) = Cardinality(UpTo(s))
          BY <2>1, <1>4, <1>6
      <2>3. \A x, y \in Retained : x.id[1] = y.id[1] /\ x.id[2] <= y.id[2]
                                     => UpTo(x) \in SUBSET UpTo(y)
          BY <1>1, <1>3 DEF UpTo, Before, Edits
      <2>4. UpTo(r) = UpTo(s)
          BY <1>3, <1>4, <2>1, <2>2, <2>3, FS_Subset
      <2>5. r \in UpTo(s) /\ s \in UpTo(r)
          BY <1>3, <2>4
      <2>6. r.id[2] = s.id[2]
          BY <1>3, <2>1, <2>5 DEF UpTo, Before, Edits
      <2>7. r.id = s.id
          BY <1>3, <2>1, <2>6
      <2> QED BY <1>1, <2>7 DEF Keyed
  <1> QED BY <1>2, <1>4, <1>5, <1>6, <1>7, <1>8 DEF EditOf

LEMMA RebaselinedType ==
    ASSUME Types, NEW rows \in SUBSET Row, IsFiniteSet(rows), NEW version \in Nat
    PROVE  Rebaselined(rows, version) \in CachedJob
  <1>1. Cardinality({row \in rows : row.ifMatch # None}) \in Nat
      BY FS_Subset, FS_CardinalityType
  <1> DEFINE n == version + Cardinality({row \in rows : row.ifMatch # None})
             some == rows # {}
  <1>2. n \in Nat /\ some \in BOOLEAN
      BY <1>1
  <1> HIDE DEF n, some
  <1>3. [cache EXCEPT !.hasPendingOutbox = some, !.serverRemoved = FALSE,
                      !.predictedDraftVersion = n] \in CachedJob
      BY <1>2 DEF Types, CachedJob
  <1> QED BY <1>3 DEF Rebaselined, n, some

LEMMA RecoverTypes ==
    ASSUME Types, Keyed(outbox), NEW t \in Tabs,
           KeepMine(t) \/ AcceptServer(t) \/ discardRetainedForGoneJob(t)
    PROVE  Types' /\ Keyed(outbox)'
  <1>0. /\ ctx[t] \in Context /\ ctx[t].number \in Nat
        /\ outbox \in SUBSET Row /\ used.requeues \in Nat
      BY DEF Types, Context, Bounds
  <1>1. CASE KeepMine(t)
      <2> DEFINE new == {Requeued(row, ctx[t].number) : row \in Retained}
      <2>1. /\ used.requeues + Cardinality(Retained) <= MaxRequeues
            /\ outbox' = (outbox \ Retained) \cup new
            /\ used' = [used EXCEPT !.requeues = @ + Cardinality(Retained)]
            /\ sequence' = sequence
          BY <1>1 DEF KeepMine
      <2>2. /\ Cardinality(Retained) \in Nat
            /\ \A row \in Retained :
                 /\ Requeued(row, ctx[t].number) \in Row
                 /\ Requeued(row, ctx[t].number).id[1] = row.id[1]
                 /\ Requeued(row, ctx[t].number).id[2] > used.requeues
                 /\ Requeued(row, ctx[t].number).id[2] <= used.requeues + Cardinality(Retained)
            /\ \A r, s \in Retained :
                 Requeued(r, ctx[t].number).id = Requeued(s, ctx[t].number).id => r = s
          BY <1>0, <2>1, RequeueFacts DEF EditOf
      <2>3. outbox' \in SUBSET Row
          BY <1>0, <2>1, <2>2
      <2>4. /\ used' \in Bounds
            /\ used'.requeues = used.requeues + Cardinality(Retained)
          BY <2>1, <2>2 DEF Types, Bounds
      <2>5. \A row \in outbox \ Retained : row.id[2] <= used.requeues
          BY DEF Keyed
      <2>6. \A row \in outbox : row.id[2] \in Nat
          BY <1>0 DEF Row, Ids
      <2>7. \A row \in new : row.id[2] \in Nat /\ row.id[2] > used.requeues
          BY <2>2 DEF Row, Ids
      <2>8. ASSUME NEW r \in outbox', NEW s \in outbox', r.id = s.id PROVE r = s
          <3>1. CASE r \in outbox /\ s \in outbox
              BY <2>8, <3>1 DEF Keyed
          <3>2. CASE r \in new /\ s \in new
              BY <2>2, <2>8, <3>2
          <3>3. CASE \/ r \in outbox \ Retained /\ s \in new
                     \/ s \in outbox \ Retained /\ r \in new
              BY <1>0, <2>5, <2>6, <2>7, <2>8, <3>3
          <3> QED BY <2>1, <3>1, <3>2, <3>3
      <2>9. \A row \in outbox' : row.id[2] <= used'.requeues
          BY <1>0, <2>1, <2>2, <2>4, <2>5, <2>6, <2>7
      <2>13. \A row \in outbox' : row.id[1] <= sequence'
          BY <2>1, <2>2 DEF Keyed, Retained
      <2>10. Keyed(outbox)'
          BY <2>8, <2>9, <2>13 DEF Keyed
      <2>11. cache' \in CachedJob
          BY <1>0, <1>1, <2>3, <2>8, KeyedFinite, RebaselinedType DEF KeepMine
      <2>12. [Idle EXCEPT !.pc = "drain"] \in Context
          BY Constants_ DEF Context, Pcs
      <2> QED BY <1>1, <2>3, <2>4, <2>10, <2>11, <2>12 DEF Types, KeepMine
  <1>2. CASE AcceptServer(t) \/ discardRetainedForGoneJob(t)
      <2>1. outbox' = outbox \ Retained /\ outbox' \in SUBSET Row
            /\ UNCHANGED <<sequence, used>>
          BY <1>0, <1>2 DEF AcceptServer, discardRetainedForGoneJob
      <2>2. Keyed(outbox)'
          BY <2>1 DEF Keyed
      <2>3. IsFiniteSet(outbox')
          BY <2>1, <2>2, KeyedFinite DEF Keyed
      <2>4. discarded' \subseteq Edits
          BY <1>0, <1>2 DEF Types, AcceptServer, discardRetainedForGoneJob, Retained, EditOf,
                       Row, Ids
      <2>5. cache' \in CachedJob
          <3>1. CASE AcceptServer(t)
              BY <1>0, <2>1, <2>3, <3>1, RebaselinedType DEF AcceptServer
          <3>2. CASE discardRetainedForGoneJob(t)
              BY <3>2 DEF Types, discardRetainedForGoneJob, CachedJob
          <3> QED BY <1>2, <3>1, <3>2
      <2> QED BY <1>2, <2>1, <2>2, <2>4, <2>5, MoveType
                 DEF Types, AcceptServer, discardRetainedForGoneJob
  <1> QED BY <1>1, <1>2

-----------------------------------------------------------------------------
(* Where the local variables of calls and requests come from. *)

Flow(u) ==
    /\ ctx'[u].batch \subseteq ctx[u].batch \/ ctx'[u].batch \subseteq outbox
    /\ ctx'[u].results \subseteq ctx[u].results \cup req[u].results
    /\ \/ ctx'[u].claim \subseteq ctx[u].claim
       \/ outbox = {} /\ ctx'[u].claim = 1..sequence
    /\ req'[u].claim \subseteq req[u].claim \cup ctx[u].claim
    /\ ctx'[u].pc = "append_tx" => ctx'[u].kind \in Kinds

(* An answer the server adds to a response is true when it is added. *)
TrueAnswers(u) ==
    \A i \in Ids : [id |-> i, result |-> "applied"] \in req'[u].results
        => [id |-> i, result |-> "applied"] \in req[u].results \/ i \in Applied'

LEMMA IdleFields == /\ Idle.batch = {} /\ Idle.results = {} /\ Idle.claim = {}
                    /\ Idle.pc = "idle"
                    /\ NoRequest.results = {} /\ NoRequest.claim = {}
  BY DEF Idle, NoRequest

LEMMA FlowStays ==
    ASSUME Types, AppendsKnownKind, NEW u \in Tabs, ctx'[u] = ctx[u], req'[u] = req[u]
    PROVE  Flow(u) /\ TrueAnswers(u)
  BY DEF Flow, TrueAnswers, AppendsKnownKind, At

LEMMA FlowDevice ==
    ASSUME Types, AppendsKnownKind, NEW t \in Tabs,
           \/ \E kind \in Kinds : appendJobMutation(t, kind)
           \/ append(t) \/ QuotaExceeded(t) \/ AdvancePrediction(t) \/ PutJob(t)
           \/ NothingToDrain(t) \/ HandleResult(t)
           \/ confirmAckIntoCachedJob(t) \/ CountRemaining(t) \/ refreshJobPendingFlag(t)
           \/ bootstrap(t) \/ BootstrapMerge(t) \/ ReadLost(t) \/ submitJob(t)
           \/ SubmitGuard(t)
           \/ (\E choice \in {"keep-mine", "accept-server"} : recoverJobConflicts(t, choice))
           \/ RecoverGetJob(t) \/ KeepMine(t) \/ AcceptServer(t)
           \/ discardRetainedForGoneJob(t) \/ CloseTab(t) \/ recoverStuckSendingRows(t)
    PROVE  \A u \in Tabs : Flow(u) /\ TrueAnswers(u)
  <1>0. ctx[t] \in Context /\ ctx \in [Tabs -> Context]
      BY DEF Types
  <1>1. req' = req
      BY DEF appendJobMutation, append, QuotaExceeded, AdvancePrediction, PutJob,
             NothingToDrain, HandleResult, confirmAckIntoCachedJob, CountRemaining,
             refreshJobPendingFlag, bootstrap, BootstrapMerge, ReadLost, submitJob, SubmitGuard,
             recoverJobConflicts, RecoverGetJob, KeepMine, AcceptServer,
             discardRetainedForGoneJob, CloseTab, recoverStuckSendingRows
  <1> DEFINE Local == /\ \A u \in Tabs \ {t} : ctx'[u] = ctx[u]
                      /\ ctx'[t].batch \subseteq ctx[t].batch
                      /\ ctx'[t].results \subseteq ctx[t].results
                      /\ \/ ctx'[t].claim \subseteq ctx[t].claim
                         \/ outbox = {} /\ ctx'[t].claim = 1..sequence
                      /\ ctx'[t].pc = "append_tx" => ctx'[t].kind \in Kinds
  <1>2. ASSUME Finish(t) PROVE Local
      BY <1>0, <1>2, IdleFields DEF Finish
  <1>3. ASSUME NEW pc, pc # "append_tx", Goto(t, pc) PROVE Local
      BY <1>0, <1>3 DEF Goto, Context
  <1>4. ASSUME NEW kind \in Kinds, appendJobMutation(t, kind) PROVE Local
      BY <1>0, <1>4 DEF appendJobMutation, Context
  <1>5. ASSUME append(t) PROVE Local
      BY <1>2, <1>3, <1>5 DEF append
  <1>6. ASSUME QuotaExceeded(t) \/ BootstrapMerge(t) \/ ReadLost(t) \/ recoverStuckSendingRows(t)
             \/ AcceptServer(t) \/ discardRetainedForGoneJob(t) PROVE Local
      BY <1>2, <1>6 DEF QuotaExceeded, BootstrapMerge, ReadLost, recoverStuckSendingRows, AcceptServer,
                        discardRetainedForGoneJob
  <1>7. ASSUME PutJob(t) PROVE Local
      BY <1>0, <1>2, <1>3, <1>7 DEF PutJob, Context, Afters
  <1>8. ASSUME NothingToDrain(t) PROVE Local
      BY <1>2, <1>3, <1>8 DEF NothingToDrain
  <1>9. ASSUME AdvancePrediction(t) PROVE Local
      BY <1>0, <1>9 DEF AdvancePrediction, Context
  <1>10. ASSUME HandleResult(t) PROVE Local
      <2>1. PICK row \in ctx[t].batch, acked \in BOOLEAN, pc \in {"results", "confirm"} :
              ctx' = [ctx EXCEPT ![t].batch = @ \ {row}, ![t].acked = acked, ![t].pc = pc]
          <3>1. PICK row \in ctx[t].batch : ctx' =
                  [ctx EXCEPT
                     ![t].batch = @ \ {row},
                     ![t].acked = @ \/ SettledRows(row, ctx[t].results) = {},
                     ![t].pc = IF SettledRows(row, ctx[t].results) = {} /\ row.kind = "title"
                               THEN "confirm" ELSE @]
              BY <1>10 DEF HandleResult
          <3> DEFINE acked == ctx[t].acked \/ SettledRows(row, ctx[t].results) = {}
                     pc == IF SettledRows(row, ctx[t].results) = {} /\ row.kind = "title"
                           THEN "confirm" ELSE ctx[t].pc
          <3>2. acked \in BOOLEAN /\ pc \in {"results", "confirm"}
              BY <1>0, <1>10 DEF HandleResult, At
          <3>3. ctx' = [ctx EXCEPT ![t].batch = @ \ {row}, ![t].acked = acked, ![t].pc = pc]
              BY <1>0, <3>1 DEF Context
          <3> QED BY <3>2, <3>3
      <2> QED BY <1>0, <2>1 DEF Context
  <1>11. ASSUME confirmAckIntoCachedJob(t) PROVE Local
      BY <1>0, <1>11 DEF confirmAckIntoCachedJob, Context
  <1>12. ASSUME CountRemaining(t) PROVE Local
      BY <1>0, <1>12 DEF CountRemaining, Context
  <1>13. ASSUME refreshJobPendingFlag(t) PROVE Local
      BY <1>0, <1>13 DEF refreshJobPendingFlag, Context
  <1>14. ASSUME bootstrap(t) PROVE Local
      BY <1>0, <1>14 DEF bootstrap, Context
  <1>15. ASSUME submitJob(t) PROVE Local
      BY <1>0, <1>15 DEF submitJob, Context
  <1>16. ASSUME SubmitGuard(t) PROVE Local
      BY <1>0, <1>2, <1>16 DEF SubmitGuard, AllAcknowledged, Context
  <1>17. ASSUME NEW choice \in {"keep-mine", "accept-server"}, recoverJobConflicts(t, choice)
        PROVE  Local
      BY <1>0, <1>17 DEF recoverJobConflicts, Context
  <1>18. ASSUME RecoverGetJob(t) PROVE Local
      BY <1>0, <1>2, <1>3, <1>18 DEF RecoverGetJob, Context
  <1>19. ASSUME KeepMine(t) \/ CloseTab(t) PROVE Local
      BY <1>0, <1>19 DEF KeepMine, CloseTab, Idle
  <1>20. Local
      BY <1>4, <1>5, <1>6, <1>7, <1>8, <1>9, <1>10, <1>11, <1>12, <1>13, <1>14, <1>15, <1>16, <1>17, <1>18, <1>19
  <1>21. Flow(t) /\ TrueAnswers(t)
      BY <1>1, <1>20 DEF Flow, TrueAnswers
  <1> QED BY <1>1, <1>20, <1>21, FlowStays

LEMMA FlowSend ==
    ASSUME Types, AppendsKnownKind, NEW t \in Tabs,
           \/ drain(t) \/ ReceiveResults(t) \/ DrainServerError(t) \/ DrainNetworkError(t)
           \/ SubmitSend(t) \/ SubmitReply(t) \/ SubmitNetworkError(t) \/ OpenTab(t)
    PROVE  \A u \in Tabs : Flow(u) /\ TrueAnswers(u)
  <1>0. /\ ctx[t] \in Context /\ ctx \in [Tabs -> Context]
        /\ req[t] \in Request /\ req \in [Tabs -> Request]
      BY DEF Types
  <1> DEFINE Local == /\ \A u \in Tabs \ {t} : ctx'[u] = ctx[u] /\ req'[u] = req[u]
                      /\ Flow(t)
                      /\ req'[t].results \subseteq req[t].results
  <1>1. ASSUME drain(t) PROVE Local
      <2>1. PICK batch \in SUBSET outbox :
              /\ ctx' = [ctx EXCEPT ![t].pc = "drain_sent", ![t].batch = batch]
              /\ req' = [req EXCEPT ![t] = [NoRequest EXCEPT !.kind = "outbox", !.todo = batch]]
          BY <1>1 DEF drain, listDrainable
      <2>2. /\ \A u \in Tabs \ {t} : ctx'[u] = ctx[u] /\ req'[u] = req[u]
            /\ req'[t].results = {} /\ req'[t].claim = {}
          BY <1>0, <2>1 DEF NoRequest
      <2>3. /\ ctx'[t].batch = batch /\ ctx'[t].results = ctx[t].results
            /\ ctx'[t].claim = ctx[t].claim /\ ctx'[t].pc = "drain_sent"
          BY <1>0, <2>1 DEF Context
      <2> QED BY <2>2, <2>3 DEF Flow
  <1>2. ASSUME ReceiveResults(t) PROVE Local
      <2>1. /\ \A u \in Tabs \ {t} : ctx'[u] = ctx[u] /\ req'[u] = req[u]
            /\ req'[t] = NoRequest
          BY <1>0, <1>2 DEF ReceiveResults
      <2>2. /\ ctx'[t].batch = ctx[t].batch /\ ctx'[t].results = req[t].results
            /\ ctx'[t].claim = ctx[t].claim /\ ctx'[t].pc = "results"
          BY <1>0, <1>2 DEF ReceiveResults, Context
      <2> QED BY <2>1, <2>2, IdleFields DEF Flow
  <1>3. ASSUME DrainServerError(t) \/ DrainNetworkError(t) PROVE Local
      <2>1. /\ \A u \in Tabs \ {t} : ctx'[u] = ctx[u] /\ req'[u] = req[u]
            /\ req'[t] \in {NoRequest, req[t]} /\ ctx'[t] = Idle
          BY <1>0, <1>3 DEF DrainServerError, DrainNetworkError, ReturnBatch, Finish
      <2> QED BY <2>1, IdleFields DEF Flow
  <1>4. ASSUME SubmitSend(t) PROVE Local
      <2>1. PICK key : req' = [req EXCEPT ![t] = [NoRequest EXCEPT
                !.kind = "submit", !.key = key, !.claim = ctx[t].claim]]
          BY <1>4 DEF SubmitSend
      <2>2. /\ \A u \in Tabs \ {t} : req'[u] = req[u]
            /\ req'[t].results = {} /\ req'[t].claim = ctx[t].claim
          BY <1>0, <2>1 DEF NoRequest
      <2>3. /\ \A u \in Tabs \ {t} : ctx'[u] = ctx[u]
            /\ ctx'[t].batch = ctx[t].batch /\ ctx'[t].results = ctx[t].results
            /\ ctx'[t].claim = ctx[t].claim /\ ctx'[t].pc = "submit_sent"
          BY <1>0, <1>4 DEF SubmitSend, Goto, Context
      <2> QED BY <2>2, <2>3 DEF Flow
  <1>5. ASSUME SubmitReply(t) PROVE Local
      <2>1. PICK job : ctx' = [ctx EXCEPT ![t].pc = "put", ![t].job = job]
          BY <1>5 DEF SubmitReply
      <2>2. /\ \A u \in Tabs \ {t} : ctx'[u] = ctx[u] /\ req'[u] = req[u]
            /\ req'[t] = NoRequest
          BY <1>0, <1>5, <2>1 DEF SubmitReply
      <2>3. /\ ctx'[t].batch = ctx[t].batch /\ ctx'[t].results = ctx[t].results
            /\ ctx'[t].claim = ctx[t].claim /\ ctx'[t].pc = "put"
          BY <1>0, <2>1 DEF Context
      <2> QED BY <2>2, <2>3, IdleFields DEF Flow
  <1>6. ASSUME SubmitNetworkError(t) PROVE Local
      <2>1. PICK job : ctx' = [ctx EXCEPT ![t].pc = "put", ![t].claim = {}, ![t].job = job]
          BY <1>6 DEF SubmitNetworkError
      <2>2. /\ \A u \in Tabs \ {t} : ctx'[u] = ctx[u] /\ req'[u] = req[u]
            /\ req'[t] \in {NoRequest, req[t]}
          BY <1>0, <1>6, <2>1 DEF SubmitNetworkError
      <2>3. /\ ctx'[t].batch = ctx[t].batch /\ ctx'[t].results = ctx[t].results
            /\ ctx'[t].claim = {} /\ ctx'[t].pc = "put"
          BY <1>0, <2>1 DEF Context
      <2> QED BY <2>2, <2>3, IdleFields DEF Flow
  <1>9. ASSUME OpenTab(t) PROVE Local
      <2>1. PICK rows \in SUBSET outbox :
              ctx' = [ctx EXCEPT ![t].pc = "opening", ![t].batch = rows]
          BY <1>9 DEF OpenTab
      <2>2. /\ \A u \in Tabs \ {t} : ctx'[u] = ctx[u] /\ req'[u] = req[u]
            /\ req'[t] = req[t]
          BY <1>0, <1>9, <2>1 DEF OpenTab
      <2>3. /\ ctx'[t].batch = rows /\ ctx'[t].results = ctx[t].results
            /\ ctx'[t].claim = ctx[t].claim /\ ctx'[t].pc = "opening"
          BY <1>0, <2>1 DEF Context
      <2> QED BY <2>2, <2>3 DEF Flow
  <1>7. Local
      BY <1>1, <1>2, <1>3, <1>4, <1>5, <1>6, <1>9
  <1>8. TrueAnswers(t)
      BY <1>7 DEF TrueAnswers
  <1> QED BY <1>7, <1>8, FlowStays

(* The server applies ids only upwards, and answers "applied" truthfully. *)
LEMMA FlowServer ==
    ASSUME Types, AppendsKnownKind, NEW t \in Tabs, ServerStep(t)
    PROVE  /\ \A u \in Tabs : Flow(u) /\ TrueAnswers(u)
           /\ Applied \subseteq Applied'
           /\ AppliedOncePerId => AppliedOncePerId'
  <1>0. /\ req[t] \in Request /\ req \in [Tabs -> Request] /\ ctx' = ctx /\ server \in Server
        /\ FirstOf(req[t].todo) \subseteq Row
      BY DEF Types, ServerStep, checkReplay, loadForMutation, commitMutation, RespondToBatch,
             SubmitReplay, SubmitLoad, SubmitCommit, AnswerUnheard, Request, FirstOf
  <1>a. \A row \in FirstOf(req[t].todo) : row.id \in Ids
      BY <1>0 DEF Row
  <1> DEFINE Local == /\ \A u \in Tabs \ {t} : req'[u] = req[u]
                      /\ req'[t].claim \subseteq req[t].claim
                      /\ TrueAnswers(t)
  <1>1. ASSUME NEW row, NEW result, Answer(t, row, result),
               result = "applied" => row.id \in Applied'
        PROVE  Local
      <2>1. /\ \A u \in Tabs \ {t} : req'[u] = req[u]
            /\ req'[t].claim = req[t].claim
            /\ req'[t].results = req[t].results \cup {[id |-> row.id, result |-> result]}
          BY <1>0, <1>1 DEF Answer, Request
      <2>2. TrueAnswers(t)
          BY <1>1, <2>1 DEF TrueAnswers
      <2> QED BY <2>1, <2>2
  <1>2. ASSUME NEW phase, req' = [req EXCEPT ![t].phase = phase] PROVE Local
      <2>1. /\ \A u \in Tabs \ {t} : req'[u] = req[u]
            /\ req'[t].claim = req[t].claim /\ req'[t].results = req[t].results
          BY <1>0, <1>2 DEF Request
      <2> QED BY <2>1 DEF TrueAnswers
  <1> DEFINE Store == /\ Applied \subseteq Applied'
                      /\ AppliedOncePerId => AppliedOncePerId'
  <1>3. ASSUME server' = server PROVE Store /\ Applied' = Applied
      BY <1>3 DEF Applied, AppliedOncePerId
  <1>4. ASSUME checkReplay(t) PROVE Local /\ Store
      <2>1. server' = server
          BY <1>4 DEF checkReplay
      <2> QED BY <1>1, <1>2, <1>3, <1>4, <2>1 DEF checkReplay
  <1>5. ASSUME loadForMutation(t) PROVE Local /\ Store
      <2>1. PICK row \in FirstOf(req[t].todo) :
              \/ Answer(t, row, "refused")
              \/ Answer(t, row, "conflict")
              \/ req' = [req EXCEPT ![t].phase = "commit"]
          BY <1>5 DEF loadForMutation
      <2> QED BY <1>1, <1>2, <1>3, <1>5, <2>1 DEF loadForMutation
  <1>6. ASSUME commitMutation(t) PROVE Local /\ Store
      <2>1. PICK row \in FirstOf(req[t].todo) :
              \/ /\ server.log[row.id] = 0
                 /\ server' = [server EXCEPT
                       !.log[row.id] = @ + 1,
                       !.version = IF row.kind = "result" THEN @ + 1 ELSE @]
                 /\ Answer(t, row, "applied")
              \/ /\ req' = [req EXCEPT ![t].phase = "error"]
                 /\ UNCHANGED server
          BY <1>6 DEF commitMutation, KeyIsFree
      <2>2. CASE UNCHANGED server /\ req' = [req EXCEPT ![t].phase = "error"]
          BY <1>2, <1>3, <2>2
      <2>3. CASE /\ server.log[row.id] = 0
                 /\ server' = [server EXCEPT
                       !.log[row.id] = @ + 1,
                       !.version = IF row.kind = "result" THEN @ + 1 ELSE @]
                 /\ Answer(t, row, "applied")
          <3>1. server'.log = [server.log EXCEPT ![row.id] = 1]
              BY <1>0, <1>a, <2>3 DEF Server
          <3>2. Applied \subseteq Applied' /\ row.id \in Applied'
              BY <1>0, <1>a, <3>1 DEF Applied, Server
          <3>3. AppliedOncePerId => AppliedOncePerId'
              BY <1>0, <1>a, <3>1 DEF AppliedOncePerId, Server
          <3> QED BY <1>1, <2>3, <3>2, <3>3
      <2> QED BY <2>1, <2>2, <2>3
  <1>7. ASSUME RespondToBatch(t) \/ SubmitReplay(t) \/ SubmitLoad(t) PROVE Local /\ Store
      BY <1>2, <1>3, <1>7 DEF RespondToBatch, SubmitReplay, SubmitLoad
  <1>8. ASSUME SubmitCommit(t) PROVE Local /\ Store
      <2>1. Local
          BY <1>2, <1>8 DEF SubmitCommit
      <2>2. server'.log = server.log
          BY <1>0, <1>8 DEF SubmitCommit, Server
      <2> QED BY <2>1, <2>2 DEF Applied, AppliedOncePerId
  <1>9. ASSUME AnswerUnheard(t) PROVE Local /\ Store
      <2>1. (\A u \in Tabs \ {t} : req'[u] = req[u]) /\ req'[t] = NoRequest
          BY <1>0, <1>9 DEF AnswerUnheard
      <2> QED BY <1>3, <1>9, <2>1, IdleFields DEF AnswerUnheard, TrueAnswers
  <1>10. Local /\ Store
      BY <1>4, <1>5, <1>6, <1>7, <1>8, <1>9 DEF ServerStep
  <1>11. Flow(t)
      BY <1>0, <1>10 DEF Flow, AppendsKnownKind, At
  <1> QED BY <1>0, <1>10, <1>11, FlowStays

-----------------------------------------------------------------------------
(* One step of the whole system *)

(* The actions of a context, grouped by what they may do to the outbox. *)
Quiet(t) ==
    \/ \E kind \in Kinds : appendJobMutation(t, kind)
    \/ QuotaExceeded(t) \/ AdvancePrediction(t) \/ PutJob(t)
    \/ NothingToDrain(t) \/ ReceiveResults(t) \/ confirmAckIntoCachedJob(t)
    \/ CountRemaining(t) \/ refreshJobPendingFlag(t)
    \/ bootstrap(t) \/ BootstrapMerge(t) \/ ReadLost(t) \/ submitJob(t)
    \/ SubmitGuard(t) \/ SubmitSend(t) \/ SubmitReply(t) \/ SubmitNetworkError(t)
    \/ (\E choice \in {"keep-mine", "accept-server"} : recoverJobConflicts(t, choice))
    \/ RecoverGetJob(t) \/ CloseTab(t) \/ OpenTab(t)
Marks(t) ==
    drain(t) \/ DrainServerError(t) \/ DrainNetworkError(t) \/ recoverStuckSendingRows(t)
Gives(t) == AcceptServer(t) \/ discardRetainedForGoneJob(t)
Elsewhere == VerifierReturns \/ EditFromElsewhere \/ Reassigned

LEMMA NextSplit ==
    ASSUME Next
    PROVE  \/ \E t \in Tabs : \/ Quiet(t) \/ Marks(t) \/ Gives(t) \/ append(t)
                              \/ HandleResult(t) \/ KeepMine(t) \/ ServerStep(t)
           \/ Elsewhere
  BY DEF Next, CallStep, Quiet, Marks, Gives, Elsewhere

LEMMA QuietFrame ==
    ASSUME Types, NEW t \in Tabs, Quiet(t)
    PROVE  /\ UNCHANGED <<outbox, sequence, server, discarded>>
           /\ used'.requeues = used.requeues
  <1>1. UNCHANGED <<outbox, sequence, server, discarded>>
      BY DEF Quiet, appendJobMutation, QuotaExceeded, AdvancePrediction, PutJob, NothingToDrain,
             ReceiveResults, confirmAckIntoCachedJob, CountRemaining, refreshJobPendingFlag,
             bootstrap, BootstrapMerge, ReadLost, submitJob, SubmitGuard, SubmitSend,
             SubmitReply, SubmitNetworkError, recoverJobConflicts, RecoverGetJob, CloseTab,
             OpenTab
  <1>2. \/ used' = used
        \/ \E n : used' = [used EXCEPT !.bootstraps = n]
        \/ \E n : used' = [used EXCEPT !.submits = n]
        \/ \E n : used' = [used EXCEPT !.faults = n]
      BY DEF Quiet, appendJobMutation, QuotaExceeded, AdvancePrediction, PutJob, NothingToDrain,
             ReceiveResults, confirmAckIntoCachedJob, CountRemaining, refreshJobPendingFlag,
             bootstrap, BootstrapMerge, ReadLost, submitJob, SubmitGuard, SubmitSend,
             SubmitReply, SubmitNetworkError, recoverJobConflicts, RecoverGetJob, CloseTab,
             OpenTab
  <1> QED BY <1>1, <1>2 DEF Types, Bounds

(* Every step keeps the types, moves data along, and forgets no outcome. *)
LEMMA StepFrame ==
    ASSUME Types, AppendsKnownKind, BatchesKeyed, AppliedOncePerId, Next
    PROVE  /\ Types'
           /\ \A u \in Tabs : Flow(u) /\ TrueAnswers(u)
           /\ Applied \subseteq Applied' /\ discarded \subseteq discarded'
           /\ AppliedOncePerId'
           /\ used'.requeues \in Nat /\ used.requeues <= used'.requeues
  <1> DEFINE Goal == /\ Types'
                     /\ \A u \in Tabs : Flow(u) /\ TrueAnswers(u)
                     /\ Applied \subseteq Applied' /\ discarded \subseteq discarded'
                     /\ AppliedOncePerId'
                     /\ used'.requeues \in Nat /\ used.requeues <= used'.requeues
  <1>0. used.requeues \in Nat /\ (Types' => used'.requeues \in Nat)
      BY DEF Types, Bounds
  <1>1. ASSUME server' = server PROVE Applied \subseteq Applied' /\ AppliedOncePerId'
      BY <1>1 DEF Applied, AppliedOncePerId
  <1>2. ASSUME NEW t \in Tabs, Quiet(t) PROVE Goal
      <2>1. Types'
          BY <1>2, AppendTypes, DrainTypes, CallTypes DEF Quiet
      <2>2. \A u \in Tabs : Flow(u) /\ TrueAnswers(u)
          BY <1>2, FlowDevice, FlowSend DEF Quiet
      <2> QED BY <1>0, <1>1, <1>2, <2>1, <2>2, QuietFrame
  <1>3. ASSUME NEW t \in Tabs, Marks(t) PROVE Goal
      <2>1. Types'
          BY <1>3, DrainTypes, CallTypes DEF Marks
      <2>2. \A u \in Tabs : Flow(u) /\ TrueAnswers(u)
          BY <1>3, FlowDevice, FlowSend DEF Marks
      <2>3. server' = server /\ discarded' = discarded
          BY <1>3 DEF Marks, drain, DrainServerError, DrainNetworkError, ReturnBatch,
                      recoverStuckSendingRows
      <2>4. used' = used \/ \E n : used' = [used EXCEPT !.faults = n]
          BY <1>3 DEF Marks, drain, DrainServerError, DrainNetworkError, recoverStuckSendingRows
      <2>5. used'.requeues = used.requeues
          BY <2>4 DEF Types, Bounds
      <2> QED BY <1>0, <1>1, <2>1, <2>2, <2>3, <2>5
  <1>4. ASSUME NEW t \in Tabs, Gives(t) \/ append(t) \/ HandleResult(t) PROVE Goal
      <2>1. Types'
          BY <1>4, RecoverTypes, AppendTypes, DrainTypes DEF Gives, BatchesKeyed
      <2>2. \A u \in Tabs : Flow(u) /\ TrueAnswers(u)
          BY <1>4, FlowDevice DEF Gives
      <2>3. server' = server /\ discarded \subseteq discarded' /\ used' = used
          BY <1>4 DEF Gives, AcceptServer, discardRetainedForGoneJob, append, HandleResult
      <2> QED BY <1>0, <1>1, <2>1, <2>2, <2>3
  <1>5. ASSUME NEW t \in Tabs, KeepMine(t) PROVE Goal
      <2>1. Types'
          BY <1>5, RecoverTypes DEF BatchesKeyed
      <2>2. \A u \in Tabs : Flow(u) /\ TrueAnswers(u)
          BY <1>5, FlowDevice
      <2>3. /\ server' = server /\ discarded' = discarded
            /\ used' = [used EXCEPT !.requeues = @ + Cardinality(Retained)]
          BY <1>5 DEF KeepMine
      <2>4. Cardinality(Retained) \in Nat
          <3>1. IsFiniteSet(outbox) /\ Retained \in SUBSET outbox
              BY KeyedFinite DEF Types, BatchesKeyed, Keyed, Retained
          <3> QED BY <3>1, FS_Subset, FS_CardinalityType
      <2>5. used'.requeues = used.requeues + Cardinality(Retained)
          BY <2>3 DEF Types, Bounds
      <2>6. used.requeues <= used'.requeues
          BY <1>0, <2>4, <2>5
      <2> QED BY <1>0, <1>1, <2>1, <2>2, <2>3, <2>6
  <1>6. ASSUME NEW t \in Tabs, ServerStep(t) PROVE Goal
      <2>1. used' = used /\ discarded' = discarded
          BY <1>6 DEF ServerStep, checkReplay, loadForMutation, commitMutation, RespondToBatch,
                 SubmitReplay, SubmitLoad, SubmitCommit, AnswerUnheard
      <2> QED BY <1>0, <1>6, <2>1, ServerTypes, FlowServer
  <1>7. ASSUME Elsewhere PROVE Goal
      <2>1. Types'
          BY <1>7, ElsewhereTypes DEF Elsewhere
      <2>2. ctx' = ctx /\ req' = req /\ discarded' = discarded
          BY <1>7 DEF Elsewhere, VerifierReturns, EditFromElsewhere, Reassigned
      <2>3. server'.log = server.log /\ used'.requeues = used.requeues
          <3>1. CASE VerifierReturns
              BY <3>1 DEF Types, VerifierReturns, Server, Bounds
          <3>2. CASE EditFromElsewhere
              BY <3>2 DEF Types, EditFromElsewhere, Server, Bounds
          <3>3. CASE Reassigned
              BY <3>3 DEF Types, Reassigned, Server, Bounds
          <3> QED BY <1>7, <3>1, <3>2, <3>3 DEF Elsewhere
      <2>4. Applied \subseteq Applied' /\ AppliedOncePerId'
          BY <2>3 DEF Applied, AppliedOncePerId
      <2> QED BY <1>0, <2>1, <2>2, <2>3, <2>4, FlowStays
  <1> QED BY <1>2, <1>3, <1>4, <1>5, <1>6, <1>7, NextSplit

LEMMA PutKeyed ==
    ASSUME NEW table \in SUBSET Row, NEW rows \in SUBSET Row, NEW status \in RowStatus,
           Keyed(table), Keyed(rows)
    PROVE  Keyed(Put(table, WithStatus(rows, status)))
  <1> DEFINE new == WithStatus(rows, status)
  <1>1. \A row \in new : \E old \in rows : row.id = old.id /\ row = [old EXCEPT !.status = status]
      BY WithStatusType
  <1> HIDE DEF new
  <1>2. Keyed(new)
      BY <1>1 DEF Keyed
  <1>3. Keyed(Put(table, new))
      BY <1>2 DEF Keyed, Put
  <1> QED BY <1>3 DEF new

(* A step adds at most the next entry; the entries before it keep an outcome. *)
LEMMA StepTable ==
    ASSUME Types, BatchesKeyed, AnswersTrue, NothingLost, Next, Types',
           Applied \subseteq Applied', discarded \subseteq discarded'
    PROVE  NothingLost' /\ Keyed(outbox)'
  <1>0. /\ outbox \in SUBSET Row /\ sequence \in Nat
        /\ \A t \in Tabs : ctx[t].batch \in SUBSET Row /\ Keyed(ctx[t].batch)
        /\ Keyed(outbox)
      BY DEF Types, BatchesKeyed, Context
  <1>1. AppliedEdits \subseteq AppliedEdits'
      BY DEF AppliedEdits
  <1>2. ASSUME sequence' = sequence,
               \A e : Held(e) => Held(e)' \/ e \in AppliedEdits' \/ e \in discarded'
        PROVE  NothingLost'
      BY <1>1, <1>2 DEF NothingLost
  <1>3. ASSUME outbox' = outbox, sequence' = sequence, used'.requeues = used.requeues
        PROVE  NothingLost' /\ Keyed(outbox)'
      <2>1. NothingLost'
          BY <1>2, <1>3 DEF Held
      <2> QED BY <1>0, <1>3, <2>1 DEF Keyed
  <1>4. ASSUME NEW t \in Tabs, Quiet(t) PROVE NothingLost' /\ Keyed(outbox)'
      BY <1>3, <1>4, QuietFrame
  <1>5. ASSUME NEW t \in Tabs, Marks(t) PROVE NothingLost' /\ Keyed(outbox)'
      <2>1. PICK rows \in SUBSET Row, status \in RowStatus :
              outbox' = Put(outbox, WithStatus(rows, status)) /\ Keyed(rows)
          <3>1. CASE drain(t)
              <4>1. PICK batch \in listDrainable :
                      outbox' = Put(outbox, WithStatus(batch, "sending"))
                  BY <3>1 DEF drain
              <4>2. batch \in SUBSET outbox
                  BY DEF listDrainable
              <4>3. Keyed(batch) /\ batch \in SUBSET Row
                  BY <1>0, <4>2 DEF Keyed
              <4> QED BY <4>1, <4>3 DEF RowStatus
          <3>2. CASE DrainServerError(t) \/ DrainNetworkError(t) \/ recoverStuckSendingRows(t)
              BY <1>0, <3>2 DEF DrainServerError, DrainNetworkError, ReturnBatch,
                                recoverStuckSendingRows, RowStatus
          <3> QED BY <1>5, <3>1, <3>2 DEF Marks
      <2>2. used' = used \/ \E n : used' = [used EXCEPT !.faults = n]
          BY <1>5 DEF Marks, drain, DrainServerError, DrainNetworkError, recoverStuckSendingRows
      <2>3. used'.requeues = used.requeues /\ sequence' = sequence
          BY <1>5, <2>2 DEF Types, Bounds, Marks, drain, DrainServerError, DrainNetworkError,
                            ReturnBatch, recoverStuckSendingRows
      <2>4. Keyed(outbox)'
          BY <1>0, <2>1, <2>3, PutKeyed DEF Keyed
      <2>5. ASSUME NEW e, Held(e) PROVE Held(e)'
          <3>1. WithStatus(rows, status) \in SUBSET Row
              BY WithStatusType
          <3>2. \E row \in outbox \cup WithStatus(rows, status) : EditOf(row) = e
              BY <2>5 DEF Held
          <3>3. \E row \in Put(outbox, WithStatus(rows, status)) : EditOf(row) = e
              BY <1>0, <3>1, <3>2 DEF Put, EditOf
          <3> QED BY <2>1, <3>3 DEF Held, EditOf
      <2> QED BY <1>2, <2>3, <2>4, <2>5
  <1>6. ASSUME NEW t \in Tabs, Gives(t) PROVE NothingLost' /\ Keyed(outbox)'
      <2>1. /\ outbox' = outbox \ Retained /\ sequence' = sequence
            /\ discarded' = discarded \cup {EditOf(row) : row \in Retained}
          BY <1>6 DEF Gives, AcceptServer, discardRetainedForGoneJob
      <2>2. \A e : Held(e) => Held(e)' \/ e \in discarded'
          BY <2>1 DEF Held
      <2> QED BY <1>0, <1>2, <1>6, <2>1, <2>2, RecoverTypes DEF Gives
  <1>7. ASSUME NEW t \in Tabs, KeepMine(t) PROVE NothingLost' /\ Keyed(outbox)'
      <2>1. /\ outbox' = (outbox \ Retained)
                            \cup {Requeued(row, ctx[t].number) : row \in Retained}
            /\ used.requeues + Cardinality(Retained) <= MaxRequeues
            /\ sequence' = sequence /\ ctx[t].number \in Nat
          BY <1>7 DEF KeepMine, Types, Context
      <2>2. \A row \in Retained : EditOf(Requeued(row, ctx[t].number)) = EditOf(row)
          BY <1>0, <2>1, RequeueFacts
      <2>3. \A e : Held(e) => Held(e)'
          BY <2>1, <2>2 DEF Held
      <2> QED BY <1>0, <1>2, <1>7, <2>1, <2>3, RecoverTypes
  <1>8. ASSUME NEW t \in Tabs, append(t) PROVE NothingLost' /\ Keyed(outbox)'
      <2> DEFINE new == [id |-> <<sequence + 1, 0>>, kind |-> ctx[t].kind,
                         ifMatch |-> ctx[t].ifMatch, status |-> "pending"]
      <2>1. /\ outbox' = outbox \cup {new} /\ sequence' = sequence + 1 /\ used' = used
            /\ EditOf(new) = sequence + 1 /\ new.id = <<sequence + 1, 0>>
          BY <1>8 DEF append, EditOf
      <2>2. NothingLost'
          <3> SUFFICES ASSUME NEW e \in 1..(sequence + 1)
                       PROVE  Held(e)' \/ e \in AppliedEdits' \/ e \in discarded'
              BY <2>1 DEF NothingLost
          <3>1. CASE e = sequence + 1
              BY <2>1, <3>1 DEF Held
          <3>2. CASE e \in 1..sequence
              BY <1>1, <2>1, <3>2 DEF NothingLost, Held
          <3> QED BY <1>0, <3>1, <3>2
      <2>3. \A row \in outbox : row.id # <<sequence + 1, 0>>
          <3>1. \A row \in outbox : row.id[1] <= sequence
              BY <1>0 DEF Keyed
          <3> QED BY <1>0, <3>1
      <2>5. \A row \in outbox' : row.id[1] <= sequence' /\ row.id[2] <= used'.requeues
          <3>1. \A row \in outbox : row.id[1] \in Int
              BY <1>0 DEF Row, Ids, Edits
          <3>2. used.requeues \in Nat
              BY DEF Types, Bounds
          <3>3. \A row \in outbox : row.id[1] <= sequence /\ row.id[2] <= used.requeues
              BY <1>0 DEF Keyed
          <3>4. \A row \in outbox : row.id[1] <= sequence + 1
              BY <1>0, <3>1, <3>3
          <3>5. new.id[1] = sequence + 1 /\ new.id[2] = 0
              BY <2>1
          <3> HIDE DEF new
          <3> QED BY <1>0, <2>1, <3>2, <3>3, <3>4, <3>5
      <2>4. Keyed(outbox)'
          <3>1. \A row, other \in outbox' : row.id = other.id => row = other
              BY <1>0, <2>1, <2>3 DEF Keyed
          <3> QED BY <2>5, <3>1 DEF Keyed
      <2> QED BY <2>2, <2>4
  <1>9. ASSUME NEW t \in Tabs, HandleResult(t) PROVE NothingLost' /\ Keyed(outbox)'
      <2>1. PICK row \in ctx[t].batch :
              outbox' = Put({r \in outbox : r.id # row.id}, SettledRows(row, ctx[t].results))
          BY <1>9 DEF HandleResult
      <2>2. sequence' = sequence /\ used' = used /\ row \in Row
            /\ row.id[1] <= sequence /\ row.id[2] <= used.requeues
          BY <1>0, <1>9 DEF HandleResult, Keyed
      <2>3. CASE SettledRows(row, ctx[t].results) = {}
          <3>1. row.id \in Applied
              <4>1. [id |-> row.id, result |-> "applied"] \in ctx[t].results
                  BY <2>3 DEF SettledRows, WithStatus
              <4>2. row.id \in Ids
                  BY <2>2 DEF Row
              <4> QED BY <4>1, <4>2 DEF AnswersTrue
          <3>2. outbox' = {r \in outbox : r.id # row.id}
              BY <2>1, <2>3 DEF Put
          <3>3. \A e : Held(e) => Held(e)' \/ e \in AppliedEdits
              BY <3>1, <3>2 DEF Held, EditOf, AppliedEdits
          <3>4. Keyed(outbox)'
              BY <1>0, <2>2, <3>2 DEF Keyed
          <3> QED BY <1>1, <1>2, <2>2, <3>3, <3>4
      <2>4. CASE \E status \in RowStatus :
                   SettledRows(row, ctx[t].results) = WithStatus({row}, status)
          <3>1. PICK status \in RowStatus : outbox' =
                  Put({r \in outbox : r.id # row.id}, WithStatus({row}, status))
              BY <2>1, <2>4
          <3>2. /\ {row} \in SUBSET Row /\ Keyed({row})
                /\ {r \in outbox : r.id # row.id} \in SUBSET Row
                /\ Keyed({r \in outbox : r.id # row.id})
              BY <1>0, <2>2 DEF Keyed
          <3>3. Keyed(outbox)'
              BY <2>2, <3>1, <3>2, PutKeyed DEF Keyed
          <3>4. WithStatus({row}, status) \in SUBSET Row
                /\ \E new \in WithStatus({row}, status) : new.id = row.id
              BY <3>2, WithStatusType
          <3>5. ASSUME NEW e, Held(e) PROVE Held(e)'
              <4>1. \E r \in {r \in outbox : r.id # row.id} \cup WithStatus({row}, status) :
                      EditOf(r) = e
                  BY <3>4, <3>5 DEF Held, EditOf
              <4>2. \E r \in Put({r \in outbox : r.id # row.id}, WithStatus({row}, status)) :
                      EditOf(r) = e
                  BY <3>2, <3>4, <4>1 DEF Put, EditOf
              <4> QED BY <3>1, <4>2 DEF Held, EditOf
          <3> QED BY <1>2, <2>2, <3>3, <3>5
      <2> QED BY <2>3, <2>4 DEF SettledRows, RowStatus
  <1>10. ASSUME NEW t \in Tabs, ServerStep(t) PROVE NothingLost' /\ Keyed(outbox)'
      BY <1>3, <1>10 DEF ServerStep, checkReplay, loadForMutation, commitMutation,
                 RespondToBatch, SubmitReplay, SubmitLoad, SubmitCommit, AnswerUnheard
  <1>11. ASSUME Elsewhere PROVE NothingLost' /\ Keyed(outbox)'
      <2>1. used'.requeues = used.requeues
          <3>1. CASE VerifierReturns
              BY <3>1 DEF Types, VerifierReturns, Bounds
          <3>2. CASE EditFromElsewhere
              BY <3>2 DEF Types, EditFromElsewhere, Bounds
          <3>3. CASE Reassigned
              BY <3>3 DEF Types, Reassigned, Bounds
          <3> QED BY <1>11, <3>1, <3>2, <3>3 DEF Elsewhere
      <2> QED BY <1>3, <1>11, <2>1 DEF Elsewhere, VerifierReturns, EditFromElsewhere, Reassigned
  <1> QED BY <1>4, <1>5, <1>6, <1>7, <1>8, <1>9, <1>10, <1>11, NextSplit

(* Batches, answers and claims follow what they were taken from. *)
LEMMA StepCalls ==
    ASSUME IInv, \A u \in Tabs : Flow(u) /\ TrueAnswers(u),
           Types', NEW m \in Nat, sequence' = m, sequence <= m, used'.requeues \in Nat,
           used.requeues <= used'.requeues,
           Applied \subseteq Applied', discarded \subseteq discarded'
    PROVE  /\ AppendsKnownKind' /\ AnswersTrue' /\ ClaimsHold'
           /\ \A u \in Tabs : Keyed(ctx[u].batch)'
  <1>0. /\ Types /\ Keyed(outbox) /\ \A u \in Tabs : Keyed(ctx[u].batch)
        /\ AnswersTrue /\ ClaimsHold /\ NothingLost
      BY DEF IInv, TypeOK, Types, BatchesKeyed
  <1>1. AppendsKnownKind'
      BY DEF AppendsKnownKind, At, Flow
  <1>2. AnswersTrue'
      <2> SUFFICES ASSUME NEW u \in Tabs, NEW i \in Ids,
                          [id |-> i, result |-> "applied"] \in req'[u].results \cup ctx'[u].results
                   PROVE  i \in Applied'
          BY DEF AnswersTrue
      <2>1. \/ [id |-> i, result |-> "applied"] \in req[u].results \cup ctx[u].results
            \/ i \in Applied'
          BY DEF Flow, TrueAnswers
      <2> QED BY <1>0, <2>1 DEF AnswersTrue
  <1>3. AppliedEdits \cup discarded \subseteq AppliedEdits' \cup discarded'
      BY DEF AppliedEdits
  <1>4. outbox = {} => 1..sequence \subseteq AppliedEdits \cup discarded
      BY <1>0 DEF NothingLost, Held
  <1>5. ASSUME NEW u \in Tabs
        PROVE  /\ req'[u].claim \subseteq AppliedEdits' \cup discarded'
               /\ ctx'[u].claim \subseteq AppliedEdits' \cup discarded'
      <2>1. /\ req[u].claim \subseteq AppliedEdits \cup discarded
            /\ ctx[u].claim \subseteq AppliedEdits \cup discarded
          BY <1>0 DEF ClaimsHold
      <2>2. /\ req'[u].claim \subseteq req[u].claim \cup ctx[u].claim
            /\ \/ ctx'[u].claim \subseteq ctx[u].claim
               \/ outbox = {} /\ ctx'[u].claim = 1..sequence
          BY DEF Flow
      <2> QED BY <1>3, <1>4, <2>1, <2>2
  <1>6. ClaimsHold'
      BY <1>5 DEF ClaimsHold
  <1>7. ASSUME NEW rows \in SUBSET Row, Keyed(rows), NEW some \in SUBSET rows
        PROVE  /\ \A row, other \in some : row.id = other.id => row = other
               /\ \A row \in some : row.id[1] <= sequence' /\ row.id[2] <= used'.requeues
      <2>1. sequence \in Nat /\ used.requeues \in Nat
          BY <1>0 DEF Types, Bounds
      <2>2. \A row \in some : row.id[1] \in Int /\ row.id[2] \in Int
          BY DEF Row, Ids, Edits
      <2>3. \A row \in some : row.id[1] <= sequence /\ row.id[2] <= used.requeues
          BY <1>7 DEF Keyed
      <2> QED BY <1>7, <2>1, <2>2, <2>3 DEF Keyed
  <1>8. ASSUME NEW u \in Tabs PROVE Keyed(ctx[u].batch)'
      <2>1. outbox \in SUBSET Row /\ ctx[u].batch \in SUBSET Row
          BY <1>0 DEF Types, Context
      <2>2. ctx'[u].batch \in SUBSET ctx[u].batch \/ ctx'[u].batch \in SUBSET outbox
          BY DEF Flow
      <2>3. /\ \A row, other \in ctx'[u].batch : row.id = other.id => row = other
            /\ \A row \in ctx'[u].batch : row.id[1] <= sequence' /\ row.id[2] <= used'.requeues
          BY <1>0, <1>7, <2>1, <2>2
      <2> QED BY <2>3 DEF Keyed
  <1> QED BY <1>1, <1>2, <1>6, <1>8

(* The entry counter never goes back. *)
LEMMA SequenceGrows ==
    ASSUME Types, Next
    PROVE  sequence <= sequence'
  <1>0. sequence \in Nat
      BY DEF Types
  <1>1. sequence' = sequence \/ sequence' = sequence + 1
      BY QuietFrame, NextSplit
         DEF Marks, Gives, Elsewhere, drain, DrainServerError, DrainNetworkError, ReturnBatch,
             recoverStuckSendingRows, AcceptServer, discardRetainedForGoneJob, append,
             HandleResult, KeepMine,
             ServerStep, checkReplay, loadForMutation, commitMutation, RespondToBatch,
             SubmitReplay, SubmitLoad, SubmitCommit, AnswerUnheard,
             VerifierReturns, EditFromElsewhere, Reassigned
  <1> QED BY <1>0, <1>1

LEMMA StepInv == IInv /\ [Next]_vars => IInv'
  <1> SUFFICES ASSUME IInv, [Next]_vars PROVE IInv'
      OBVIOUS
  <1>0. /\ Types /\ AppendsKnownKind /\ BatchesKeyed /\ AnswersTrue /\ NothingLost
        /\ AppliedOncePerId
      BY DEF IInv, TypeOK, Types
  <1>1. CASE Next
      <2>1. /\ Types'
            /\ \A u \in Tabs : Flow(u) /\ TrueAnswers(u)
            /\ Applied \subseteq Applied' /\ discarded \subseteq discarded'
            /\ AppliedOncePerId'
            /\ used'.requeues \in Nat /\ used.requeues <= used'.requeues
          BY <1>0, <1>1, StepFrame
      <2>2. NothingLost' /\ Keyed(outbox)'
          BY <1>0, <1>1, <2>1, StepTable
      <2>3. sequence' \in Nat /\ sequence <= sequence'
          BY <1>0, <1>1, <2>1, SequenceGrows DEF Types
      <2>4. /\ AppendsKnownKind' /\ AnswersTrue' /\ ClaimsHold'
            /\ \A u \in Tabs : Keyed(ctx[u].batch)'
          BY <2>1, <2>3, StepCalls
      <2>5. TypeOK'
          BY <2>1, <2>2 DEF TypeOK, Types, Keyed
      <2>6. BatchesKeyed'
          BY <2>2, <2>4 DEF BatchesKeyed
      <2> QED BY <2>1, <2>2, <2>4, <2>5, <2>6 DEF IInv
  <1>2. CASE UNCHANGED vars
      <2>1. TypeOK' /\ AppendsKnownKind'
          BY <1>2 DEF IInv, vars, TypeOK, AppendsKnownKind, At
      <2>2. BatchesKeyed'
          BY <1>2 DEF IInv, vars, BatchesKeyed, Keyed
      <2>3. AnswersTrue' /\ ClaimsHold'
          BY <1>2 DEF IInv, vars, AnswersTrue, ClaimsHold, Applied, AppliedEdits
      <2>4. NothingLost' /\ AppliedOncePerId'
          BY <1>2 DEF IInv, vars, NothingLost, Held, AppliedOncePerId, Applied, AppliedEdits
      <2> QED BY <2>1, <2>2, <2>3, <2>4 DEF IInv
  <1> QED BY <1>1, <1>2

LEMMA SpecInv == Spec => []IInv
  BY InitInv, StepInv, PTL DEF Spec

-----------------------------------------------------------------------------
(* The theorems, for every set of contexts and every bound. *)

(***************************************************************************)
(* The tables, calls and requests stay well formed, and an outbox id is a  *)
(* unique key: re-queueing (retryConflictWithNewId) never reuses an id that *)
(* is in the table or in a batch some context may still put back.          *)
(***************************************************************************)
THEOREM TypeCorrect == Spec => []TypeOK
  <1>1. IInv => TypeOK
      BY DEF IInv
  <1> QED BY SpecInv, <1>1, PTL

(***************************************************************************)
(* drain, its error paths, recoverStuckSendingRows and recovery never lose *)
(* an entry: it is in the outbox, applied, or given up by choice.          *)
(***************************************************************************)
THEOREM NothingIsLost == Spec => []NothingLost
  <1>1. IInv => NothingLost
      BY DEF IInv
  <1> QED BY SpecInv, <1>1, PTL

(***************************************************************************)
(* The idempotency row inserted with the mutation makes every resend of an *)
(* id harmless, also when two copies of it are on the server at once.      *)
(***************************************************************************)
THEOREM AppliesOnce == Spec => []AppliedOncePerId
  <1>1. IInv => AppliedOncePerId
      BY DEF IInv
  <1> QED BY SpecInv, <1>1, PTL

(***************************************************************************)
(* submitJob's empty-outbox guard is enough: a submit under way carries    *)
(* every entry that existed when it was let through.                       *)
(***************************************************************************)
THEOREM SubmitIsComplete == Spec => []SubmitCarriesAll
  <1>1. IInv => SubmitCarriesAll
      BY DEF IInv, ClaimsHold, SubmitCarriesAll
  <1> QED BY SpecInv, <1>1, PTL

=============================================================================
