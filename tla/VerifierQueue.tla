--------------------------- MODULE VerifierQueue ---------------------------
(***************************************************************************)
(* One record in the verifiers' queues: whose queue offers it, under which *)
(* delegation, and what the review screen does with it (api/src/queue,     *)
(* api/src/delegations, the step-up endpoint and the review screens).      *)
(* The commits themselves are JobLifecycle's; here each is one step.       *)
(***************************************************************************)
EXTENDS Naturals, FiniteSets, Sequences

CONSTANTS
    Verifiers,        \* people who may submit or verify
    StageRoles,       \* approval_stage_role: <<roles of stage 1, roles of stage 2, ...>>
    HeldRoles,        \* user_role at the start: person -> roles
    Delegations,      \* delegation ids
    Nobody,           \* no delegator, no submitter
    MaxClock,         \* bound on the instants
    MaxCycles,        \* bound on the submissions of the record
    MaxReviews        \* bound on the review screens open at once

Stages == 1 .. Len(StageRoles)
StageCodes == UNION {StageRoles[s] : s \in Stages}

ASSUME VerifierQueueAssumption ==
    /\ Nobody \notin Verifiers
    /\ HeldRoles \in [Verifiers -> SUBSET StageCodes]

VARIABLES
    clock,            \* the current instant
    roleRows,         \* person -> role -> "none", "active" or "revoked" (soft-removed)
    delegations,      \* id -> row, or NoDelegation
    record,           \* status, stage, submitter, verifiers of this cycle, cycle
    fresh,            \* people whose last_authenticated_at is within the step-up window
    review            \* person -> their review screen

queueVars == <<clock, roleRows, delegations, record, fresh, review>>

NoDelegation == [delegator |-> Nobody, delegate |-> Nobody, from |-> 0, to |-> 0, revoked |-> FALSE]
ClosedReview == [mode |-> "closed", onBehalfOf |-> Nobody, canAct |-> FALSE]

QueueInit ==
    /\ clock = 0
    /\ roleRows = [p \in Verifiers |->
                     [r \in StageCodes |-> IF r \in HeldRoles[p] THEN "active" ELSE "none"]]
    /\ delegations = [d \in Delegations |-> NoDelegation]
    /\ record = [status |-> "in_progress", stage |-> 0, submitter |-> Nobody,
                 verified |-> {}, cycle |-> 0]
    /\ fresh = {}
    /\ review = [p \in Verifiers |-> ClosedReview]

-----------------------------------------------------------------------------
(* The queue.                                                              *)

(* QueueRepository.getUserRoleCodes reads every user_role row, the         *)
(* soft-revoked ones too.                                                  *)
getUserRoleCodes(p) == {r \in StageCodes : roleRows[p][r] # "none"}

(* The caller's access token carries the active roles.                     *)
TokenRoles(p) == {r \in StageCodes : roleRows[p][r] = "active"}

findActiveDelegatorsFor(p) ==
    {delegations[d].delegator : d \in {e \in Delegations :
        /\ delegations[e].delegate = p
        /\ ~delegations[e].revoked
        /\ delegations[e].from <= clock
        /\ delegations[e].to > clock}}

findActiveDelegation(p, q) ==
    \E d \in Delegations :
        /\ delegations[d].delegate = p /\ delegations[d].delegator = q
        /\ ~delegations[d].revoked
        /\ delegations[d].from <= clock
        /\ delegations[d].to > clock

(* GET /me lists a delegation for one instant longer than it is honoured.  *)
activeDelegations(p) ==
    {delegations[d].delegator : d \in {e \in Delegations :
        /\ delegations[e].delegate = p
        /\ ~delegations[e].revoked
        /\ delegations[e].from <= clock
        /\ delegations[e].to >= clock}}

(* The candidates without the submitter's exclusion.                       *)
findCandidateSubmittedJobs_OwnToo(p) == record.status = "submitted"

findCandidateSubmittedJobs(p) == record.status = "submitted" /\ record.submitter # p

eligibleEntriesFor(p) ==
    /\ findCandidateSubmittedJobs(p)
    /\ record.stage \in Stages
    /\ StageRoles[record.stage] \cap getUserRoleCodes(p) # {}

(* Whom the record is offered to p for: p's own entry wins over a          *)
(* delegator's (dedupeById).                                               *)
getQueue(p) ==
    IF eligibleEntriesFor(p) THEN {Nobody}
    ELSE {q \in findActiveDelegatorsFor(p) : eligibleEntriesFor(q)}

(* What POST /jobs/{id}/verify accepts from p at this instant.             *)
resolveVerifierEligibility(p, onBehalfOf) ==
    /\ record.status = "submitted"
    /\ record.submitter # p
    /\ StageRoles[record.stage] \cap TokenRoles(p) # {}
    /\ onBehalfOf = Nobody \/ findActiveDelegation(p, onBehalfOf)
    /\ p \notin record.verified

-----------------------------------------------------------------------------
(* Delegations and roles.                                                  *)

DelegationRow(p, q, from, to) ==
    [delegator |-> p, delegate |-> q, from |-> from, to |-> to, revoked |-> FALSE]

createDelegation(d, p, q, from, to) ==
    /\ delegations[d] = NoDelegation
    /\ p # q /\ from < to
    /\ delegations' = [delegations EXCEPT ![d] = DelegationRow(p, q, from, to)]
    /\ UNCHANGED <<clock, roleRows, record, fresh, review>>

(* The screen where p hands p's own authority to a colleague for a while.   *)
handleCreate(p, from, to) ==
    \E d \in Delegations, q \in Verifiers : createDelegation(d, p, q, from, to)

revokeDelegation(d) ==
    /\ delegations[d] # NoDelegation /\ ~delegations[d].revoked
    /\ delegations' = [delegations EXCEPT ![d].revoked = TRUE]
    /\ UNCHANGED <<clock, roleRows, record, fresh, review>>

RevokeRole(p, r) ==
    /\ roleRows[p][r] = "active"
    /\ roleRows' = [roleRows EXCEPT ![p][r] = "revoked"]
    /\ UNCHANGED <<clock, delegations, record, fresh, review>>

(* Time passes: delegation windows open and close, step-ups go stale.      *)
ClockTicks ==
    /\ clock < MaxClock
    /\ clock' = clock + 1
    /\ fresh' = {}
    /\ UNCHANGED <<roleRows, delegations, record, review>>

-----------------------------------------------------------------------------
(* The record's committed steps.                                           *)

SubmitRecord(p) ==
    /\ record.status = "in_progress" /\ record.cycle < MaxCycles
    /\ record' = [status |-> "submitted", stage |-> 1, submitter |-> p, verified |-> {},
                  cycle |-> record.cycle + 1]
    /\ UNCHANGED <<clock, roleRows, delegations, fresh, review>>

Verified(p) ==
    IF record.stage = Len(StageRoles)
    THEN [record EXCEPT !.status = "archived", !.stage = 0, !.verified = @ \cup {p}]
    ELSE [record EXCEPT !.stage = @ + 1, !.verified = @ \cup {p}]

(* Recall, void and a return from elsewhere leave the stage alike.          *)
TakeOut(status) ==
    /\ record.status = "submitted"
    /\ record' = [record EXCEPT !.status = status, !.stage = 0, !.verified = {}]
    /\ UNCHANGED <<clock, roleRows, delegations, fresh, review>>

-----------------------------------------------------------------------------
(* The review screen: queue, record, signature, step-up, retry.            *)

OpenReview(p, q) ==
    /\ Cardinality({v \in Verifiers : review[v].mode # "closed"}) < MaxReviews
    /\ review[p].mode = "closed" /\ q \in getQueue(p)
    /\ review' = [review EXCEPT ![p] = [mode |-> "loading", onBehalfOf |-> q, canAct |-> FALSE]]
    /\ UNCHANGED <<clock, roleRows, delegations, record, fresh>>

(* The record is read on opening and after an action, and not again while  *)
(* the screen stays open: what it offers may be out of date.               *)
loadReview(p) ==
    /\ review[p].mode = "loading"
    /\ review' = [review EXCEPT ![p].mode = "view", ![p].canAct = record.status = "submitted"]
    /\ UNCHANGED <<clock, roleRows, delegations, record, fresh>>

SetMode(p, from, to) ==
    /\ review[p].mode = from
    /\ review' = [review EXCEPT ![p].mode = to]
    /\ UNCHANGED <<clock, roleRows, delegations, record, fresh>>

cancelStepUp(p) == SetMode(p, "step-up", "view")
StartSigning(p) == review[p].canAct /\ SetMode(p, "view", "sign")
cancelSignature(p) == SetMode(p, "sign", "view")
StartReturn(p) == review[p].canAct /\ SetMode(p, "view", "return")
cancelReturn(p) == SetMode(p, "return", "view")

(* The step-up dialog is modal, and a request under way is waited for here. *)
LeaveReview(p) ==
    /\ review[p].mode \in {"loading", "view", "sign", "return"}
    /\ review' = [review EXCEPT ![p] = ClosedReview]
    /\ UNCHANGED <<clock, roleRows, delegations, record, fresh>>

Done(p) == [review EXCEPT ![p].mode = "loading", ![p].canAct = FALSE]

attemptVerify(p) ==
    LET q == review[p].onBehalfOf IN
    /\ review[p].mode \in {"sign", "resend"}
    /\ \/ /\ p \notin fresh
          /\ review' = [review EXCEPT ![p].mode = "step-up"]
          /\ UNCHANGED record
       \/ /\ p \in fresh /\ ~resolveVerifierEligibility(p, q)
          /\ review' = [review EXCEPT ![p].mode = "view"]
          /\ UNCHANGED record
       \/ /\ p \in fresh /\ resolveVerifierEligibility(p, q)
          /\ record' = Verified(p)
          /\ review' = Done(p)
    /\ UNCHANGED <<clock, roleRows, delegations, fresh>>

(* Sent back with a reason, or refused with the reason kept on the screen.  *)
handleReturn(p) ==
    /\ review[p].mode = "return" /\ TokenRoles(p) # {}
    /\ record.status = "submitted"
    /\ record' = [record EXCEPT !.status = "in_progress", !.stage = 0, !.verified = {}]
    /\ review' = Done(p)
    /\ UNCHANGED <<clock, roleRows, delegations, fresh>>

(* POST /auth/step-up answers, and the kept signature is sent again.       *)
stepUp(p) ==
    /\ review[p].mode = "step-up"
    /\ fresh' = fresh \cup {p}
    /\ review' = [review EXCEPT ![p].mode = "resend"]
    /\ UNCHANGED <<clock, roleRows, delegations, record>>

-----------------------------------------------------------------------------

QueueNext ==
    \/ ClockTicks
    \/ \E p \in Verifiers :
         \/ SubmitRecord(p)
         \/ \E q \in Verifiers \cup {Nobody} : OpenReview(p, q)
         \/ loadReview(p) \/ StartSigning(p) \/ LeaveReview(p) \/ cancelStepUp(p) \/ cancelSignature(p)
         \/ StartReturn(p) \/ cancelReturn(p) \/ handleReturn(p)
         \/ attemptVerify(p) \/ stepUp(p)
         \/ \E r \in StageCodes : RevokeRole(p, r)
         \/ \E from, to \in 0 .. MaxClock : handleCreate(p, from, to)
    \/ \E d \in Delegations : revokeDelegation(d)
    \/ \E status \in {"in_progress", "void"} : TakeOut(status)

QueueSpec == QueueInit /\ [][QueueNext]_queueVars

-----------------------------------------------------------------------------

QueueTypeOK ==
    /\ roleRows \in [Verifiers -> [StageCodes -> {"none", "active", "revoked"}]]
    /\ record.status \in {"in_progress", "submitted", "archived", "void"}
    /\ record.status = "submitted" <=> record.stage \in Stages
    /\ \A p \in Verifiers : review[p].mode \in {"closed", "loading", "view", "sign", "step-up", "resend", "return"}

(* What the queue offers a person in their own name, the verify endpoint   *)
(* accepts from them at that instant, unless they signed an earlier stage  *)
(* of this submission or the role that put it there has been revoked       *)
(* (QueueService.getQueue against VerificationService.verify).             *)
OwnQueueIsActionable ==
    \A p \in Verifiers :
        Nobody \in getQueue(p) =>
            \/ resolveVerifierEligibility(p, Nobody)
            \/ p \in record.verified
            \/ getUserRoleCodes(p) # TokenRoles(p)
=============================================================================
