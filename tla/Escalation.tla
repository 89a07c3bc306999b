----------------------------- MODULE Escalation -----------------------------
(***************************************************************************)
(* Escalation timers and notifications of one record (api/src/             *)
(* notifications, jobs/stage-escalation).                                  *)
(*                                                                         *)
(* The record's transitions are JobLifecycle's commits, one step each.     *)
(* What a handler does after its commit (.then: cancel the timer of the    *)
(* stage left, arm the next one, notify its verifiers) is one obligation   *)
(* in `after`, run a call at a time, and lost when the process dies or     *)
(* Redis does not answer: the code logs and goes on.  BullMQ keeps a timer *)
(* under the id escalation:<job>:<stage>; adding an id that is present     *)
(* does nothing, and a timer whose handler threw stays present as failed.  *)
(***************************************************************************)
EXTENDS Naturals, FiniteSets

CONSTANTS
    StageCount,       \* stages of the approval route
    TimedStages,      \* stages with escalation_hours configured
    MaxSubmissions    \* bound on the submissions of the record

ASSUME EscalationAssumption ==
    StageCount \in Nat \ {0} /\ TimedStages \subseteq 1 .. StageCount /\ MaxSubmissions \in Nat

VARIABLES
    waiting,          \* the record: status, stage (0 when not awaiting), cycle
    after,            \* what committed requests have still to do
    timers,           \* stage -> "none", "delayed" or "failed"
    mail,             \* notifications queued: stage and template
    escalated,        \* history: <<cycle, stage>> whose timer matured and was sent
    unheard,          \* history: <<cycle, stage>> whose timer matured with nobody to tell
    disturbed         \* history: an obligation was lost, ran late, or a timer failed

escalationVars == <<waiting, after, timers, mail, escalated, unheard, disturbed>>

RouteStages == 1 .. StageCount

EscalationInit ==
    /\ waiting = [status |-> "in_progress", stage |-> 0, cycle |-> 0]
    /\ after = {}
    /\ timers = [s \in RouteStages |-> "none"]
    /\ mail = {}
    /\ escalated = {} /\ unheard = {} /\ disturbed = FALSE

Awaiting(s) == waiting.status = "submitted" /\ waiting.stage = s

-----------------------------------------------------------------------------
(* Commits, each with the obligation it leaves behind.                     *)

Commits(status, stage, cycle, cancel, schedule) ==
    /\ waiting' = [status |-> status, stage |-> stage, cycle |-> cycle]
    /\ after' = after \cup {[cancel |-> cancel, schedule |-> schedule, cycle |-> cycle]}
    /\ UNCHANGED <<timers, mail, escalated, unheard, disturbed>>

SubmitCommitted ==
    /\ waiting.status = "in_progress" /\ waiting.cycle < MaxSubmissions
    /\ Commits("submitted", 1, waiting.cycle + 1, 0, 1)

(* A verify handler that leaves arming timers to the submission.           *)
VerifyCommitted_ArmsNothing ==
    LET s == waiting.stage IN
    /\ waiting.status = "submitted"
    /\ \/ s < StageCount /\ Commits("submitted", s + 1, waiting.cycle, s, 0)
       \/ s = StageCount /\ Commits("archived", 0, waiting.cycle, s, 0)

VerifyCommitted ==
    LET s == waiting.stage IN
    /\ waiting.status = "submitted"
    /\ \/ s < StageCount /\ Commits("submitted", s + 1, waiting.cycle, s, s + 1)
       \/ s = StageCount /\ Commits("archived", 0, waiting.cycle, s, 0)

(* Return and recall give the record back; void ends it.                   *)
TakenBack(status) ==
    /\ waiting.status = "submitted"
    /\ Commits(status, 0, waiting.cycle, waiting.stage, 0)

-----------------------------------------------------------------------------
(* After the commit.                                                       *)

cancelEscalation(o) ==
    /\ o.cancel # 0
    /\ timers' = [timers EXCEPT ![o.cancel] = "none"]
    /\ after' = (after \ {o}) \cup {x \in {[o EXCEPT !.cancel = 0]} : x.schedule # 0}
    /\ disturbed' = (disturbed \/ (Awaiting(o.cancel) /\ waiting.cycle # o.cycle))
    /\ UNCHANGED <<waiting, mail, escalated, unheard>>

(* Adding a timer id that exists, delayed or failed, changes nothing.      *)
scheduleEscalation(s) ==
    IF s \in TimedStages /\ timers[s] = "none"
    THEN [timers EXCEPT ![s] = "delayed"] ELSE timers

scheduleForStage(o) ==
    /\ o.cancel = 0
    /\ timers' = scheduleEscalation(o.schedule)
    /\ mail' = mail \cup {[stage |-> o.schedule, template |-> "RECORD_SUBMITTED"]}
    /\ after' = after \ {o}
    /\ UNCHANGED <<waiting, escalated, unheard, disturbed>>

ObligationLost(o) ==
    /\ after' = after \ {o}
    /\ disturbed' = TRUE
    /\ UNCHANGED <<waiting, timers, mail, escalated, unheard>>

-----------------------------------------------------------------------------
(* The worker.                                                             *)

(* A matured timer says nothing once the stage is over, and tells nobody   *)
(* when no recipient can be found: the timer is spent either way.          *)
dispatchEscalation(s) ==
    /\ timers[s] = "delayed"
    /\ timers' = [timers EXCEPT ![s] = "none"]
    /\ \/ /\ Awaiting(s)
          /\ mail' = mail \cup {[stage |-> s, template |-> "VERIFICATION_ESCALATED"]}
          /\ escalated' = escalated \cup {<<waiting.cycle, s>>} /\ UNCHANGED unheard
       \/ /\ Awaiting(s)
          /\ unheard' = unheard \cup {<<waiting.cycle, s>>} /\ UNCHANGED <<mail, escalated>>
       \/ ~Awaiting(s) /\ UNCHANGED <<mail, escalated, unheard>>
    /\ UNCHANGED <<waiting, after, disturbed>>

EscalationFails(s) ==
    /\ timers[s] = "delayed"
    /\ timers' = [timers EXCEPT ![s] = "failed"]
    /\ disturbed' = TRUE
    /\ UNCHANGED <<waiting, after, mail, escalated, unheard>>

(* A row is written for every dispatch, sent or failed, and nothing reads  *)
(* it again; a failed one is not retried.                                  *)
dispatch(x) ==
    /\ mail' = mail \ {x}
    /\ UNCHANGED <<waiting, after, timers, escalated, unheard, disturbed>>

EscalationNext ==
    \/ SubmitCommitted \/ VerifyCommitted
    \/ \E status \in {"in_progress", "void"} : TakenBack(status)
    \/ \E o \in after : cancelEscalation(o) \/ scheduleForStage(o) \/ ObligationLost(o)
    \/ \E s \in RouteStages : dispatchEscalation(s) \/ EscalationFails(s)
    \/ \E x \in mail : dispatch(x)

EscalationSpec == EscalationInit /\ [][EscalationNext]_escalationVars

-----------------------------------------------------------------------------

EscalationTypeOK ==
    /\ waiting \in [status : {"in_progress", "submitted", "archived", "void"},
                    stage : 0 .. StageCount, cycle : 0 .. MaxSubmissions]
    /\ after \subseteq [cancel : 0 .. StageCount, schedule : 0 .. StageCount,
                        cycle : 0 .. MaxSubmissions]
    /\ timers \in [RouteStages -> {"none", "delayed", "failed"}]

(* A record waiting at a stage with escalation hours has its timer running *)
(* or the timer has matured while it waited, told to somebody or, with no  *)
(* recipient to be found, to nobody; once the requests that moved it have  *)
(* finished, and unless one of their obligations was lost, or ran after    *)
(* the record had come back to the stage, or a timer's handler failed and  *)
(* kept its id (StageEscalationService.scheduleForStage, cancelEscalation, *)
(* NotificationDispatchService.dispatchEscalation).                        *)
EscalationArmed ==
    \A s \in TimedStages :
        Awaiting(s) /\ after = {} /\ ~disturbed =>
            timers[s] = "delayed" \/ <<waiting.cycle, s>> \in escalated \cup unheard
=============================================================================
