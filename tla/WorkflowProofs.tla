--------------------------- MODULE WorkflowProofs ---------------------------
(***************************************************************************)
(* Proofs about the work around a record, for every route, every plan and  *)
(* every bound: the escalation timers of a submitted record (Escalation),  *)
(* who a raised visit belongs to (VisitAssignment), what a verifier's own  *)
(* queue offers (VerifierQueue), the permits of the render service         *)
(* (RecordRendering), what an archived record prints (MachineRecords) and  *)
(* what the schedule is credited with (Scheduling).                        *)
(***************************************************************************)
EXTENDS Scheduling, Escalation, VisitAssignment, VerifierQueue, RecordRendering, MachineRecords,
        FiniteSetTheorems, TLAPS

USE EscalationAssumption, VisitAssignmentAssumption, VerifierQueueAssumption

-----------------------------------------------------------------------------
(* Escalation.                                                             *)

(* A submitted record waits at a stage of its route.                       *)
WaitsAtStage == waiting.status = "submitted" => waiting.stage \in 1 .. StageCount

(* Nothing still to be done is of a later submission, and what is left of  *)
(* this one cancels only timers of stages the record has passed.           *)
CancelsAreBehind ==
    \A o \in after :
        /\ o.cycle <= waiting.cycle
        /\ waiting.status = "submitted" /\ o.cycle = waiting.cycle => o.cancel < waiting.stage

(* Until something goes wrong no timer id is blocked by a failed timer.    *)
NoTimerFailed == ~disturbed => \A s \in RouteStages : timers[s] # "failed"

(* The timer of the stage waited at runs, has run, or is about to be armed.*)
ArmedOrDue ==
    \A s \in TimedStages :
        Awaiting(s) /\ ~disturbed =>
            \/ timers[s] = "delayed" \/ <<waiting.cycle, s>> \in escalated \cup unheard
            \/ \E o \in after : o.schedule = s /\ o.cycle = waiting.cycle

EscalationInv ==
    /\ EscalationTypeOK /\ disturbed \in BOOLEAN
    /\ WaitsAtStage /\ CancelsAreBehind /\ NoTimerFailed /\ ArmedOrDue

Waiting == [status : {"in_progress", "submitted", "archived", "void"},
            stage : 0 .. StageCount, cycle : 0 .. MaxSubmissions]
Obligation == [cancel : 0 .. StageCount, schedule : 0 .. StageCount, cycle : 0 .. MaxSubmissions]

LEMMA EscalationInvInit == EscalationInit => EscalationInv
  <1> SUFFICES ASSUME EscalationInit PROVE EscalationInv
      OBVIOUS
  <1>1. EscalationTypeOK /\ disturbed \in BOOLEAN
    <2>1. timers \in [RouteStages -> {"none", "delayed", "failed"}]
        BY DEF EscalationInit
    <2>2. waiting \in Waiting
        BY DEF EscalationInit, Waiting
    <2> QED BY <2>1, <2>2 DEF EscalationInit, EscalationTypeOK, Waiting
  <1>2. WaitsAtStage /\ CancelsAreBehind /\ NoTimerFailed /\ ArmedOrDue
      BY DEF EscalationInit, WaitsAtStage, CancelsAreBehind, NoTimerFailed, ArmedOrDue, Awaiting
  <1> QED BY <1>1, <1>2 DEF EscalationInv

(* A commit moves the record forward within its submission, starts a new   *)
(* submission, or ends the waiting, and leaves an obligation that arms the *)
(* stage moved to.                                                         *)
LEMMA CommitKeeps ==
    ASSUME EscalationInv,
           NEW status \in {"in_progress", "submitted", "archived", "void"},
           NEW stage \in 0 .. StageCount, NEW cycle \in 0 .. MaxSubmissions,
           NEW cancel \in 0 .. StageCount, NEW schedule \in 0 .. StageCount,
           Commits(status, stage, cycle, cancel, schedule),
           status = "submitted" =>
               /\ stage >= 1 /\ schedule = stage /\ cancel < stage
               /\ \/ cycle > waiting.cycle
                  \/ cycle = waiting.cycle /\ waiting.status = "submitted" /\ waiting.stage < stage,
           cycle >= waiting.cycle
    PROVE  EscalationInv'
  <1> DEFINE new == [cancel |-> cancel, schedule |-> schedule, cycle |-> cycle]
  <1>1. /\ waiting' = [status |-> status, stage |-> stage, cycle |-> cycle]
        /\ after' = after \cup {new}
        /\ UNCHANGED <<timers, escalated, unheard, disturbed>>
      BY DEF Commits
  <1>2. EscalationTypeOK' /\ disturbed' \in BOOLEAN
      BY <1>1 DEF EscalationInv, EscalationTypeOK
  <1>3. WaitsAtStage'
      BY <1>1 DEF WaitsAtStage
  <1>4. CancelsAreBehind'
    <2> SUFFICES ASSUME NEW o \in after'
                 PROVE  /\ o.cycle <= cycle
                        /\ status = "submitted" /\ o.cycle = cycle => o.cancel < stage
        BY <1>1 DEF CancelsAreBehind
    <2>1. CASE o = new
        BY <2>1
    <2>2. CASE o \in after
      <3>1. /\ o.cycle \in Nat /\ o.cancel \in Nat /\ waiting.cycle \in Nat /\ waiting.stage \in Nat
          BY <2>2 DEF EscalationInv, EscalationTypeOK
      <3>2. /\ o.cycle <= waiting.cycle
            /\ waiting.status = "submitted" /\ o.cycle = waiting.cycle => o.cancel < waiting.stage
          BY <2>2 DEF EscalationInv, CancelsAreBehind
      <3> QED BY <3>1, <3>2
    <2> QED BY <1>1, <2>1, <2>2
  <1>5. NoTimerFailed'
      BY <1>1 DEF EscalationInv, NoTimerFailed
  <1>6. ArmedOrDue'
    <2> SUFFICES ASSUME NEW s \in TimedStages, status = "submitted", stage = s
                 PROVE  \E o \in after' : o.schedule = s /\ o.cycle = cycle
        BY <1>1 DEF ArmedOrDue, Awaiting
    <2>1. new \in after' /\ new.schedule = s /\ new.cycle = cycle
        BY <1>1
    <2> QED BY <2>1
  <1> QED BY <1>2, <1>3, <1>4, <1>5, <1>6 DEF EscalationInv

(* Cancelling touches the timer waited for only if it comes too late.      *)
LEMMA CancelKeeps ==
    ASSUME EscalationInv, NEW o \in after, cancelEscalation(o) PROVE EscalationInv'
  <1> DEFINE rest == [o EXCEPT !.cancel = 0]
  <1>1. /\ o.cancel \in 1 .. StageCount
        /\ timers' = [timers EXCEPT ![o.cancel] = "none"]
        /\ after' = (after \ {o}) \cup {x \in {rest} : x.schedule # 0}
        /\ disturbed' = (disturbed \/ (Awaiting(o.cancel) /\ waiting.cycle # o.cycle))
        /\ UNCHANGED <<waiting, escalated, unheard>>
      BY DEF cancelEscalation, EscalationInv, EscalationTypeOK
  <1>2. /\ rest \in Obligation /\ rest.cancel = 0
        /\ rest.schedule = o.schedule /\ rest.cycle = o.cycle
      BY DEF EscalationInv, EscalationTypeOK, Obligation
  <1>3. EscalationTypeOK' /\ disturbed' \in BOOLEAN
    <2>1. after' \subseteq Obligation
        BY <1>1, <1>2 DEF EscalationInv, EscalationTypeOK, Obligation
    <2>2. timers' \in [RouteStages -> {"none", "delayed", "failed"}]
        BY <1>1 DEF EscalationInv, EscalationTypeOK, RouteStages
    <2> QED BY <1>1, <2>1, <2>2 DEF EscalationInv, EscalationTypeOK, Obligation
  <1>4. WaitsAtStage'
      BY <1>1 DEF EscalationInv, WaitsAtStage
  <1>5. CancelsAreBehind'
      BY <1>1, <1>2 DEF EscalationInv, EscalationTypeOK, CancelsAreBehind, WaitsAtStage
  <1>6. NoTimerFailed'
      BY <1>1 DEF EscalationInv, EscalationTypeOK, NoTimerFailed, RouteStages
  <1>7. ArmedOrDue'
    <2> SUFFICES ASSUME NEW s \in TimedStages, Awaiting(s), ~disturbed'
                 PROVE  \/ timers'[s] = "delayed" \/ <<waiting.cycle, s>> \in escalated \cup unheard
                        \/ \E x \in after' : x.schedule = s /\ x.cycle = waiting.cycle
        BY <1>1 DEF ArmedOrDue, Awaiting
    <2>1. s # o.cancel
      <3>1. ASSUME s = o.cancel PROVE FALSE
        <4>1. waiting.cycle = o.cycle /\ waiting.status = "submitted" /\ waiting.stage = o.cancel
            BY <1>1, <3>1 DEF Awaiting
        <4>2. o.cancel < waiting.stage
            BY <4>1 DEF EscalationInv, CancelsAreBehind
        <4> QED BY <1>1, <4>1, <4>2
      <3> QED BY <3>1
    <2>2. timers'[s] = timers[s]
        BY <1>1, <2>1 DEF EscalationInv, EscalationTypeOK, RouteStages
    <2>3. \/ timers[s] = "delayed" \/ <<waiting.cycle, s>> \in escalated \cup unheard
          \/ \E x \in after : x.schedule = s /\ x.cycle = waiting.cycle
        BY <1>1 DEF EscalationInv, ArmedOrDue
    <2>4. ASSUME NEW x \in after, x.schedule = s, x.cycle = waiting.cycle
          PROVE  \E y \in after' : y.schedule = s /\ y.cycle = waiting.cycle
      <3>1. s # 0
          OBVIOUS
      <3>2. CASE x = o
        <4>1. rest \in after'
            BY <1>1, <1>2, <2>4, <3>1, <3>2
        <4> QED BY <1>2, <2>4, <3>2, <4>1
      <3>3. CASE x # o
          BY <1>1, <2>4, <3>3
      <3> QED BY <3>2, <3>3
    <2> QED BY <2>2, <2>3, <2>4
  <1> QED BY <1>3, <1>4, <1>5, <1>6, <1>7 DEF EscalationInv

(* Arming: no id is blocked, so the timer runs afterwards.                 *)
LEMMA ScheduleKeeps ==
    ASSUME EscalationInv, NEW o \in after, scheduleForStage(o) PROVE EscalationInv'
  <1>1. /\ timers' = IF o.schedule \in TimedStages /\ timers[o.schedule] = "none"
                     THEN [timers EXCEPT ![o.schedule] = "delayed"] ELSE timers
        /\ after' = after \ {o}
        /\ UNCHANGED <<waiting, escalated, unheard, disturbed>>
      BY DEF scheduleForStage, scheduleEscalation
  <1>2. EscalationTypeOK' /\ disturbed' \in BOOLEAN
      BY <1>1 DEF EscalationInv, EscalationTypeOK, RouteStages
  <1>3. WaitsAtStage' /\ CancelsAreBehind'
      BY <1>1 DEF EscalationInv, WaitsAtStage, CancelsAreBehind
  <1>4. NoTimerFailed'
      BY <1>1 DEF EscalationInv, EscalationTypeOK, NoTimerFailed, RouteStages
  <1>5. ArmedOrDue'
    <2> SUFFICES ASSUME NEW s \in TimedStages, Awaiting(s), ~disturbed
                 PROVE  \/ timers'[s] = "delayed" \/ <<waiting.cycle, s>> \in escalated \cup unheard
                        \/ \E x \in after' : x.schedule = s /\ x.cycle = waiting.cycle
        BY <1>1 DEF ArmedOrDue, Awaiting
    <2>1. timers[s] \in {"none", "delayed"}
        BY DEF EscalationInv, EscalationTypeOK, NoTimerFailed, RouteStages
    <2>2. CASE s = o.schedule
        BY <1>1, <2>1, <2>2 DEF EscalationInv, EscalationTypeOK, RouteStages
    <2>3. CASE s # o.schedule
        BY <1>1, <2>1, <2>3 DEF EscalationInv, EscalationTypeOK, RouteStages, ArmedOrDue
    <2> QED BY <2>2, <2>3
  <1> QED BY <1>2, <1>3, <1>4, <1>5 DEF EscalationInv

LEMMA EscalationInvNext ==
    ASSUME EscalationInv, [EscalationNext]_escalationVars PROVE EscalationInv'
  <1>1. CASE SubmitCommitted
    <2>1. waiting.cycle + 1 \in 0 .. MaxSubmissions /\ waiting.cycle \in Nat
        BY <1>1 DEF SubmitCommitted, EscalationInv, EscalationTypeOK
    <2>2. Commits("submitted", 1, waiting.cycle + 1, 0, 1)
        BY <1>1 DEF SubmitCommitted
    <2> QED BY <2>1, <2>2, CommitKeeps
  <1>2. CASE VerifyCommitted
    <2>1. waiting.cycle \in 0 .. MaxSubmissions /\ waiting.stage \in 1 .. StageCount
          /\ waiting.status = "submitted"
        BY <1>2 DEF VerifyCommitted, EscalationInv, EscalationTypeOK, WaitsAtStage
    <2>2. CASE /\ waiting.stage < StageCount
               /\ Commits("submitted", waiting.stage + 1, waiting.cycle, waiting.stage, waiting.stage + 1)
        BY <2>1, <2>2, CommitKeeps
    <2>3. CASE Commits("archived", 0, waiting.cycle, waiting.stage, 0)
        BY <2>1, <2>3, CommitKeeps
    <2> QED BY <1>2, <2>2, <2>3 DEF VerifyCommitted
  <1>3. ASSUME NEW status \in {"in_progress", "void"}, TakenBack(status) PROVE EscalationInv'
    <2>1. waiting.cycle \in 0 .. MaxSubmissions /\ waiting.stage \in 0 .. StageCount
        BY DEF EscalationInv, EscalationTypeOK
    <2>2. Commits(status, 0, waiting.cycle, waiting.stage, 0)
        BY <1>3 DEF TakenBack
    <2> QED BY <2>1, <2>2, CommitKeeps
  <1>4. ASSUME NEW o \in after, cancelEscalation(o) PROVE EscalationInv'
      BY <1>4, CancelKeeps
  <1>5. ASSUME NEW o \in after, scheduleForStage(o) PROVE EscalationInv'
      BY <1>5, ScheduleKeeps
  <1>6. ASSUME NEW o \in after, ObligationLost(o) PROVE EscalationInv'
      BY <1>6 DEF ObligationLost, EscalationInv, EscalationTypeOK, WaitsAtStage, CancelsAreBehind,
                  NoTimerFailed, ArmedOrDue
  <1>7. ASSUME NEW s \in RouteStages, dispatchEscalation(s) PROVE EscalationInv'
    <2>1. timers' = [timers EXCEPT ![s] = "none"] /\ UNCHANGED <<waiting, after, disturbed>>
        BY <1>7 DEF dispatchEscalation
    <2>2. EscalationTypeOK' /\ disturbed' \in BOOLEAN /\ WaitsAtStage' /\ CancelsAreBehind'
        BY <2>1 DEF EscalationInv, EscalationTypeOK, WaitsAtStage, CancelsAreBehind
    <2>3. NoTimerFailed'
        BY <2>1 DEF EscalationInv, EscalationTypeOK, NoTimerFailed
    <2>4. ArmedOrDue'
      <3> SUFFICES ASSUME NEW t \in TimedStages, Awaiting(t), ~disturbed
                   PROVE  \/ timers'[t] = "delayed" \/ <<waiting.cycle, t>> \in (escalated \cup unheard)'
                          \/ \E x \in after : x.schedule = t /\ x.cycle = waiting.cycle
          BY <2>1 DEF ArmedOrDue, Awaiting
      <3>1. CASE t = s
          BY <1>7, <3>1 DEF dispatchEscalation
      <3>2. CASE t # s
          BY <1>7, <2>1, <3>2 DEF dispatchEscalation, EscalationInv, EscalationTypeOK, RouteStages,
                                 ArmedOrDue
      <3> QED BY <3>1, <3>2
    <2> QED BY <2>2, <2>3, <2>4 DEF EscalationInv
  <1>8. ASSUME NEW s \in RouteStages, EscalationFails(s) PROVE EscalationInv'
      BY <1>8 DEF EscalationFails, EscalationInv, EscalationTypeOK, WaitsAtStage, CancelsAreBehind,
                  NoTimerFailed, ArmedOrDue
  <1>9. CASE (\E x \in mail : dispatch(x)) \/ UNCHANGED escalationVars
      BY <1>9 DEF dispatch, escalationVars, EscalationInv, EscalationTypeOK, WaitsAtStage,
                  CancelsAreBehind, NoTimerFailed, ArmedOrDue, Awaiting
  <1> QED BY <1>1, <1>2, <1>3, <1>4, <1>5, <1>6, <1>7, <1>8, <1>9 DEF EscalationNext

(* For every route and number of submissions: a record waiting at a timed  *)
(* stage has a timer running, or the timer matured while the record waited *)
(* and told whoever could be found, once the handlers have finished,       *)
(* unless one of their obligations was lost or late or a timer failed      *)
(* (StageEscalationService, NotificationDispatchService).                  *)
THEOREM WaitingRecordIsArmed == EscalationSpec => []EscalationArmed
  <1>1. EscalationInv => EscalationArmed
      BY DEF EscalationInv, ArmedOrDue, EscalationArmed
  <1> QED BY <1>1, EscalationInvInit, EscalationInvNext, PTL DEF EscalationSpec
-----------------------------------------------------------------------------
(* VisitAssignment.                                                        *)

(* The fields the invariant reads are there, and every job has a holder.   *)
VisitShape ==
    /\ {"open", "person"} \subseteq DOMAIN offer
    /\ {"busy", "checked", "person", "todo"} \subseteq DOMAIN handover
    /\ DOMAIN jobHolder = PlanJobs

(* While an offer is open no picker is, and what is being handed over is   *)
(* what the open offer says.                                               *)
OfferIsHandedOver ==
    /\ offer.open => picker = NoPicker
    /\ handover.busy => offer.open /\ handover.person = offer.person
    /\ handover.checked => handover.busy

(* The jobs still on the list are nobody's, or somebody got them since.    *)
ListedOrOvertaken ==
    /\ ~handover.checked => handover.todo = {}
    /\ \A j \in handover.todo : j \in PlanJobs /\ (jobHolder[j] = Unassigned \/ j \in contested)

VisitInv == VisitShape /\ OfferIsHandedOver /\ ListedOrOvertaken

LEMMA VisitInvInit == VisitInit => VisitInv
  BY DEF VisitInit, VisitInv, VisitShape, OfferIsHandedOver, ListedOrOvertaken, NoOffer, NoHandover

(* A step that leaves the jobs and the offer alone keeps it.               *)
LEMMA VisitQuietStep ==
    ASSUME VisitInv, UNCHANGED <<jobHolder, offer, handover, contested>>,
           offer.open => picker' = NoPicker
    PROVE  VisitInv'
  <1>1. VisitShape' /\ ListedOrOvertaken'
      BY DEF VisitInv, VisitShape, ListedOrOvertaken
  <1>2. OfferIsHandedOver'
      BY DEF VisitInv, OfferIsHandedOver, NoPicker
  <1> QED BY <1>1, <1>2 DEF VisitInv

(* So does one that only gives a job to somebody, if the job was nobody's  *)
(* no longer or is on no list, or the step says it was contested.          *)
LEMMA VisitJobStep ==
    ASSUME VisitInv, NEW j \in PlanJobs,
           DOMAIN jobHolder' = PlanJobs,
           \A k \in PlanJobs : k # j => jobHolder'[k] = jobHolder[k],
           UNCHANGED <<picker, offer, handover>>, contested \subseteq contested',
           j \in handover.todo => j \in contested'
    PROVE  VisitInv'
  <1>1. VisitShape' /\ OfferIsHandedOver'
      BY DEF VisitInv, VisitShape, OfferIsHandedOver, NoPicker
  <1>2. ListedOrOvertaken'
      BY DEF VisitInv, ListedOrOvertaken
  <1> QED BY <1>1, <1>2 DEF VisitInv

LEMMA VisitInvNext ==
    ASSUME VisitInv, [VisitNext]_visitVars PROVE VisitInv'
  <1>1. ASSUME NEW level \in {"default", "job"}, openPicker(level) PROVE VisitInv'
    <2>1. UNCHANGED <<jobHolder, offer, handover, contested>> /\ ~offer.open
        BY <1>1 DEF openPicker
    <2> QED BY <2>1, VisitQuietStep
  <1>2. CASE listAssignableUsers \/ cancelPicker \/ saveRefused
    <2>1. UNCHANGED <<jobHolder, offer, handover, contested>> /\ picker # NoPicker
        BY <1>2 DEF listAssignableUsers, cancelPicker, saveRefused, NoPicker
    <2> QED BY <2>1, VisitQuietStep DEF VisitInv, OfferIsHandedOver
  <1>3. ASSUME NEW p \in PlanPeople \cup {Unassigned}, choosePerson(p) \/ otherNames(p)
        PROVE  VisitInv'
    <2>1. UNCHANGED <<jobHolder, offer, handover, contested>> /\ (picker # NoPicker \/ picker' = picker)
        BY <1>3 DEF choosePerson, otherNames, NoPicker
    <2> QED BY <2>1, VisitQuietStep DEF VisitInv, OfferIsHandedOver
  <1>4. CASE setScheduleDefaultAssignee
    <2>1. ~offer.open /\ ~handover.busy
        BY <1>4 DEF setScheduleDefaultAssignee, NoPicker, VisitInv, OfferIsHandedOver
    <2>2. picker' = NoPicker /\ UNCHANGED <<jobHolder, handover, contested>>
        BY <1>4 DEF setScheduleDefaultAssignee
    <2>3. {"open", "person"} \subseteq DOMAIN offer'
        BY <1>4 DEF setScheduleDefaultAssignee, VisitInv, VisitShape
    <2>4. VisitShape' /\ ListedOrOvertaken'
        BY <2>2, <2>3 DEF VisitInv, VisitShape, ListedOrOvertaken
    <2>5. OfferIsHandedOver'
        BY <2>1, <2>2 DEF VisitInv, OfferIsHandedOver, NoPicker
    <2> QED BY <2>4, <2>5 DEF VisitInv
  <1>5. CASE leaveThem
    <2>1. offer' = NoOffer /\ ~handover.busy /\ UNCHANGED <<jobHolder, picker, handover, contested>>
        BY <1>5 DEF leaveThem
    <2>2. VisitShape' /\ ListedOrOvertaken'
        BY <2>1 DEF VisitInv, VisitShape, ListedOrOvertaken, NoOffer
    <2>3. OfferIsHandedOver'
        BY <2>1 DEF VisitInv, OfferIsHandedOver, NoOffer, NoPicker
    <2> QED BY <2>2, <2>3 DEF VisitInv
  <1>6. CASE applyToExisting
    <2>1. /\ offer.open /\ handover'.busy /\ ~handover'.checked /\ handover'.person = offer.person
          /\ handover'.todo = {} /\ {"busy", "checked", "person", "todo"} \subseteq DOMAIN handover'
          /\ UNCHANGED <<jobHolder, picker, offer, contested>>
        BY <1>6 DEF applyToExisting, NoHandover
    <2>2. VisitShape' /\ ListedOrOvertaken'
        BY <2>1 DEF VisitInv, VisitShape, ListedOrOvertaken
    <2>3. OfferIsHandedOver'
        BY <2>1 DEF VisitInv, OfferIsHandedOver, NoPicker
    <2> QED BY <2>2, <2>3 DEF VisitInv
  <1>7. CASE applyChecked
    <2>1. handover.busy /\ UNCHANGED <<jobHolder, picker, offer>>
        BY <1>7 DEF applyChecked
    <2>2. CASE handover' = NoHandover
      <3>1. VisitShape' /\ ListedOrOvertaken'
          BY <2>1, <2>2 DEF VisitInv, VisitShape, ListedOrOvertaken, NoHandover
      <3>2. OfferIsHandedOver'
          BY <2>1, <2>2 DEF VisitInv, OfferIsHandedOver, NoHandover, NoPicker
      <3> QED BY <3>1, <3>2 DEF VisitInv
    <2>3. ASSUME NEW todo \in SUBSET UnassignedOf,
                 handover' = [handover EXCEPT !.checked = TRUE, !.todo = todo, !.left = (todo # UnassignedOf)]
          PROVE  VisitInv'
      <3>1. /\ handover'.busy = handover.busy /\ handover'.checked = TRUE /\ handover'.todo = todo
            /\ handover'.person = handover.person /\ DOMAIN handover' = DOMAIN handover
          BY <2>3 DEF VisitInv, VisitShape
      <3>2. \A j \in todo : j \in PlanJobs /\ jobHolder[j] = Unassigned
          BY DEF UnassignedOf
      <3>3. VisitShape'
          BY <2>1, <3>1 DEF VisitInv, VisitShape
      <3>4. ListedOrOvertaken'
          BY <2>1, <3>1, <3>2 DEF ListedOrOvertaken
      <3>5. OfferIsHandedOver'
          BY <2>1, <3>1 DEF VisitInv, OfferIsHandedOver, NoPicker
      <3> QED BY <3>3, <3>4, <3>5 DEF VisitInv
    <2> QED BY <1>7, <2>2, <2>3 DEF applyChecked
  <1>8. CASE applyAnswered
    <2>1. handover' = NoHandover /\ handover.busy /\ UNCHANGED <<jobHolder, picker, contested>>
        BY <1>8 DEF applyAnswered, VisitInv, OfferIsHandedOver
    <2>2. {"open", "person"} \subseteq DOMAIN offer'
        BY <1>8 DEF applyAnswered, NoOffer, VisitInv, VisitShape
    <2>3. VisitShape' /\ ListedOrOvertaken'
        BY <2>1, <2>2 DEF VisitInv, VisitShape, ListedOrOvertaken, NoHandover
    <2>4. OfferIsHandedOver'
        BY <2>1 DEF VisitInv, OfferIsHandedOver, NoHandover, NoPicker
    <2> QED BY <2>3, <2>4 DEF VisitInv
  <1>9. ASSUME NEW j \in PlanJobs, assignThisJob(j) \/ visitRaised(j) \/ jobSubmitted(j)
        PROVE  VisitInv'
    <2>1. CASE assignThisJob(j)
      <3>1. ~offer.open /\ ~handover.busy
          BY <2>1 DEF assignThisJob, NoPicker, VisitInv, OfferIsHandedOver
      <3>2. picker' = NoPicker /\ DOMAIN jobHolder' = PlanJobs /\ UNCHANGED <<offer, handover, contested>>
          BY <2>1 DEF assignThisJob, VisitInv, VisitShape
      <3>3. handover.todo = {}
          BY <3>1 DEF VisitInv, OfferIsHandedOver, ListedOrOvertaken
      <3>4. VisitShape' /\ ListedOrOvertaken'
          BY <3>2, <3>3 DEF VisitInv, VisitShape, ListedOrOvertaken
      <3>5. OfferIsHandedOver'
          BY <3>1, <3>2 DEF VisitInv, OfferIsHandedOver
      <3> QED BY <3>4, <3>5 DEF VisitInv
    <2>2. CASE visitRaised(j) \/ jobSubmitted(j)
      <3>1. UNCHANGED <<picker, offer, handover, contested>> /\ jobHolder[j] # Unassigned
          BY <2>2, VisitAssignmentAssumption DEF visitRaised, jobSubmitted
      <3>2. DOMAIN jobHolder' = PlanJobs /\ \A k \in PlanJobs : k # j => jobHolder'[k] = jobHolder[k]
          BY <2>2 DEF visitRaised, jobSubmitted, VisitInv, VisitShape
      <3>3. j \in handover.todo => j \in contested'
          BY <3>1 DEF VisitInv, ListedOrOvertaken
      <3> QED BY <3>1, <3>2, <3>3, VisitJobStep
    <2> QED BY <1>9, <2>1, <2>2
  <1>10. ASSUME NEW j \in PlanJobs, assignOne(j) PROVE VisitInv'
    <2>1. /\ handover'.busy = handover.busy /\ handover'.checked = handover.checked
          /\ handover'.person = handover.person /\ handover'.todo = handover.todo \ {j}
          /\ DOMAIN handover' = DOMAIN handover
        BY <1>10 DEF assignOne, VisitInv, VisitShape
    <2>2. /\ DOMAIN jobHolder' = PlanJobs /\ \A k \in PlanJobs : k # j => jobHolder'[k] = jobHolder[k]
          /\ UNCHANGED <<picker, offer, contested>>
        BY <1>10 DEF assignOne, VisitInv, VisitShape
    <2>3. VisitShape'
        BY <2>1, <2>2 DEF VisitInv, VisitShape
    <2>4. ListedOrOvertaken'
        BY <2>1, <2>2 DEF VisitInv, ListedOrOvertaken
    <2>5. OfferIsHandedOver'
        BY <2>1, <2>2 DEF VisitInv, OfferIsHandedOver, NoPicker
    <2> QED BY <2>3, <2>4, <2>5 DEF VisitInv
  <1>11. ASSUME NEW j \in PlanJobs, NEW p \in PlanPeople, otherAssigns(j, p) PROVE VisitInv'
    <2>1. DOMAIN jobHolder' = PlanJobs /\ \A k \in PlanJobs : k # j => jobHolder'[k] = jobHolder[k]
        BY <1>11 DEF otherAssigns, VisitInv, VisitShape
    <2>2. contested' = contested \cup ({j} \cap handover.todo) /\ UNCHANGED <<picker, offer, handover>>
        BY <1>11 DEF otherAssigns
    <2> QED BY <2>1, <2>2, VisitJobStep
  <1>12. CASE eligibilityChanges \/ UNCHANGED visitVars
    <2>1. UNCHANGED <<jobHolder, offer, handover, contested, picker>>
        BY <1>12 DEF eligibilityChanges, visitVars
    <2> QED BY <2>1, VisitQuietStep DEF VisitInv, OfferIsHandedOver
  <1> QED BY <1>1, <1>2, <1>3, <1>4, <1>5, <1>6, <1>7, <1>8, <1>9, <1>10, <1>11, <1>12 DEF VisitNext

(* A confirmed offer hands each job to the person it names, however the    *)
(* panel, the server's batch and other planners interleave, and takes none *)
(* from anybody but the person another planner gave it to while the batch  *)
(* was running (applyToExistingJobs).                                      *)
THEOREM OfferHandsOverNobodysJobs == VisitSpec => BatchHandsOverNobodysJobs
  <1> DEFINE Chosen == \A j \in handover.todo \ handover'.todo :
          jobHolder'[j] # jobHolder[j] =>
              /\ offer.open /\ jobHolder'[j] = offer.person
              /\ jobHolder[j] = Unassigned \/ j \in contested
  <1>1. VisitInv /\ [VisitNext]_visitVars => [Chosen]_visitVars
    <2> SUFFICES ASSUME VisitInv, VisitNext PROVE Chosen
        OBVIOUS
    <2> USE DEF VisitInv, VisitShape, OfferIsHandedOver, ListedOrOvertaken
    <2>1. ASSUME NEW j \in PlanJobs, assignOne(j) PROVE Chosen
      <3>1. handover'.todo = handover.todo \ {j} /\ handover.checked
          BY <2>1 DEF assignOne
      <3>2. jobHolder'[j] # jobHolder[j] => jobHolder'[j] = handover.person
          BY <2>1 DEF assignOne
      <3> QED BY <3>1, <3>2
    <2>2. CASE UNCHANGED handover
        BY <2>2
    <2>3. CASE UNCHANGED jobHolder
        BY <2>3
    <2> QED BY <2>1, <2>2, <2>3 DEF VisitNext, openPicker, listAssignableUsers, cancelPicker,
                choosePerson, otherNames, setScheduleDefaultAssignee, saveRefused, leaveThem,
                applyToExisting, applyChecked, applyAnswered, eligibilityChanges, assignThisJob,
                visitRaised, jobSubmitted, otherAssigns
  <1> QED BY <1>1, VisitInvInit, VisitInvNext, PTL DEF VisitSpec, BatchHandsOverNobodysJobs

-----------------------------------------------------------------------------
(* VerifierQueue.                                                          *)

(* A delegation names two people; a row that was never written names       *)
(* nobody, so nobody's authority is ever delegated.                        *)
DelegationsNamePeople ==
    \A d \in Delegations :
        delegations[d].delegate \in Verifiers => delegations[d].delegator \in Verifiers

QueueInv == DOMAIN delegations = Delegations /\ DelegationsNamePeople

LEMMA QueueInvNext == QueueInv /\ [QueueNext]_queueVars => QueueInv'
  <1> SUFFICES ASSUME QueueInv, [QueueNext]_queueVars PROVE QueueInv'
      OBVIOUS
  <1>1. CASE delegations' = delegations
      BY <1>1 DEF QueueInv, DelegationsNamePeople
  <1>2. ASSUME NEW p \in Verifiers, NEW from, NEW to, handleCreate(p, from, to) PROVE QueueInv'
    <2>1. PICK d \in Delegations, q \in Verifiers : createDelegation(d, p, q, from, to)
        BY <1>2 DEF handleCreate
    <2>2. delegations' = [delegations EXCEPT ![d] = DelegationRow(p, q, from, to)]
        BY <2>1 DEF createDelegation
    <2>3. DelegationRow(p, q, from, to).delegator = p
        BY DEF DelegationRow
    <2> QED BY <2>2, <2>3 DEF QueueInv, DelegationsNamePeople
  <1>3. ASSUME NEW d \in Delegations, revokeDelegation(d) PROVE QueueInv'
    <2>1. delegations' = [delegations EXCEPT ![d].revoked = TRUE]
        BY <1>3 DEF revokeDelegation
    <2>2. \A e \in Delegations : /\ delegations'[e].delegate = delegations[e].delegate
                                 /\ delegations'[e].delegator = delegations[e].delegator
        BY <2>1 DEF QueueInv
    <2> QED BY <2>1, <2>2 DEF QueueInv, DelegationsNamePeople
  <1>4. ASSUME NEW p \in Verifiers,
               \/ SubmitRecord(p) \/ (\E q \in Verifiers \cup {Nobody} : OpenReview(p, q))
               \/ loadReview(p) \/ StartSigning(p) \/ LeaveReview(p) \/ cancelStepUp(p) \/ cancelSignature(p)
               \/ StartReturn(p) \/ cancelReturn(p) \/ handleReturn(p) \/ attemptVerify(p) \/ stepUp(p)
               \/ \E r \in StageCodes : RevokeRole(p, r)
        PROVE  delegations' = delegations
      BY <1>4 DEF SubmitRecord, OpenReview, loadReview, StartSigning, LeaveReview, cancelStepUp,
                  cancelSignature, StartReturn, cancelReturn, handleReturn, attemptVerify, stepUp,
                  RevokeRole, SetMode
  <1>5. CASE ClockTicks \/ (\E status \in {"in_progress", "void"} : TakeOut(status)) \/ UNCHANGED queueVars
      BY <1>1, <1>5 DEF ClockTicks, TakeOut, queueVars
  <1> QED BY <1>1, <1>2, <1>3, <1>4, <1>5 DEF QueueNext

(* What the queue offers a person in their own name, the verify endpoint   *)
(* accepts from them at that instant, whatever the route, the roles and    *)
(* the delegations (QueueService.getQueue, VerificationService.verify).    *)
THEOREM QueueIsActionable == QueueSpec => []OwnQueueIsActionable
  <1>1. QueueInit => QueueInv
      BY DEF QueueInit, QueueInv, DelegationsNamePeople, NoDelegation
  <1>2. QueueInv => OwnQueueIsActionable
    <2> SUFFICES ASSUME QueueInv, NEW p \in Verifiers, Nobody \in getQueue(p),
                        getUserRoleCodes(p) = TokenRoles(p), p \notin record.verified
                 PROVE  resolveVerifierEligibility(p, Nobody)
        BY DEF OwnQueueIsActionable
    <2>1. Nobody \notin findActiveDelegatorsFor(p)
        BY DEF findActiveDelegatorsFor, QueueInv, DelegationsNamePeople
    <2>2. eligibleEntriesFor(p)
        BY <2>1 DEF getQueue
    <2> QED BY <2>2 DEF eligibleEntriesFor, findCandidateSubmittedJobs, resolveVerifierEligibility
  <1> QED BY <1>1, <1>2, QueueInvNext, PTL DEF QueueSpec

-----------------------------------------------------------------------------
(* RecordRendering.                                                        *)

Steps == {"none"} \cup RunningSteps
Tasks == [RenderJobs -> [step : Steps, got : Nat]]
Once(s) == \A i, k \in DOMAIN s : s[i] = s[k] => i = k
Occurs(s, x) == \E i \in DOMAIN s : s[i] = x
PermitHolders == {j \in RenderJobs : task[j].step \in HoldsPermit}

(* A job is in the queue or with the worker, once: one that waits in the   *)
(* queue has no task, and a download is queued only when it is asked for.  *)
JobsOnce ==
    /\ pdfQueue \in Seq(RenderJobs) /\ task \in Tasks
    /\ DOMAIN answer = Downloads
    /\ IsFiniteSet(BusyJobs)
    /\ Once(pdfQueue)
    /\ \A j \in RenderJobs : Enqueued(j) => task[j] = NoTask
    /\ \A d \in Downloads : answer[d] = "none" => task[d] = NoTask /\ ~Enqueued(d)

PermitsInv ==
    /\ waiters \in Seq(RenderJobs) /\ Once(waiters)
    /\ active \in Nat /\ active <= PDF_RENDER_CONCURRENCY
    /\ NoIdlePermit

(* Sequences without repetition.                                           *)
LEMMA AppendOnce ==
    ASSUME NEW S, NEW s \in Seq(S), NEW x \in S, Once(s), ~Occurs(s, x)
    PROVE  /\ Append(s, x) \in Seq(S) /\ Once(Append(s, x))
           /\ \A y : Occurs(Append(s, x), y) <=> Occurs(s, y) \/ y = x
  <1>1. /\ Append(s, x) \in Seq(S) /\ DOMAIN Append(s, x) = 1 .. Len(s) + 1 /\ DOMAIN s = 1 .. Len(s)
        /\ Len(s) \in Nat
        /\ \A i \in 1 .. Len(s) : Append(s, x)[i] = s[i]
        /\ Append(s, x)[Len(s) + 1] = x
      OBVIOUS
  <1>2. \A i \in 1 .. Len(s) : s[i] # x
      BY <1>1 DEF Occurs
  <1>3. Once(Append(s, x))
      BY <1>1, <1>2 DEF Once
  <1>4. ASSUME NEW y PROVE Occurs(Append(s, x), y) <=> Occurs(s, y) \/ y = x
    <2>1. ASSUME Occurs(s, y) PROVE Occurs(Append(s, x), y)
      <3>1. PICK i \in DOMAIN s : s[i] = y
          BY <2>1 DEF Occurs
      <3>2. i \in DOMAIN Append(s, x) /\ Append(s, x)[i] = y
          BY <1>1, <3>1
      <3> QED BY <3>2 DEF Occurs
    <2>2. Occurs(Append(s, x), x)
      <3>1. Len(s) + 1 \in DOMAIN Append(s, x)
          BY <1>1
      <3> QED BY <1>1, <3>1 DEF Occurs
    <2>3. ASSUME Occurs(Append(s, x), y) PROVE Occurs(s, y) \/ y = x
      <3>1. PICK i \in DOMAIN Append(s, x) : Append(s, x)[i] = y
          BY <2>3 DEF Occurs
      <3>2. CASE i = Len(s) + 1
          BY <1>1, <3>1, <3>2
      <3>3. CASE i \in 1 .. Len(s)
          BY <1>1, <3>1, <3>3 DEF Occurs
      <3> QED BY <1>1, <3>1, <3>2, <3>3
    <2> QED BY <2>1, <2>2, <2>3
  <1> QED BY <1>1, <1>3, <1>4

LEMMA TailOnce ==
    ASSUME NEW S, NEW s \in Seq(S), s # <<>>, Once(s)
    PROVE  /\ Tail(s) \in Seq(S) /\ Once(Tail(s)) /\ Head(s) \in S /\ Occurs(s, Head(s))
           /\ \A y : Occurs(Tail(s), y) <=> Occurs(s, y) /\ y # Head(s)
  <1>1. /\ Tail(s) \in Seq(S) /\ Len(s) \in Nat \ {0} /\ DOMAIN s = 1 .. Len(s)
        /\ DOMAIN Tail(s) = 1 .. Len(s) - 1 /\ Head(s) = s[1] /\ Head(s) \in S
        /\ \A i \in 1 .. Len(s) - 1 : Tail(s)[i] = s[i + 1]
      OBVIOUS
  <1>2. Once(Tail(s))
      BY <1>1 DEF Once
  <1>3. ASSUME NEW y PROVE Occurs(Tail(s), y) <=> Occurs(s, y) /\ y # Head(s)
    <2>1. ASSUME Occurs(Tail(s), y) PROVE Occurs(s, y) /\ y # Head(s)
      <3>1. PICK i \in DOMAIN Tail(s) : Tail(s)[i] = y
          BY <2>1 DEF Occurs
      <3>2. i + 1 \in DOMAIN s /\ 1 \in DOMAIN s /\ i + 1 # 1 /\ s[i + 1] = y
          BY <1>1, <3>1
      <3> QED BY <1>1, <3>2 DEF Occurs, Once
    <2>2. ASSUME Occurs(s, y), y # Head(s) PROVE Occurs(Tail(s), y)
      <3>1. PICK i \in DOMAIN s : s[i] = y
          BY <2>2 DEF Occurs
      <3>2. i - 1 \in DOMAIN Tail(s) /\ Tail(s)[i - 1] = s[i - 1 + 1] /\ i - 1 + 1 = i
          BY <1>1, <2>2, <3>1
      <3>3. Tail(s)[i - 1] = y
          BY <3>1, <3>2
      <3> QED BY <3>2, <3>3 DEF Occurs
    <2> QED BY <2>1, <2>2
  <1>4. Occurs(s, Head(s))
      BY <1>1 DEF Occurs
  <1> QED BY <1>1, <1>2, <1>3, <1>4

LEMMA ConcatOnce ==
    ASSUME NEW S, NEW s \in Seq(S), NEW t \in Seq(S), Once(s), Once(t),
           \A y : ~(Occurs(s, y) /\ Occurs(t, y))
    PROVE  /\ s \o t \in Seq(S) /\ Once(s \o t)
           /\ \A y : Occurs(s \o t, y) => Occurs(s, y) \/ Occurs(t, y)
  <1>1. /\ s \o t \in Seq(S) /\ Len(s) \in Nat /\ Len(t) \in Nat
        /\ DOMAIN s = 1 .. Len(s) /\ DOMAIN t = 1 .. Len(t) /\ DOMAIN (s \o t) = 1 .. Len(s) + Len(t)
        /\ \A i \in 1 .. Len(s) + Len(t) : (s \o t)[i] = IF i <= Len(s) THEN s[i] ELSE t[i - Len(s)]
      OBVIOUS
  <1>2. ASSUME NEW i \in DOMAIN (s \o t)
        PROVE  \/ i \in DOMAIN s /\ (s \o t)[i] = s[i] /\ Occurs(s, (s \o t)[i])
               \/ i - Len(s) \in DOMAIN t /\ (s \o t)[i] = t[i - Len(s)] /\ Occurs(t, (s \o t)[i])
    <2>1. CASE i <= Len(s)
      <3>1. i \in DOMAIN s /\ (s \o t)[i] = s[i]
          BY <1>1, <2>1
      <3> QED BY <3>1 DEF Occurs
    <2>2. CASE ~(i <= Len(s))
      <3>1. i - Len(s) \in DOMAIN t /\ (s \o t)[i] = t[i - Len(s)]
          BY <1>1, <2>2
      <3> QED BY <3>1 DEF Occurs
    <2> QED BY <2>1, <2>2
  <1>3. Once(s \o t)
    <2> SUFFICES ASSUME NEW i \in DOMAIN (s \o t), NEW k \in DOMAIN (s \o t), (s \o t)[i] = (s \o t)[k]
                 PROVE  i = k
        BY DEF Once
    <2>0. i \in Int /\ k \in Int /\ Len(s) \in Int
        BY <1>1
    <2>1. CASE i \in DOMAIN s /\ (s \o t)[i] = s[i] /\ Occurs(s, (s \o t)[i])
      <3>1. k \in DOMAIN s /\ (s \o t)[k] = s[k]
          BY <1>2, <2>1
      <3> QED BY <2>1, <3>1 DEF Once
    <2>2. CASE i - Len(s) \in DOMAIN t /\ (s \o t)[i] = t[i - Len(s)] /\ Occurs(t, (s \o t)[i])
      <3>1. k - Len(s) \in DOMAIN t /\ (s \o t)[k] = t[k - Len(s)]
          BY <1>2, <2>2
      <3>2. i - Len(s) = k - Len(s)
          BY <2>2, <3>1 DEF Once
      <3> QED BY <2>0, <3>2
    <2> QED BY <1>2, <2>1, <2>2
  <1>4. ASSUME NEW y, Occurs(s \o t, y) PROVE Occurs(s, y) \/ Occurs(t, y)
    <2>1. PICK i \in DOMAIN (s \o t) : (s \o t)[i] = y
        BY <1>4 DEF Occurs
    <2> QED BY <1>2, <2>1
  <1> QED BY <1>1, <1>3, <1>4

(* One task moves.                                                         *)
LEMMA TaskGoes ==
    ASSUME task \in Tasks, NEW j \in RenderJobs, NEW step \in Steps
    PROVE  /\ Goes(j, step) \in Tasks
           /\ Goes(j, step)[j].step = step
           /\ \A k \in RenderJobs : k # j => Goes(j, step)[k] = task[k]
  BY DEF Goes, Tasks

(* Steps of jobs that the worker has leave the queue as it is.             *)
LEMMA OnlyBusyMove ==
    ASSUME JobsOnce, pdfQueue' = pdfQueue, task' \in Tasks,
           \A k \in RenderJobs : task[k] = NoTask => task'[k] = NoTask,
           DOMAIN answer' = DOMAIN answer,
           \A d \in Downloads : answer'[d] = "none" => answer[d] = "none"
    PROVE  JobsOnce'
  <1>1. BusyJobs' \subseteq BusyJobs
      BY DEF BusyJobs
  <1>2. IsFiniteSet(BusyJobs')
      BY <1>1, FS_Subset DEF JobsOnce
  <1>3. \A j \in RenderJobs : Enqueued(j)' <=> Enqueued(j)
      BY DEF Enqueued
  <1>4. Downloads \subseteq RenderJobs
      BY DEF RenderJobs
  <1> QED BY <1>2, <1>3, <1>4 DEF JobsOnce

(* A step that neither takes nor gives back a permit.                      *)
LEMMA PermitsStay ==
    ASSUME PermitsInv, UNCHANGED <<active, waiters>>,
           \A k \in RenderJobs : /\ task'[k].step \in HoldsPermit <=> task[k].step \in HoldsPermit
                                 /\ task'[k].step = "waiting" <=> task[k].step = "waiting"
    PROVE  PermitsInv'
  <1>1. {j \in RenderJobs : task'[j].step \in HoldsPermit} = {j \in RenderJobs : task[j].step \in HoldsPermit}
      OBVIOUS
  <1> QED BY <1>1 DEF PermitsInv, NoIdlePermit, At_, Once

LEMMA HoldersAreFinite ==
    ASSUME JobsOnce PROVE IsFiniteSet(PermitHolders) /\ Cardinality(PermitHolders) \in Nat
  <1>1. PermitHolders \subseteq BusyJobs
      BY DEF PermitHolders, BusyJobs, HoldsPermit, NoTask
  <1> QED BY <1>1, FS_Subset, FS_CardinalityType DEF JobsOnce

(* A permit is given back, and goes to the first that waits.               *)
LEMMA ReleaseHandsOn ==
    ASSUME JobsOnce, PermitsInv, NEW j \in RenderJobs, task[j].step \in HoldsPermit,
           NEW next \in Tasks, next[j].step \notin HoldsPermit, next[j].step # "waiting",
           \A k \in RenderJobs : k # j => next[k] = task[k],
           buildRelease(next)
    PROVE  /\ PermitsInv' /\ task' \in Tasks
           /\ \A k \in RenderJobs : task[k] = NoTask => task'[k] = NoTask
  <1>0. /\ IsFiniteSet(PermitHolders) /\ j \in PermitHolders /\ active = Cardinality(PermitHolders)
        /\ active \in Nat /\ Cardinality(PermitHolders) \in Nat
      BY HoldersAreFinite DEF PermitHolders, PermitsInv, NoIdlePermit
  <1>a. IsFiniteSet(PermitHolders \ {j}) /\ Cardinality(PermitHolders \ {j}) = active - 1
      BY <1>0, FS_RemoveElement
  <1>b. \A k \in RenderJobs : task[k] = NoTask => k # j
      BY DEF NoTask, HoldsPermit
  <1>c. \A k \in RenderJobs : task[k].step = "waiting" <=> Occurs(waiters, k)
      BY DEF PermitsInv, NoIdlePermit, At_, Occurs
  <1>d. task[j].step # "waiting"
      BY DEF HoldsPermit
  <1>1. CASE waiters = <<>>
    <2>1. active' = active - 1 /\ task' = next /\ waiters' = waiters
        BY <1>1 DEF buildRelease
    <2>2. PermitHolders' = PermitHolders \ {j}
        BY <2>1 DEF PermitHolders
    <2>3. active' = Cardinality(PermitHolders') /\ active' \in Nat /\ active' <= PDF_RENDER_CONCURRENCY
      <3>1. active' = Cardinality(PermitHolders')
          BY <1>a, <2>1, <2>2
      <3>2. Cardinality(PermitHolders \ {j}) \in Nat
          BY <1>a, FS_CardinalityType
      <3> QED BY <1>0, <1>a, <2>1, <3>1, <3>2, RenderingAssumption DEF PermitsInv
    <2>4. \A k \in RenderJobs : task'[k].step = "waiting" <=> Occurs(waiters', k)
        BY <1>c, <1>d, <2>1
    <2>5. NoIdlePermit'
        BY <1>1, <2>1, <2>3, <2>4 DEF NoIdlePermit, PermitHolders, At_, Occurs
    <2> QED BY <1>b, <2>1, <2>3, <2>5 DEF PermitsInv, Once
  <1>2. CASE waiters # <<>>
    <2>1. PICK h : h = Head(waiters)
        OBVIOUS
    <2>2. /\ h \in RenderJobs /\ Occurs(waiters, h) /\ Tail(waiters) \in Seq(RenderJobs) /\ Once(Tail(waiters))
          /\ \A y : Occurs(Tail(waiters), y) <=> Occurs(waiters, y) /\ y # h
        BY <1>2, <2>1, TailOnce DEF PermitsInv
    <2>3. task[h].step = "waiting" /\ h # j
        BY <1>c, <1>d, <2>2
    <2>4. task' = [next EXCEPT ![h].step = "holding"] /\ waiters' = Tail(waiters) /\ active' = active
        BY <1>2, <2>1 DEF buildRelease
    <2>5. /\ task' \in Tasks /\ task'[h].step = "holding"
          /\ \A k \in RenderJobs : k # h => task'[k] = next[k]
        BY <2>2, <2>4 DEF Tasks, Steps, RunningSteps, HoldsPermit
    <2>6. PermitHolders' = (PermitHolders \ {j}) \cup {h}
        BY <2>2, <2>3, <2>5 DEF PermitHolders, HoldsPermit
    <2>7. h \notin PermitHolders \ {j}
        BY <2>3 DEF PermitHolders, HoldsPermit
    <2>8. Cardinality(PermitHolders') = active - 1 + 1
        BY <1>a, <2>6, <2>7, FS_AddElement
    <2>9. active' = Cardinality(PermitHolders')
        BY <1>0, <2>4, <2>8
    <2>10. \A k \in RenderJobs : task'[k].step = "waiting" <=> Occurs(waiters', k)
      <3> SUFFICES ASSUME NEW k \in RenderJobs PROVE task'[k].step = "waiting" <=> Occurs(waiters', k)
          OBVIOUS
      <3>1. CASE k = h
          BY <2>2, <2>4, <2>5, <3>1
      <3>2. CASE k = j
          BY <1>c, <1>d, <2>2, <2>3, <2>4, <2>5, <3>2
      <3>3. CASE k # h /\ k # j
          BY <1>c, <2>2, <2>4, <2>5, <3>3
      <3> QED BY <3>1, <3>2, <3>3
    <2>11. active = PDF_RENDER_CONCURRENCY
        BY <1>2 DEF PermitsInv, NoIdlePermit
    <2>12. NoIdlePermit'
        BY <2>4, <2>9, <2>10, <2>11 DEF NoIdlePermit, PermitHolders, At_, Occurs
    <2>13. \A k \in RenderJobs : task[k] = NoTask => task'[k] = NoTask
        BY <1>b, <2>3, <2>5 DEF NoTask
    <2> QED BY <2>2, <2>4, <2>5, <2>12, <2>13 DEF PermitsInv
  <1> QED BY <1>1, <1>2

(* Reading a record, a permit is taken or waited for.                      *)
LEMMA AcquireKeepsPermits ==
    ASSUME JobsOnce, PermitsInv, NEW j \in RenderJobs, acquire(j) PROVE JobsOnce' /\ PermitsInv'
  <1>0. /\ task \in Tasks /\ task[j].step = "assemble" /\ UNCHANGED <<pdfQueue, answer>>
        /\ IsFiniteSet(PermitHolders) /\ active = Cardinality(PermitHolders) /\ active \in Nat
      BY HoldersAreFinite DEF acquire, client, At_, JobsOnce, PermitsInv, NoIdlePermit, PermitHolders
  <1>a. j \notin PermitHolders /\ task[j] # NoTask
      BY <1>0 DEF PermitHolders, HoldsPermit, NoTask
  <1>c. \A k \in RenderJobs : task[k].step = "waiting" <=> Occurs(waiters, k)
      BY DEF PermitsInv, NoIdlePermit, At_, Occurs
  <1>d. ~Occurs(waiters, j)
      BY <1>0, <1>c
  <1>1. CASE active < PDF_RENDER_CONCURRENCY
    <2>1. active' = active + 1 /\ task' = Goes(j, "holding") /\ waiters' = waiters
        BY <1>1 DEF acquire
    <2>2. /\ task' \in Tasks /\ task'[j].step = "holding"
          /\ \A k \in RenderJobs : k # j => task'[k] = task[k]
        BY <1>0, <2>1, TaskGoes DEF Steps, RunningSteps, HoldsPermit
    <2>3. PermitHolders' = PermitHolders \cup {j}
        BY <2>2 DEF PermitHolders, HoldsPermit
    <2>4. active' = Cardinality(PermitHolders')
        BY <1>0, <1>a, <2>1, <2>3, FS_AddElement
    <2>5. \A k \in RenderJobs : task'[k].step = "waiting" <=> Occurs(waiters', k)
        BY <1>c, <1>d, <2>1, <2>2
    <2>6. waiters = <<>>
        BY <1>0, <1>1, RenderingAssumption DEF PermitsInv, NoIdlePermit
    <2>7. NoIdlePermit'
        BY <2>1, <2>4, <2>5, <2>6 DEF NoIdlePermit, PermitHolders, At_, Occurs
    <2>8. active' \in Nat /\ active' <= PDF_RENDER_CONCURRENCY
        BY <1>0, <1>1, <2>1, RenderingAssumption
    <2>9. PermitsInv'
        BY <2>1, <2>7, <2>8 DEF PermitsInv, Once
    <2>10. JobsOnce'
        BY <1>0, <1>a, <2>2, OnlyBusyMove
    <2> QED BY <2>9, <2>10
  <1>2. CASE ~(active < PDF_RENDER_CONCURRENCY)
    <2>1. waiters' = Append(waiters, j) /\ task' = Goes(j, "waiting") /\ active' = active
        BY <1>2 DEF acquire
    <2>2. /\ task' \in Tasks /\ task'[j].step = "waiting"
          /\ \A k \in RenderJobs : k # j => task'[k] = task[k]
        BY <1>0, <2>1, TaskGoes DEF Steps, RunningSteps
    <2>3. PermitHolders' = PermitHolders
        BY <1>a, <2>2 DEF PermitHolders, HoldsPermit
    <2>4. /\ waiters' \in Seq(RenderJobs) /\ Once(waiters')
          /\ \A y : Occurs(waiters', y) <=> Occurs(waiters, y) \/ y = j
        BY <1>d, <2>1, AppendOnce DEF PermitsInv
    <2>5. \A k \in RenderJobs : task'[k].step = "waiting" <=> Occurs(waiters', k)
        BY <1>c, <2>2, <2>4
    <2>6. active = PDF_RENDER_CONCURRENCY
        BY <1>0, <1>2, RenderingAssumption DEF PermitsInv
    <2>7. NoIdlePermit'
        BY <1>0, <2>1, <2>3, <2>5, <2>6 DEF NoIdlePermit, PermitHolders, At_, Occurs
    <2>8. PermitsInv'
        BY <2>1, <2>4, <2>7 DEF PermitsInv
    <2>9. JobsOnce'
        BY <1>0, <1>a, <2>2, OnlyBusyMove
    <2> QED BY <2>8, <2>9
  <1> QED BY <1>1, <1>2

(* A render ends, well or badly.                                           *)
LEMMA RenderEndKeepsPermits ==
    ASSUME JobsOnce, PermitsInv, NEW j \in RenderJobs, printed(j) \/ renderFails(j)
    PROVE  JobsOnce' /\ PermitsInv'
  <1>0. /\ task \in Tasks /\ task[j].step \in HoldsPermit /\ pdfQueue' = pdfQueue
        /\ task[j] \in [step : Steps, got : Nat]
      BY DEF printed, renderFails, At_, JobsOnce, HoldsPermit, Tasks
  <1>1. PICK next : /\ buildRelease(next)
                    /\ \/ next = [task EXCEPT ![j] = NoTask]
                       \/ \E step \in {"assemble", "storing"} :
                             next = [task EXCEPT ![j] = [step |-> step, got |-> task[j].got + 1]]
                       \/ next = Goes(j, "unmarked")
    <2>1. CASE printed(j)
      <3>1. CASE j \in Downloads
          BY <2>1, <3>1 DEF printed
      <3>2. CASE j \notin Downloads
        <4>1. PICK step : /\ step = IF task[j].got + 1 < exportRow[j].count THEN "assemble" ELSE "storing"
                          /\ buildRelease([task EXCEPT ![j] = [step |-> step, got |-> task[j].got + 1]])
            BY <2>1, <3>2 DEF printed
        <4> QED BY <4>1
      <3> QED BY <3>1, <3>2
    <2>2. CASE renderFails(j)
        BY <2>2 DEF renderFails
    <2> QED BY <2>1, <2>2
  <1>2. /\ next \in Tasks /\ next[j].step \in {"none", "assemble", "storing", "unmarked"}
        /\ \A k \in RenderJobs : k # j => next[k] = task[k]
    <2>1. CASE next = [task EXCEPT ![j] = NoTask]
      <3>1. NoTask \in [step : Steps, got : Nat] /\ NoTask.step = "none"
          BY DEF NoTask, Steps
      <3> QED BY <1>0, <2>1, <3>1 DEF Tasks
    <2>2. ASSUME NEW step \in {"assemble", "storing"},
                 next = [task EXCEPT ![j] = [step |-> step, got |-> task[j].got + 1]]
          PROVE  /\ next \in Tasks /\ next[j].step \in {"none", "assemble", "storing", "unmarked"}
                 /\ \A k \in RenderJobs : k # j => next[k] = task[k]
      <3>1. PICK t : t = [step |-> step, got |-> task[j].got + 1]
          OBVIOUS
      <3>2. t \in [step : Steps, got : Nat] /\ t.step = step
          BY <1>0, <3>1 DEF Steps, RunningSteps
      <3> QED BY <1>0, <2>2, <3>1, <3>2 DEF Tasks
    <2>3. CASE next = Goes(j, "unmarked")
        BY <1>0, <2>3, TaskGoes DEF Steps, RunningSteps
    <2> QED BY <1>1, <2>1, <2>2, <2>3
  <1>3. next[j].step \notin HoldsPermit /\ next[j].step # "waiting"
      BY <1>2 DEF HoldsPermit
  <1>4. /\ PermitsInv' /\ task' \in Tasks
        /\ \A k \in RenderJobs : task[k] = NoTask => task'[k] = NoTask
      BY <1>0, <1>1, <1>2, <1>3, ReleaseHandsOn
  <1>5. DOMAIN answer' = DOMAIN answer /\ \A d \in Downloads : answer'[d] = "none" => answer[d] = "none"
    <2>0. DOMAIN answer = Downloads
        BY DEF JobsOnce
    <2>1. \/ answer' = answer \/ \E how \in {"served", "failed"} : answer' = Replied(j, how)
        BY DEF printed, renderFails
    <2> QED BY <2>0, <2>1 DEF Replied
  <1> QED BY <1>0, <1>4, <1>5, OnlyBusyMove

(* A worker that starts again has no task, no permit out and nobody        *)
(* waiting; what it was running is queued before what was queued.          *)
LEMMA RestartKeepsJobs ==
    ASSUME JobsOnce, PermitsInv, workerRestarts PROVE JobsOnce' /\ PermitsInv'
  <1> DEFINE again == {j \in BusyJobs : stalls[j] = 0}
  <1>1. /\ task' = [j \in RenderJobs |-> NoTask] /\ active' = 0 /\ waiters' = <<>>
        /\ answer' = [d \in Downloads |-> IF d \in BusyJobs \ again /\ answer[d] = "awaited"
                                          THEN "failed" ELSE answer[d]]
      BY DEF workerRestarts
  <1>2. PICK order \in SetToSeqs(again) : pdfQueue' = order \o pdfQueue
      BY DEF workerRestarts
  <1>3. IsFiniteSet(again) /\ Cardinality(again) \in Nat
      BY FS_Subset, FS_CardinalityType DEF JobsOnce
  <1>4. /\ order \in Seq(RenderJobs) /\ Once(order)
        /\ \A y : Occurs(order, y) => y \in BusyJobs
    <2> DEFINE n == Cardinality(again)
    <2>1. order \in [1 .. n -> again] /\ \A i, k \in 1 .. n : i # k => order[i] # order[k]
        BY <1>2 DEF SetToSeqs
    <2>2. n \in Nat /\ again \subseteq RenderJobs /\ again \subseteq BusyJobs
        BY <1>3 DEF BusyJobs
    <2> HIDE DEF n, again
    <2> QED BY <2>1, <2>2 DEF Once, Occurs
  <1>5. \A y : ~(Occurs(order, y) /\ Occurs(pdfQueue, y))
    <2>1. \A y \in RenderJobs : Occurs(pdfQueue, y) => task[y] = NoTask
        BY DEF JobsOnce, Enqueued, Occurs
    <2> QED BY <1>4, <2>1 DEF BusyJobs
  <1>6. /\ pdfQueue' \in Seq(RenderJobs) /\ Once(pdfQueue')
        /\ \A y : Occurs(pdfQueue', y) => Occurs(order, y) \/ Occurs(pdfQueue, y)
      BY <1>2, <1>4, <1>5, ConcatOnce DEF JobsOnce
  <1>7. task' \in Tasks /\ (\A j \in RenderJobs : task'[j] = NoTask) /\ BusyJobs' = {}
    <2>1. NoTask \in [step : Steps, got : Nat]
        BY DEF NoTask, Steps
    <2> QED BY <1>1, <2>1 DEF Tasks, BusyJobs
  <1>8. ASSUME NEW d \in Downloads, answer'[d] = "none" PROVE task'[d] = NoTask /\ ~Enqueued(d)'
    <2>1. answer[d] = "none" /\ d \in RenderJobs
        BY <1>1, <1>8 DEF RenderJobs
    <2>2. task[d] = NoTask /\ ~Occurs(pdfQueue, d)
        BY <2>1 DEF JobsOnce, Enqueued, Occurs
    <2>3. ~Occurs(order, d)
        BY <1>4, <2>2 DEF BusyJobs
    <2> QED BY <1>6, <1>7, <2>1, <2>2, <2>3 DEF Enqueued, Occurs
  <1>9. JobsOnce'
    <2>1. IsFiniteSet(BusyJobs')
        BY <1>7, FS_EmptySet
    <2>2. DOMAIN answer' = Downloads
        BY <1>1
    <2> QED BY <1>6, <1>7, <1>8, <2>1, <2>2 DEF JobsOnce
  <1>10. PermitsInv'
    <2>1. {j \in RenderJobs : task'[j].step \in HoldsPermit} = {}
        BY <1>7 DEF NoTask, HoldsPermit
    <2>2. \A j \in RenderJobs : task'[j].step # "waiting"
        BY <1>7 DEF NoTask
    <2>3. DOMAIN waiters' = {} /\ waiters' \in Seq(RenderJobs)
        BY <1>1
    <2>4. NoIdlePermit'
        BY <1>1, <2>1, <2>2, <2>3, FS_EmptySet DEF NoIdlePermit, At_
    <2> QED BY <1>1, <2>3, <2>4, RenderingAssumption DEF PermitsInv, Once
  <1> QED BY <1>9, <1>10

LEMMA RenderInvInit == RenderInit => JobsOnce /\ PermitsInv
  <1> SUFFICES ASSUME RenderInit PROVE JobsOnce /\ PermitsInv
      OBVIOUS
  <1>1. \A j \in RenderJobs : task[j] = NoTask
      BY DEF RenderInit
  <1>2. task \in Tasks /\ BusyJobs = {}
    <2>1. NoTask \in [step : Steps, got : Nat]
        BY DEF NoTask, Steps
    <2> QED BY <1>1, <2>1 DEF RenderInit, Tasks, BusyJobs
  <1>3. pdfQueue = <<>> /\ waiters = <<>> /\ active = 0 /\ Downloads \subseteq RenderJobs
      BY DEF RenderInit, RenderJobs
  <1>4. JobsOnce
    <2>1. IsFiniteSet(BusyJobs)
        BY <1>2, FS_EmptySet
    <2>2. DOMAIN answer = Downloads
        BY DEF RenderInit
    <2> QED BY <1>1, <1>2, <1>3, <2>1, <2>2 DEF JobsOnce, Once, Enqueued
  <1>5. {j \in RenderJobs : task[j].step \in HoldsPermit} = {} /\ \A j \in RenderJobs : task[j].step # "waiting"
      BY <1>1 DEF NoTask, HoldsPermit
  <1>6. NoIdlePermit
    <2>1. DOMAIN waiters = {}
        BY <1>3
    <2> QED BY <1>3, <1>5, <2>1, FS_EmptySet DEF NoIdlePermit, At_
  <1> QED BY <1>3, <1>4, <1>6, RenderingAssumption DEF PermitsInv, Once

LEMMA RenderInvNext == JobsOnce /\ PermitsInv /\ [RenderNext]_renderVars => JobsOnce' /\ PermitsInv'
  <1> SUFFICES ASSUME JobsOnce, PermitsInv, [RenderNext]_renderVars PROVE JobsOnce' /\ PermitsInv'
      OBVIOUS
  <1>a. task \in Tasks /\ Downloads \subseteq RenderJobs /\ Exports \subseteq RenderJobs
        /\ DOMAIN answer = Downloads
        /\ \A j \in RenderJobs : task[j] \in [step : Steps, got : Nat]
      BY DEF JobsOnce, Tasks, RenderJobs
  <1>b. ASSUME UNCHANGED <<task, pdfQueue, active, waiters>>,
               DOMAIN answer' = Downloads,
               \A d \in Downloads : answer'[d] = "none" => answer[d] = "none"
        PROVE  JobsOnce' /\ PermitsInv'
      BY <1>a, <1>b, OnlyBusyMove, PermitsStay DEF JobsOnce
  <1>1. ASSUME NEW d \in Downloads, getRecordPdf(d) PROVE JobsOnce' /\ PermitsInv'
    <2>1. /\ answer[d] = "none" /\ UNCHANGED <<task, active, waiters>>
          /\ \/ answer' = [answer EXCEPT ![d] = "awaited"] /\ pdfQueue' = Append(pdfQueue, d)
             \/ answer' = [answer EXCEPT ![d] = "refused"] /\ pdfQueue' = pdfQueue
        BY <1>1 DEF getRecordPdf, semaphore
    <2>2. PermitsInv'
        BY <2>1, PermitsStay
    <2>3. CASE answer' = [answer EXCEPT ![d] = "refused"] /\ pdfQueue' = pdfQueue
        BY <1>a, <1>b, <2>1, <2>3
    <2>4. CASE answer' = [answer EXCEPT ![d] = "awaited"] /\ pdfQueue' = Append(pdfQueue, d)
      <3>1. ~Occurs(pdfQueue, d) /\ task[d] = NoTask /\ d \in RenderJobs
          BY <1>a, <2>1 DEF JobsOnce, Enqueued, Occurs
      <3>2. /\ pdfQueue' \in Seq(RenderJobs) /\ Once(pdfQueue')
            /\ \A y : Occurs(pdfQueue', y) <=> Occurs(pdfQueue, y) \/ y = d
          BY <2>4, <3>1, AppendOnce DEF JobsOnce
      <3>3. \A j \in RenderJobs : Enqueued(j)' => task'[j] = NoTask
          BY <2>1, <3>1, <3>2 DEF JobsOnce, Enqueued, Occurs
      <3>4. ASSUME NEW c \in Downloads, answer'[c] = "none" PROVE task'[c] = NoTask /\ ~Enqueued(c)'
        <4>1. c # d /\ answer[c] = "none"
            BY <1>a, <2>4, <3>4
        <4> QED BY <2>1, <3>2, <4>1 DEF JobsOnce, Enqueued, Occurs
      <3>5. IsFiniteSet(BusyJobs')
        <4>1. BusyJobs' = BusyJobs
            BY <2>1 DEF BusyJobs
        <4> QED BY <4>1 DEF JobsOnce
      <3>6. DOMAIN answer' = Downloads
          BY <1>a, <2>4
      <3> QED BY <1>a, <2>1, <2>2, <3>2, <3>3, <3>4, <3>5, <3>6 DEF JobsOnce
    <2> QED BY <2>1, <2>3, <2>4
  <1>2. ASSUME NEW d \in Downloads, waitTimesOut(d) PROVE JobsOnce' /\ PermitsInv'
      BY <1>a, <1>b, <1>2 DEF waitTimesOut, semaphore
  <1>3. ASSUME NEW e \in Exports, requestExport(e) PROVE JobsOnce' /\ PermitsInv'
      BY <1>a, <1>b, <1>3 DEF requestExport, semaphore
  <1>4. ASSUME NEW e \in Exports, enqueueExport(e) PROVE JobsOnce' /\ PermitsInv'
    <2>1. /\ ~Occurs(pdfQueue, e) /\ task[e] = NoTask /\ pdfQueue' = Append(pdfQueue, e)
          /\ UNCHANGED <<task, active, waiters, answer>> /\ e \in RenderJobs
        BY <1>4, <1>a DEF enqueueExport, Enqueued, Occurs, semaphore, client
    <2>2. PermitsInv'
        BY <2>1, PermitsStay
    <2>3. /\ pdfQueue' \in Seq(RenderJobs) /\ Once(pdfQueue')
          /\ \A y : Occurs(pdfQueue', y) <=> Occurs(pdfQueue, y) \/ y = e
        BY <2>1, AppendOnce DEF JobsOnce
    <2>4. \A j \in RenderJobs : Enqueued(j)' => task'[j] = NoTask
        BY <2>1, <2>3 DEF JobsOnce, Enqueued, Occurs
    <2>5. e \notin Downloads
        BY RenderingAssumption
    <2>6. \A c \in Downloads : answer'[c] = "none" => task'[c] = NoTask /\ ~Enqueued(c)'
        BY <2>1, <2>3, <2>5 DEF JobsOnce, Enqueued, Occurs
    <2>7. IsFiniteSet(BusyJobs')
      <3>1. BusyJobs' = BusyJobs
          BY <2>1 DEF BusyJobs
      <3> QED BY <3>1 DEF JobsOnce
    <2> QED BY <1>a, <2>1, <2>2, <2>3, <2>4, <2>6, <2>7 DEF JobsOnce
  <1>5. ASSUME NEW j \in RenderJobs, NEW step \in Steps, task' = Goes(j, step), task[j] # NoTask,
               UNCHANGED <<pdfQueue, active, waiters, answer>>,
               step \in HoldsPermit <=> task[j].step \in HoldsPermit,
               step # "waiting", task[j].step # "waiting"
        PROVE  JobsOnce' /\ PermitsInv'
    <2>1. /\ task' \in Tasks /\ task'[j].step = step
          /\ \A k \in RenderJobs : k # j => task'[k] = task[k]
        BY <1>5, <1>a, TaskGoes
    <2>2. JobsOnce'
        BY <1>5, <2>1, OnlyBusyMove
    <2>3. \A k \in RenderJobs : /\ task'[k].step \in HoldsPermit <=> task[k].step \in HoldsPermit
                                /\ task'[k].step = "waiting" <=> task[k].step = "waiting"
        BY <1>5, <2>1
    <2>4. PermitsInv'
        BY <1>5, <2>3, PermitsStay
    <2> QED BY <2>2, <2>4
  <1>6. ASSUME NEW e \in Exports,
               \/ markProcessing(e) \/ putObject(e) \/ putObjectFails(e) \/ markDone(e) \/ markFailed(e)
        PROVE  JobsOnce' /\ PermitsInv'
    <2>1. PICK step \in {"assemble", "marking", "unmarked", "completing"} :
              /\ task' = Goes(e, step) /\ task[e].step \in {"started", "storing", "marking", "unmarked"}
              /\ UNCHANGED <<pdfQueue, active, waiters, answer>>
        BY <1>6 DEF markProcessing, putObject, putObjectFails, markDone, markFailed, At_, semaphore, client
    <2>2. /\ e \in RenderJobs /\ step \in Steps /\ step \notin HoldsPermit /\ step # "waiting"
          /\ task[e].step \notin HoldsPermit /\ task[e].step # "waiting" /\ task[e] # NoTask
        BY <1>a, <2>1 DEF Steps, RunningSteps, HoldsPermit, NoTask
    <2> QED BY <1>5, <2>1, <2>2
  <1>7. ASSUME NEW e \in Exports, jobFinished(e) PROVE JobsOnce' /\ PermitsInv'
    <2>1. /\ task[e].step = "completing" /\ task' = [task EXCEPT ![e] = NoTask] /\ e \in RenderJobs
          /\ UNCHANGED <<pdfQueue, active, waiters, answer>>
        BY <1>7, <1>a DEF jobFinished, At_, semaphore, client
    <2>2. NoTask \in [step : Steps, got : Nat] /\ NoTask.step = "none"
        BY DEF NoTask, Steps
    <2>3. /\ task' \in Tasks /\ task'[e] = NoTask
          /\ \A k \in RenderJobs : k # e => task'[k] = task[k]
        BY <1>a, <2>1, <2>2 DEF Tasks
    <2>4. JobsOnce'
        BY <2>1, <2>3, OnlyBusyMove
    <2>5. \A k \in RenderJobs : /\ task'[k].step \in HoldsPermit <=> task[k].step \in HoldsPermit
                                /\ task'[k].step = "waiting" <=> task[k].step = "waiting"
        BY <2>1, <2>2, <2>3 DEF HoldsPermit
    <2>6. PermitsInv'
        BY <2>1, <2>5, PermitsStay
    <2> QED BY <2>4, <2>6
  <1>8. ASSUME NEW j \in RenderJobs, takeJob(j) PROVE JobsOnce' /\ PermitsInv'
    <2>1. /\ pdfQueue # <<>> /\ Head(pdfQueue) = j /\ pdfQueue' = Tail(pdfQueue)
          /\ UNCHANGED <<active, waiters, answer>>
        BY <1>8 DEF takeJob, semaphore, client
    <2>2. PICK step \in {"started", "assemble"} : task' = Goes(j, step)
        BY <1>8 DEF takeJob
    <2>3. /\ Tail(pdfQueue) \in Seq(RenderJobs) /\ Once(Tail(pdfQueue)) /\ Occurs(pdfQueue, j)
          /\ \A y : Occurs(Tail(pdfQueue), y) <=> Occurs(pdfQueue, y) /\ y # j
        BY <2>1, TailOnce DEF JobsOnce
    <2>4. task[j] = NoTask /\ step \in Steps /\ step \notin HoldsPermit /\ step # "waiting"
        BY <2>3 DEF JobsOnce, Enqueued, Occurs, Steps, RunningSteps, HoldsPermit
    <2>5. /\ task' \in Tasks /\ task'[j].step = step
          /\ \A k \in RenderJobs : k # j => task'[k] = task[k]
        BY <1>a, <2>2, <2>4, TaskGoes
    <2>6. \A k \in RenderJobs : Enqueued(k)' => task'[k] = NoTask
        BY <2>1, <2>3, <2>5 DEF JobsOnce, Enqueued, Occurs
    <2>7. ASSUME NEW d \in Downloads, answer'[d] = "none" PROVE task'[d] = NoTask /\ ~Enqueued(d)'
      <3>1. task[d] = NoTask /\ ~Occurs(pdfQueue, d) /\ d \in RenderJobs
          BY <1>a, <2>1, <2>7 DEF JobsOnce, Enqueued, Occurs
      <3>2. d # j
          BY <2>3, <3>1
      <3> QED BY <2>1, <2>3, <2>5, <3>1, <3>2 DEF Enqueued, Occurs
    <2>8. IsFiniteSet(BusyJobs')
      <3>1. BusyJobs' \subseteq BusyJobs \cup {j}
          BY <2>5 DEF BusyJobs
      <3>2. IsFiniteSet(BusyJobs \cup {j})
          BY FS_AddElement DEF JobsOnce
      <3> QED BY <3>1, <3>2, FS_Subset
    <2>9. PermitsInv'
      <3>1. task[j].step = "none"
          BY <2>4 DEF NoTask
      <3>2. \A k \in RenderJobs : /\ task'[k].step \in HoldsPermit <=> task[k].step \in HoldsPermit
                                  /\ task'[k].step = "waiting" <=> task[k].step = "waiting"
          BY <2>4, <2>5, <3>1 DEF HoldsPermit
      <3> QED BY <2>1, <3>2, PermitsStay
    <2> QED BY <2>1, <2>3, <2>5, <2>6, <2>7, <2>8, <2>9 DEF JobsOnce
  <1>9. ASSUME NEW j \in RenderJobs, getBrowser(j) PROVE JobsOnce' /\ PermitsInv'
    <2>1. PICK step \in {"printing", "failing", "launching"} :
              /\ task' = Goes(j, step) /\ task[j].step = "holding"
              /\ UNCHANGED <<pdfQueue, active, waiters, answer>>
        BY <1>9 DEF getBrowser, At_, semaphore, client
    <2>2. /\ step \in Steps /\ step \in HoldsPermit /\ step # "waiting"
          /\ task[j].step \in HoldsPermit /\ task[j].step # "waiting" /\ task[j] # NoTask
        BY <2>1 DEF Steps, RunningSteps, HoldsPermit, NoTask
    <2> QED BY <1>5, <2>1, <2>2
  <1>10. ASSUME NEW from \in {"launching", "printing"}, NEW to \in {"printing", "failing"},
                task' = AllGo(from, to), UNCHANGED <<pdfQueue, active, waiters, answer>>
         PROVE  JobsOnce' /\ PermitsInv'
    <2>1. ASSUME NEW k \in RenderJobs
          PROVE  /\ task'[k] \in [step : Steps, got : Nat]
                 /\ task[k].step = from => task'[k].step = to
                 /\ task[k].step # from => task'[k] = task[k]
      <3>1. task'[k] = IF task[k].step = from THEN [task[k] EXCEPT !.step = to] ELSE task[k]
          BY <1>10 DEF AllGo, At_
      <3>2. to \in Steps
          BY DEF Steps, RunningSteps, HoldsPermit
      <3> QED BY <1>a, <3>1, <3>2
    <2>2. task' \in Tasks
        BY <1>10, <2>1 DEF AllGo, Tasks
    <2>3. \A k \in RenderJobs : task[k] = NoTask => task'[k] = NoTask
        BY <2>1 DEF NoTask
    <2>4. JobsOnce'
        BY <1>10, <2>2, <2>3, OnlyBusyMove
    <2>5. \A k \in RenderJobs : /\ task'[k].step \in HoldsPermit <=> task[k].step \in HoldsPermit
                                /\ task'[k].step = "waiting" <=> task[k].step = "waiting"
        BY <2>1 DEF HoldsPermit
    <2>6. PermitsInv'
        BY <1>10, <2>5, PermitsStay
    <2> QED BY <2>4, <2>6
  <1>11. CASE launched \/ launchFails \/ browserDies
      BY <1>10, <1>11 DEF launched, launchFails, browserDies, semaphore, client
  <1>12. CASE UNCHANGED renderVars
      BY <1>a, <1>b, <1>12 DEF renderVars
  <1> QED BY <1>1, <1>2, <1>3, <1>4, <1>6, <1>7, <1>8, <1>9, <1>11, <1>12,
             AcquireKeepsPermits, RenderEndKeepsPermits, RestartKeepsJobs DEF RenderNext

(* However renders end, crash with the worker or fail with the browser, no *)
(* permit leaks and none lies idle while a render waits (RenderSemaphore   *)
(* behind ChromiumBrowserService.renderPdf).                               *)
THEOREM PermitsAreUsed == RenderSpec => []NoIdlePermit
  <1>1. PermitsInv => NoIdlePermit
      BY DEF PermitsInv
  <1> QED BY <1>1, RenderInvInit, RenderInvNext, PTL DEF RenderSpec

-----------------------------------------------------------------------------
(* MachineRecords.                                                         *)

RowsWellFormed ==
    /\ DOMAIN machineRow = RegMachines /\ DOMAIN documentRow = RegMachines
    /\ DOMAIN recordRow = RegRecords /\ DOMAIN entered = RegRecords
    /\ \A m \in RegMachines :
         /\ DOMAIN machineRow[m] = {"code", "provisional", "area"}
         /\ DOMAIN documentRow[m] = {"number", "active", "tagged"}
    /\ \A r \in RegRecords : DOMAIN recordRow[r] = {"status", "own", "signed", "print"}

(* A page shows a machine or none; an edit is of a machine and never takes *)
(* its code away.                                                          *)
EditsNameMachines ==
    /\ DOMAIN page = Admins /\ DOMAIN edit = Admins
    /\ \A a \in Admins :
         /\ "machine" \in DOMAIN page[a] /\ page[a].machine \in RegMachines \cup {"none"}
         /\ edit[a].kind # "none" =>
              /\ DOMAIN edit[a] = {"kind", "value", "machine", "stage", "confirms"}
              /\ edit[a].machine \in RegMachines
              /\ edit[a].kind = "code" => edit[a].value # NoCode

(* A record is of a machine that exists and carries the document.          *)
RecordsHaveForms ==
    \A r \in RegRecords :
        recordRow[r].status # "none" =>
            Existing(RecordOf[r]) /\ documentRow[RecordOf[r]].tagged

Kept(r) == recordRow[r].status = "archived" /\ r \notin overtaken

(* An edit that passed its check leaves the print of an archived record of *)
(* its machine as it is.                                                   *)
Harmless(e, r) ==
    /\ e.kind = "code" => e.value = machineRow[e.machine].code
    /\ e.kind = "number" =>
         \/ recordRow[r].own # NoNumber
         \/ resolveTemplateTitle(documentRow[e.machine].number) = resolveTemplateTitle(e.value)

UnderWayIsHarmless ==
    \A r \in RegRecords :
        Kept(r) =>
            /\ entered[r] = NoNumber
            /\ \A a \in Admins :
                 /\ edit[a].kind # "none" /\ edit[a].stage = "checked"
                 /\ edit[a].machine = RecordOf[r]
                 => Harmless(edit[a], r)

PrintInv ==
    /\ RowsWellFormed /\ EditsNameMachines /\ RecordsHaveForms
    /\ UnderWayIsHarmless /\ ArchivedPrintHolds

(* The first state: an empty register, or one with records of old.         *)
LEMMA PrintInvInit == RegisterInit => PrintInv
  <1> SUFFICES ASSUME RegisterInit PROVE PrintInv
      OBVIOUS
  <1>1. PICK c \in RealCodes : c = CHOOSE x \in RealCodes : TRUE
      BY MachineRecordsAssumption
  <1>2. machineRow = [m \in RegMachines |-> IF HasHistory(m) THEN [NoRow EXCEPT !.code = c] ELSE NoRow]
      BY <1>1 DEF RegisterInit
  <1>3. PICK n : documentRow = [m \in RegMachines |->
           [number |-> IF HasHistory(m) THEN n ELSE NoNumber,
            active |-> HasHistory(m), tagged |-> HasHistory(m)]]
      BY DEF RegisterInit
  <1> DEFINE row(st, own, name, print) == [status |-> st, own |-> own, signed |-> name, print |-> print]
             oldPrint(r) == <<machineRow[RecordOf[r]].code,
                             resolveTemplateTitle(documentRow[RecordOf[r]].number), signerName, FALSE>>
  <1>row. \A st, own, name, print :
            LET w == row(st, own, name, print) IN
            /\ DOMAIN w = {"status", "own", "signed", "print"}
            /\ w.status = st /\ w.own = own /\ w.signed = name /\ w.print = print
      OBVIOUS
  <1>new. [Open EXCEPT !.status = "none"] = row("none", NoNumber, "nobody", <<>>)
      BY DEF Open
  <1>all. \A r \in RegRecords :
            recordRow[r] = IF r \in LegacyRecords THEN row("archived", NoNumber, signerName, oldPrint(r))
                           ELSE row("none", NoNumber, "nobody", <<>>)
      BY <1>new, Zenon DEF RegisterInit
  <1> HIDE DEF row, oldPrint
  <1>4. \A r \in RegRecords :
          /\ DOMAIN recordRow[r] = {"status", "own", "signed", "print"}
          /\ r \in LegacyRecords =>
               /\ recordRow[r].status = "archived" /\ recordRow[r].own = NoNumber
               /\ recordRow[r].signed = signerName /\ recordRow[r].print = oldPrint(r)
          /\ r \notin LegacyRecords => recordRow[r].status = "none"
      BY <1>row, <1>all
  <1>5. RowsWellFormed
    <2>1. \A m \in RegMachines : DOMAIN machineRow[m] = {"code", "provisional", "area"}
        BY <1>2 DEF NoRow
    <2>2. \A m \in RegMachines : DOMAIN documentRow[m] = {"number", "active", "tagged"}
      <3>1. \A x, y, z : DOMAIN [number |-> x, active |-> y, tagged |-> z] = {"number", "active", "tagged"}
          OBVIOUS
      <3> QED BY <1>3, <3>1, Zenon
    <2>3. \A r \in RegRecords : DOMAIN recordRow[r] = {"status", "own", "signed", "print"}
        BY <1>4
    <2> QED BY <2>1, <2>2, <2>3 DEF RowsWellFormed, RegisterInit
  <1>6. EditsNameMachines
      BY DEF RegisterInit, EditsNameMachines, NoScreen, NoEdit
  <1>7. RecordsHaveForms
    <2> SUFFICES ASSUME NEW r \in RegRecords, recordRow[r].status # "none"
                 PROVE  Existing(RecordOf[r]) /\ documentRow[RecordOf[r]].tagged
        BY DEF RecordsHaveForms
    <2>1. HasHistory(RecordOf[r]) /\ RecordOf[r] \in RegMachines
        BY <1>4, MachineRecordsAssumption DEF HasHistory
    <2>2. documentRow[RecordOf[r]].tagged
      <3>1. \A x, y, z : [number |-> x, active |-> y, tagged |-> z].tagged = z
          OBVIOUS
      <3> QED BY <2>1, <1>3, <3>1, Zenon
    <2>3. machineRow[RecordOf[r]].code = c
        BY <2>1, <1>2 DEF NoRow
    <2> QED BY <2>2, <2>3, MachineRecordsAssumption DEF Existing
  <1>8. UnderWayIsHarmless
      BY DEF RegisterInit, UnderWayIsHarmless, NoEdit
  <1>9. ArchivedPrintHolds
    <2> SUFFICES ASSUME NEW r \in RegRecords, recordRow[r].status = "archived"
                 PROVE  snapshotName(r) # "nobody" => assemble(r) = recordRow[r].print
        BY DEF ArchivedPrintHolds
    <2>1. /\ recordRow[r].own = NoNumber /\ recordRow[r].signed = signerName
          /\ recordRow[r].print = oldPrint(r)
        BY <1>4
    <2>2. buildVoidNotice(r) = FALSE
        BY DEF buildVoidNotice
    <2>3. buildSignatures(r) = signerName
        BY <2>1 DEF buildSignatures, snapshotName
    <2>4. documentTitle(r) = resolveTemplateTitle(documentRow[RecordOf[r]].number)
        BY <2>1 DEF documentTitle
    <2> QED BY <2>1, <2>2, <2>3, <2>4, Zenon DEF assemble, oldPrint
  <1> QED BY <1>5, <1>6, <1>7, <1>8, <1>9 DEF PrintInv

(* What a record prints is kept by a step that keeps its row, the code of  *)
(* its machine, and the title its document gives it.                       *)
LEMMA PrintIsKept ==
    ASSUME NEW r \in RegRecords, recordRow'[r] = recordRow[r], snapshotName(r) # "nobody",
           machineRow'[RecordOf[r]].code = machineRow[RecordOf[r]].code,
           \/ recordRow[r].own # NoNumber
           \/ resolveTemplateTitle(documentRow'[RecordOf[r]].number)
                = resolveTemplateTitle(documentRow[RecordOf[r]].number)
    PROVE  assemble(r)' = assemble(r)
  <1>1. documentTitle(r)' = documentTitle(r)
      BY DEF documentTitle, resolveTemplateTitle
  <1> QED BY <1>1 DEF assemble, buildSignatures, snapshotName, buildVoidNotice

(* Steps that leave the machines, the documents and the records alone.     *)
LEMMA RowsUnchanged ==
    ASSUME PrintInv, EditsNameMachines', UNCHANGED <<machineRow, documentRow, recordRow, overtaken>>,
           UnderWayIsHarmless'
    PROVE  /\ DOMAIN entered' = RegRecords => PrintInv'
  <1>1. ArchivedPrintHolds'
    <2> SUFFICES ASSUME NEW r \in RegRecords \ overtaken, recordRow[r].status = "archived",
                        snapshotName(r) # "nobody"
                 PROVE  assemble(r)' = recordRow[r].print
        BY DEF ArchivedPrintHolds, snapshotName
    <2> QED BY PrintIsKept DEF PrintInv, ArchivedPrintHolds
  <1> QED BY <1>1 DEF PrintInv, RowsWellFormed, RecordsHaveForms, Existing

(* A request sent from a page is of a machine, and not yet checked.        *)
LEMMA SendingKeeps ==
    ASSUME PrintInv, NEW a \in Admins, NEW kind, NEW value, SendsEdit(a, kind, value),
           kind # "none", kind = "code" => value # NoCode
    PROVE  PrintInv'
  <1>1. PICK e : e = [kind |-> kind, value |-> value, machine |-> page[a].machine, stage |-> "sent",
                      confirms |-> FALSE]
      OBVIOUS
  <1>2. /\ e.kind = kind /\ e.value = value /\ e.machine = page[a].machine /\ e.stage = "sent"
        /\ DOMAIN e = {"kind", "value", "machine", "stage", "confirms"}
      BY <1>1
  <1>3. edit' = [edit EXCEPT ![a] = e] /\ page[a].machine # "none"
      BY <1>1 DEF SendsEdit
  <1>4. UNCHANGED <<machineRow, documentRow, recordRow, signerName, page, entered, overtaken>>
      BY DEF SendsEdit
  <1>5. EditsNameMachines'
      BY <1>2, <1>3, <1>4 DEF PrintInv, EditsNameMachines
  <1>6. UnderWayIsHarmless'
      BY <1>2, <1>3, <1>4 DEF PrintInv, EditsNameMachines, UnderWayIsHarmless, Kept, Harmless
  <1> QED BY <1>4, <1>5, <1>6, RowsUnchanged DEF PrintInv, RowsWellFormed

(* The buttons of a machine's page that send something.                    *)
LEMMA PageKeeps ==
    ASSUME PrintInv, NEW a \in Admins,
           \/ confirmCode(a) \/ saveDetails(a) \/ tag(a) \/ saveNumber(a) \/ retire(a) \/ returnToService(a)
    PROVE  PrintInv'
  <1>1. CASE confirmCode(a)
      BY <1>1, SendingKeeps, MachineRecordsAssumption DEF confirmCode
  <1>2. CASE saveDetails(a)
      BY <1>2, SendingKeeps DEF saveDetails
  <1>3. CASE tag(a)
      BY <1>3, SendingKeeps DEF tag
  <1>4. CASE saveNumber(a)
      BY <1>4, SendingKeeps DEF saveNumber
  <1>5. CASE retire(a) \/ returnToService(a)
      BY <1>5, SendingKeeps DEF retire, returnToService, setDocumentActive
  <1> QED BY <1>1, <1>2, <1>3, <1>4, <1>5

(* Opening a page, and the first tap of a retirement.                      *)
LEMMA LookingKeeps ==
    ASSUME PrintInv, NEW a \in Admins, openMachine(a) \/ askRetire(a)
    PROVE  PrintInv'
  <1>1. UNCHANGED <<machineRow, documentRow, recordRow, edit, entered, overtaken>>
      BY DEF openMachine, askRetire
  <1>2. EditsNameMachines'
    <2>1. CASE openMachine(a)
      <3>1. PICK m \in RegMachines : page' = IF assertInScope(a, m) THEN applyAsset(a, m)
                                             ELSE [page EXCEPT ![a] = NoScreen]
          BY <2>1 DEF openMachine
      <3>2. PICK p : page' = [page EXCEPT ![a] = p] /\ "machine" \in DOMAIN p
                     /\ p.machine \in RegMachines \cup {"none"}
        <4>1. CASE assertInScope(a, m)
          <5>1. PICK p : p = [machine |-> m, row |-> machineRow[m], document |-> documentRow[m],
                              retiring |-> FALSE]
              OBVIOUS
          <5>2. page' = [page EXCEPT ![a] = p]
              BY <3>1, <4>1, <5>1 DEF applyAsset
          <5>3. "machine" \in DOMAIN p /\ p.machine = m
              BY <5>1
          <5> QED BY <5>2, <5>3
        <4>2. CASE ~assertInScope(a, m)
          <5>1. "machine" \in DOMAIN NoScreen /\ NoScreen.machine = "none"
              BY DEF NoScreen
          <5>2. page' = [page EXCEPT ![a] = NoScreen]
              BY <3>1, <4>2
          <5> QED BY <5>1, <5>2
        <4> QED BY <4>1, <4>2
      <3> QED BY <1>1, <3>2 DEF PrintInv, EditsNameMachines
    <2>2. CASE askRetire(a)
      <3>1. page' = [page EXCEPT ![a].retiring = ~@]
          BY <2>2 DEF askRetire
      <3>2. \A b \in Admins : page'[b].machine = page[b].machine /\ DOMAIN page'[b] = DOMAIN page[b]
          BY <3>1 DEF PrintInv, EditsNameMachines
      <3> QED BY <1>1, <3>1, <3>2 DEF PrintInv, EditsNameMachines
    <2> QED BY <2>1, <2>2
  <1>3. UnderWayIsHarmless'
      BY <1>1 DEF PrintInv, UnderWayIsHarmless, Kept, Harmless
  <1> QED BY <1>1, <1>2, <1>3, RowsUnchanged DEF PrintInv, RowsWellFormed

(* A machine that is created had no code, so no record is of it.           *)
LEMMA CreatingKeeps ==
    ASSUME PrintInv, NEW a \in Admins, createMachine(a)
    PROVE  PrintInv'
  <1>1. UNCHANGED <<documentRow, recordRow, signerName, page, edit, entered, overtaken>>
      BY DEF createMachine
  <1>m. PICK m \in RegMachines : \E row :
          /\ ~Existing(m) /\ DOMAIN row = {"code", "provisional", "area"}
          /\ machineRow' = [machineRow EXCEPT ![m] = row] \/ machineRow' = machineRow
    <2>1. PICK m \in RegMachines, area \in Areas \cup {NoArea} :
            /\ ~Existing(m)
            /\ \/ \E c \in RealCodes \ AssetCodes : machineRow' = WithCode(m, c, FALSE, area)
               \/ \E c \in ProvisionalCodes \ AssetCodes : machineRow' = WithCode(m, c, TRUE, area)
               \/ UNCHANGED machineRow
        BY DEF createMachine
    <2>2. ASSUME NEW c, NEW generated, machineRow' = WithCode(m, c, generated, area)
          PROVE  \E row : /\ DOMAIN row = {"code", "provisional", "area"}
                          /\ machineRow' = [machineRow EXCEPT ![m] = row]
      <3>1. PICK row : row = [code |-> c, provisional |-> generated, area |-> area]
          OBVIOUS
      <3>2. DOMAIN row = {"code", "provisional", "area"}
          BY <3>1
      <3> QED BY <2>2, <3>1, <3>2 DEF WithCode
    <2>3. DOMAIN NoRow = {"code", "provisional", "area"}
        BY DEF NoRow
    <2> QED BY <2>1, <2>2, <2>3
  <1>2. PICK row :
          /\ ~Existing(m) /\ DOMAIN row = {"code", "provisional", "area"}
          /\ machineRow' = [machineRow EXCEPT ![m] = row] \/ machineRow' = machineRow
      BY <1>m
  <1>3. \A r \in RegRecords : recordRow[r].status # "none" =>
           RecordOf[r] # m /\ machineRow'[RecordOf[r]] = machineRow[RecordOf[r]]
      BY <1>2, MachineRecordsAssumption DEF PrintInv, RowsWellFormed, RecordsHaveForms
  <1>4. RowsWellFormed' /\ EditsNameMachines'
      BY <1>1, <1>2 DEF PrintInv, RowsWellFormed, EditsNameMachines
  <1>5. RecordsHaveForms'
      BY <1>1, <1>3 DEF PrintInv, RecordsHaveForms, Existing
  <1>6. UnderWayIsHarmless'
      BY <1>1, <1>3 DEF PrintInv, UnderWayIsHarmless, Kept, Harmless
  <1>7. ArchivedPrintHolds'
    <2> SUFFICES ASSUME NEW r \in RegRecords \ overtaken, recordRow[r].status = "archived",
                        snapshotName(r) # "nobody"
                 PROVE  assemble(r)' = recordRow[r].print
        BY <1>1 DEF ArchivedPrintHolds, snapshotName
    <2>1. machineRow'[RecordOf[r]].code = machineRow[RecordOf[r]].code
        BY <1>3
    <2> QED BY <1>1, <2>1, PrintIsKept DEF PrintInv, ArchivedPrintHolds
  <1> QED BY <1>4, <1>5, <1>6, <1>7 DEF PrintInv

(* An edit that is not refused is harmless to the records archived so far. *)
LEMMA CheckIsRight ==
    ASSUME NEW e, NEW r \in ArchivedOf(e.machine), ~Blocked(e)
    PROVE  Harmless(e, r)
  <1>1. ASSUME e.kind = "code" PROVE e.value = machineRow[e.machine].code
      BY <1>1 DEF Blocked, assertNoArchivedRecordDependsOnPrintedFields, changedPrintedAssetFields
  <1>2. ASSUME e.kind = "number"
        PROVE  \/ recordRow[r].own # NoNumber
               \/ resolveTemplateTitle(documentRow[e.machine].number) = resolveTemplateTitle(e.value)
      BY <1>2 DEF Blocked, assertNoArchivedRecordDependsOnMachineNumber, recordsBlockingMachineNumberChange
  <1> QED BY <1>1, <1>2 DEF Harmless

(* The check of an edit.                                                   *)
LEMMA CheckingKeeps ==
    ASSUME PrintInv, NEW a \in Admins, checkEdit(a)
    PROVE  PrintInv'
  <1>1. UNCHANGED <<machineRow, documentRow, recordRow, page, entered, overtaken>>
      BY DEF checkEdit
  <1>2. CASE EditAnswered(a)
    <2>1. edit' = [edit EXCEPT ![a] = NoEdit] /\ NoEdit.kind = "none"
        BY <1>2 DEF EditAnswered, NoEdit
    <2>2. EditsNameMachines'
        BY <1>1, <2>1 DEF PrintInv, EditsNameMachines
    <2>3. UnderWayIsHarmless'
        BY <1>1, <2>1 DEF PrintInv, EditsNameMachines, UnderWayIsHarmless, Kept, Harmless
    <2> QED BY <1>1, <2>2, <2>3, RowsUnchanged DEF PrintInv, RowsWellFormed
  <1>3. CASE /\ ~Blocked(edit[a])
             /\ edit' = [edit EXCEPT ![a].stage = "checked",
                                     ![a].confirms = changedPrintedAssetFields(edit[a])]
    <2>1. PICK confirms : edit' = [edit EXCEPT ![a].stage = "checked", ![a].confirms = confirms]
        BY <1>3, Zenon
    <2>2. edit[a].kind # "none" /\ DOMAIN edit[a] = {"kind", "value", "machine", "stage", "confirms"}
        BY DEF checkEdit, PrintInv, EditsNameMachines
    <2>3. /\ edit'[a].kind = edit[a].kind /\ edit'[a].value = edit[a].value
          /\ edit'[a].machine = edit[a].machine /\ DOMAIN edit'[a] = DOMAIN edit[a]
          /\ DOMAIN edit' = Admins /\ \A b \in Admins \ {a} : edit'[b] = edit[b]
        BY <2>1, <2>2 DEF PrintInv, EditsNameMachines
    <2>4. EditsNameMachines'
      <3>1. \A b \in Admins : b = a \/ edit'[b] = edit[b]
          BY <2>3
      <3> QED BY <1>1, <2>2, <2>3, <3>1 DEF PrintInv, EditsNameMachines
    <2>5. UnderWayIsHarmless'
      <3> SUFFICES ASSUME NEW r \in RegRecords, Kept(r), NEW b \in Admins, edit'[b].kind # "none",
                          edit'[b].stage = "checked", edit'[b].machine = RecordOf[r]
                   PROVE  Harmless(edit[b], r)' /\ entered[r] = NoNumber
          BY <1>1 DEF UnderWayIsHarmless, Kept, PrintInv
      <3>1. entered[r] = NoNumber
          BY DEF PrintInv, UnderWayIsHarmless
      <3>2. CASE b # a
          BY <1>1, <2>3, <3>1, <3>2 DEF PrintInv, UnderWayIsHarmless, Harmless
      <3>3. CASE b = a
        <4>1. r \in ArchivedOf(edit[a].machine)
            BY <2>3, <3>3 DEF ArchivedOf, Kept
        <4>2. Harmless(edit[a], r)
            BY <1>3, <4>1, CheckIsRight
        <4> QED BY <1>1, <2>3, <3>1, <3>3, <4>2 DEF Harmless
      <3> QED BY <3>2, <3>3
    <2> QED BY <1>1, <2>4, <2>5, RowsUnchanged DEF PrintInv, RowsWellFormed
  <1> QED BY <1>2, <1>3 DEF checkEdit

(* What the transaction of an edit writes into the rows.                   *)
LEMMA EditWrites ==
    ASSUME RowsWellFormed, NEW e, e.machine \in RegMachines,
           machineRow' = updateMachine(e), documentRow' = updateDocument(e)
    PROVE  /\ DOMAIN machineRow' = RegMachines /\ DOMAIN documentRow' = RegMachines
           /\ \A m \in RegMachines :
                /\ DOMAIN machineRow'[m] = {"code", "provisional", "area"}
                /\ DOMAIN documentRow'[m] = {"number", "active", "tagged"}
                /\ machineRow'[m].code = IF m = e.machine /\ e.kind = "code" THEN e.value
                                         ELSE machineRow[m].code
                /\ documentRow[m].tagged => documentRow'[m].tagged
                /\ m # e.machine \/ e.kind \notin {"tag", "number"} =>
                      documentRow'[m].number = documentRow[m].number
                /\ m = e.machine /\ e.kind = "number" => documentRow'[m].number = e.value
  <1>1. /\ DOMAIN machineRow = RegMachines /\ DOMAIN documentRow = RegMachines
        /\ \A m \in RegMachines :
             /\ DOMAIN machineRow[m] = {"code", "provisional", "area"}
             /\ DOMAIN documentRow[m] = {"number", "active", "tagged"}
      BY DEF RowsWellFormed
  <1>2. /\ DOMAIN machineRow' = RegMachines
        /\ \A m \in RegMachines :
             /\ DOMAIN machineRow'[m] = {"code", "provisional", "area"}
             /\ machineRow'[m].code = IF m = e.machine /\ e.kind = "code" THEN e.value
                                      ELSE machineRow[m].code
    <2>1. CASE e.kind = "code"
      <3>1. PICK p : machineRow' = [machineRow EXCEPT ![e.machine].code = e.value,
                                                      ![e.machine].provisional = p]
          BY <2>1 DEF updateMachine
      <3> QED BY <1>1, <2>1, <3>1
    <2>2. CASE e.kind = "area"
      <3>1. machineRow' = [machineRow EXCEPT ![e.machine].area = e.value]
          BY <2>2 DEF updateMachine
      <3> QED BY <1>1, <2>2, <3>1
    <2>3. CASE e.kind \notin {"code", "area"}
      <3>1. machineRow' = machineRow
          BY <2>3 DEF updateMachine
      <3> QED BY <1>1, <2>3, <3>1
    <2> QED BY <2>1, <2>2, <2>3
  <1>3. /\ DOMAIN documentRow' = RegMachines
        /\ \A m \in RegMachines :
             /\ DOMAIN documentRow'[m] = {"number", "active", "tagged"}
             /\ documentRow[m].tagged => documentRow'[m].tagged
             /\ m # e.machine \/ e.kind \notin {"tag", "number"} =>
                   documentRow'[m].number = documentRow[m].number
             /\ m = e.machine /\ e.kind = "number" => documentRow'[m].number = e.value
    <2>1. CASE e.kind = "tag"
      <3>1. PICK row : row = [number |-> NoNumber, active |-> TRUE, tagged |-> TRUE]
          OBVIOUS
      <3>2. DOMAIN row = {"number", "active", "tagged"} /\ row.tagged
          BY <3>1
      <3>3. documentRow' = [documentRow EXCEPT ![e.machine] = row]
          BY <2>1, <3>1 DEF updateDocument
      <3> QED BY <1>1, <2>1, <3>2, <3>3
    <2>2. CASE e.kind = "number"
      <3>1. documentRow' = [documentRow EXCEPT ![e.machine].number = e.value]
          BY <2>2 DEF updateDocument
      <3> QED BY <1>1, <2>2, <3>1
    <2>3. CASE e.kind = "active"
      <3>1. documentRow' = [documentRow EXCEPT ![e.machine].active = e.value]
          BY <2>3 DEF updateDocument
      <3> QED BY <1>1, <2>3, <3>1
    <2>4. CASE e.kind \notin {"tag", "number", "active"}
      <3>1. documentRow' = documentRow
          BY <2>4 DEF updateDocument
      <3> QED BY <1>1, <2>4, <3>1
    <2> QED BY <2>1, <2>2, <2>3, <2>4
  <1> QED BY <1>2, <1>3

(* The transaction of an edit: it was harmless when it was checked, and    *)
(* what happened since kept it harmless, or marked the record.             *)
LEMMA CommittingKeeps ==
    ASSUME PrintInv, NEW a \in Admins, commitEdit(a)
    PROVE  PrintInv'
  <1>1. PICK e : e = edit[a]
      OBVIOUS
  <1>2. /\ UNCHANGED <<recordRow, entered, overtaken>>
        /\ edit' = [edit EXCEPT ![a] = NoEdit] /\ NoEdit.kind = "none"
      BY DEF commitEdit, EditAnswered, NoEdit
  <1>3. /\ e.kind # "none" /\ e.stage = "checked" /\ e.machine \in RegMachines
        /\ e.kind = "code" => e.value # NoCode
      BY <1>1 DEF commitEdit, PrintInv, EditsNameMachines
  <1>4. \A b \in Admins : /\ DOMAIN page'[b] = DOMAIN page[b]
                          /\ "machine" \in DOMAIN page[b] => page'[b].machine = page[b].machine
    <2>1. CASE page' = page
        BY <2>1
    <2>2. CASE \E row, document : page' = [page EXCEPT ![a].row = row, ![a].document = document,
                                                       ![a].retiring = FALSE]
        BY <2>2 DEF PrintInv, EditsNameMachines
    <2> QED BY <2>1, <2>2 DEF commitEdit
  <1>5. EditsNameMachines'
    <2>1. DOMAIN page' = Admins
        BY DEF commitEdit, PrintInv, EditsNameMachines
    <2>2. \A b \in Admins : "machine" \in DOMAIN page'[b] /\ page'[b].machine \in RegMachines \cup {"none"}
        BY <1>4 DEF PrintInv, EditsNameMachines
    <2> QED BY <1>2, <2>1, <2>2 DEF PrintInv, EditsNameMachines
  <1>6. CASE IndexRefuses(e) /\ UNCHANGED <<machineRow, documentRow>>
    <2>1. UnderWayIsHarmless'
        BY <1>2, <1>6 DEF PrintInv, EditsNameMachines, UnderWayIsHarmless, Kept, Harmless
    <2> QED BY <1>2, <1>5, <1>6, <2>1, RowsUnchanged DEF PrintInv, RowsWellFormed
  <1>7. CASE ~IndexRefuses(e) /\ machineRow' = updateMachine(e) /\ documentRow' = updateDocument(e)
    <2>1. /\ DOMAIN machineRow' = RegMachines /\ DOMAIN documentRow' = RegMachines
          /\ \A m \in RegMachines :
               /\ DOMAIN machineRow'[m] = {"code", "provisional", "area"}
               /\ DOMAIN documentRow'[m] = {"number", "active", "tagged"}
               /\ machineRow'[m].code = IF m = e.machine /\ e.kind = "code" THEN e.value
                                        ELSE machineRow[m].code
               /\ documentRow[m].tagged => documentRow'[m].tagged
               /\ m # e.machine \/ e.kind \notin {"tag", "number"} =>
                     documentRow'[m].number = documentRow[m].number
               /\ m = e.machine /\ e.kind = "number" => documentRow'[m].number = e.value
        BY <1>3, <1>7, EditWrites DEF PrintInv
    <2>2. RowsWellFormed'
        BY <1>2, <2>1 DEF PrintInv, RowsWellFormed
    <2>3. RecordsHaveForms'
      <3>1. \A r \in RegRecords : RecordOf[r] \in RegMachines
          BY MachineRecordsAssumption
      <3> QED BY <1>2, <1>3, <2>1, <3>1 DEF PrintInv, RecordsHaveForms, Existing
    <2>4. ASSUME NEW r \in RegRecords, Kept(r)
          PROVE  /\ machineRow'[RecordOf[r]].code = machineRow[RecordOf[r]].code
                 /\ \/ recordRow[r].own # NoNumber
                    \/ resolveTemplateTitle(documentRow'[RecordOf[r]].number)
                         = resolveTemplateTitle(documentRow[RecordOf[r]].number)
      <3>1. RecordOf[r] \in RegMachines
          BY MachineRecordsAssumption
      <3>2. CASE RecordOf[r] # e.machine
          BY <2>1, <3>1, <3>2
      <3>3. CASE RecordOf[r] = e.machine
        <4>1. Harmless(e, r)
            BY <1>1, <1>3, <2>4, <3>3 DEF PrintInv, UnderWayIsHarmless
        <4>2. e.kind # "tag"
            BY <1>7, <2>4, <3>3 DEF IndexRefuses, AlreadyTagged, PrintInv, RecordsHaveForms, Kept
        <4> QED BY <2>1, <3>1, <3>3, <4>1, <4>2 DEF Harmless
      <3> QED BY <3>2, <3>3
    <2>5. UnderWayIsHarmless'
      <3> SUFFICES ASSUME NEW r \in RegRecords, Kept(r), NEW b \in Admins, edit'[b].kind # "none",
                          edit'[b].stage = "checked", edit'[b].machine = RecordOf[r]
                   PROVE  Harmless(edit[b], r)'
          BY <1>2 DEF UnderWayIsHarmless, Kept, PrintInv
      <3>1. b # a /\ edit'[b] = edit[b]
          BY <1>2 DEF PrintInv, EditsNameMachines
      <3>2. Harmless(edit[b], r)
          BY <3>1 DEF PrintInv, UnderWayIsHarmless
      <3> QED BY <1>2, <2>4, <3>1, <3>2 DEF Harmless
    <2>6. ArchivedPrintHolds'
      <3> SUFFICES ASSUME NEW r \in RegRecords \ overtaken, recordRow[r].status = "archived",
                          snapshotName(r) # "nobody"
                   PROVE  assemble(r)' = recordRow[r].print
          BY <1>2 DEF ArchivedPrintHolds, snapshotName
      <3>1. assemble(r)' = assemble(r)
          BY <1>2, <2>4, PrintIsKept DEF Kept
      <3> QED BY <3>1 DEF PrintInv, ArchivedPrintHolds
    <2> QED BY <1>5, <2>2, <2>3, <2>5, <2>6 DEF PrintInv
  <1> QED BY <1>1, <1>6, <1>7 DEF commitEdit

(* A record moves, and is not an archived one to be kept afterwards.       *)
LEMMA OthersAreKept ==
    ASSUME PrintInv, NEW r \in RegRecords, NEW row, RecordBecomes(r, row),
           DOMAIN row = {"status", "own", "signed", "print"},
           row.status # "none" => Existing(RecordOf[r]) /\ documentRow[RecordOf[r]].tagged,
           DOMAIN entered' = RegRecords, \A q \in RegRecords \ {r} : entered'[q] = entered[q],
           overtaken \subseteq overtaken',
           row.status = "archived" /\ r \notin overtaken' =>
              /\ entered'[r] = NoNumber
              /\ \A a \in Admins : edit[a].kind # "none" /\ edit[a].stage = "checked" =>
                    edit[a].machine # RecordOf[r]
              /\ snapshotName(r)' # "nobody" => assemble(r)' = row.print
    PROVE  PrintInv'
  <1>1. /\ recordRow' = [recordRow EXCEPT ![r] = row]
        /\ UNCHANGED <<machineRow, documentRow, page, edit>>
      BY DEF RecordBecomes
  <1>2. recordRow'[r] = row /\ \A q \in RegRecords \ {r} : recordRow'[q] = recordRow[q]
      BY <1>1 DEF PrintInv, RowsWellFormed
  <1>3. RowsWellFormed' /\ EditsNameMachines'
      BY <1>1, <1>2 DEF PrintInv, RowsWellFormed, EditsNameMachines
  <1>4. RecordsHaveForms'
      BY <1>1, <1>2 DEF PrintInv, RecordsHaveForms, Existing
  <1>5. UnderWayIsHarmless'
    <2>1. ASSUME NEW q \in RegRecords, q # r, Kept(q)'
          PROVE  /\ entered'[q] = NoNumber
                 /\ \A a \in Admins :
                      /\ edit'[a].kind # "none" /\ edit'[a].stage = "checked"
                      /\ edit'[a].machine = RecordOf[q]
                      => Harmless(edit[a], q)'
      <3>1. Kept(q) /\ recordRow'[q] = recordRow[q]
          BY <1>2, <2>1 DEF Kept
      <3> QED BY <1>1, <2>1, <3>1 DEF PrintInv, UnderWayIsHarmless, Harmless
    <2>2. ASSUME Kept(r)'
          PROVE  /\ entered'[r] = NoNumber
                 /\ \A a \in Admins :
                      /\ edit'[a].kind # "none" /\ edit'[a].stage = "checked"
                      /\ edit'[a].machine = RecordOf[r]
                      => Harmless(edit[a], r)'
        BY <1>1, <1>2, <2>2 DEF Kept
    <2> QED BY <2>1, <2>2 DEF UnderWayIsHarmless
  <1>6. ArchivedPrintHolds'
    <2> SUFFICES ASSUME NEW q \in RegRecords \ overtaken', recordRow'[q].status = "archived",
                        snapshotName(q)' # "nobody"
                 PROVE  assemble(q)' = recordRow'[q].print
        BY DEF ArchivedPrintHolds
    <2>1. CASE q = r
        BY <1>2, <2>1
    <2>2. CASE q # r
      <3>1. recordRow'[q] = recordRow[q] /\ q \notin overtaken /\ snapshotName(q) # "nobody"
          BY <1>2, <2>2 DEF snapshotName
      <3>2. assemble(q)' = assemble(q)
          BY <1>1, <3>1, PrintIsKept
      <3> QED BY <3>1, <3>2 DEF PrintInv, ArchivedPrintHolds
    <2> QED BY <2>1, <2>2
  <1> QED BY <1>3, <1>4, <1>5, <1>6 DEF PrintInv

(* Raising, signing and voiding a record; a captured form number.          *)
LEMMA RecordKeeps ==
    ASSUME PrintInv, NEW r \in RegRecords,
           raiseRecord(r) \/ recordTitleMachineNumber(r) \/ signRecord(r) \/ voidRecord(r)
    PROVE  PrintInv'
  <1>1. /\ DOMAIN recordRow[r] = {"status", "own", "signed", "print"} /\ DOMAIN entered = RegRecords
        /\ recordRow[r].status # "none" => Existing(RecordOf[r]) /\ documentRow[RecordOf[r]].tagged
        /\ recordRow[r].status = "archived" /\ r \notin overtaken => entered[r] = NoNumber
      BY DEF PrintInv, RowsWellFormed, RecordsHaveForms, UnderWayIsHarmless, Kept
  <1>2. CASE raiseRecord(r)
    <2>1. DOMAIN Open = {"status", "own", "signed", "print"} /\ Open.status = "open"
        BY DEF Open
    <2>2. /\ RecordBecomes(r, Open) /\ UNCHANGED <<entered, overtaken>>
          /\ Existing(RecordOf[r]) /\ documentRow[RecordOf[r]].tagged
        BY <1>2 DEF raiseRecord
    <2> QED BY <1>1, <2>1, <2>2, OthersAreKept
  <1>3. CASE signRecord(r)
    <2>1. PICK name : RecordBecomes(r, [recordRow[r] EXCEPT !.status = "signed", !.signed = name])
        BY <1>3 DEF signRecord
    <2>2. PICK row : row = [recordRow[r] EXCEPT !.status = "signed", !.signed = name]
        OBVIOUS
    <2>3. /\ DOMAIN row = {"status", "own", "signed", "print"} /\ row.status = "signed"
          /\ recordRow[r].status = "open" /\ UNCHANGED <<entered, overtaken>> /\ RecordBecomes(r, row)
        BY <1>1, <1>3, <2>1, <2>2 DEF signRecord
    <2> QED BY <1>1, <2>3, OthersAreKept
  <1>4. CASE voidRecord(r)
    <2>1. PICK row : row = [recordRow[r] EXCEPT !.status = "voided"]
        OBVIOUS
    <2>2. /\ DOMAIN row = {"status", "own", "signed", "print"} /\ row.status = "voided"
          /\ recordRow[r].status # "none" /\ UNCHANGED <<entered, overtaken>> /\ RecordBecomes(r, row)
        BY <1>1, <1>4, <2>1 DEF voidRecord
    <2> QED BY <1>1, <2>2, OthersAreKept
  <1>5. CASE /\ recordRow[r].status = "open"
             /\ \E n \in FormNumbers : entered' = [entered EXCEPT ![r] = n]
             /\ UNCHANGED <<machineRow, documentRow, recordRow, page, edit, overtaken>>
    <2>1. EditsNameMachines'
        BY <1>5 DEF PrintInv, EditsNameMachines
    <2>2. UnderWayIsHarmless'
        BY <1>1, <1>5 DEF PrintInv, UnderWayIsHarmless, Kept, Harmless
    <2> QED BY <1>1, <1>5, <2>1, <2>2, RowsUnchanged
  <1>6. CASE /\ entered[r] # NoNumber /\ entered' = [entered EXCEPT ![r] = NoNumber]
             /\ RecordBecomes(r, [recordRow[r] EXCEPT !.own = entered[r]])
             /\ UNCHANGED overtaken
    <2>1. PICK row : row = [recordRow[r] EXCEPT !.own = entered[r]]
        OBVIOUS
    <2>2. /\ DOMAIN row = {"status", "own", "signed", "print"} /\ row.status = recordRow[r].status
          /\ RecordBecomes(r, row)
        BY <1>1, <1>6, <2>1
    <2>3. DOMAIN entered' = RegRecords /\ \A q \in RegRecords \ {r} : entered'[q] = entered[q]
        BY <1>1, <1>6
    <2> QED BY <1>1, <1>6, <2>2, <2>3, OthersAreKept
  <1> QED BY <1>2, <1>3, <1>4, <1>5, <1>6 DEF recordTitleMachineNumber

(* A record that is archived prints what it is archived with.              *)
LEMMA ArchivingKeeps ==
    ASSUME PrintInv, NEW r \in RegRecords, archiveRecord(r)
    PROVE  PrintInv'
  <1>1. /\ DOMAIN recordRow[r] = {"status", "own", "signed", "print"} /\ DOMAIN entered = RegRecords
        /\ DOMAIN recordRow = RegRecords
        /\ recordRow[r].status = "signed" /\ Existing(RecordOf[r]) /\ documentRow[RecordOf[r]].tagged
      BY DEF PrintInv, RowsWellFormed, RecordsHaveForms, archiveRecord
  <1>2. PICK print : print = assemble(r)
      OBVIOUS
  <1>3. PICK row : row = [recordRow[r] EXCEPT !.status = "archived", !.print = print]
      OBVIOUS
  <1>4. /\ DOMAIN row = {"status", "own", "signed", "print"} /\ row.status = "archived"
        /\ row.own = recordRow[r].own /\ row.signed = recordRow[r].signed /\ row.print = print
      BY <1>1, <1>3
  <1>5. RecordBecomes(r, row) /\ UNCHANGED entered /\ overtaken \subseteq overtaken'
      BY <1>2, <1>3 DEF archiveRecord
  <1>6. recordRow'[r] = row /\ UNCHANGED <<machineRow, documentRow, signerName>>
      BY <1>1, <1>5 DEF RecordBecomes
  <1>7. ASSUME r \notin overtaken' PROVE ~Overtaking(r)
      BY <1>7 DEF archiveRecord
  <1>8. snapshotName(r)' # "nobody" => assemble(r)' = row.print
    <2>1. documentTitle(r)' = documentTitle(r)
        BY <1>4, <1>6 DEF documentTitle, resolveTemplateTitle
    <2>2. buildSignatures(r)' = buildSignatures(r)
        BY <1>4, <1>6 DEF buildSignatures, snapshotName
    <2>3. buildVoidNotice(r)' = FALSE /\ buildVoidNotice(r) = FALSE
        BY <1>1, <1>4, <1>6 DEF buildVoidNotice
    <2>4. machineRow'[RecordOf[r]].code = machineRow[RecordOf[r]].code
        BY <1>6
    <2> QED BY <1>2, <1>4, <2>1, <2>2, <2>3, <2>4, Zenon DEF assemble
  <1>9. r \notin overtaken' =>
          /\ entered'[r] = NoNumber
          /\ \A a \in Admins : edit[a].kind # "none" /\ edit[a].stage = "checked" =>
                edit[a].machine # RecordOf[r]
      BY <1>5, <1>7 DEF Overtaking
  <1> QED BY <1>1, <1>4, <1>5, <1>8, <1>9, OthersAreKept

(* Every step of the register, of its pages and of its records.            *)
LEMMA PrintInvNext == PrintInv /\ [RegisterNext]_registerVars => PrintInv'
  <1> SUFFICES ASSUME PrintInv, [RegisterNext]_registerVars PROVE PrintInv'
      OBVIOUS
  <1>1. CASE renameSigner \/ UNCHANGED registerVars
    <2>1. UNCHANGED <<machineRow, documentRow, recordRow, page, edit, entered, overtaken>>
        BY <1>1 DEF renameSigner, registerVars
    <2>2. EditsNameMachines' /\ UnderWayIsHarmless'
        BY <2>1 DEF PrintInv, EditsNameMachines, UnderWayIsHarmless, Kept, Harmless
    <2> QED BY <2>1, <2>2, RowsUnchanged DEF PrintInv, RowsWellFormed
  <1> QED BY <1>1, CreatingKeeps, LookingKeeps, PageKeeps, CheckingKeeps, CommittingKeeps,
             RecordKeeps, ArchivingKeeps DEF RegisterNext

(* An archived record goes on printing the machine code, the title and the *)
(* signatory it was archived with, for any register and any number of      *)
(* edits under way (assertNoArchivedRecordDependsOnPrintedFields,          *)
(* assertNoArchivedRecordDependsOnMachineNumber, pdf-record-assembly).     *)
THEOREM PrintsHold == RegisterSpec => []ArchivedPrintHolds
  <1>1. PrintInv => ArchivedPrintHolds
      BY DEF PrintInv
  <1> QED BY <1>1, PrintInvInit, PrintInvNext, PTL DEF RegisterSpec

-----------------------------------------------------------------------------
(* What takes from a rule the credit for the work that was done.           *)

JobFields ==
  {"doc", "freq", "scope", "due", "assignee", "trace", "number", "adhoc", "status", "verified"}

(* The rows of the job table; a record is never signed in the future. *)
RowFits(row) ==
  /\ DOMAIN row = JobFields
  /\ row.status = "archived" => row.verified \in 0..today

JobRowsFit ==
  /\ today \in Nat
  /\ \E S : jobs \in Seq(S)
  /\ \A i \in DOMAIN jobs : RowFits(jobs[i])

RuleRowsFit == \A k \in DOMAIN rules : DOMAIN rules[k] = {"due", "last", "default"}

(* The record a void is taking back is there, and still archived. *)
VoidIsOpen ==
  voiding.pc = "recompute" =>
    voiding.job \in DOMAIN jobs /\ jobs[voiding.job].status = "archived"

CreditRows == JobRowsFit /\ RuleRowsFit /\ VoidIsOpen

(* Max is the library's choice of a greatest element. *)
LEMMA MaxIsGreatest ==
    ASSUME NEW T \in SUBSET Int, NEW m \in T, \A t \in T : t <= m
    PROVE  Max(T) = m
  <1> DEFINE P(x) == x \in T /\ \A y \in T : x >= y
  <1>1. P(m)
      OBVIOUS
  <1>2. Max(T) = CHOOSE x : P(x)
      BY DEF Max
  <1>3. P(CHOOSE x : P(x))
      BY <1>1
  <1>4. Max(T) \in T /\ \A y \in T : Max(T) >= y
      BY <1>2, <1>3
  <1>5. \A c \in T : (\A y \in T : c >= y) => c = m
      OBVIOUS
  <1> QED BY <1>4, <1>5, Zenon

(* What a step does that completes no work and takes none back: a row      *)
(* keeps what the schedule reads of it, a new row is not archived, and no  *)
(* rule's last completion is written.                                      *)
NothingCompleted ==
  /\ DOMAIN jobs \subseteq DOMAIN jobs'
  /\ \A i \in DOMAIN jobs :
       /\ jobs'[i].doc = jobs[i].doc /\ jobs'[i].scope = jobs[i].scope
       /\ jobs'[i].verified = jobs[i].verified
       /\ jobs'[i].status = "archived" <=> jobs[i].status = "archived"
  /\ \A i \in DOMAIN jobs' \ DOMAIN jobs : jobs'[i].status # "archived"

RowsKept ==
  /\ \E S : jobs' \in Seq(S)
  /\ \A i \in DOMAIN jobs : DOMAIN jobs'[i] = JobFields
  /\ \A i \in DOMAIN jobs' \ DOMAIN jobs : RowFits(jobs'[i])

RulesKept ==
  /\ DOMAIN rules \subseteq DOMAIN rules'
  /\ \A k \in DOMAIN rules' : DOMAIN rules'[k] = {"due", "last", "default"}
  /\ \A k \in DOMAIN rules : rules'[k].last = rules[k].last

QuietStep ==
  /\ NothingCompleted /\ RowsKept /\ RulesKept
  /\ UNCHANGED voiding
  /\ today' \in Nat /\ today' >= today

(* The conclusion about a step: the rows still fit, and credit is kept. *)
StepKeepsCredit ==
  /\ CreditRows'
  /\ \A k \in DOMAIN rules :
       /\ (Credited(k) \/ \E j \in DOMAIN jobs : SignsOff(j, k))
       /\ ~WritesStaleSearch(k)
       => k \in DOMAIN rules' /\ Credited(k)'

(* Without a completion no completion date changes. *)
LEMMA CompletionsKept ==
    ASSUME NothingCompleted, NEW d, NEW f, NEW j
    PROVE  LatestCompletion(d, f, j)' = LatestCompletion(d, f, j)
  <1>1. Completions(d, f, j)' = Completions(d, f, j)
      BY DEF NothingCompleted, Completions
  <1>2. \A i \in Completions(d, f, j) : jobs'[i].verified = jobs[i].verified
      BY DEF NothingCompleted, Completions
  <1>3. {jobs'[i].verified : i \in Completions(d, f, j)'} = {jobs[i].verified : i \in Completions(d, f, j)}
      BY <1>1, <1>2
  <1> QED BY <1>3 DEF LatestCompletion

LEMMA QuietStepKeepsCredit ==
    ASSUME CreditRows, QuietStep
    PROVE  StepKeepsCredit
  <1>1. JobRowsFit'
    <2>1. ASSUME NEW i \in DOMAIN jobs' PROVE RowFits(jobs[i])'
      <3>1. CASE i \in DOMAIN jobs
        <4>1. RowFits(jobs[i]) /\ today \in Nat
            BY <3>1 DEF CreditRows, JobRowsFit
        <4> QED BY <3>1, <4>1 DEF QuietStep, NothingCompleted, RowsKept, RowFits
      <3>2. CASE i \notin DOMAIN jobs
          BY <3>2 DEF QuietStep, RowsKept, NothingCompleted, RowFits
      <3> QED BY <3>1, <3>2
    <2> QED BY <2>1 DEF QuietStep, RowsKept, JobRowsFit
  <1>2. RuleRowsFit'
      BY DEF QuietStep, RulesKept, RuleRowsFit
  <1>3. VoidIsOpen'
      BY DEF QuietStep, NothingCompleted, CreditRows, VoidIsOpen
  <1>4. ASSUME NEW k \in DOMAIN rules, Credited(k) PROVE k \in DOMAIN rules' /\ Credited(k)'
    <2>1. LatestCompletion(k[1], k[2], 0)' = LatestCompletion(k[1], k[2], 0)
        BY CompletionsKept DEF QuietStep
    <2> QED BY <1>4, <2>1 DEF QuietStep, RulesKept, Credited
  <1>5. ASSUME NEW j \in DOMAIN jobs, VerifyLast(j) PROVE FALSE
    <2>1. jobs'[j].status # "archived"
        BY <1>5 DEF VerifyLast, QuietStep, NothingCompleted
    <2>2. DOMAIN jobs[j] = JobFields
        BY DEF CreditRows, JobRowsFit, RowFits
    <2> DEFINE row == [jobs[j] EXCEPT !.status = "archived", !.verified = today]
    <2>3. jobs' = [jobs EXCEPT ![j] = row]
        BY <1>5 DEF VerifyLast
    <2>4. row.status = "archived"
        BY <2>2 DEF JobFields
    <2> HIDE DEF row
    <2> QED BY <2>1, <2>3, <2>4
  <1> QED BY <1>1, <1>2, <1>3, <1>4, <1>5 DEF StepKeepsCredit, CreditRows, SignsOff

(* Writing and appending rows. *)
LEMMA RowWritten ==
    ASSUME NEW S, NEW s \in Seq(S), NEW j \in DOMAIN s, NEW row
    PROVE  /\ \E T : [s EXCEPT ![j] = row] \in Seq(T)
           /\ DOMAIN [s EXCEPT ![j] = row] = DOMAIN s
           /\ [s EXCEPT ![j] = row][j] = row
           /\ \A i \in DOMAIN s : i # j => [s EXCEPT ![j] = row][i] = s[i]
  <1>1. [s EXCEPT ![j] = row] \in Seq(S \cup {row})
      OBVIOUS
  <1> QED BY <1>1

LEMMA RowAppended ==
    ASSUME NEW S, NEW s \in Seq(S), NEW row
    PROVE  /\ \E T : Append(s, row) \in Seq(T)
           /\ DOMAIN Append(s, row) = DOMAIN s \cup {Len(s) + 1}
           /\ Append(s, row)[Len(s) + 1] = row
           /\ \A i \in DOMAIN s : Append(s, row)[i] = s[i]
           /\ Len(s) + 1 \notin DOMAIN s
  <1>1. s \in Seq(S \cup {row})
      OBVIOUS
  <1>2. Append(s, row) \in Seq(S \cup {row})
      BY <1>1
  <1> QED BY <1>1, <1>2

(* The two tables are left alone. *)
LEMMA TablesKept ==
    ASSUME CreditRows
    PROVE  /\ UNCHANGED jobs => NothingCompleted /\ RowsKept
           /\ UNCHANGED rules => RulesKept
  <1>1. ASSUME UNCHANGED jobs PROVE NothingCompleted /\ RowsKept
      BY <1>1 DEF NothingCompleted, RowsKept, CreditRows, JobRowsFit, RowFits
  <1>2. ASSUME UNCHANGED rules PROVE RulesKept
      BY <1>2 DEF RulesKept, CreditRows, RuleRowsFit
  <1> QED BY <1>1, <1>2

(* A row that is not archived is written, and is not archived after. *)
LEMMA RowKept ==
    ASSUME CreditRows, NEW j \in DOMAIN jobs, NEW row,
           jobs' = [jobs EXCEPT ![j] = row],
           DOMAIN row = JobFields, row.doc = jobs[j].doc, row.scope = jobs[j].scope,
           row.verified = jobs[j].verified,
           jobs[j].status # "archived", row.status # "archived"
    PROVE  NothingCompleted /\ RowsKept
  <1>1. PICK S : jobs \in Seq(S)
      BY DEF CreditRows, JobRowsFit
  <1>2. /\ \E T : jobs' \in Seq(T)
        /\ DOMAIN jobs' = DOMAIN jobs
        /\ jobs'[j] = row
        /\ \A i \in DOMAIN jobs : i # j => jobs'[i] = jobs[i]
      BY <1>1, RowWritten
  <1>3. \A i \in DOMAIN jobs : DOMAIN jobs[i] = JobFields
      BY DEF CreditRows, JobRowsFit, RowFits
  <1>4. NothingCompleted
      BY <1>2 DEF NothingCompleted
  <1>5. RowsKept
      BY <1>2, <1>3 DEF RowsKept
  <1> QED BY <1>4, <1>5

(* A fresh job is added. *)
LEMMA RowAdded ==
    ASSUME CreditRows, NEW d, NEW f, NEW scope, NEW due, NEW who, NEW trace, NEW number, NEW adhoc,
           jobs' = Append(jobs, NewJob(d, f, scope, due, who, trace, number, adhoc))
    PROVE  NothingCompleted /\ RowsKept
  <1> DEFINE row == NewJob(d, f, scope, due, who, trace, number, adhoc)
  <1>1. PICK S : jobs \in Seq(S)
      BY DEF CreditRows, JobRowsFit
  <1>2. row.status = "open" /\ DOMAIN row = JobFields
      BY DEF NewJob, JobFields
  <1>3. RowFits(row) /\ row.status # "archived"
      BY <1>2 DEF RowFits
  <1>4. jobs' = Append(jobs, row)
      OBVIOUS
  <1> HIDE DEF row
  <1>5. /\ \E T : jobs' \in Seq(T)
        /\ DOMAIN jobs' = DOMAIN jobs \cup {Len(jobs) + 1}
        /\ jobs'[Len(jobs) + 1] = row
        /\ \A i \in DOMAIN jobs : jobs'[i] = jobs[i]
        /\ Len(jobs) + 1 \notin DOMAIN jobs
    <2> DEFINE longer == Append(jobs, row)
    <2>1. /\ \E T : longer \in Seq(T)
          /\ DOMAIN longer = DOMAIN jobs \cup {Len(jobs) + 1}
          /\ longer[Len(jobs) + 1] = row
          /\ \A i \in DOMAIN jobs : longer[i] = jobs[i]
          /\ Len(jobs) + 1 \notin DOMAIN jobs
        BY <1>1, RowAppended, Zenon
    <2> QED BY <1>4, <2>1, Zenon
  <1>6. \A i \in DOMAIN jobs : DOMAIN jobs[i] = JobFields
      BY DEF CreditRows, JobRowsFit, RowFits
  <1>7. NothingCompleted
      BY <1>3, <1>5 DEF NothingCompleted
  <1>8. RowsKept
      BY <1>3, <1>5, <1>6 DEF RowsKept
  <1> QED BY <1>7, <1>8

(* The rules after the missing ones are created. *)
LEMMA RulesBootstrapped ==
    ASSUME CreditRows, NEW docs, rules' = Bootstrapped(docs)
    PROVE  RulesKept
  <1> DEFINE missing == IF current = 0 THEN {}
                        ELSE ((docs \cap inService) \X RevisionItems[current]) \ DOMAIN rules
             new == [due |-> 0, last |-> Null, default |-> NoOne]
  <1>1. rules' = [k \in DOMAIN rules \cup missing |-> IF k \in DOMAIN rules THEN rules[k] ELSE new]
      BY DEF Bootstrapped
  <1>2. DOMAIN new = {"due", "last", "default"}
      OBVIOUS
  <1>3. \A k \in DOMAIN rules : DOMAIN rules[k] = {"due", "last", "default"}
      BY DEF CreditRows, RuleRowsFit
  <1> HIDE DEF new, missing
  <1> QED BY <1>1, <1>2, <1>3 DEF RulesKept

-----------------------------------------------------------------------------
(* The steps that complete nothing.                                        *)

LEMMA SweepIsQuiet ==
    ASSUME CreditRows, NEW w \in Workers, SweepStep(w) \/ WorkerCrash(w)
    PROVE  QuietStep
  <1>0. today \in Nat /\ today >= today
      BY DEF CreditRows, JobRowsFit
  <1>1. CASE Acquire(w) \/ ResolveRule(w) \/ Release(w) \/ WorkerCrash(w)
    <2>1. UNCHANGED <<rules, jobs, voiding, today>>
        BY <1>1 DEF Acquire, ResolveRule, Release, WorkerCrash
    <2> QED BY <1>0, <2>1, TablesKept DEF QuietStep
  <1>2. CASE ListDueRules(w)
    <2>1. UNCHANGED <<jobs, voiding, today>> /\ rules' = Bootstrapped(Documents)
        BY <1>2 DEF ListDueRules
    <2> QED BY <1>0, <2>1, TablesKept, RulesBootstrapped DEF QuietStep
  <1>3. CASE InsertJob(w)
    <2>1. UNCHANGED <<rules, voiding, today>>
        BY <1>3 DEF InsertJob
    <2>2. UNCHANGED jobs \/ \E d, f, scope, due, who, trace, number, adhoc :
            jobs' = Append(jobs, NewJob(d, f, scope, due, who, trace, number, adhoc))
        BY <1>3, Zenon DEF InsertJob
    <2>3. NothingCompleted /\ RowsKept
        BY <2>2, TablesKept, RowAdded
    <2> QED BY <1>0, <2>1, <2>3, TablesKept DEF QuietStep
  <1> QED BY <1>1, <1>2, <1>3 DEF SweepStep

LEMMA AdhocIsQuiet ==
    ASSUME CreditRows, AdhocInsert
    PROVE  QuietStep
  <1>1. UNCHANGED <<rules, voiding, today>>
      BY DEF AdhocInsert
  <1>2. UNCHANGED jobs \/ \E d, f, scope, due, who, trace, number, adhoc :
          jobs' = Append(jobs, NewJob(d, f, scope, due, who, trace, number, adhoc))
      BY Zenon DEF AdhocInsert
  <1>3. NothingCompleted /\ RowsKept
      BY <1>2, TablesKept, RowAdded
  <1>4. today \in Nat /\ today >= today
      BY DEF CreditRows, JobRowsFit
  <1> QED BY <1>1, <1>3, <1>4, TablesKept DEF QuietStep

(* A job is submitted, assigned or voided before its archive. *)
LEMMA JobStepIsQuiet ==
    ASSUME CreditRows, NEW j \in DOMAIN jobs,
           Submit(j) \/ VoidBeforeArchive(j) \/ \E u \in Technicians : Assign(j, u)
    PROVE  QuietStep
  <1>1. UNCHANGED <<rules, voiding, today>>
      BY DEF Submit, VoidBeforeArchive, Assign
  <1>2. DOMAIN jobs[j] = JobFields
      BY DEF CreditRows, JobRowsFit, RowFits
  <1>3. NothingCompleted /\ RowsKept
    <2>1. ASSUME NEW value, value # "archived", jobs[j].status # "archived",
                 SetJob(j, "status", value)
          PROVE  NothingCompleted /\ RowsKept
      <3> DEFINE row == [jobs[j] EXCEPT !["status"] = value]
      <3>1. /\ DOMAIN row = JobFields /\ row.doc = jobs[j].doc /\ row.scope = jobs[j].scope
            /\ row.verified = jobs[j].verified /\ row.status = value
          BY <1>2 DEF JobFields
      <3>2. jobs' = [jobs EXCEPT ![j] = row]
          BY <2>1 DEF SetJob
      <3> HIDE DEF row
      <3> QED BY <2>1, <3>1, <3>2, RowKept
    <2>2. ASSUME NEW u, Assign(j, u) PROVE NothingCompleted /\ RowsKept
      <3> DEFINE row == [jobs[j] EXCEPT !["assignee"] = u]
      <3>1. /\ DOMAIN row = JobFields /\ row.doc = jobs[j].doc /\ row.scope = jobs[j].scope
            /\ row.verified = jobs[j].verified /\ row.status = jobs[j].status
          BY <1>2 DEF JobFields
      <3>2. jobs' = [jobs EXCEPT ![j] = row] /\ jobs[j].status # "archived"
          BY <2>2 DEF Assign, Assignable, SetJob
      <3> HIDE DEF row
      <3> QED BY <3>1, <3>2, RowKept
    <2>3. CASE Submit(j)
        BY <2>1, <2>3 DEF Submit
    <2>4. CASE VoidBeforeArchive(j)
        BY <2>1, <2>4 DEF VoidBeforeArchive
    <2> QED BY <2>2, <2>3, <2>4
  <1>4. today \in Nat /\ today >= today
      BY DEF CreditRows, JobRowsFit
  <1> QED BY <1>1, <1>3, <1>4, TablesKept DEF QuietStep

(* A batch gives one of its jobs to the standing assignee. *)
LEMMA BatchIsQuiet ==
    ASSUME CreditRows, ApplyNext
    PROVE  QuietStep
  <1>1. UNCHANGED <<rules, voiding, today>>
      BY DEF ApplyNext
  <1>2. UNCHANGED jobs \/ \E j, u : jobs[j].status = "open" /\ SetJob(j, "assignee", u)
      BY DEF ApplyNext, Assignable
  <1>3. NothingCompleted /\ RowsKept
    <2>1. ASSUME NEW j, NEW u, jobs[j].status = "open", SetJob(j, "assignee", u)
          PROVE  NothingCompleted /\ RowsKept
      <3> DEFINE row == [jobs[j] EXCEPT !["assignee"] = u]
      <3>1. jobs' = [jobs EXCEPT ![j] = row]
          BY <2>1 DEF SetJob
      <3>2. CASE j \in DOMAIN jobs
        <4>1. DOMAIN jobs[j] = JobFields
            BY <3>2 DEF CreditRows, JobRowsFit, RowFits
        <4>2. /\ DOMAIN row = JobFields /\ row.doc = jobs[j].doc /\ row.scope = jobs[j].scope
              /\ row.verified = jobs[j].verified /\ row.status = jobs[j].status
            BY <4>1 DEF JobFields
        <4> HIDE DEF row
        <4> QED BY <2>1, <3>1, <3>2, <4>2, RowKept
      <3>3. CASE j \notin DOMAIN jobs
        <4>1. PICK S : jobs \in Seq(S)
            BY DEF CreditRows, JobRowsFit
        <4>2. jobs' = jobs
            BY <3>1, <3>3, <4>1
        <4> QED BY <4>2, TablesKept
      <3> QED BY <3>2, <3>3
    <2> QED BY <1>2, <2>1, TablesKept
  <1>4. today \in Nat /\ today >= today
      BY DEF CreditRows, JobRowsFit
  <1> QED BY <1>1, <1>3, <1>4, TablesKept DEF QuietStep

(* The planner creates missing rules, or edits one. *)
LEMMA PlannerIsQuiet ==
    ASSUME CreditRows,
           \/ \E d \in Documents : ListSchedule(d)
           \/ \E k \in DOMAIN rules :
                \/ \E due \in 0..MaxDay : Adjust(k, due)
                \/ \E u \in Assignees : SetDefaultAssignee(k, u)
    PROVE  QuietStep
  <1>1. UNCHANGED <<jobs, voiding, today>>
      BY DEF ListSchedule, Adjust, SetDefaultAssignee
  <1>2. \A k \in DOMAIN rules : DOMAIN rules[k] = {"due", "last", "default"}
      BY DEF CreditRows, RuleRowsFit
  <1>3. RulesKept
    <2>1. ASSUME NEW d \in Documents, ListSchedule(d) PROVE RulesKept
        BY <2>1, RulesBootstrapped DEF ListSchedule
    <2>2. ASSUME NEW k \in DOMAIN rules, NEW row, rules' = [rules EXCEPT ![k] = row],
                 DOMAIN row = {"due", "last", "default"}, row.last = rules[k].last
          PROVE  RulesKept
        BY <1>2, <2>2 DEF RulesKept
    <2>3. ASSUME NEW k \in DOMAIN rules, NEW due, Adjust(k, due) PROVE RulesKept
      <3> DEFINE row == [rules[k] EXCEPT !.due = due]
      <3>1. rules' = [rules EXCEPT ![k] = row]
          BY <2>3 DEF Adjust
      <3>2. DOMAIN row = {"due", "last", "default"} /\ row.last = rules[k].last
          BY <1>2
      <3> HIDE DEF row
      <3> QED BY <2>2, <3>1, <3>2
    <2>4. ASSUME NEW k \in DOMAIN rules, NEW u, SetDefaultAssignee(k, u) PROVE RulesKept
      <3> DEFINE row == [rules[k] EXCEPT !.default = u]
      <3>1. rules' = [rules EXCEPT ![k] = row]
          BY <2>4 DEF SetDefaultAssignee
      <3>2. DOMAIN row = {"due", "last", "default"} /\ row.last = rules[k].last
          BY <1>2
      <3> HIDE DEF row
      <3> QED BY <2>2, <3>1, <3>2
    <2> QED BY <2>1, <2>3, <2>4
  <1>4. today \in Nat /\ today >= today
      BY DEF CreditRows, JobRowsFit
  <1> QED BY <1>1, <1>3, <1>4, TablesKept DEF QuietStep

(* Nothing the schedule reads changes, except that time passes. *)
LEMMA ElsewhereIsQuiet ==
    ASSUME CreditRows, UNCHANGED <<rules, jobs, voiding>>, UNCHANGED today \/ Tick
    PROVE  QuietStep
  <1>1. today' \in Nat /\ today' >= today
      BY DEF CreditRows, JobRowsFit, Tick
  <1> QED BY <1>1, TablesKept DEF QuietStep

-----------------------------------------------------------------------------
(* The steps that complete work, or take it back.                          *)

(* The last signature: today is the latest completion of what it covers.   *)
LEMMA SignatureKeepsCredit ==
    ASSUME CreditRows, NEW j \in DOMAIN jobs, VerifyLast(j)
    PROVE  StepKeepsCredit
  <1> DEFINE row == [jobs[j] EXCEPT !.status = "archived", !.verified = today]
             d == jobs[j].doc
             scope == jobs[j].scope
  <1>1. /\ jobs[j].status = "submitted" /\ jobs' = [jobs EXCEPT ![j] = row]
        /\ rules' = Advanced(d, scope, today)
        /\ UNCHANGED <<voiding, today>>
      BY DEF VerifyLast
  <1>2. DOMAIN jobs[j] = JobFields /\ today \in Nat
      BY DEF CreditRows, JobRowsFit, RowFits
  <1>3. /\ DOMAIN row = JobFields /\ row.doc = d /\ row.scope = scope
        /\ row.verified = today /\ row.status = "archived"
      BY <1>2 DEF JobFields
  <1>4. PICK S : jobs \in Seq(S)
      BY DEF CreditRows, JobRowsFit
  <1> HIDE DEF row
  <1>5. /\ \E T : jobs' \in Seq(T)
        /\ DOMAIN jobs' = DOMAIN jobs
        /\ jobs'[j] = row
        /\ \A i \in DOMAIN jobs : i # j => jobs'[i] = jobs[i]
      BY <1>1, <1>4, RowWritten
  <1>6. /\ DOMAIN rules' = DOMAIN rules
        /\ \A k \in DOMAIN rules : k[1] = d /\ k[2] \in scope =>
             rules'[k].last = today /\ DOMAIN rules'[k] = {"due", "last", "default"}
        /\ \A k \in DOMAIN rules : ~(k[1] = d /\ k[2] \in scope) => rules'[k] = rules[k]
    <2>1. \A k \in DOMAIN rules : DOMAIN rules[k] = {"due", "last", "default"}
        BY DEF CreditRows, RuleRowsFit
    <2> QED BY <1>1, <2>1 DEF Advanced
  <1>7. JobRowsFit'
    <2>1. ASSUME NEW i \in DOMAIN jobs PROVE RowFits(jobs[i])'
      <3>1. RowFits(jobs[i])
          BY DEF CreditRows, JobRowsFit
      <3>2. CASE i = j
          BY <1>1, <1>2, <1>3, <1>5, <3>2 DEF RowFits
      <3>3. CASE i # j
          BY <1>1, <1>5, <3>1, <3>3 DEF RowFits
      <3> QED BY <3>2, <3>3
    <2> QED BY <1>1, <1>2, <1>5, <2>1 DEF JobRowsFit
  <1>8. RuleRowsFit'
    <2>1. \A k \in DOMAIN rules : DOMAIN rules[k] = {"due", "last", "default"}
        BY DEF CreditRows, RuleRowsFit
    <2> QED BY <1>6, <2>1 DEF RuleRowsFit
  <1>9. VoidIsOpen'
      BY <1>1, <1>5 DEF CreditRows, VoidIsOpen
  <1>10. ASSUME NEW k \in DOMAIN rules, Credited(k) \/ \E i \in DOMAIN jobs : SignsOff(i, k)
         PROVE  Credited(k)'
    <2>0. 0 \notin DOMAIN jobs
        BY <1>4
    <2>1. CASE k[1] = d /\ k[2] \in scope
      <3> DEFINE T == {jobs'[i].verified : i \in Completions(k[1], k[2], 0)'} \cup {Null}
      <3>1. j \in Completions(k[1], k[2], 0)'
          BY <1>3, <1>5, <2>0, <2>1 DEF Completions
      <3>2. today \in T
          BY <1>3, <1>5, <3>1
      <3>3. ASSUME NEW t \in T PROVE t \in Int /\ t <= today
        <4>1. CASE t = Null
            BY <4>1, <1>2 DEF Null
        <4>2. ASSUME NEW i \in Completions(k[1], k[2], 0)', t = jobs'[i].verified
              PROVE  t \in Int /\ t <= today
          <5>1. i \in DOMAIN jobs' /\ jobs'[i].status = "archived"
              BY DEF Completions
          <5>2. jobs'[i].verified \in 0..today'
              BY <1>7, <5>1 DEF JobRowsFit, RowFits
          <5> QED BY <1>1, <1>2, <4>2, <5>2
        <4> QED BY <4>1, <4>2
      <3> HIDE DEF T
      <3>4. T \in SUBSET Int /\ \A t \in T : t <= today
          BY <3>3
      <3>5. Max(T) = today
          BY <3>2, <3>4, MaxIsGreatest
      <3> QED BY <1>6, <2>1, <3>5 DEF T, LatestCompletion, Credited
    <2>2. CASE ~(k[1] = d /\ k[2] \in scope)
      <3>0. ASSUME NEW i \in DOMAIN jobs, SignsOff(i, k) PROVE FALSE
        <4>1. i # j
            BY <2>2, <3>0 DEF SignsOff
        <4>2. jobs'[i] = jobs[i] /\ jobs[i].status = "submitted"
            BY <1>5, <3>0, <4>1 DEF SignsOff, VerifyLast
        <4>3. DOMAIN jobs[i] = JobFields
            BY DEF CreditRows, JobRowsFit, RowFits
        <4> DEFINE other == [jobs[i] EXCEPT !.status = "archived", !.verified = today]
        <4>4. jobs' = [jobs EXCEPT ![i] = other]
            BY <3>0 DEF SignsOff, VerifyLast
        <4>5. other.status = "archived"
            BY <4>3 DEF JobFields
        <4> HIDE DEF other
        <4> QED BY <4>2, <4>4, <4>5
      <3>1. Completions(k[1], k[2], 0)' = Completions(k[1], k[2], 0)
          BY <1>1, <1>3, <1>5, <2>2 DEF Completions
      <3>2. \A i \in Completions(k[1], k[2], 0) : jobs'[i].verified = jobs[i].verified
        <4>1. j \notin Completions(k[1], k[2], 0)
            BY <2>2 DEF Completions
        <4> QED BY <1>5, <4>1 DEF Completions
      <3>3. {jobs'[i].verified : i \in Completions(k[1], k[2], 0)'}
              = {jobs[i].verified : i \in Completions(k[1], k[2], 0)}
          BY <3>1, <3>2
      <3> QED BY <1>6, <1>10, <2>2, <3>0, <3>3 DEF LatestCompletion, Credited
    <2> QED BY <2>1, <2>2
  <1> QED BY <1>6, <1>7, <1>8, <1>9, <1>10 DEF StepKeepsCredit, CreditRows

(* A void reads the completions it will fall back on. *)
LEMMA VoidBeginsQuietly ==
    ASSUME CreditRows, NEW j \in DOMAIN jobs, VoidArchived(j)
    PROVE  StepKeepsCredit
  <1>1. /\ jobs[j].status = "archived" /\ voiding'.job = j
        /\ UNCHANGED <<rules, jobs, today>>
      BY DEF VoidArchived
  <1>2. VoidIsOpen'
      BY <1>1 DEF VoidIsOpen
  <1>3. JobRowsFit' /\ RuleRowsFit'
      BY <1>1 DEF CreditRows, JobRowsFit, RowFits, RuleRowsFit
  <1>4. ASSUME NEW k \in DOMAIN rules, Credited(k) PROVE Credited(k)'
      BY <1>1, <1>4 DEF Credited, LatestCompletion, Completions
  <1>5. ASSUME NEW i \in DOMAIN jobs, VerifyLast(i) PROVE FALSE
    <2>1. DOMAIN jobs[i] = JobFields
        BY DEF CreditRows, JobRowsFit, RowFits
    <2> DEFINE row == [jobs[i] EXCEPT !.status = "archived", !.verified = today]
    <2>2. jobs[i].status = "submitted" /\ jobs' = [jobs EXCEPT ![i] = row]
        BY <1>5 DEF VerifyLast
    <2>3. row.status = "archived"
        BY <2>1 DEF JobFields
    <2> HIDE DEF row
    <2> QED BY <1>1, <2>2, <2>3
  <1> QED BY <1>1, <1>2, <1>3, <1>4, <1>5 DEF StepKeepsCredit, CreditRows, SignsOff

(* The void commits: what it covered falls back on the completions that    *)
(* are left, unless its search has been overtaken.                         *)
LEMMA VoidCommitKeepsCredit ==
    ASSUME CreditRows, VoidCommit
    PROVE  StepKeepsCredit
  <1> DEFINE j == voiding.job
             d == jobs[j].doc
             scope == jobs[j].scope
             prior(f) == IF f = Min(scope) THEN voiding.priors[f] ELSE LatestCompletion(d, f, j)
             row == [jobs[j] EXCEPT !["status"] = "voided"]
  <1>1. /\ voiding.pc = "recompute" /\ voiding' = Idle
        /\ jobs' = [jobs EXCEPT ![j] = row]
        /\ rules' = [k \in DOMAIN rules |->
                       IF k[1] = d /\ k[2] \in scope
                       THEN Recomputed(k, j, prior(k[2])) ELSE rules[k]]
        /\ UNCHANGED today
      BY DEF VoidCommit, SetJob
  <1>2. j \in DOMAIN jobs /\ jobs[j].status = "archived"
      BY <1>1 DEF CreditRows, VoidIsOpen
  <1>3. DOMAIN jobs[j] = JobFields /\ today \in Nat
      BY <1>2 DEF CreditRows, JobRowsFit, RowFits
  <1>4. /\ DOMAIN row = JobFields /\ row.doc = d /\ row.scope = scope
        /\ row.verified = jobs[j].verified /\ row.status = "voided"
      BY <1>3 DEF JobFields
  <1>5. PICK S : jobs \in Seq(S)
      BY DEF CreditRows, JobRowsFit
  <1> HIDE DEF row
  <1>6. /\ \E T : jobs' \in Seq(T)
        /\ DOMAIN jobs' = DOMAIN jobs
        /\ jobs'[j] = row
        /\ \A i \in DOMAIN jobs : i # j => jobs'[i] = jobs[i]
      BY <1>1, <1>2, <1>5, RowWritten
  <1>7. \A k \in DOMAIN rules : DOMAIN rules[k] = {"due", "last", "default"}
      BY DEF CreditRows, RuleRowsFit
  <1>8. ASSUME NEW k \in DOMAIN rules, NEW p
        PROVE  /\ Recomputed(k, j, p).last = p
               /\ DOMAIN Recomputed(k, j, p) = {"due", "last", "default"}
      BY <1>7 DEF Recomputed
  <1>9. /\ DOMAIN rules' = DOMAIN rules
        /\ \A k \in DOMAIN rules : DOMAIN rules'[k] = {"due", "last", "default"}
        /\ \A k \in DOMAIN rules : k[1] = d /\ k[2] \in scope => rules'[k].last = prior(k[2])
        /\ \A k \in DOMAIN rules : ~(k[1] = d /\ k[2] \in scope) => rules'[k] = rules[k]
    <2> HIDE DEF prior, scope, d, j
    <2>1. ASSUME NEW k \in DOMAIN rules, k[1] = d, k[2] \in scope
          PROVE  rules'[k] = Recomputed(k, j, prior(k[2]))
        BY <1>1, <2>1
    <2>2. ASSUME NEW k \in DOMAIN rules, ~(k[1] = d /\ k[2] \in scope)
          PROVE  rules'[k] = rules[k]
        BY <1>1, <2>2
    <2>3. DOMAIN rules' = DOMAIN rules
        BY <1>1
    <2> QED BY <1>7, <1>8, <2>1, <2>2, <2>3
  <1>10. JobRowsFit'
    <2>1. ASSUME NEW i \in DOMAIN jobs PROVE RowFits(jobs[i])'
      <3>1. RowFits(jobs[i])
          BY DEF CreditRows, JobRowsFit
      <3>2. CASE i = j
          BY <1>1, <1>3, <1>4, <1>6, <3>2 DEF RowFits
      <3>3. CASE i # j
          BY <1>1, <1>6, <3>1, <3>3 DEF RowFits
      <3> QED BY <3>2, <3>3
    <2> QED BY <1>1, <1>3, <1>6, <2>1 DEF JobRowsFit
  <1>11. RuleRowsFit' /\ VoidIsOpen'
      BY <1>1, <1>9 DEF RuleRowsFit, VoidIsOpen, Idle
  <1>12. \A i \in DOMAIN jobs : ~VerifyLast(i)
    <2> SUFFICES ASSUME NEW i \in DOMAIN jobs, VerifyLast(i) PROVE FALSE
        OBVIOUS
    <2>1. i # j /\ jobs[i].status = "submitted"
        BY <1>2 DEF VerifyLast
    <2>2. jobs'[j] = jobs[j]
        BY <1>2, <2>1 DEF VerifyLast
    <2> QED BY <1>2, <1>4, <1>6, <2>2
  <1>13. ASSUME NEW k \in DOMAIN rules, Credited(k), ~WritesStaleSearch(k)
         PROVE  Credited(k)'
    <2>0. 0 \notin DOMAIN jobs
        BY <1>5
    <2>1. Completions(k[1], k[2], 0)' = Completions(k[1], k[2], j)
        BY <1>4, <1>6, <2>0 DEF Completions
    <2>2. \A i \in Completions(k[1], k[2], j) : jobs'[i].verified = jobs[i].verified
        BY <1>6 DEF Completions
    <2>3. LatestCompletion(k[1], k[2], 0)' = LatestCompletion(k[1], k[2], j)
      <3>1. {jobs'[i].verified : i \in Completions(k[1], k[2], 0)'}
              = {jobs[i].verified : i \in Completions(k[1], k[2], j)}
          BY <2>1, <2>2
      <3> QED BY <3>1 DEF LatestCompletion
    <2>4. CASE k[1] = d /\ k[2] \in scope
      <3>1. prior(k[2]) = LatestCompletion(k[1], k[2], j)
          BY <1>13, <2>4 DEF WritesStaleSearch
      <3> QED BY <1>9, <2>3, <2>4, <3>1 DEF Credited
    <2>5. CASE ~(k[1] = d /\ k[2] \in scope)
      <3>1. Completions(k[1], k[2], j) = Completions(k[1], k[2], 0)
          BY <2>0, <2>5 DEF Completions
      <3> QED BY <1>9, <1>13, <2>3, <2>5, <3>1 DEF Credited, LatestCompletion
    <2> QED BY <2>4, <2>5
  <1> HIDE DEF prior
  <1> QED BY <1>9, <1>10, <1>11, <1>12, <1>13 DEF StepKeepsCredit, CreditRows, SignsOff

(* However sweeps, signatures, voids, planners' edits and re-issues         *)
(* interleave, one step alone takes from a rule the credit for work that   *)
(* was done: the commit of a void whose search for the previous completion *)
(* a signature has overtaken (the run schedule_void shows it); and every   *)
(* signature sets right the rules its record covers                        *)
(* (completion-cascade.service.ts, void-schedule-recompute.service.ts).    *)
THEOREM CreditIsLostOneWay == SchedSpec => CreditIsKept
  <1>1. SchedInit => CreditRows
    <2> SUFFICES ASSUME SchedInit PROVE CreditRows
        OBVIOUS
    <2>1. jobs = <<>> /\ rules = <<>> /\ today = 0 /\ voiding = Idle
        BY DEF SchedInit
    <2>2. jobs \in Seq({}) /\ DOMAIN jobs = {} /\ DOMAIN rules = {}
        BY <2>1
    <2>3. Idle.pc # "recompute"
        BY DEF Idle
    <2> QED BY <2>1, <2>2, <2>3 DEF CreditRows, JobRowsFit, RuleRowsFit, VoidIsOpen
  <1>2. CreditRows /\ [SchedNext]_schedVars => StepKeepsCredit
    <2> SUFFICES ASSUME CreditRows, [SchedNext]_schedVars PROVE StepKeepsCredit
        OBVIOUS
    <2>1. CASE VoidCommit
        BY <2>1, VoidCommitKeepsCredit
    <2>2. CASE UNCHANGED schedVars
        BY <2>2, ElsewhereIsQuiet, QuietStepKeepsCredit DEF schedVars
    <2>3. CASE SchedNext /\ ~VoidCommit
      <3>1. CASE \E w \in Workers : SweepStep(w) \/ WorkerCrash(w)
          BY <3>1, SweepIsQuiet, QuietStepKeepsCredit
      <3>2. CASE \/ LockExpires \/ Tick \/ Publish
                 \/ \E d \in Documents, u \in Assignees : AdhocCreate(d, u)
                 \/ \E d \in Documents : SetDocumentActive(d)
                 \/ \E k \in DOMAIN rules : \E u \in Assignees : ApplyDefault(k, u)
                 \/ \E u \in Technicians : SetEligible(u)
        <4>1. UNCHANGED <<rules, jobs, voiding>> /\ (UNCHANGED today \/ Tick)
            BY <3>2 DEF LockExpires, Tick, Publish, AdhocCreate, SetDocumentActive, ApplyDefault, SetEligible
        <4> QED BY <4>1, ElsewhereIsQuiet, QuietStepKeepsCredit
      <3>3. CASE AdhocInsert
          BY <3>3, AdhocIsQuiet, QuietStepKeepsCredit
      <3>4. CASE \E j \in DOMAIN jobs :
                   Submit(j) \/ VoidBeforeArchive(j) \/ \E u \in Technicians : Assign(j, u)
          BY <3>4, JobStepIsQuiet, QuietStepKeepsCredit
      <3>5. CASE \E j \in DOMAIN jobs : VerifyLast(j)
          BY <3>5, SignatureKeepsCredit
      <3>6. CASE \E j \in DOMAIN jobs : VoidArchived(j)
          BY <3>6, VoidBeginsQuietly
      <3>7. CASE \/ \E d \in Documents : ListSchedule(d)
                 \/ \E k \in DOMAIN rules :
                      \/ \E due \in 0..MaxDay : Adjust(k, due)
                      \/ \E u \in Assignees : SetDefaultAssignee(k, u)
          BY <3>7, PlannerIsQuiet, QuietStepKeepsCredit
      <3>8. CASE ApplyNext
          BY <3>8, BatchIsQuiet, QuietStepKeepsCredit
      <3> QED BY <2>3, <3>1, <3>2, <3>3, <3>4, <3>5, <3>6, <3>7, <3>8 DEF SchedNext
    <2> QED BY <2>1, <2>2, <2>3
  <1>3. StepKeepsCredit => CreditRows'
      BY DEF StepKeepsCredit
  <1>4. StepKeepsCredit =>
          \A k \in DOMAIN rules :
            /\ (Credited(k) \/ \E j \in DOMAIN jobs : SignsOff(j, k))
            /\ ~WritesStaleSearch(k)
            => k \in DOMAIN rules' /\ Credited(k)'
      BY DEF StepKeepsCredit
  <1> QED BY <1>1, <1>2, <1>3, <1>4, PTL DEF SchedSpec, CreditIsKept

-----------------------------------------------------------------------------
(* The lease of a sweep.                                                   *)

(* A worker within its lease is the one whose token is stored. *)
LeaseIsTheLock == leased \subseteq Workers /\ \A w \in leased : lock = w

(* However sweeps outlive their leases, crash and end late, no two sweeps  *)
(* within their leases overlap (scheduler-lock.service.ts).                *)
THEOREM LeasesExclude == SchedSpec => []LeasedSweepsAreAlone
  <1>1. SchedInit => LeaseIsTheLock
      BY DEF SchedInit, LeaseIsTheLock
  <1>2. LeaseIsTheLock /\ [SchedNext]_schedVars => LeaseIsTheLock'
    <2> SUFFICES ASSUME LeaseIsTheLock, [SchedNext]_schedVars PROVE LeaseIsTheLock'
        OBVIOUS
    <2>1. ASSUME NEW w \in Workers, Acquire(w) PROVE LeaseIsTheLock'
      <3>1. NoOne \notin Workers
          BY SchedulingAssumption DEF SchedulingAssumption
      <3>2. leased = {}
          BY <2>1, <3>1 DEF Acquire, LeaseIsTheLock
      <3> QED BY <2>1, <3>2 DEF Acquire, LeaseIsTheLock
    <2>2. ASSUME NEW w \in Workers, Release(w) PROVE LeaseIsTheLock'
      <3>1. leased' = leased \ {w} /\ lock' = IF lock = w THEN NoOne ELSE lock
          BY <2>2 DEF Release, ReleasedBy
      <3> QED BY <3>1 DEF LeaseIsTheLock
    <2>3. ASSUME NEW w \in Workers, WorkerCrash(w) PROVE LeaseIsTheLock'
        BY <2>3 DEF WorkerCrash, LeaseIsTheLock
    <2>4. CASE LockExpires
        BY <2>4 DEF LockExpires, LeaseIsTheLock
    <2>5. CASE UNCHANGED <<lock, leased>>
        BY <2>5 DEF LeaseIsTheLock
    <2>6. \/ LockExpires \/ UNCHANGED <<lock, leased>>
          \/ \E w \in Workers : Acquire(w) \/ Release(w) \/ WorkerCrash(w)
      <3>1. CASE \E w \in Workers : ListDueRules(w) \/ ResolveRule(w) \/ InsertJob(w)
          BY <3>1 DEF ListDueRules, ResolveRule, InsertJob
      <3>2. CASE \/ \E d \in Documents, u \in Assignees : AdhocCreate(d, u)
                 \/ AdhocInsert
                 \/ \E j \in DOMAIN jobs : \/ Submit(j) \/ VerifyLast(j)
                                          \/ VoidBeforeArchive(j) \/ VoidArchived(j)
                                          \/ \E u \in Technicians : Assign(j, u)
          BY <3>2 DEF AdhocCreate, AdhocInsert, Submit, VerifyLast, VoidBeforeArchive, VoidArchived, Assign
      <3>3. CASE \/ \E d \in Documents : ListSchedule(d) \/ SetDocumentActive(d)
                 \/ \E k \in DOMAIN rules : \/ \E due \in 0..MaxDay : Adjust(k, due)
                                           \/ \E u \in Assignees :
                                                SetDefaultAssignee(k, u) \/ ApplyDefault(k, u)
          BY <3>3 DEF ListSchedule, SetDocumentActive, Adjust, SetDefaultAssignee, ApplyDefault
      <3>4. CASE \/ ApplyNext \/ Publish \/ Tick \/ VoidCommit \/ UNCHANGED schedVars
                 \/ \E u \in Technicians : SetEligible(u)
          BY <3>4 DEF ApplyNext, Publish, Tick, VoidCommit, SetEligible, schedVars
      <3> QED BY <3>1, <3>2, <3>3, <3>4 DEF SchedNext, SweepStep
    <2> QED BY <2>1, <2>2, <2>3, <2>4, <2>5, <2>6
  <1>3. LeaseIsTheLock => LeasedSweepsAreAlone
      BY DEF LeaseIsTheLock, LeasedSweepsAreAlone
  <1> QED BY <1>1, <1>2, <1>3, PTL DEF SchedSpec
=============================================================================
