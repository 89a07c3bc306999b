--------------------------- MODULE VisitAssignment ---------------------------
(***************************************************************************)
(* Who does a visit (web/src/components/VisitAssignment, AssigneePicker;   *)
(* api/src/jobs/rule-default-assignment.service): the panel of one rule's  *)
(* visit, on two levels.  The plan names who normally does it, which only  *)
(* decides about jobs still to be raised; a job already raised has its own *)
(* holder.  When the plan is given a name and jobs of it are unassigned,   *)
(* the panel offers to hand those over as well.                            *)
(***************************************************************************)
EXTENDS Naturals, FiniteSets

CONSTANTS
    PlanPeople,       \* technicians
    Unassigned,
    PlanJobs,         \* jobs the rule may have raised
    BatchLimit        \* MAX_APPLY_DEFAULT_BATCH

ASSUME VisitAssignmentAssumption ==
    /\ Unassigned \notin PlanPeople /\ BatchLimit \in Nat
    /\ {"unraised", "submitted"} \cap (PlanPeople \cup {Unassigned}) = {}

VARIABLES
    planAssignee,     \* the rule's standing assignee, on the server
    jobHolder,        \* job -> its holder, Unassigned, "unraised" or "submitted"
    assignable,       \* who may be assigned to this machine now
    picker,           \* the open picker: none, default or job; its list and choice
    offer,            \* the offer: nothing, or the person and the job count
    handover,         \* a confirmed offer under way on the server
    contested         \* history: jobs of its list given to somebody since

visitVars == <<planAssignee, jobHolder, assignable, picker, offer, handover, contested>>

NoPicker == [for |-> "none", read |-> FALSE, list |-> {}, choice |-> Unassigned]
NoOffer == [open |-> FALSE, person |-> Unassigned, count |-> 0, outcome |-> FALSE]
NoHandover == [busy |-> FALSE, checked |-> FALSE, person |-> Unassigned, todo |-> {},
               left |-> FALSE]

UnassignedOf == {j \in PlanJobs : jobHolder[j] = Unassigned}
Reassignable == {j \in PlanJobs : jobHolder[j] \in PlanPeople \cup {Unassigned}}

VisitInit ==
    /\ planAssignee = Unassigned /\ jobHolder = [j \in PlanJobs |-> "unraised"]
    /\ assignable = PlanPeople /\ picker = NoPicker /\ offer = NoOffer
    /\ handover = NoHandover /\ contested = {}

-----------------------------------------------------------------------------
(* The picker: its list is read once; while an offer is open there is none.*)

openPicker(level) ==
    /\ ~offer.open /\ picker.for = "none"
    /\ level = "default" \/ Reassignable # {}
    /\ picker' = [NoPicker EXCEPT !.for = level, !.choice = IF level = "default" THEN planAssignee ELSE Unassigned]
    /\ UNCHANGED <<planAssignee, jobHolder, assignable, offer, handover, contested>>

listAssignableUsers ==
    /\ picker.for # "none" /\ ~picker.read
    /\ picker' \in {[picker EXCEPT !.read = TRUE, !.list = assignable], [picker EXCEPT !.read = TRUE]}
    /\ UNCHANGED <<planAssignee, jobHolder, assignable, offer, handover, contested>>

(* Clearing is offered for the plan only.                                  *)
choosePerson(p) ==
    /\ picker.read /\ p # picker.choice
    /\ p \in picker.list \/ (p = Unassigned /\ picker.for = "default")
    /\ picker' = [picker EXCEPT !.choice = p]
    /\ UNCHANGED <<planAssignee, jobHolder, assignable, offer, handover, contested>>

cancelPicker ==
    /\ picker.for # "none" /\ picker' = NoPicker
    /\ UNCHANGED <<planAssignee, jobHolder, assignable, offer, handover, contested>>

-----------------------------------------------------------------------------
(* Saving.  The server checks the person again (assertAssignable).         *)

assertAssignable(p) == p = Unassigned \/ p \in assignable

setScheduleDefaultAssignee ==
    /\ picker.for = "default" /\ picker.choice # planAssignee /\ assertAssignable(picker.choice)
    /\ planAssignee' = picker.choice /\ picker' = NoPicker
    /\ offer' = IF picker.choice # Unassigned /\ UnassignedOf # {}
                THEN [open |-> TRUE, person |-> picker.choice, count |-> Cardinality(UnassignedOf),
                      outcome |-> FALSE]
                ELSE offer
    /\ UNCHANGED <<jobHolder, assignable, handover, contested>>

assignThisJob(j) ==
    /\ picker.for = "job" /\ picker.choice # Unassigned /\ picker.choice # jobHolder[j]
    /\ j \in Reassignable /\ assertAssignable(picker.choice)
    /\ jobHolder' = [jobHolder EXCEPT ![j] = picker.choice] /\ picker' = NoPicker
    /\ UNCHANGED <<planAssignee, assignable, offer, handover, contested>>

saveRefused ==
    /\ picker.for # "none" /\ ~assertAssignable(picker.choice)
    /\ picker' = [picker EXCEPT !.choice = Unassigned]
    /\ UNCHANGED <<planAssignee, jobHolder, assignable, offer, handover, contested>>

-----------------------------------------------------------------------------
(* The offer.                                                              *)

leaveThem ==
    /\ offer.open /\ ~handover.busy /\ offer' = NoOffer
    /\ UNCHANGED <<planAssignee, jobHolder, assignable, picker, handover, contested>>

applyToExisting ==
    /\ offer.open /\ ~offer.outcome /\ ~handover.busy
    /\ handover' = [NoHandover EXCEPT !.busy = TRUE, !.person = offer.person]
    /\ UNCHANGED <<planAssignee, jobHolder, assignable, picker, offer, contested>>

(* The server: the name in the request must still be the plan's; then the  *)
(* unassigned jobs are listed, up to the limit.                            *)
applyChecked ==
    /\ handover.busy /\ ~handover.checked
    /\ IF planAssignee # handover.person
       THEN handover' = NoHandover
       ELSE \E todo \in SUBSET UnassignedOf :
               /\ Cardinality(todo) = (IF Cardinality(UnassignedOf) < BatchLimit
                                       THEN Cardinality(UnassignedOf) ELSE BatchLimit)
               /\ handover' = [handover EXCEPT !.checked = TRUE, !.todo = todo, !.left = (todo # UnassignedOf)]
    /\ contested' = {}
    /\ UNCHANGED <<planAssignee, jobHolder, assignable, picker, offer>>

(* One job of the list: assigned like any other, whoever holds it by now,  *)
(* or refused.                                                             *)
assignOne(j) ==
    /\ handover.checked /\ j \in handover.todo
    /\ IF j \in Reassignable /\ assertAssignable(handover.person)
       THEN /\ jobHolder' = [jobHolder EXCEPT ![j] = handover.person]
            /\ handover' = [handover EXCEPT !.todo = @ \ {j}]
       ELSE /\ handover' = [handover EXCEPT !.todo = @ \ {j}, !.left = TRUE]
            /\ UNCHANGED jobHolder
    /\ UNCHANGED <<planAssignee, assignable, picker, offer, contested>>

(* None refused and none beyond the limit: the panel is done; otherwise it *)
(* says which.                                                             *)
applyAnswered ==
    /\ handover.checked /\ handover.todo = {} /\ handover' = NoHandover
    /\ offer' = IF handover.left THEN [offer EXCEPT !.outcome = TRUE] ELSE NoOffer
    /\ UNCHANGED <<planAssignee, jobHolder, assignable, picker, contested>>

-----------------------------------------------------------------------------
(* Everything else: the scheduler, other planners, the job's own life.     *)

visitRaised(j) ==
    /\ jobHolder[j] = "unraised"
    /\ jobHolder' = [jobHolder EXCEPT ![j] = IF planAssignee \in assignable THEN planAssignee ELSE Unassigned]
    /\ UNCHANGED <<planAssignee, assignable, picker, offer, handover, contested>>

jobSubmitted(j) ==
    /\ jobHolder[j] \in PlanPeople
    /\ jobHolder' = [jobHolder EXCEPT ![j] = "submitted"]
    /\ UNCHANGED <<planAssignee, assignable, picker, offer, handover, contested>>

otherNames(p) ==
    /\ p # planAssignee /\ assertAssignable(p) /\ planAssignee' = p
    /\ UNCHANGED <<jobHolder, assignable, picker, offer, handover, contested>>

(* POST /jobs/{jobId}/assign from somebody else's screen.                  *)
otherAssigns(j, p) ==
    /\ j \in Reassignable /\ p # jobHolder[j] /\ p # Unassigned /\ assertAssignable(p)
    /\ jobHolder' = [jobHolder EXCEPT ![j] = p]
    /\ contested' = contested \cup ({j} \cap handover.todo)
    /\ UNCHANGED <<planAssignee, assignable, picker, offer, handover>>

eligibilityChanges ==
    /\ \E p \in PlanPeople :
          assignable' = IF p \in assignable THEN assignable \ {p} ELSE assignable \cup {p}
    /\ UNCHANGED <<planAssignee, jobHolder, picker, offer, handover, contested>>

VisitNext ==
    \/ \E level \in {"default", "job"} : openPicker(level)
    \/ listAssignableUsers \/ cancelPicker
    \/ \E p \in PlanPeople \cup {Unassigned} : choosePerson(p) \/ otherNames(p)
    \/ setScheduleDefaultAssignee \/ saveRefused
    \/ leaveThem \/ applyToExisting \/ applyChecked \/ applyAnswered
    \/ \E j \in PlanJobs, p \in PlanPeople : otherAssigns(j, p)
    \/ \E j \in PlanJobs : assignThisJob(j) \/ assignOne(j) \/ visitRaised(j) \/ jobSubmitted(j)
    \/ eligibilityChanges

VisitSpec == VisitInit /\ [][VisitNext]_visitVars

-----------------------------------------------------------------------------

VisitTypeOK ==
    /\ planAssignee \in PlanPeople \cup {Unassigned} /\ assignable \subseteq PlanPeople
    /\ \A j \in PlanJobs : jobHolder[j] \in PlanPeople \cup {Unassigned, "unraised", "submitted"}
    /\ offer.person \in PlanPeople \cup {Unassigned} /\ handover.todo \subseteq PlanJobs

(* The batch hands a job to the person the open offer names, however the    *)
(* plan was renamed meanwhile, and takes it from somebody only when it was  *)
(* given to them after the batch had listed it.  That it does so then is    *)
(* not what rule-default-assignment.service.ts:31 says ("A job with         *)
(* somebody on it is never touched"): the list is read once, and the       *)
(* assignments that follow do not look (applyToExistingJobs).               *)
BatchHandsOverNobodysJobs ==
    [][\A j \in handover.todo \ handover'.todo :
          jobHolder'[j] # jobHolder[j] =>
              /\ offer.open /\ jobHolder'[j] = offer.person
              /\ jobHolder[j] = Unassigned \/ j \in contested]_visitVars
=============================================================================
