---------------------------- MODULE TemplateLoad ----------------------------
(***************************************************************************)
(* The template loader (scripts/template-load/src/loader): a program that  *)
(* drives the revision endpoints as an author and an approver, one call at *)
(* a time, to bring a template to what its committed YAML says.  It may    *)
(* die between any two calls, or after a call whose answer it never saw;   *)
(* the runbook's recovery is to run it again.  The YAML may be corrected   *)
(* between two runs.  While it loads, nobody else edits the template.      *)
(***************************************************************************)
EXTENDS TemplateRevisions

CONSTANTS
    Author, Approver, \* the loader's two accounts
    Plan,             \* buildRevisionPlan: revision codes as printed, the last one with content
    Yaml,             \* versions of the YAML: <<part -> text, ...>>
    SampleMachines,   \* machines wanted for the asset type
    MaxLoads          \* bound on the runs of the loader

ASSUME TemplateLoadAssumption ==
    /\ Author # Approver
    /\ Plan \in Seq(STRING) /\ Len(Plan) > 0
    /\ Yaml \in Seq([Parts -> Texts]) /\ Len(Yaml) > 0

VARIABLES
    load,             \* the running loader: step, plan index, revision, calls left, action
    existing,         \* the revisions it listed when it started
    yaml,             \* the committed version
    template,         \* whether form_template has the document
    masters,          \* asset type and sample machines: type, machines, tagged
    loads             \* runs started so far

loadVars == <<load, existing, yaml, template, masters, loads>>

NotRunning == [step |-> "stopped", index |-> 0, rev |-> 0, calls |-> <<>>, action |-> "none"]

LoadInit ==
    /\ RevisionsInit
    /\ load = NotRunning /\ existing = <<>>
    /\ yaml = 1 /\ template = FALSE
    /\ masters = [type |-> FALSE, machines |-> 0, tagged |-> 0]
    /\ loads = 0

(* Local values are compared with stored ones as the contract stores them. *)
sameUnderContract(stored, printed) == stored = contractTrim(printed)

FinalCode == Plan[Len(Plan)]

(* A comparison that leaves the measurements out.                          *)
contentMatches_NoMeasurements(i) ==
    \A part \in Parts \ {"measurements"} : revisions[i].content[part] = Yaml[yaml][part]

contentMatches(i) == revisions[i].content = Yaml[yaml]

putContent == <<"standing", "items", "measurements">>
emptyContent == <<"no items", "no measurements">>
approveWithStepUp == <<"approve">>
submitAndApprove == <<"submit">> \o approveWithStepUp

Running(step) == load.step = step

runLoad ==
    /\ Running("stopped") /\ loads < MaxLoads
    /\ loads' = loads + 1
    /\ load' = [NotRunning EXCEPT !.step = "template"]
    /\ existing' = <<>>
    /\ UNCHANGED <<revisions, revRequests, yaml, template, masters>>

loadTemplate ==
    /\ Running("template")
    /\ template' = TRUE
    /\ load' = [load EXCEPT !.step = "list", !.action = IF template THEN "resumed" ELSE "created"]
    /\ UNCHANGED <<revisions, revRequests, existing, yaml, masters, loads>>

(* GET /revisions, and what the plan makes of it.                          *)
loadDocument ==
    LET current == CurrentOf(revisions)
        final == \E i \in current : sameUnderContract(revisions[i].code, FinalCode)
    IN
    /\ Running("list")
    /\ existing' = revisions
    /\ \/ /\ final /\ \A i \in current : contentMatches(i)
          /\ load' = [load EXCEPT !.step = "finish", !.action = "unchanged"]
       \/ /\ final /\ \E i \in current : ~contentMatches(i)
          /\ load' = [load EXCEPT !.step = "correct", !.action = "updated"]
       \/ ~final /\ load' = [load EXCEPT !.step = "plan", !.index = 1]
    /\ UNCHANGED <<revisions, revRequests, yaml, template, masters, loads>>

(* POST /revisions, with the calls that follow it.                         *)
PostRevision(code, calls, step) ==
    /\ Len(revisions) < MaxRevisions
    /\ revisions' = Created(code, Author, CopiedContent)
    /\ load' = [load EXCEPT !.step = step, !.rev = nextSequenceOrdinal, !.calls = calls]
    /\ UNCHANGED <<revRequests, existing, yaml, template, masters, loads>>

correctiveRevision ==
    /\ Running("correct")
    /\ PostRevision(FinalCode, putContent \o submitAndApprove, "calls, then finish")

ContentCalls == IF load.index = Len(Plan) THEN putContent ELSE emptyContent

planRevision ==
    /\ Running("plan") /\ load.index <= Len(Plan)
    /\ load.index > Len(existing)
    /\ PostRevision(Plan[load.index], ContentCalls \o submitAndApprove, "calls, then plan")

resumeRevision ==
    LET row == existing[load.index] IN
    /\ Running("plan") /\ load.index <= Len(Plan) /\ load.index <= Len(existing)
    /\ \/ /\ ~sameUnderContract(row.code, Plan[load.index]) \/ row.status = "rejected"
          /\ load' = [load EXCEPT !.step = "refused"]
       \/ /\ sameUnderContract(row.code, Plan[load.index])
          /\ \/ /\ row.status \in {"current", "superseded"}
                /\ load' = [load EXCEPT !.index = @ + 1]
             \/ /\ row.status = "draft"
                /\ load' = [load EXCEPT !.step = "calls, then plan", !.rev = load.index,
                                        !.calls = ContentCalls \o submitAndApprove]
             \/ /\ row.status = "pending_approval"
                /\ load' = [load EXCEPT !.step = "calls, then plan", !.rev = load.index,
                                        !.calls = approveWithStepUp]
    /\ UNCHANGED <<revisions, revRequests, existing, yaml, template, masters, loads>>

planDone ==
    /\ Running("plan") /\ load.index > Len(Plan)
    /\ load' = [load EXCEPT !.step = "finish"]
    /\ UNCHANGED <<revisions, revRequests, existing, yaml, template, masters, loads>>

(* One call of the author or the approver, as the endpoint handles it.     *)
Effect(call, i) ==
    CASE call \in Parts -> Replaced(i, call, Yaml[yaml][call])
      [] call = "no items" -> Replaced(i, "items", "none")
      [] call = "no measurements" -> Replaced(i, "measurements", "none")
      [] call = "submit" -> Submitted(i)
      [] call = "approve" -> Approved(i)

Accepted(call, i) == IF call = "approve" THEN assertPendingApproval(i) ELSE assertDraft(i)

callApi ==
    /\ load.step \in {"calls, then plan", "calls, then finish"} /\ load.calls # <<>>
    /\ Accepted(Head(load.calls), load.rev)
    /\ revisions' = Effect(Head(load.calls), load.rev)
    /\ load' = [load EXCEPT !.calls = Tail(@)]
    /\ UNCHANGED <<revRequests, existing, yaml, template, masters, loads>>

callsDone ==
    /\ load.calls = <<>>
    /\ \/ /\ Running("calls, then plan")
          /\ load' = [load EXCEPT !.step = "plan", !.index = @ + 1]
       \/ /\ Running("calls, then finish")
          /\ load' = [load EXCEPT !.step = "finish"]
    /\ UNCHANGED <<revisions, revRequests, existing, yaml, template, masters, loads>>

(* The asset type, its sample machines, and their tags.                    *)
finishDocument ==
    /\ Running("finish")
    /\ \/ /\ ~masters.type /\ masters' = [masters EXCEPT !.type = TRUE] /\ UNCHANGED load
       \/ /\ masters.type /\ masters.machines < SampleMachines
          /\ masters' = [masters EXCEPT !.machines = @ + 1] /\ UNCHANGED load
       \/ /\ masters.type /\ masters.machines >= SampleMachines /\ masters.tagged < masters.machines
          /\ masters' = [masters EXCEPT !.tagged = @ + 1] /\ UNCHANGED load
       \/ /\ masters.type /\ masters.machines >= SampleMachines /\ masters.tagged = masters.machines
          /\ load' = [load EXCEPT !.step = "done"] /\ UNCHANGED masters
    /\ UNCHANGED <<revisions, revRequests, existing, yaml, template, loads>>

(* The run ends, or dies: what it had done stays done.                     *)
LoaderStops ==
    /\ ~Running("stopped")
    /\ load' = NotRunning
    /\ existing' = <<>>
    /\ UNCHANGED <<revisions, revRequests, yaml, template, masters, loads>>

YamlCorrected ==
    /\ Running("stopped") /\ yaml < Len(Yaml)
    /\ yaml' = yaml + 1
    /\ UNCHANGED <<revisions, revRequests, load, existing, template, masters, loads>>

LoadNext ==
    \/ runLoad \/ loadTemplate \/ loadDocument \/ correctiveRevision
    \/ planRevision \/ resumeRevision \/ planDone \/ callApi \/ callsDone \/ finishDocument
    \/ LoaderStops \/ YamlCorrected

LoadSpec == LoadInit /\ [][LoadNext]_<<revisionVars, loadVars>>

-----------------------------------------------------------------------------

LoadTypeOK ==
    /\ load.index \in 0 .. Len(Plan) + 1 /\ load.rev \in 0 .. MaxRevisions
    /\ load.action \in {"none", "created", "resumed", "updated", "unchanged"}
    /\ masters.tagged <= masters.machines /\ masters.machines <= SampleMachines

(* Running the loader again is a recovery, whatever call an earlier run    *)
(* died at: a template only the loader touched is never refused as         *)
(* somebody else's, and when a document is reported created, updated or    *)
(* unchanged, the template's current revision is what the YAML says and    *)
(* bears its code (runLoad, loadDocument).                                 *)
LoadRecovers ==
    /\ ~Running("refused")
    /\ Running("done") /\ load.action # "resumed" =>
          \E i \in CurrentOf(revisions) :
              revisions[i].content = Yaml[yaml] /\ sameUnderContract(revisions[i].code, FinalCode)
=============================================================================
