------------------------- MODULE TemplateRevisions -------------------------
(***************************************************************************)
(* The revisions of one form template (api/src/templates/revisions.service *)
(* and revision-transitions).  Every handler reads the revision, checks    *)
(* its status on what it read, and writes in a transaction that does not   *)
(* look at the status again: only the unique indexes, the contiguity       *)
(* trigger and the approver check are evaluated at the write.              *)
(*                                                                         *)
(* A revision's content is three parts (standing content, items,           *)
(* measurements), each either empty or some text.                          *)
(***************************************************************************)
EXTENDS Naturals, Sequences, FiniteSets

CONSTANTS
    Editors,          \* people who may author and approve
    RevRequests,      \* requests under way at once
    Codes,            \* revision codes as typed
    Texts,            \* what a part may say, besides "none"
    MaxRevisions      \* bound on the revisions of the template

VARIABLES
    revisions,        \* template_revision rows, by sequence_ordinal
    revRequests       \* request -> what it read, or NoRevRequest

revisionVars == <<revisions, revRequests>>

Parts == {"standing", "items", "measurements"}
Empty == [x \in Parts |-> "none"]
NoRevRequest == [op |-> "none"]

RevisionStatuses == {"draft", "pending_approval", "current", "superseded", "rejected"}

RevisionsInit ==
    /\ revisions = <<>>
    /\ revRequests = [k \in RevRequests |-> NoRevRequest]

Ordinals == DOMAIN revisions
CurrentOf(rows) == {i \in DOMAIN rows : rows[i].status = "current"}

(* What zod's .trim() stores for a code: the printed code "B " is kept as "B".*)
contractTrim(code) == IF code = "B " THEN "B" ELSE code

-----------------------------------------------------------------------------
(* The writes, as functions of the rows.                                   *)

nextSequenceOrdinal == Len(revisions) + 1

CopiedContent == IF CurrentOf(revisions) = {} THEN Empty
                 ELSE revisions[CHOOSE i \in CurrentOf(revisions) : TRUE].content

(* INSERT: the ordinal must be the next one when the row is written.       *)
Contiguous(ordinal) == ordinal = nextSequenceOrdinal

Created(code, who, content) ==
    Append(revisions, [code |-> contractTrim(code), status |-> "draft", author |-> who,
                       content |-> content])

Replaced(i, part, text) == [revisions EXCEPT ![i].content[part] = text]

Submitted(i) == [revisions EXCEPT ![i].status = "pending_approval"]

(* The previous current row is superseded before the new one is current.   *)
Approved(i) ==
    [j \in Ordinals |->
        [revisions[j] EXCEPT !.status = IF j = i THEN "current"
                                        ELSE IF @ = "current" THEN "superseded" ELSE @]]

Rejected(i) == [revisions EXCEPT ![i].status = "rejected"]

-----------------------------------------------------------------------------
(* Requests: the check on the snapshot, then the write.                    *)

assertDraft_LiveToo(i) == revisions[i].status \in {"draft", "current"}

assertDraft(i) == revisions[i].status = "draft"
assertPendingApproval(i) == revisions[i].status = "pending_approval"
assertNotSelfApproval(i, who) == revisions[i].author # who

ReadRevision(k, op, i, who) ==
    /\ revRequests[k] = NoRevRequest
    /\ revRequests' = [revRequests EXCEPT ![k] =
          [op |-> op, rev |-> i, by |-> who]]
    /\ UNCHANGED revisions

ReadForEdit(k, i, who) == assertDraft(i) /\ ReadRevision(k, "edit", i, who)
ReadForSubmit(k, i, who) == assertDraft(i) /\ ReadRevision(k, "submit", i, who)
ReadForReject(k, i, who) == assertPendingApproval(i) /\ ReadRevision(k, "reject", i, who)
ReadForApprove(k, i, who) ==
    /\ assertPendingApproval(i) /\ assertNotSelfApproval(i, who)
    /\ ReadRevision(k, "approve", i, who)

ReadForCreate(k, who) ==
    /\ revRequests[k] = NoRevRequest /\ Len(revisions) < MaxRevisions
    /\ revRequests' = [revRequests EXCEPT ![k] =
          [op |-> "create", rev |-> nextSequenceOrdinal, by |-> who, read |-> CopiedContent]]
    /\ UNCHANGED revisions

Writes(k, rows) ==
    /\ revisions' = rows
    /\ revRequests' = [revRequests EXCEPT ![k] = NoRevRequest]

create(k, code) ==
    /\ revRequests[k].op = "create" /\ Contiguous(revRequests[k].rev)
    /\ Writes(k, Created(code, revRequests[k].by, revRequests[k].read))

Edits(k, part, text) == revRequests[k].op = "edit" /\ Writes(k, Replaced(revRequests[k].rev, part, text))

patch(k, text) == Edits(k, "standing", text)
replaceItems(k, text) == Edits(k, "items", text)
replaceMeasurements(k, text) == Edits(k, "measurements", text)

submit(k) == revRequests[k].op = "submit" /\ Writes(k, Submitted(revRequests[k].rev))
reject(k) == revRequests[k].op = "reject" /\ Writes(k, Rejected(revRequests[k].rev))

(* Two approvals overlap: the one that read the other's row as not current *)
(* supersedes the row that was current when it looked, and its own row     *)
(* then meets the partial unique index.                                    *)
OneCurrentIndex(rows) == Cardinality(CurrentOf(rows)) <= 1

previousCurrent(k) ==
    /\ revRequests[k].op = "approve"
    /\ revRequests' = [revRequests EXCEPT ![k] =
          [op |-> "superseding", rev |-> @.rev, by |-> @.by, previous |-> CurrentOf(revisions)]]
    /\ UNCHANGED revisions

Superseding(k) ==
    LET q == revRequests[k] IN
    [j \in Ordinals |->
        [revisions[j] EXCEPT !.status = IF j = q.rev THEN "current"
                                        ELSE IF j \in q.previous THEN "superseded" ELSE @]]

approve(k) ==
    /\ revRequests[k].op = "superseding" /\ OneCurrentIndex(Superseding(k))
    /\ Writes(k, Superseding(k))

(* A sequence gap, a second current row, or a dropped connection.          *)
RequestFails(k) ==
    /\ revRequests[k] # NoRevRequest
    /\ revRequests' = [revRequests EXCEPT ![k] = NoRevRequest]
    /\ UNCHANGED revisions

RevisionsNext ==
    \E k \in RevRequests :
        \/ \E who \in Editors :
             \/ ReadForCreate(k, who)
             \/ \E i \in Ordinals : \/ ReadForEdit(k, i, who) \/ ReadForSubmit(k, i, who)
                                    \/ ReadForApprove(k, i, who) \/ ReadForReject(k, i, who)
        \/ \E code \in Codes : create(k, code)
        \/ \E text \in Texts : patch(k, text) \/ replaceItems(k, text) \/ replaceMeasurements(k, text)
        \/ submit(k) \/ reject(k)
        \/ previousCurrent(k) \/ approve(k)
        \/ RequestFails(k)

RevisionsSpec == RevisionsInit /\ [][RevisionsNext]_revisionVars

-----------------------------------------------------------------------------

RevisionsTypeOK ==
    \A i \in Ordinals :
        /\ revisions[i].status \in RevisionStatuses
        /\ revisions[i].author \in Editors
        /\ revisions[i].content \in [Parts -> Texts \cup {"none"}]

(* Rows that jobs were or may be raised from.                              *)
Issued(i) == revisions[i].status \in {"current", "superseded"}

(* A request on its way to the row that read it before it was issued.      *)
UnderWayTo(i) ==
    \E k \in RevRequests : /\ revRequests[k].op \notin {"none", "create"}
                          /\ revRequests[k].rev = i

(* Once the last request that had read it as a draft or as pending is      *)
(* over, a current or superseded revision is frozen for good: no edit,     *)
(* submission or rejection reaches it, no approval but its successor's     *)
(* moves it, and nobody can begin one that would (assertDraft,             *)
(* assertPendingApproval).  Until then a late one does land on it, for the *)
(* writes do not look at the status again.                                 *)
FrozenOnceIssued ==
    [][\A i \in Ordinals : Issued(i) /\ ~UnderWayTo(i)
         => /\ revisions'[i].content = revisions[i].content
            /\ Issued(i)' /\ ~UnderWayTo(i)']_revisionVars
=============================================================================
