---------------------------- MODULE CaptureScreen ----------------------------
(***************************************************************************)
(* The capture screen (web/src/screens/RecordCapture): one technician's    *)
(* record of one job.  Item results and parts are put into the device's    *)
(* outbox at once, readings and the form number after a debounce; what the *)
(* screen knows of the outbox it reads back asynchronously, while a drain  *)
(* sends rows in the background.  Photos go straight to the server.  The   *)
(* record is signed and submitted from this screen.                        *)
(*                                                                         *)
(* The outbox itself (versions, lost answers, overlapping drains) is       *)
(* module OfflineSync; here one drain is under way at a time, and a row of *)
(* its batch is applied, refused (conflict or failed), or left for later.  *)
(***************************************************************************)
EXTENDS Naturals, FiniteSets

CONSTANTS
    ItemEntries,      \* item results: appended at once
    PartEntries,      \* parts used: appended at once, kept under an id the device made
    TypedEntries,     \* readings and the form number: appended after the debounce
    FoldedEntries,    \* the form number: an acknowledgement is folded into the cached job
    AsksFormNumber,    \* the form's title has a blank the form number must fill
    Photos,           \* photos the technician takes
    MaxRows           \* bound on rows ever appended

Entries == ItemEntries \cup PartEntries \cup TypedEntries

ASSUME CaptureAssumption ==
    /\ FoldedEntries \subseteq TypedEntries
    /\ PartEntries \cap (ItemEntries \cup TypedEntries) = {}
    /\ MaxRows \in Nat

VARIABLES
    heldRows,         \* the job's outbox rows; their ids are the order they were made in
    rowsMade,         \* rows appended so far
    accepted,         \* entry -> the row the server has of it (0: none, removed or blank)
    applied,          \* ids of the rows the server has ever applied
    cachedJob,        \* the device's copy of the job: see Copy, or Uncached
    jobState,         \* the job on the server: open, closed (submitted, voided), or gone to somebody else
    draining,         \* no, or the drain's round: sent, answered (nothing acked so far) or acked
    bootstrapping,    \* the job list asked for a bootstrap that has not landed
    reads,            \* refreshState: asked for, and what was read and not yet applied
    submission,       \* a submission under way, which outlives the screen: see NoSubmission
    capture           \* the screen: see NewScreen

serverVars == <<accepted, applied>>
deviceVars == <<heldRows, rowsMade, serverVars, cachedJob>>
roundVars == <<jobState, draining, bootstrapping>>
captureVars == <<deviceVars, roundVars, reads, submission, capture>>

Uncached == [there |-> FALSE]

(* The job as the server gives it now.  answerLost: a submit key is kept    *)
(* whose request was committed.                                            *)
Copy(answerLost) ==
    [there |-> TRUE, rows |-> accepted, editable |-> jobState = "open", removed |-> FALSE,
     answerLost |-> answerLost]

NoParts == [p \in PartEntries |-> 0]

NoReads == [asked |-> FALSE, ready |-> FALSE, count |-> 0, stuck |-> FALSE, parts |-> NoParts]

(* What is in a box and not yet made a row: nothing, some text, or a blank. *)
NoText == [e \in TypedEntries |-> "no"]

NoPhotos == [p \in Photos |-> "none"]

(* phase: none, checking or posting; signed is what the device held when   *)
(* the technician had signed.                                              *)
NoSubmission == [phase |-> "none", signed |-> {}]

(* stage: reading, unreadable, missing, editing, signing or left.  shown   *)
(* is the row behind each entry on the screen (0: none, or blank).  typed  *)
(* is text on the glass that is not shown from a row, timers what is to be *)
(* written when the debounce ends, and late what a screen left behind      *)
(* before then.  counts and stuck are what it last read of the outbox;     *)
(* owed is what it has not read again since entries were discarded.        *)
NewScreen ==
    [stage |-> "reading", shown |-> [e \in Entries |-> 0],
     typed |-> NoText, timers |-> NoText, late |-> NoText, owed |-> {},
     fetchTried |-> FALSE, counts |-> 0, stuck |-> FALSE, editable |-> FALSE, removed |-> FALSE,
     photos |-> NoPhotos, recovering |-> FALSE]

CaptureInit ==
    /\ heldRows = {} /\ rowsMade = 0
    /\ accepted = [e \in Entries |-> 0] /\ applied = {}
    /\ jobState = "open" /\ draining = "no" /\ bootstrapping = TRUE /\ reads = NoReads
    /\ cachedJob \in {Uncached, Copy(FALSE)}
    /\ submission = NoSubmission
    /\ capture = NewScreen

HeldIds == {row.id : row \in heldRows}
FirstRow(rows) == CHOOSE row \in rows : \A other \in rows : row.id <= other.id
LastRow(rows) == CHOOSE row \in rows : \A other \in rows : other.id <= row.id
WithStatus(statuses) == {row \in heldRows : row.status \in statuses}
retained == WithStatus({"conflict", "failed"})
needsRecovery == retained # {}
OnScreen == capture.stage \in {"editing", "signing"}

(* refreshState is asked for, reads the outbox some time later, and what   *)
(* it read is applied later still; calls are served in order, so a call    *)
(* that has not read yet stands for the ones after it.                     *)
refreshState == reads' = IF capture.stage = "left" THEN reads ELSE [reads EXCEPT !.asked = TRUE]

(* What the screen offers: the checklist and the readings; the form number *)
(* where the title has a blank, and the parts, while the copy it loaded    *)
(* could be edited; the two ways out of rows the server refused.           *)
FormNumberOffered == OnScreen /\ AsksFormNumber /\ capture.editable
EntriesOffered(e) == IF e \in FoldedEntries THEN FormNumberOffered ELSE OnScreen
PartsOffered == OnScreen /\ capture.editable
RecoveryOffered == OnScreen /\ capture.stuck /\ ~capture.recovering

-----------------------------------------------------------------------------
(* Opening the screen.                                                     *)

RowsOf(e) == {row \in heldRows : row.entry = e}

(* What a row puts on the glass: itself, or nothing when it takes a part   *)
(* back or blanks a box.                                                   *)
Shown(row) == IF row.active THEN row.id ELSE 0

(* The form number a row on its way carries wins over the cached one, when *)
(* the outbox could be read; item results and readings are shown as the    *)
(* cached job has them.                                                    *)
pendingTitleMachineNumber(e, outboxRead) ==
    LET unsent == RowsOf(e) \cap WithStatus({"pending", "sending"})
    IN  IF outboxRead /\ e \in FoldedEntries /\ unsent # {} THEN Shown(LastRow(unsent))
        ELSE cachedJob.rows[e]

(* The parts on screen: the last queued row of a part decides, removal     *)
(* included; the cached job fills in the rest.                             *)
mergedParts ==
    [p \in PartEntries |->
        IF RowsOf(p) # {} THEN Shown(LastRow(RowsOf(p)))
        ELSE IF cachedJob.there THEN cachedJob.rows[p] ELSE 0]

(* The boxes are filled from the copy, whatever was in them; a debounce    *)
(* under way goes on.                                                      *)
Shows(screen, outboxRead) ==
    [screen EXCEPT !.shown = [e \in Entries |-> IF e \in PartEntries THEN screen.shown[e]
                                                ELSE pendingTitleMachineNumber(e, outboxRead)],
                   !.typed = NoText, !.owed = @ \ {"job"},
                   !.editable = cachedJob.editable, !.removed = cachedJob.removed]

loadCached ==
    /\ capture.stage = "reading"
    /\ \/ /\ cachedJob.there
          /\ \E outboxRead \in BOOLEAN :
                capture' = [Shows(capture, outboxRead) EXCEPT !.stage = "editing", !.fetchTried = FALSE]
       \/ ~cachedJob.there /\ capture' = [capture EXCEPT !.stage = "missing"]
       \/ capture' = [capture EXCEPT !.stage = "unreadable"]     \* the device's storage fails
    /\ refreshState
    /\ UNCHANGED <<deviceVars, roundVars, submission>>

(* A bootstrap's answer: it lists the job in every state while it is the   *)
(* technician's, and leaves a job with unsent rows alone.  A job that is    *)
(* not listed is not named as deleted either, and stays as it was.         *)
Bootstrapped ==
    IF jobState = "gone" \/ (cachedJob.there /\ heldRows # {}) THEN cachedJob
    ELSE Copy(cachedJob.there /\ cachedJob.answerLost)

bootstrapLands ==
    /\ bootstrapping /\ bootstrapping' = FALSE
    /\ cachedJob' \in {cachedJob, Bootstrapped}                  \* it may fail
    /\ UNCHANGED <<heldRows, rowsMade, serverVars, jobState, draining, reads, capture, submission>>

(* A job that is not on the device is fetched once, when online.           *)
fetchMissingJob ==
    /\ capture.stage = "missing" /\ ~capture.fetchTried
    /\ \/ /\ cachedJob' = Bootstrapped
          /\ capture' = [capture EXCEPT !.stage = "reading", !.fetchTried = TRUE]
       \/ cachedJob' = cachedJob /\ capture' = [capture EXCEPT !.fetchTried = TRUE]
    /\ UNCHANGED <<roundVars, heldRows, rowsMade, serverVars, reads, submission>>

(* All of it is read or, when the device's storage fails, nothing.         *)
refreshReads ==
    /\ reads.asked /\ ~reads.ready
    /\ \/ reads' = [asked |-> FALSE, ready |-> TRUE, count |-> Cardinality(heldRows),
                    stuck |-> needsRecovery, parts |-> mergedParts]
       \/ reads' = [reads EXCEPT !.asked = FALSE]
    /\ UNCHANGED <<deviceVars, roundVars, capture, submission>>

refreshApplied ==
    /\ reads.ready
    /\ capture' = [capture EXCEPT !.counts = reads.count, !.stuck = reads.stuck,
                           !.shown = [e \in Entries |-> IF e \in PartEntries THEN reads.parts[e] ELSE @[e]],
                           !.owed = IF reads.asked \/ capture.recovering THEN @ ELSE @ \ {"parts"}]
    /\ reads' = [reads EXCEPT !.ready = FALSE, !.count = 0, !.stuck = FALSE, !.parts = NoParts]
    /\ UNCHANGED <<deviceVars, roundVars, submission>>

-----------------------------------------------------------------------------
(* Entries.                                                                *)

(* The next row goes in, or the device refuses it (full, or a fault) and   *)
(* the screen says so and shows what it showed before.                     *)
appendOrReport(e, active, before, after) ==
    \/ /\ rowsMade < MaxRows
       /\ rowsMade' = rowsMade + 1
       /\ heldRows' = heldRows \cup {[id |-> rowsMade + 1, entry |-> e, active |-> active,
                                       status |-> "pending"]}
       /\ capture' = after
       /\ refreshState
    \/ /\ capture' = before
       /\ UNCHANGED <<heldRows, rowsMade, reads>>

Recorded(screen, e) == [screen EXCEPT !.shown[e] = rowsMade + 1]

(* Showing the entry whether or not the device took it.                    *)
recordItemStatus_Optimistic(e) ==
    /\ OnScreen /\ rowsMade < MaxRows
    /\ rowsMade' = rowsMade + 1
    /\ capture' = [capture EXCEPT !.shown[e] = rowsMade + 1]
    /\ \/ heldRows' = heldRows \cup {[id |-> rowsMade + 1, entry |-> e, active |-> TRUE,
                                       status |-> "pending"]}
       \/ UNCHANGED heldRows
    /\ refreshState
    /\ UNCHANGED <<roundVars, serverVars, cachedJob, submission>>

recordItemStatus(e) ==
    /\ EntriesOffered(e)
    /\ appendOrReport(e, TRUE, capture, Recorded(capture, e))
    /\ UNCHANGED <<roundVars, serverVars, cachedJob, submission>>

(* Adding a part and editing one are the same put; a removal is a put that *)
(* says inactive.                                                          *)
savePart(p) ==
    /\ PartsOffered
    /\ appendOrReport(p, TRUE, capture, Recorded(capture, p))
    /\ UNCHANGED <<roundVars, serverVars, cachedJob, submission>>

removePart(p) ==
    /\ PartsOffered /\ capture.shown[p] # 0
    /\ appendOrReport(p, FALSE, capture, [capture EXCEPT !.shown[p] = 0])
    /\ UNCHANGED <<roundVars, serverVars, cachedJob, submission>>

(* The text is on the glass at once and stays there whether or not a row   *)
(* of it can be made; the box may have been filled anew from the copy by   *)
(* the time the debounce ends.                                             *)
recordMeasurement(e) ==
    /\ EntriesOffered(e) /\ rowsMade < MaxRows
    /\ \E text \in {"text", "blank"} :
          capture' = [capture EXCEPT !.typed[e] = text, !.timers[e] = text]
    /\ UNCHANGED <<deviceVars, roundVars, reads, submission>>

Written(screen, e) ==
    IF screen.typed[e] = "no" THEN screen
    ELSE [screen EXCEPT !.typed[e] = "no",
                        !.shown[e] = IF screen.typed[e] = "text" THEN rowsMade + 1 ELSE 0]

debounceFires(e) ==
    /\ capture.timers[e] # "no"
    /\ LET ended == [capture EXCEPT !.timers[e] = "no"]
       IN  appendOrReport(e, capture.timers[e] = "text", ended, Written(ended, e))
    /\ UNCHANGED <<roundVars, serverVars, cachedJob, submission>>

(* Leaving the screen ends the debounce of the form number, and the        *)
(* readings' timers outlive it; neither is shown on a screen opened since. *)
flushTitleMachineNumber(e) ==
    /\ capture.late[e] # "no"
    /\ LET ended == [capture EXCEPT !.late[e] = "no"]
       IN  appendOrReport(e, capture.late[e] = "text", ended, ended)
    /\ UNCHANGED <<roundVars, serverVars, cachedJob, submission>>

-----------------------------------------------------------------------------
(* The background drain, and what the server makes of a row.               *)

(* What a drain may send: rows never sent, and rows the server refused     *)
(* that are not conflicts.                                                 *)
listDrainable == WithStatus({"pending", "failed"})

(* All of it is claimed and sent as one batch (MAX_BATCH_SIZE is above     *)
(* MaxRows here; module OfflineSync has it smaller).                       *)
drain ==
    /\ listDrainable # {}
    /\ heldRows' = (heldRows \ listDrainable) \cup {[row EXCEPT !.status = "sending"] : row \in listDrainable}
    /\ draining' = "sent"
    /\ UNCHANGED <<rowsMade, serverVars, cachedJob, jobState, bootstrapping, reads, capture, submission>>

triggerDrainIfOnline == draining = "no" /\ drain

(* Another round while the last one brought something through.             *)
drainAll == draining = "acked" /\ WithStatus({"sending"}) = {} /\ drain

(* An acknowledgement updates the cached job only for the form number.     *)
confirmAck(row) ==
    IF cachedJob.there /\ row.entry \in FoldedEntries
    THEN [cachedJob EXCEPT !.rows[row.entry] = Shown(row)] ELSE cachedJob

(* The rows of the batch are settled in the order they were made in, each  *)
(* by its own result: a refused one does not hold back the next.           *)
rowAnswered ==
    LET batch == WithStatus({"sending"})
        head == FirstRow(batch)
    IN
    /\ batch # {}
    /\ \/ /\ jobState = "open"
          /\ heldRows' = heldRows \ {head}
          /\ accepted' = [accepted EXCEPT ![head.entry] = Shown(head)]
          /\ applied' = applied \cup {head.id}
          /\ cachedJob' = confirmAck(head)
          /\ draining' = "acked"
       \/ /\ \E status \in {"conflict", "failed"} :
                heldRows' = (heldRows \ {head}) \cup {[head EXCEPT !.status = status]}
          /\ draining' = IF draining = "sent" THEN "answered" ELSE draining
          /\ UNCHANGED <<serverVars, cachedJob>>
    /\ UNCHANGED <<jobState, bootstrapping, rowsMade, reads, capture, submission>>

(* The request failed: every row of the batch is put back as pending.      *)
batchUnanswered ==
    /\ draining = "sent"
    /\ heldRows' = {IF row.status = "sending" THEN [row EXCEPT !.status = "pending"] ELSE row : row \in heldRows}
    /\ draining' = "answered"
    /\ UNCHANGED <<rowsMade, serverVars, cachedJob, jobState, bootstrapping, reads, capture, submission>>

(* The drain is over, and every screen reads again; a job that was missing *)
(* is looked for.                                                          *)
notifySynced ==
    /\ draining # "no" /\ WithStatus({"sending"}) = {}
    /\ draining = "acked" => listDrainable = {}
    /\ draining' = "no"
    /\ refreshState
    /\ capture' = IF capture.stage = "missing" THEN [capture EXCEPT !.stage = "reading"] ELSE capture
    /\ UNCHANGED <<deviceVars, jobState, bootstrapping, submission>>

(* keep-mine queues the refused rows again; accept-server drops them.      *)
(* Rows of a job the server refuses to give can only be dropped, and the   *)
(* copy is marked; any other copy is replaced by the server's.             *)
recoverConflicts(keep) ==
    /\ RecoveryOffered
    /\ jobState = "gone" => ~keep
    /\ heldRows' = (heldRows \ retained)
                    \cup (IF keep THEN {[row EXCEPT !.status = "pending"] : row \in retained} ELSE {})
    /\ cachedJob' = IF jobState = "gone" THEN [cachedJob EXCEPT !.removed = TRUE]
                    ELSE Copy(cachedJob.answerLost)
    /\ capture' = [capture EXCEPT !.recovering = TRUE,
                                  !.owed = IF keep THEN @ ELSE {"job", "parts"}]
    /\ UNCHANGED <<roundVars, rowsMade, serverVars, reads, submission>>

(* loadCached after it: the device's copy replaces what was on screen, or  *)
(* the device's storage fails and the screen stays as it was.              *)
recovered ==
    /\ OnScreen /\ capture.recovering
    /\ \/ \E outboxRead \in BOOLEAN : capture' = [Shows(capture, outboxRead) EXCEPT !.recovering = FALSE]
       \/ capture' = [capture EXCEPT !.recovering = FALSE]
    /\ refreshState
    /\ UNCHANGED <<deviceVars, roundVars, submission>>

-----------------------------------------------------------------------------
(* Photos: a failed upload is staged for another try; one the server has   *)
(* is no longer the screen's.                                              *)

PhotoMoves(p, from, to) ==
    /\ OnScreen /\ capture.photos[p] \in from
    /\ capture' = [capture EXCEPT !.photos[p] = to]
    /\ UNCHANGED <<deviceVars, roundVars, reads, submission>>

stagePhotos(p) == PhotoMoves(p, {"none"}, "staged")
removePhoto(p) == PhotoMoves(p, {"staged"}, "none")
uploadPhoto(p) == PhotoMoves(p, {"staged"}, "uploading")
uploadAnswered(p) == \E to \in {"none", "staged"} : PhotoMoves(p, {"uploading"}, to)

pendingPhotos == {p \in Photos : capture.photos[p] # "none"}

-----------------------------------------------------------------------------
(* Signing and submitting.                                                 *)

(* The box is empty, whatever the device holds of it.                      *)
titleMachineNumberMissing ==
    /\ AsksFormNumber
    /\ \E e \in FoldedEntries : IF capture.typed[e] = "no" THEN capture.shown[e] = 0
                                 ELSE capture.typed[e] = "blank"

canSubmit ==
    /\ capture.counts = 0 /\ ~capture.removed /\ ~capture.stuck /\ pendingPhotos = {}
    /\ ~titleMachineNumberMissing

ScreenOnly(screen) ==
    /\ capture' = screen
    /\ UNCHANGED <<deviceVars, roundVars, reads, submission>>

(* One submission at a time: attempts of two contexts that overlap are in  *)
(* module OfflineSync.                                                     *)
startSigning ==
    /\ capture.stage = "editing" /\ canSubmit /\ submission.phase = "none"
    /\ ScreenOnly([capture EXCEPT !.stage = "signing"])

cancelSigning ==
    /\ capture.stage = "signing"
    /\ ScreenOnly([capture EXCEPT !.stage = "editing"])

(* The pad is done: what the device holds now is part of what was signed.  *)
handleSubmit ==
    /\ capture.stage = "signing"
    /\ capture' = [capture EXCEPT !.stage = "editing"]
    /\ submission' = [phase |-> "checking", signed |-> HeldIds]
    /\ UNCHANGED <<deviceVars, roundVars, reads>>

(* submitJob: no row of the job may remain.                                *)
pendingMutations_TrustsScreen == capture.counts > 0

pendingMutations == heldRows # {}

submitJob ==
    /\ submission.phase = "checking"
    /\ IF cachedJob.removed \/ pendingMutations
       THEN submission' = NoSubmission /\ refreshState
       ELSE submission' = [submission EXCEPT !.phase = "posting"] /\ UNCHANGED reads
    /\ UNCHANGED <<deviceVars, roundVars, capture>>

(* Accepted, now or by an attempt whose answer was lost; refused; or no    *)
(* answer, and the key is kept.  Success goes to the job list, wherever    *)
(* the technician is by then.                                              *)
Left == [NewScreen EXCEPT !.stage = "left",
                          !.late = [e \in TypedEntries |-> IF capture.timers[e] = "no" THEN capture.late[e]
                                                             ELSE capture.timers[e]]]

submitAccepted ==
    /\ \/ cachedJob.answerLost /\ UNCHANGED jobState
       \/ ~cachedJob.answerLost /\ jobState = "open" /\ jobState' = "closed"
    /\ cachedJob' = [cachedJob EXCEPT !.answerLost = FALSE]
    /\ capture' = Left /\ bootstrapping' = TRUE /\ reads' = NoReads

submitRefused ==
    /\ cachedJob' = [cachedJob EXCEPT !.answerLost = FALSE]
    /\ refreshState
    /\ UNCHANGED <<jobState, capture, bootstrapping>>

submitUnanswered ==
    /\ \/ /\ jobState = "open" /\ ~cachedJob.answerLost
          /\ jobState' = "closed" /\ cachedJob' = [cachedJob EXCEPT !.answerLost = TRUE]
       \/ UNCHANGED <<jobState, cachedJob>>
    /\ refreshState
    /\ UNCHANGED <<capture, bootstrapping>>

submitAnswered ==
    /\ submission.phase = "posting" /\ submission' = NoSubmission
    /\ submitAccepted \/ submitRefused \/ submitUnanswered
    /\ UNCHANGED <<heldRows, rowsMade, serverVars, draining>>

-----------------------------------------------------------------------------
(* Leaving, and coming back.                                               *)

(* With photos not uploaded the person is asked, and stays or loses them.  *)
(* A submission under way goes on.  The job list, which is next,           *)
(* bootstraps.                                                             *)
handleBack ==
    /\ OnScreen \/ capture.stage \in {"missing", "unreadable"}
    /\ capture' = Left
    /\ bootstrapping' = TRUE /\ reads' = NoReads
    /\ UNCHANGED <<deviceVars, jobState, draining, submission>>

openAgain ==
    /\ capture.stage = "left"
    /\ capture' = [NewScreen EXCEPT !.late = capture.late]
    /\ UNCHANGED <<deviceVars, roundVars, reads, submission>>

(* Elsewhere: an open job is reassigned, submitted from another device or  *)
(* voided; a submitted one is returned.                                    *)
jobChanges ==
    /\ \/ jobState = "open" /\ jobState' \in {"gone", "closed"}
       \/ jobState = "closed" /\ jobState' = "open"
    /\ UNCHANGED <<deviceVars, draining, bootstrapping, reads, submission, capture>>

CaptureNext ==
    \/ loadCached \/ bootstrapLands \/ fetchMissingJob \/ refreshReads \/ refreshApplied
    \/ \E e \in ItemEntries : recordItemStatus(e)
    \/ \E p \in PartEntries : savePart(p) \/ removePart(p)
    \/ \E e \in TypedEntries : recordMeasurement(e) \/ debounceFires(e) \/ flushTitleMachineNumber(e)
    \/ triggerDrainIfOnline \/ drainAll \/ rowAnswered \/ batchUnanswered \/ notifySynced
    \/ \E keep \in BOOLEAN : recoverConflicts(keep)
    \/ recovered
    \/ \E p \in Photos : stagePhotos(p) \/ removePhoto(p) \/ uploadPhoto(p) \/ uploadAnswered(p)
    \/ startSigning \/ cancelSigning \/ handleSubmit \/ submitJob \/ submitAnswered
    \/ handleBack \/ openAgain \/ jobChanges

CaptureSpec == CaptureInit /\ [][CaptureNext]_captureVars

-----------------------------------------------------------------------------

(* A submission goes out only with everything the device held when the     *)
(* technician finished signing already on the server, whatever the screen  *)
(* believed about the outbox when it offered the pad (submitJob,           *)
(* handleSubmit).                                                          *)
SubmitCarriesWhatWasSigned ==
    submission.phase = "posting" => submission.signed \cap HeldIds = {}

Behind(e) == capture.shown[e] \in HeldIds \cup applied \cup {0}

(* An entry the screen shows from a row is held on the device or was       *)
(* applied by the server (perhaps replaced since): item results, parts,    *)
(* and the readings and form number loaded or written, through failed      *)
(* writes, refusals of one row of a batch and not the next, and recovery   *)
(* (appendOrReport, drain, recoverConflicts, refreshState).  Not said of   *)
(* text still in a box: it is on the glass before it is written and stays  *)
(* when the write fails.  Nor after a discard until the screen has read    *)
(* again what the entry is shown from, which a fault of the device's       *)
(* storage can put off for as long as the screen is open.                  *)
ShownEntryIsHeld ==
    OnScreen =>
        /\ "job" \notin capture.owed => \A e \in ItemEntries \cup TypedEntries : Behind(e)
        /\ "parts" \notin capture.owed => \A p \in PartEntries : Behind(p)
=============================================================================
