------------------------------ MODULE MCRecord ------------------------------
(***************************************************************************)
(* A record at its two ends: the server's signing of it, and the screen on *)
(* which a technician captures it (an item result, a part, the form number *)
(* and a photo, at most two outbox rows).  Every behaviour is of one end,  *)
(* with the other at rest.                                                 *)
(***************************************************************************)
EXTENDS MCJobLifecycle, CaptureScreen

VARIABLE end              \* the end this behaviour is about

Quiet == submission.phase = "none" /\ jobState = "open" /\ ~bootstrapping
NothingTyped == capture.typed = NoText /\ capture.timers = NoText
NoBlank == \A e \in TypedEntries : "blank" \notin {capture.typed[e], capture.timers[e], capture.late[e]}

(* What the instance leaves out of the screen: photos, which do not pass   *)
(* through the outbox, are under way only when nothing else is; a box is   *)
(* typed in, or a refusal decided on, outside a submission and a bootstrap,*)
(* and typed in while the job is open and no read waits to be applied; text*)
(* left behind is written while no drain is under way; a blank is typed,   *)
(* and a second row made, while the job is open and nothing else goes on.  *)
SmallState ==
    /\ \/ capture.photos = NoPhotos
       \/ /\ Quiet /\ NothingTyped /\ capture.late = NoText
          /\ rowsMade = 0 /\ reads = NoReads /\ ~cachedJob.answerLost
    /\ capture.late # NoText => NothingTyped /\ submission.phase = "none" /\ draining = "no"
    /\ NoBlank \/ Quiet
    /\ jobState = "open" \/ (NothingTyped /\ capture.late = NoText)
    /\ NothingTyped \/ (~bootstrapping /\ ~reads.ready)
    /\ submission.phase = "none" \/ (NothingTyped /\ ~capture.recovering)
    /\ rowsMade = 2 => Quiet /\ NothingTyped /\ capture.late = NoText /\ ~cachedJob.answerLost

(* And the second row takes a part back or is the form number.             *)
SmallCapture ==
    /\ SmallState'
    /\ rowsMade = 1 /\ rowsMade' = 2 =>
         LET row == LastRow(heldRows') IN row.active => row.entry \in FoldedEntries

RecordInit ==
    /\ end \in {"server", "screen"}
    /\ Init
    /\ CaptureInit
    /\ IF end = "server" THEN cachedJob = Uncached ELSE job.assignedTo = s

RecordNext ==
    /\ UNCHANGED end
    /\ \/ end = "server" /\ Next /\ UNCHANGED captureVars
       \/ end = "screen" /\ CaptureNext /\ SmallCapture /\ UNCHANGED vars

RecordSpec == RecordInit /\ [][RecordNext]_<<vars, captureVars, end>>
=============================================================================
