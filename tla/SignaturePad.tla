---------------------------- MODULE SignaturePad ----------------------------
(***************************************************************************)
(* The drawn signature (web/src/components/SignaturePad) under the screen  *)
(* that shows it: the technician's capture screen, which closes the pad    *)
(* when it hands a signature over, and the verifier's review screen, which *)
(* disables it while the request is out.  The component remembers that a   *)
(* stroke was drawn; the canvas is what is sent.                           *)
(***************************************************************************)
EXTENDS Naturals

CONSTANT MaxStrokes       \* bound on strokes in one behaviour

ASSUME PadAssumption == MaxStrokes \in Nat

VARIABLES
    pad,        \* the mounted component, or Unmounted
    strokes,    \* strokes begun so far
    sent        \* the signature last handed over: none, drawn or blank, and
                \* whether the canvas had lost a stroke since the last one began

padVars == <<pad, strokes, sent>>

Unmounted == [screen |-> "none", disabled |-> FALSE, drawing |-> FALSE,
              hasInk |-> FALSE, inked |-> FALSE, wiped |-> FALSE]
NothingSent == [image |-> "none", wiped |-> FALSE]

PadTypeOK ==
    /\ pad \in [screen : {"none", "capture", "review"}, disabled : BOOLEAN, drawing : BOOLEAN,
                hasInk : BOOLEAN, inked : BOOLEAN, wiped : BOOLEAN]
    /\ strokes \in 0 .. MaxStrokes
    /\ sent \in [image : {"none", "drawn", "blank"}, wiped : BOOLEAN]

PadInit == pad = Unmounted /\ strokes = 0 /\ sent = NothingSent

-----------------------------------------------------------------------------
Mounted == pad.screen # "none"

OpenPad(screen) ==
    /\ ~Mounted
    /\ pad' = [Unmounted EXCEPT !.screen = screen]
    /\ UNCHANGED <<strokes, sent>>

(* Sizing the canvas clears it.  It runs when the window is resized and in *)
(* the effect that depends on disabled; hasInk and a stroke under way stay.*)
resizeCanvasToDisplaySize(p) == [p EXCEPT !.inked = FALSE, !.wiped = TRUE]

onResize ==
    /\ Mounted
    /\ pad' = resizeCanvasToDisplaySize(pad)
    /\ UNCHANGED <<strokes, sent>>

handlePointerDown ==
    /\ Mounted /\ ~pad.disabled /\ strokes < MaxStrokes
    /\ pad' = [pad EXCEPT !.drawing = TRUE, !.inked = TRUE, !.hasInk = TRUE, !.wiped = FALSE]
    /\ strokes' = strokes + 1
    /\ UNCHANGED sent

(* A move draws while a stroke is under way, disabled or not. *)
handlePointerMove ==
    /\ Mounted /\ pad.drawing
    /\ pad' = [pad EXCEPT !.inked = TRUE]
    /\ UNCHANGED <<strokes, sent>>

(* pointerup, pointerleave, pointercancel. *)
endStroke ==
    /\ Mounted /\ pad.drawing
    /\ pad' = [pad EXCEPT !.drawing = FALSE]
    /\ UNCHANGED <<strokes, sent>>

handleClear_KeepsFlag ==
    /\ Mounted /\ ~pad.disabled
    /\ pad' = [pad EXCEPT !.inked = FALSE]
    /\ UNCHANGED <<strokes, sent>>

handleClear ==
    /\ Mounted /\ ~pad.disabled
    /\ pad' = [pad EXCEPT !.hasInk = FALSE, !.inked = FALSE]
    /\ UNCHANGED <<strokes, sent>>

(* Done without a stroke is an error message.  Otherwise the canvas goes   *)
(* to the screen: capture closes the pad (handleSubmit), review sends it   *)
(* with the pad disabled (attemptVerify), which sizes the canvas again.    *)
handleDone ==
    /\ Mounted /\ ~pad.disabled /\ pad.hasInk
    /\ sent' = [image |-> IF pad.inked THEN "drawn" ELSE "blank", wiped |-> pad.wiped]
    /\ pad' = IF pad.screen = "capture" THEN Unmounted
              ELSE resizeCanvasToDisplaySize([pad EXCEPT !.disabled = TRUE])
    /\ UNCHANGED strokes

(* The server answered: accepted, refused or asked for the password, and   *)
(* the panel closes.  An exception leaves it open, enabled and sized anew. *)
verifyAnswered ==
    /\ Mounted /\ pad.disabled
    /\ \/ pad' = Unmounted
       \/ pad' = resizeCanvasToDisplaySize([pad EXCEPT !.disabled = FALSE])
    /\ UNCHANGED <<strokes, sent>>

onCancel ==
    /\ Mounted /\ ~pad.disabled
    /\ pad' = Unmounted
    /\ UNCHANGED <<strokes, sent>>

PadNext ==
    \/ \E screen \in {"capture", "review"} : OpenPad(screen)
    \/ onResize
    \/ handlePointerDown \/ handlePointerMove \/ endStroke
    \/ handleClear \/ handleDone
    \/ verifyAnswered \/ onCancel

PadSpec == PadInit /\ [][PadNext]_padVars

-----------------------------------------------------------------------------
(* A blank image is handed over as a signature only where the canvas was   *)
(* sized again after the last stroke began (a rotated tablet, a request    *)
(* that threw): pressing Done before signing, or after Clear, or on a pad  *)
(* that was reopened never does it.                                        *)
BlankOnlyAfterWipe == sent.image = "blank" => sent.wiped
=============================================================================
