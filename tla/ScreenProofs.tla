---------------------------- MODULE ScreenProofs ----------------------------
(***************************************************************************)
(* Proofs about the screens, for every set of machines, documents and      *)
(* people and any number of answers under way: the signature pad           *)
(* (SignaturePad), the form that raises a job (RaiseJobForm), the capture  *)
(* screen (CaptureScreen), the year plan (PlannerScreen) and its calendar  *)
(* (PlanCalendar).                                                         *)
(***************************************************************************)
EXTENDS SignaturePad, RaiseJobForm, CaptureScreen, PlannerScreen, OrderLemmas

-----------------------------------------------------------------------------
(* SignaturePad.                                                           *)

(* A pad that remembers a stroke shows ink or has been sized since the     *)
(* stroke began.                                                           *)
InkOrWiped == pad.hasInk => pad.inked \/ pad.wiped

PadInv ==
    /\ PadTypeOK
    /\ InkOrWiped
    /\ BlankOnlyAfterWipe

LEMMA PadInvInit == PadInit => PadInv
  BY PadAssumption
     DEF PadInit, PadInv, PadTypeOK, InkOrWiped, BlankOnlyAfterWipe, Unmounted, NothingSent

Pads == [screen : {"none", "capture", "review"}, disabled : BOOLEAN, drawing : BOOLEAN,
         hasInk : BOOLEAN, inked : BOOLEAN, wiped : BOOLEAN]

LEMMA PadTypeNext ==
    ASSUME PadTypeOK, [PadNext]_padVars PROVE PadTypeOK'
  <1>1. pad' \in Pads
    <2>1. pad \in Pads /\ Unmounted \in Pads
        BY DEF PadTypeOK, Pads, Unmounted
    <2>2. ASSUME NEW p \in Pads PROVE resizeCanvasToDisplaySize(p) \in Pads
        BY DEF Pads, resizeCanvasToDisplaySize
    <2>3. /\ [pad EXCEPT !.disabled = TRUE] \in Pads /\ [pad EXCEPT !.disabled = FALSE] \in Pads
          /\ [pad EXCEPT !.drawing = TRUE, !.inked = TRUE, !.hasInk = TRUE, !.wiped = FALSE] \in Pads
          /\ [pad EXCEPT !.inked = TRUE] \in Pads /\ [pad EXCEPT !.drawing = FALSE] \in Pads
          /\ [pad EXCEPT !.hasInk = FALSE, !.inked = FALSE] \in Pads
          /\ [Unmounted EXCEPT !.screen = "capture"] \in Pads
          /\ [Unmounted EXCEPT !.screen = "review"] \in Pads
        BY <2>1 DEF Pads
    <2> QED BY <2>1, <2>2, <2>3
            DEF PadNext, OpenPad, onResize, handlePointerDown, handlePointerMove, endStroke,
                handleClear, handleDone, verifyAnswered, onCancel, padVars
  <1>2. strokes' \in 0 .. MaxStrokes
      BY PadAssumption
         DEF PadTypeOK, PadNext, OpenPad, onResize, handlePointerDown, handlePointerMove, endStroke,
             handleClear, handleDone, verifyAnswered, onCancel, padVars
  <1>3. sent' \in [image : {"none", "drawn", "blank"}, wiped : BOOLEAN]
    <2>1. CASE handleDone
        BY <2>1 DEF PadTypeOK, handleDone
    <2>2. CASE ~handleDone
        BY <2>2 DEF PadTypeOK, PadNext, OpenPad, onResize, handlePointerDown, handlePointerMove,
                    endStroke, handleClear, verifyAnswered, onCancel, padVars
    <2> QED BY <2>1, <2>2
  <1> QED BY <1>1, <1>2, <1>3 DEF PadTypeOK, Pads

LEMMA PadInvNext ==
    ASSUME PadInv, [PadNext]_padVars PROVE PadInv'
  <1>1. PadTypeOK'
      BY PadTypeNext DEF PadInv
  <1>2. InkOrWiped' /\ BlankOnlyAfterWipe'
    <2> USE DEF PadInv, InkOrWiped, BlankOnlyAfterWipe
    <2>1. ASSUME NEW screen \in {"capture", "review"}, OpenPad(screen)
          PROVE  ~pad'.hasInk /\ sent' = sent
        BY <2>1 DEF OpenPad, Unmounted
    <2>2. CASE onResize
        BY <2>2 DEF onResize, resizeCanvasToDisplaySize, PadTypeOK
    <2>3. CASE handlePointerDown \/ handlePointerMove
      <3>1. CASE handlePointerDown
        <4>1. pad' = [pad EXCEPT !.drawing = TRUE, !.inked = TRUE, !.hasInk = TRUE, !.wiped = FALSE]
            BY <3>1 DEF handlePointerDown
        <4>2. pad'.inked = TRUE
            BY <4>1 DEF PadTypeOK
        <4> QED BY <3>1, <4>2 DEF handlePointerDown
      <3>2. CASE handlePointerMove
          BY <3>2 DEF handlePointerMove, PadTypeOK
      <3> QED BY <2>3, <3>1, <3>2
    <2>4. CASE endStroke
        BY <2>4 DEF endStroke, PadTypeOK
    <2>5. CASE handleClear
        BY <2>5 DEF handleClear, PadTypeOK
    <2>6. CASE handleDone
      <3>1. pad'.wiped \/ ~pad'.hasInk
          BY <2>6 DEF handleDone, resizeCanvasToDisplaySize, Unmounted, PadTypeOK
      <3>2. sent'.wiped = pad.wiped /\ (sent'.image = "blank" => ~pad.inked) /\ pad.hasInk
          BY <2>6 DEF handleDone
      <3> QED BY <3>1, <3>2
    <2>7. CASE verifyAnswered \/ onCancel
      <3>1. \/ pad' = Unmounted
            \/ pad' = resizeCanvasToDisplaySize([pad EXCEPT !.disabled = FALSE])
          BY <2>7 DEF verifyAnswered, onCancel
      <3>2. CASE pad' = Unmounted
          BY <2>7, <3>2 DEF verifyAnswered, onCancel, Unmounted
      <3>3. CASE pad' = resizeCanvasToDisplaySize([pad EXCEPT !.disabled = FALSE])
        <4>1. pad'.wiped = TRUE
            BY <3>3 DEF resizeCanvasToDisplaySize, PadTypeOK
        <4> QED BY <2>7, <4>1 DEF verifyAnswered, onCancel
      <3> QED BY <3>1, <3>2, <3>3
    <2>8. CASE UNCHANGED padVars
        BY <2>8 DEF padVars
    <2> QED BY <2>1, <2>2, <2>3, <2>4, <2>5, <2>6, <2>7, <2>8 DEF PadNext
  <1> QED BY <1>1, <1>2 DEF PadInv

(* A blank image is handed over as a signature only where the canvas was   *)
(* sized again after the last stroke began (handleDone,                    *)
(* resizeCanvasToDisplaySize).                                             *)
THEOREM BlankNeedsAWipe == PadSpec => []BlankOnlyAfterWipe
  <1>1. PadInv => BlankOnlyAfterWipe
      BY DEF PadInv
  <1> QED BY <1>1, PadInvInit, PadInvNext, PTL DEF PadSpec

-----------------------------------------------------------------------------
(* RaiseJobForm.                                                           *)

(* A read that is still wanted is of the machine on the form; the          *)
(* documents listed and the one chosen are that machine's; and so is the   *)
(* pair in a request under way.                                            *)
WantedReadIsTheMachines == \A r \in docReads : r.live => r.machine = machine
ListIsTheMachines == docList.docs \subseteq IF machine = NoChoice THEN {} ELSE MachineDocs[machine]
ChosenIsTheMachines == chosenDoc # NoChoice => machine # NoChoice /\ chosenDoc \in MachineDocs[machine]
PostingIsTheMachines ==
    \/ posting = NotPosting
    \/ posting.machine \in Machines /\ posting.doc \in MachineDocs[posting.machine]

RaiseInv ==
    /\ docReads \subseteq [machine : Machines, live : BOOLEAN]
    /\ machine \in Machines \cup {NoChoice}
    /\ machineList \subseteq Machines
    /\ WantedReadIsTheMachines
    /\ ListIsTheMachines
    /\ ChosenIsTheMachines
    /\ PostingIsTheMachines

LEMMA RaiseInvInit == RaiseInit => RaiseInv
  BY RaiseAssumption
     DEF RaiseInit, RaiseInv, WantedReadIsTheMachines, ListIsTheMachines, ChosenIsTheMachines,
         PostingIsTheMachines, NoDocs, NotPosting

(* Choosing another machine empties the form and drops the reads.          *)
LEMMA MachineChosenKeeps ==
    ASSUME RaiseInv, NEW a \in Machines \cup {NoChoice}, MachineChosen(a)
    PROVE  /\ docReads' \subseteq [machine : Machines, live : BOOLEAN]
           /\ machine' \in Machines \cup {NoChoice}
           /\ WantedReadIsTheMachines' /\ ListIsTheMachines' /\ ChosenIsTheMachines'
  <1>1. \A r \in docReads' : \/ r = [machine |-> a, live |-> TRUE] /\ a # NoChoice
                             \/ \E q \in docReads : r = [q EXCEPT !.live = FALSE]
      BY DEF MachineChosen
  <1>2. ASSUME NEW r \in docReads'
        PROVE  r \in [machine : Machines, live : BOOLEAN] /\ (r.live => r.machine = a)
    <2>1. CASE r = [machine |-> a, live |-> TRUE] /\ a # NoChoice
        BY <2>1
    <2>2. ASSUME NEW q \in docReads, r = [q EXCEPT !.live = FALSE]
          PROVE  r \in [machine : Machines, live : BOOLEAN] /\ ~r.live
        BY <2>2 DEF RaiseInv
    <2> QED BY <1>1, <2>1, <2>2
  <1> QED BY <1>2, RaiseAssumption
          DEF MachineChosen, WantedReadIsTheMachines, ListIsTheMachines, ChosenIsTheMachines, NoDocs

LEMMA RaiseInvNext ==
    ASSUME RaiseInv, [RaiseNext]_raiseVars PROVE RaiseInv'
  <1> USE RaiseAssumption
  <1> DEFINE Form == /\ docReads \subseteq [machine : Machines, live : BOOLEAN]
                     /\ machine \in Machines \cup {NoChoice}
                     /\ WantedReadIsTheMachines /\ ListIsTheMachines /\ ChosenIsTheMachines
  <1>1. ASSUME UNCHANGED <<docReads, machine, docList, chosenDoc>> PROVE Form'
      BY <1>1 DEF RaiseInv, WantedReadIsTheMachines, ListIsTheMachines, ChosenIsTheMachines
  <1>2. ASSUME UNCHANGED posting PROVE PostingIsTheMachines'
      BY <1>2 DEF RaiseInv, PostingIsTheMachines
  <1>3. ASSUME NEW a \in Machines \cup {NoChoice}, MachineChosen(a) PROVE Form'
      BY <1>3, MachineChosenKeeps
  <1>4. machineList' \subseteq Machines
      BY DEF RaiseInv, RaiseNext, setTypeFilter, loadAssets, setAssetId, listDocuments,
             setAssetDocumentId, raise, raiseAnswered, documentRetagged, raiseVars
  <1>5. Form'
    <2>1. ASSUME NEW r \in docReads, listDocuments(r) PROVE Form'
      <3>1. docReads' \subseteq docReads /\ machine' = machine /\ chosenDoc' = chosenDoc
          BY <2>1 DEF listDocuments
      <3>2. docList' = docList \/ (r.live /\ docList'.docs \subseteq MachineDocs[r.machine])
          BY <2>1 DEF listDocuments
      <3>3. ListIsTheMachines'
          BY <3>1, <3>2 DEF RaiseInv, ListIsTheMachines, WantedReadIsTheMachines
      <3> QED BY <3>1, <3>3 DEF RaiseInv, WantedReadIsTheMachines, ChosenIsTheMachines
    <2>2. ASSUME NEW d, setAssetDocumentId(d) PROVE Form'
      <3>1. d \in MachineDocs[machine] /\ machine # NoChoice
          BY <2>2 DEF setAssetDocumentId, RaiseInv, ListIsTheMachines
      <3> QED BY <2>2, <3>1
              DEF setAssetDocumentId, RaiseInv, WantedReadIsTheMachines, ListIsTheMachines, ChosenIsTheMachines
    <2>3. CASE raiseAnswered
        BY <2>3, <1>1, <1>3 DEF raiseAnswered
    <2>4. ASSUME NEW t, setTypeFilter(t) \/ loadAssets(t) PROVE Form'
        BY <2>4, <1>1, <1>3 DEF setTypeFilter, loadAssets
    <2>5. ASSUME NEW a \in Machines \cup {NoChoice}, setAssetId(a) PROVE Form'
        BY <2>5, <1>3 DEF setAssetId
    <2>6. ASSUME NEW d, documentRetagged(d) PROVE Form'
        BY <2>6, <1>1 DEF documentRetagged
    <2>7. CASE raise \/ UNCHANGED raiseVars
        BY <2>7, <1>1 DEF raise, raiseVars
    <2> HIDE DEF Form
    <2> QED BY <2>1, <2>2, <2>3, <2>4, <2>5, <2>6, <2>7 DEF RaiseNext
  <1>6. PostingIsTheMachines'
    <2>1. CASE raise
      <3>1. machine \in Machines /\ chosenDocumentId \in MachineDocs[machine]
        <4>1. CASE Cardinality(docList.docs) = 1
          <5>1. docList.docs # {}
              BY <4>1, FS_EmptySet
          <5>2. chosenDocumentId \in docList.docs
              BY <4>1, <5>1 DEF chosenDocumentId
          <5> QED BY <5>2, <2>1 DEF RaiseInv, ListIsTheMachines, raise, canRaise
        <4>2. CASE Cardinality(docList.docs) # 1
            BY <4>2, <2>1 DEF RaiseInv, ChosenIsTheMachines, raise, canRaise, chosenDocumentId
        <4> QED BY <4>1, <4>2
      <3> QED BY <2>1, <3>1 DEF raise, PostingIsTheMachines
    <2>2. CASE raiseAnswered
        BY <2>2 DEF raiseAnswered, PostingIsTheMachines
    <2>3. ASSUME NEW t, setTypeFilter(t) \/ loadAssets(t) PROVE PostingIsTheMachines'
        BY <2>3, <1>2 DEF setTypeFilter, loadAssets
    <2>4. ASSUME NEW a, setAssetId(a) PROVE PostingIsTheMachines'
        BY <2>4, <1>2 DEF setAssetId
    <2>5. ASSUME NEW r, listDocuments(r) PROVE PostingIsTheMachines'
        BY <2>5, <1>2 DEF listDocuments
    <2>6. ASSUME NEW d, setAssetDocumentId(d) \/ documentRetagged(d) PROVE PostingIsTheMachines'
        BY <2>6, <1>2 DEF setAssetDocumentId, documentRetagged
    <2>7. CASE UNCHANGED raiseVars
        BY <2>7, <1>2 DEF raiseVars
    <2> QED BY <2>1, <2>2, <2>3, <2>4, <2>5, <2>6, <2>7 DEF RaiseNext
  <1> QED BY <1>4, <1>5, <1>6 DEF RaiseInv

(* The form asks for a document of the machine it asks for, however late   *)
(* the document lists of machines chosen before answer                     *)
(* (listAssetDocuments, chosenDocumentId, raise).                          *)
THEOREM RequestNamesItsForm == RaiseSpec => []RequestNamesTheMachinesForm
  <1>1. RaiseInv => RequestNamesTheMachinesForm
      BY DEF RaiseInv, PostingIsTheMachines, RequestNamesTheMachinesForm
  <1> QED BY <1>1, RaiseInvInit, RaiseInvNext, PTL DEF RaiseSpec

-----------------------------------------------------------------------------
(* CaptureScreen.                                                          *)

Recorders == ItemEntries \cup TypedEntries
OutboxRows == [id : Nat, entry : Entries, active : BOOLEAN,
               status : {"pending", "sending", "conflict", "failed"}]

(* What an entry on the screen may be shown from.                          *)
Known == HeldIds \cup applied \cup {0}

(* Rows carry the numbers they were made under; what the server has, and   *)
(* what the cached copy shows, was applied.                                *)
RecordsInOrder ==
    /\ rowsMade \in Nat
    /\ heldRows \subseteq OutboxRows
    /\ \A row \in heldRows : row.id <= rowsMade
    /\ accepted \in [Entries -> applied \cup {0}]
    /\ "there" \in DOMAIN cachedJob
    /\ cachedJob.there => /\ "rows" \in DOMAIN cachedJob
                          /\ cachedJob.rows \in [Entries -> applied \cup {0}]

ScreenFields ==
    /\ {"stage", "shown", "typed", "timers", "late", "owed", "recovering"} \subseteq DOMAIN capture
    /\ DOMAIN capture.shown = Entries
    /\ {"asked", "ready", "parts"} \subseteq DOMAIN reads

(* The reading of the outbox under way was made after the last discard, or *)
(* is not the last one there will be.                                      *)
ReadIsOld == "parts" \in capture.owed /\ (capture.recovering \/ reads.asked)

ScreenIsBacked ==
    /\ OnScreen => cachedJob.there
    /\ "job" \notin capture.owed => \A e \in Recorders : Behind(e)
    /\ "parts" \notin capture.owed => \A p \in PartEntries : Behind(p)
    /\ reads.ready => ReadIsOld \/ \A p \in PartEntries : reads.parts[p] \in Known
    /\ capture.stage = "left" => ~reads.asked /\ ~reads.ready

SignedRowsAreSent ==
    /\ {"phase", "signed"} \subseteq DOMAIN submission
    /\ submission.signed \subseteq 0 .. rowsMade
    /\ SubmitCarriesWhatWasSigned

CaptureInv ==
    /\ RecordsInOrder
    /\ ScreenFields
    /\ ScreenIsBacked
    /\ SignedRowsAreSent

LEMMA CaptureInvInit == CaptureInit => CaptureInv
  <1> SUFFICES ASSUME CaptureInit PROVE CaptureInv
      OBVIOUS
  <1> USE DEF CaptureInit, Uncached, Copy, NewScreen, NoReads, NoSubmission, Recorders, Entries
  <1>1. RecordsInOrder
      BY DEF RecordsInOrder
  <1>2. ScreenFields
      BY DEF ScreenFields
  <1>3. ScreenIsBacked
      BY DEF ScreenIsBacked, OnScreen, Behind
  <1>4. SignedRowsAreSent
      BY DEF SignedRowsAreSent, SubmitCarriesWhatWasSigned
  <1> QED BY <1>1, <1>2, <1>3, <1>4 DEF CaptureInv

(* The first and the last of some rows are rows of theirs.                 *)
LEMMA FirstRowIsARow ==
    ASSUME RecordsInOrder, NEW T \in SUBSET heldRows, T # {}
    PROVE  FirstRow(T) \in T
  <1> DEFINE ids == {row.id : row \in T}
  <1>1. ids \in SUBSET Nat /\ ids # {}
      BY DEF RecordsInOrder, OutboxRows
  <1>2. PICK m \in ids : \A k \in ids : m <= k
      BY <1>1, LeastNat
  <1>3. PICK row \in T : row.id = m
      OBVIOUS
  <1>4. \A other \in T : row.id <= other.id
      BY <1>2, <1>3
  <1> QED BY <1>4 DEF FirstRow

LEMMA LastRowIsARow ==
    ASSUME RecordsInOrder, NEW T \in SUBSET heldRows, T # {}
    PROVE  LastRow(T) \in T
  <1> DEFINE ids == {row.id : row \in T}
  <1>1. ids \in SUBSET Nat /\ ids # {} /\ (\A k \in ids : k <= rowsMade) /\ rowsMade \in Nat
      BY DEF RecordsInOrder, OutboxRows
  <1>2. PICK m \in ids : \A k \in ids : k <= m
      BY <1>1, GreatestNat
  <1>3. PICK row \in T : row.id = m
      OBVIOUS
  <1>4. \A other \in T : other.id <= row.id
      BY <1>2, <1>3
  <1> QED BY <1>4 DEF LastRow

(* What the cached copy and the outbox give the screen is known.           *)
LEMMA LoadedIsKnown ==
    ASSUME RecordsInOrder, cachedJob.there, NEW e \in Recorders, NEW outboxRead \in BOOLEAN
    PROVE  pendingTitleMachineNumber(e, outboxRead) \in Known
  <1> DEFINE unsent == RowsOf(e) \cap WithStatus({"pending", "sending"})
  <1>1. cachedJob.rows[e] \in Known
      BY DEF RecordsInOrder, Recorders, Entries, Known
  <1>2. unsent \in SUBSET heldRows
      BY DEF RowsOf
  <1>3. unsent # {} => Shown(LastRow(unsent)) \in Known
      BY <1>2, LastRowIsARow DEF Shown, Known, HeldIds
  <1> QED BY <1>1, <1>3 DEF pendingTitleMachineNumber

LEMMA MergedIsKnown ==
    ASSUME RecordsInOrder, NEW p \in PartEntries
    PROVE  mergedParts[p] \in Known
  <1>1. RowsOf(p) \in SUBSET heldRows
      BY DEF RowsOf
  <1>2. RowsOf(p) # {} => Shown(LastRow(RowsOf(p))) \in Known
      BY <1>1, LastRowIsARow DEF Shown, Known, HeldIds
  <1>3. cachedJob.there => cachedJob.rows[p] \in Known
      BY DEF RecordsInOrder, Entries, Known
  <1>4. 0 \in Known
      BY DEF Known
  <1> QED BY <1>2, <1>3, <1>4 DEF mergedParts

-----------------------------------------------------------------------------
(* The outbox, the server's records and the copy, by what a step does.     *)

(* Nothing of it changes but flags of the copy, or the copy is taken anew. *)
LEMMA RecordsStay ==
    ASSUME RecordsInOrder, UNCHANGED <<heldRows, rowsMade, accepted, applied>>,
           \/ cachedJob' = cachedJob
           \/ \E lost : cachedJob' = Copy(lost)
           \/ \E flag : cachedJob' = [cachedJob EXCEPT !.answerLost = flag]
           \/ cachedJob' = [cachedJob EXCEPT !.removed = TRUE]
    PROVE  RecordsInOrder' /\ Known' = Known /\ (cachedJob.there => cachedJob'.there)
  <1>1. Known' = Known
      BY DEF Known, HeldIds
  <1>2. CASE cachedJob' = cachedJob
      BY <1>1, <1>2 DEF RecordsInOrder
  <1>3. ASSUME NEW lost, cachedJob' = Copy(lost) PROVE RecordsInOrder' /\ cachedJob'.there
      BY <1>3 DEF RecordsInOrder, Copy
  <1>4. CASE \/ \E flag : cachedJob' = [cachedJob EXCEPT !.answerLost = flag]
             \/ cachedJob' = [cachedJob EXCEPT !.removed = TRUE]
    <2>1. /\ DOMAIN cachedJob' = DOMAIN cachedJob /\ cachedJob'.there = cachedJob.there
          /\ "rows" \in DOMAIN cachedJob => cachedJob'.rows = cachedJob.rows
        BY <1>4 DEF RecordsInOrder
    <2> QED BY <1>1, <2>1 DEF RecordsInOrder
  <1> QED BY <1>1, <1>2, <1>3, <1>4

(* Rows change their status only.                                          *)
LEMMA StatusChangeKeeps ==
    ASSUME RecordsInOrder, UNCHANGED <<rowsMade, accepted, applied, cachedJob>>,
           \A row \in heldRows' : \E old \in heldRows, status \in {"pending", "sending", "conflict", "failed"} :
                                     row = [old EXCEPT !.status = status],
           \A old \in heldRows : \E row \in heldRows' : row.id = old.id
    PROVE  RecordsInOrder' /\ HeldIds' = HeldIds /\ Known' = Known
  <1>1. ASSUME NEW row \in heldRows'
        PROVE  row \in OutboxRows /\ \E old \in heldRows : row.id = old.id
    <2>1. PICK old \in heldRows, status \in {"pending", "sending", "conflict", "failed"} :
               row = [old EXCEPT !.status = status]
        OBVIOUS
    <2>2. old \in OutboxRows
        BY DEF RecordsInOrder
    <2> QED BY <2>1, <2>2 DEF OutboxRows
  <1>2. RecordsInOrder'
      BY <1>1 DEF RecordsInOrder
  <1>3. HeldIds' = HeldIds
      BY <1>1 DEF HeldIds
  <1> QED BY <1>2, <1>3 DEF Known

LEMMA SignedStays ==
    ASSUME CaptureInv, UNCHANGED <<submission, rowsMade>>, HeldIds' \subseteq HeldIds
    PROVE  SignedRowsAreSent'
  <1> QED BY DEF CaptureInv, SignedRowsAreSent, SubmitCarriesWhatWasSigned

(* The screen, when what is known does not shrink and what it shows stays  *)
(* or becomes something known.                                             *)
ScreenStays ==
    /\ Known \subseteq Known'
    /\ cachedJob.there => cachedJob'.there
    /\ ScreenFields'
    /\ OnScreen' => OnScreen
    /\ \A e \in Entries : capture'.shown[e] = capture.shown[e] \/ capture'.shown[e] \in Known'
    /\ capture'.owed = capture.owed /\ capture'.recovering = capture.recovering
    /\ reads'.ready = reads.ready /\ reads'.parts = reads.parts
    /\ reads.asked => reads'.asked
    /\ capture'.stage = "left" => capture.stage = "left" /\ reads' = reads

LEMMA StayingIsBacked ==
    ASSUME CaptureInv, ScreenStays PROVE ScreenIsBacked'
  <1>1. \A e \in Entries : Behind(e) => Behind(e)'
      BY DEF Behind, ScreenStays, Known
  <1>2. \A e \in Recorders \cup PartEntries : e \in Entries
      BY DEF Recorders, Entries
  <1>3. OnScreen' => cachedJob'.there
      BY DEF CaptureInv, ScreenIsBacked, ScreenStays
  <1>4. "job" \notin capture'.owed => \A e \in Recorders : Behind(e)'
      BY <1>1, <1>2 DEF CaptureInv, ScreenIsBacked, ScreenStays
  <1>5. "parts" \notin capture'.owed => \A p \in PartEntries : Behind(p)'
      BY <1>1, <1>2 DEF CaptureInv, ScreenIsBacked, ScreenStays
  <1>6. reads'.ready => ReadIsOld' \/ \A p \in PartEntries : reads'.parts[p] \in Known'
      BY DEF CaptureInv, ScreenIsBacked, ScreenStays, ReadIsOld
  <1>7. capture'.stage = "left" => ~reads'.asked /\ ~reads'.ready
      BY DEF CaptureInv, ScreenIsBacked, ScreenStays
  <1> QED BY <1>3, <1>4, <1>5, <1>6, <1>7 DEF ScreenIsBacked

(* A screen that is left, or opened, shows nothing.                        *)
LEMMA FreshScreenKeeps ==
    ASSUME ScreenFields, capture'.stage \notin {"editing", "signing"},
           capture'.shown = [e \in Entries |-> 0], capture'.owed = {},
           {"stage", "shown", "typed", "timers", "late", "owed", "recovering"} \subseteq DOMAIN capture',
           reads' = NoReads \/ (reads' = reads /\ ~reads.asked /\ ~reads.ready)
    PROVE  ScreenFields' /\ ScreenIsBacked'
  <1>1. {"asked", "ready", "parts"} \subseteq DOMAIN reads' /\ ~reads'.asked /\ ~reads'.ready
      BY DEF NoReads, ScreenFields
  <1>2. \A e \in Recorders \cup PartEntries : Behind(e)'
      BY DEF Behind, Recorders, Entries
  <1> QED BY <1>1, <1>2 DEF ScreenFields, ScreenIsBacked, OnScreen

(* Asking for a reading of the outbox.                                     *)
LEMMA AskingStays ==
    ASSUME ScreenFields, refreshState \/ reads' = reads
    PROVE  /\ {"asked", "ready", "parts"} \subseteq DOMAIN reads'
           /\ reads'.ready = reads.ready /\ reads'.parts = reads.parts
           /\ reads.asked => reads'.asked
           /\ capture.stage = "left" => reads' = reads
  <1> QED BY DEF refreshState, ScreenFields

-----------------------------------------------------------------------------
(* The actions.                                                            *)

AppendStep(e, active, before, after) ==
    /\ appendOrReport(e, active, before, after)
    /\ UNCHANGED <<accepted, applied, cachedJob, submission>>

(* A write that succeeds makes a row nobody has seen, one that fails       *)
(* nothing: either way no entry is shown that is not known.                *)
LEMMA AppendKeeps ==
    ASSUME CaptureInv, NEW e \in Entries, NEW active \in BOOLEAN,
           NEW before, NEW after, AppendStep(e, active, before, after),
           DOMAIN before = DOMAIN capture, DOMAIN after = DOMAIN capture,
           before.stage = capture.stage, after.stage = capture.stage,
           before.recovering = capture.recovering, after.recovering = capture.recovering,
           before.owed = capture.owed, after.owed = capture.owed,
           before.shown = capture.shown, DOMAIN after.shown = Entries,
           \A f \in Entries : after.shown[f] \in {capture.shown[f], rowsMade + 1, 0}
    PROVE  CaptureInv'
  <1>1. accepted' = accepted /\ applied' = applied /\ cachedJob' = cachedJob /\ submission' = submission
      BY DEF AppendStep
  <1>2. \/ UNCHANGED <<heldRows, rowsMade, reads>> /\ capture' = before
        \/ /\ rowsMade' = rowsMade + 1
           /\ heldRows' = heldRows \cup {[id |-> rowsMade + 1, entry |-> e, active |-> active,
                                          status |-> "pending"]}
           /\ capture' = after /\ refreshState
      BY DEF AppendStep, appendOrReport
  <1>3. CASE UNCHANGED <<heldRows, rowsMade, reads>> /\ capture' = before
    <2>1. RecordsInOrder' /\ Known' = Known
        BY <1>1, <1>3, RecordsStay DEF CaptureInv
    <2>2. SignedRowsAreSent'
        BY <1>1, <1>3, SignedStays DEF HeldIds
    <2>3. ScreenFields'
        BY <1>3 DEF CaptureInv, ScreenFields
    <2>4. ScreenStays
        BY <1>1, <1>3, <2>1, <2>3 DEF ScreenStays, OnScreen, CaptureInv, ScreenIsBacked
    <2> QED BY <2>1, <2>2, <2>3, <2>4, StayingIsBacked DEF CaptureInv
  <1>4. CASE /\ rowsMade' = rowsMade + 1
             /\ heldRows' = heldRows \cup {[id |-> rowsMade + 1, entry |-> e, active |-> active,
                                            status |-> "pending"]}
             /\ capture' = after /\ refreshState
    <2> DEFINE new == [id |-> rowsMade + 1, entry |-> e, active |-> active, status |-> "pending"]
    <2>1. rowsMade \in Nat /\ rowsMade' \in Nat /\ new \in OutboxRows
        BY <1>4 DEF CaptureInv, RecordsInOrder, OutboxRows
    <2>2. RecordsInOrder'
      <3>1. \A row \in heldRows : row.id \in Nat /\ row.id <= rowsMade
          BY DEF CaptureInv, RecordsInOrder, OutboxRows
      <3>2. \A row \in heldRows' : row.id <= rowsMade'
          BY <1>4, <2>1, <3>1
      <3>3. heldRows' \subseteq OutboxRows
          BY <1>4, <2>1 DEF CaptureInv, RecordsInOrder
      <3> QED BY <1>1, <2>1, <3>2, <3>3 DEF CaptureInv, RecordsInOrder
    <2>3. new \in heldRows' /\ new.id = rowsMade + 1 /\ heldRows \subseteq heldRows'
        BY <1>4
    <2>4. HeldIds' = HeldIds \cup {rowsMade + 1}
      <3>1. heldRows' = heldRows \cup {new}
          BY <1>4
      <3> HIDE DEF new
      <3>2. {row.id : row \in heldRows \cup {new}} = {row.id : row \in heldRows} \cup {new.id}
          OBVIOUS
      <3> QED BY <2>3, <3>1, <3>2 DEF HeldIds
    <2>5. Known \subseteq Known' /\ rowsMade + 1 \in Known' /\ 0 \in Known'
        BY <1>1, <2>4 DEF Known
    <2>6. SignedRowsAreSent'
      <3>1. rowsMade + 1 \notin submission.signed /\ submission'.signed \subseteq 0 .. rowsMade'
          BY <1>1, <1>4, <2>1 DEF CaptureInv, SignedRowsAreSent
      <3> QED BY <1>1, <2>4, <3>1 DEF CaptureInv, SignedRowsAreSent, SubmitCarriesWhatWasSigned
    <2>7. /\ {"asked", "ready", "parts"} \subseteq DOMAIN reads'
          /\ reads'.ready = reads.ready /\ reads'.parts = reads.parts
          /\ reads.asked => reads'.asked
          /\ capture.stage = "left" => reads' = reads
        BY <1>4, AskingStays DEF CaptureInv
    <2>8. ScreenFields'
        BY <1>4, <2>7 DEF CaptureInv, ScreenFields
    <2>9. ScreenStays
      <3>1. \A f \in Entries : capture'.shown[f] = capture.shown[f] \/ capture'.shown[f] \in Known'
          BY <1>4, <2>5
      <3> QED BY <1>1, <1>4, <2>5, <2>7, <2>8, <3>1 DEF ScreenStays, OnScreen
    <2> QED BY <2>2, <2>6, <2>8, <2>9, StayingIsBacked DEF CaptureInv
  <1> QED BY <1>2, <1>3, <1>4

LEMMA AppendActionsKeep ==
    ASSUME CaptureInv,
           \/ \E e \in ItemEntries : recordItemStatus(e)
           \/ \E p \in PartEntries : savePart(p) \/ removePart(p)
           \/ \E e \in TypedEntries : debounceFires(e) \/ flushTitleMachineNumber(e)
    PROVE  CaptureInv'
  <1>0. /\ {"stage", "shown", "typed", "timers", "late", "owed", "recovering"} \subseteq DOMAIN capture
        /\ DOMAIN capture.shown = Entries
      BY DEF CaptureInv, ScreenFields
  <1>1. ASSUME NEW e \in Entries PROVE
             /\ DOMAIN Recorded(capture, e) = DOMAIN capture
             /\ Recorded(capture, e).stage = capture.stage
             /\ Recorded(capture, e).recovering = capture.recovering
             /\ Recorded(capture, e).owed = capture.owed
             /\ DOMAIN Recorded(capture, e).shown = Entries
             /\ \A f \in Entries : Recorded(capture, e).shown[f] \in {capture.shown[f], rowsMade + 1, 0}
      BY <1>0 DEF Recorded
  <1>2. ASSUME NEW e \in ItemEntries \cup PartEntries, recordItemStatus(e) \/ savePart(e) PROVE CaptureInv'
    <2>1. e \in Entries /\ AppendStep(e, TRUE, capture, Recorded(capture, e))
        BY <1>2 DEF Entries, recordItemStatus, savePart, AppendStep, serverVars
    <2> QED BY <1>1, <2>1, AppendKeeps
  <1>3. ASSUME NEW p \in PartEntries, removePart(p) PROVE CaptureInv'
    <2> DEFINE after == [capture EXCEPT !.shown[p] = 0]
    <2>1. p \in Entries /\ AppendStep(p, FALSE, capture, after)
        BY <1>3 DEF Entries, removePart, AppendStep, serverVars
    <2>2. /\ DOMAIN after = DOMAIN capture /\ after.stage = capture.stage
          /\ after.recovering = capture.recovering /\ after.owed = capture.owed
          /\ DOMAIN after.shown = Entries
          /\ \A f \in Entries : after.shown[f] \in {capture.shown[f], rowsMade + 1, 0}
        BY <1>0
    <2> HIDE DEF after
    <2> QED BY <2>1, <2>2, AppendKeeps
  <1>4. ASSUME NEW e \in TypedEntries, debounceFires(e) PROVE CaptureInv'
    <2> DEFINE ended == [capture EXCEPT !.timers[e] = "no"]
               active == capture.timers[e] = "text"
    <2>1. e \in Entries /\ active \in BOOLEAN /\ AppendStep(e, active, ended, Written(ended, e))
        BY <1>4 DEF Entries, debounceFires, AppendStep, serverVars
    <2>2. /\ DOMAIN ended = DOMAIN capture /\ ended.stage = capture.stage
          /\ ended.recovering = capture.recovering /\ ended.owed = capture.owed
          /\ ended.shown = capture.shown
        BY <1>0
    <2> HIDE DEF ended, active
    <2>3. /\ DOMAIN Written(ended, e) = DOMAIN capture /\ Written(ended, e).stage = capture.stage
          /\ Written(ended, e).recovering = capture.recovering /\ Written(ended, e).owed = capture.owed
          /\ DOMAIN Written(ended, e).shown = Entries
          /\ \A f \in Entries : Written(ended, e).shown[f] \in {capture.shown[f], rowsMade + 1, 0}
      <3>1. CASE ended.typed[e] = "no"
          BY <1>0, <2>2, <3>1 DEF Written
      <3>2. CASE ended.typed[e] # "no"
          BY <1>0, <2>2, <3>2 DEF Written
      <3> QED BY <3>1, <3>2
    <2> QED BY <2>1, <2>2, <2>3, AppendKeeps
  <1>5. ASSUME NEW e \in TypedEntries, flushTitleMachineNumber(e) PROVE CaptureInv'
    <2> DEFINE ended == [capture EXCEPT !.late[e] = "no"]
               active == capture.late[e] = "text"
    <2>1. e \in Entries /\ active \in BOOLEAN /\ AppendStep(e, active, ended, ended)
        BY <1>5 DEF Entries, flushTitleMachineNumber, AppendStep, serverVars
    <2>2. /\ DOMAIN ended = DOMAIN capture /\ ended.stage = capture.stage
          /\ ended.recovering = capture.recovering /\ ended.owed = capture.owed
          /\ ended.shown = capture.shown
        BY <1>0
    <2> HIDE DEF ended, active
    <2> QED BY <1>0, <2>1, <2>2, AppendKeeps
  <1> QED BY <1>2, <1>3, <1>4, <1>5

(* A step that touches neither the screen nor the submission, and after    *)
(* which no less is known.                                                 *)
LEMMA BehindTheScreenKeeps ==
    ASSUME CaptureInv, UNCHANGED <<rowsMade, submission, capture, reads>>,
           RecordsInOrder', HeldIds' \subseteq HeldIds, Known \subseteq Known',
           cachedJob.there => cachedJob'.there
    PROVE  CaptureInv'
  <1>1. ScreenFields'
      BY DEF CaptureInv, ScreenFields
  <1>2. ScreenStays
      BY <1>1 DEF ScreenStays, OnScreen, CaptureInv, ScreenIsBacked
  <1> QED BY <1>1, <1>2, StayingIsBacked, SignedStays DEF CaptureInv

(* The batch is claimed, or put back: rows change their status.            *)
LEMMA DrainKeeps ==
    ASSUME CaptureInv, drain \/ batchUnanswered PROVE CaptureInv'
  <1>1. UNCHANGED <<rowsMade, accepted, applied, cachedJob, submission, capture, reads>>
      BY DEF drain, batchUnanswered, serverVars
  <1>2. ASSUME NEW row \in heldRows
        PROVE  /\ row = [row EXCEPT !.status = row.status]
               /\ row.status \in {"pending", "sending", "conflict", "failed"}
               /\ \A status : [row EXCEPT !.status = status].id = row.id
      BY DEF CaptureInv, RecordsInOrder, OutboxRows
  <1>3. /\ \A row \in heldRows' : \E old \in heldRows, status \in {"pending", "sending", "conflict", "failed"} :
                                     row = [old EXCEPT !.status = status]
        /\ \A old \in heldRows : \E row \in heldRows' : row.id = old.id
    <2>1. CASE drain
      <3>1. /\ heldRows' = (heldRows \ listDrainable) \cup {[row EXCEPT !.status = "sending"] : row \in listDrainable}
            /\ listDrainable \subseteq heldRows
          BY <2>1 DEF drain, listDrainable, WithStatus
      <3>2. ASSUME NEW row \in heldRows'
            PROVE  \E old \in heldRows, status \in {"pending", "sending", "conflict", "failed"} :
                       row = [old EXCEPT !.status = status]
        <4>1. CASE row \in heldRows
            BY <1>2, <4>1
        <4>2. CASE row \notin heldRows
          <5>1. PICK old \in listDrainable : row = [old EXCEPT !.status = "sending"]
              BY <3>1, <4>2
          <5> QED BY <3>1, <5>1
        <4> QED BY <4>1, <4>2
      <3>3. ASSUME NEW old \in heldRows PROVE \E row \in heldRows' : row.id = old.id
        <4>1. CASE old \in listDrainable
          <5>1. [old EXCEPT !.status = "sending"] \in heldRows'
              BY <3>1, <4>1
          <5> QED BY <1>2, <5>1
        <4>2. CASE old \notin listDrainable
            BY <3>1, <4>2
        <4> QED BY <4>1, <4>2
      <3> QED BY <3>2, <3>3
    <2>2. CASE batchUnanswered
      <3>1. heldRows' = {IF row.status = "sending" THEN [row EXCEPT !.status = "pending"] ELSE row : row \in heldRows}
          BY <2>2 DEF batchUnanswered
      <3>2. ASSUME NEW row \in heldRows'
            PROVE  \E old \in heldRows, status \in {"pending", "sending", "conflict", "failed"} :
                       row = [old EXCEPT !.status = status]
        <4>1. PICK old \in heldRows : row = IF old.status = "sending" THEN [old EXCEPT !.status = "pending"] ELSE old
            BY <3>1
        <4>2. CASE old.status = "sending"
            BY <4>1, <4>2
        <4>3. CASE old.status # "sending"
            BY <1>2, <4>1, <4>3
        <4> QED BY <4>2, <4>3
      <3>3. ASSUME NEW old \in heldRows PROVE \E row \in heldRows' : row.id = old.id
        <4>1. (IF old.status = "sending" THEN [old EXCEPT !.status = "pending"] ELSE old) \in heldRows'
            BY <3>1
        <4> QED BY <1>2, <4>1
      <3> QED BY <3>2, <3>3
    <2> QED BY <2>1, <2>2
  <1>4. RecordsInOrder' /\ HeldIds' = HeldIds /\ Known' = Known
      BY <1>1, <1>3, StatusChangeKeeps DEF CaptureInv
  <1> QED BY <1>1, <1>4, BehindTheScreenKeeps

(* The server applies a row of the batch, or refuses it and it stays.      *)
LEMMA AnswerKeeps ==
    ASSUME CaptureInv, rowAnswered PROVE CaptureInv'
  <1> DEFINE head == FirstRow(WithStatus({"sending"}))
  <1>1. head \in heldRows /\ head \in OutboxRows
    <2>1. WithStatus({"sending"}) \in SUBSET heldRows /\ WithStatus({"sending"}) # {}
        BY DEF WithStatus, rowAnswered
    <2> QED BY <2>1, FirstRowIsARow DEF CaptureInv, RecordsInOrder
  <1>2. UNCHANGED <<rowsMade, submission, capture, reads>>
      BY DEF rowAnswered
  <1>3. \/ /\ heldRows' = heldRows \ {head}
           /\ accepted' = [accepted EXCEPT ![head.entry] = Shown(head)]
           /\ applied' = applied \cup {head.id}
           /\ cachedJob' = confirmAck(head)
        \/ /\ \E status \in {"conflict", "failed"} :
                 heldRows' = (heldRows \ {head}) \cup {[head EXCEPT !.status = status]}
           /\ UNCHANGED <<accepted, applied, cachedJob>>
      BY DEF rowAnswered, serverVars
  <1> HIDE DEF head
  <1>4. CASE /\ heldRows' = heldRows \ {head}
             /\ accepted' = [accepted EXCEPT ![head.entry] = Shown(head)]
             /\ applied' = applied \cup {head.id}
             /\ cachedJob' = confirmAck(head)
    <2>1. Shown(head) \in applied' \cup {0}
        BY <1>4 DEF Shown
    <2>2. accepted' \in [Entries -> applied' \cup {0}]
        BY <1>1, <1>4, <2>1 DEF CaptureInv, RecordsInOrder, OutboxRows
    <2>3. /\ "there" \in DOMAIN cachedJob' /\ cachedJob'.there = cachedJob.there
          /\ cachedJob'.there => /\ "rows" \in DOMAIN cachedJob'
                                 /\ cachedJob'.rows \in [Entries -> applied' \cup {0}]
      <3>1. CASE cachedJob' = cachedJob
          BY <1>4, <3>1 DEF CaptureInv, RecordsInOrder
      <3>2. CASE cachedJob.there /\ cachedJob' = [cachedJob EXCEPT !.rows[head.entry] = Shown(head)]
        <4>1. /\ DOMAIN cachedJob' = DOMAIN cachedJob /\ cachedJob'.there = cachedJob.there
              /\ cachedJob'.rows = [cachedJob.rows EXCEPT ![head.entry] = Shown(head)]
            BY <3>2 DEF CaptureInv, RecordsInOrder
        <4>2. cachedJob.rows \in [Entries -> applied' \cup {0}]
            BY <1>4, <3>2 DEF CaptureInv, RecordsInOrder
        <4> QED BY <1>1, <2>1, <3>2, <4>1, <4>2 DEF CaptureInv, RecordsInOrder, OutboxRows
      <3> QED BY <1>4, <3>1, <3>2 DEF confirmAck
    <2>4. RecordsInOrder'
        BY <1>2, <1>4, <2>2, <2>3 DEF CaptureInv, RecordsInOrder
    <2>5. HeldIds' \subseteq HeldIds /\ HeldIds \subseteq HeldIds' \cup {head.id}
        BY <1>4 DEF HeldIds
    <2>6. Known \subseteq Known'
        BY <1>4, <2>5 DEF Known
    <2> QED BY <1>2, <2>3, <2>4, <2>5, <2>6, BehindTheScreenKeeps
  <1>5. ASSUME NEW status \in {"conflict", "failed"},
               heldRows' = (heldRows \ {head}) \cup {[head EXCEPT !.status = status]},
               UNCHANGED <<accepted, applied, cachedJob>>
        PROVE  CaptureInv'
    <2>1. ASSUME NEW row \in heldRows
          PROVE  /\ row = [row EXCEPT !.status = row.status]
                 /\ row.status \in {"pending", "sending", "conflict", "failed"}
        BY DEF CaptureInv, RecordsInOrder, OutboxRows
    <2>2. [head EXCEPT !.status = status].id = head.id
        BY <1>1 DEF OutboxRows
    <2>3. \A row \in heldRows' : \E old \in heldRows, s \in {"pending", "sending", "conflict", "failed"} :
                                    row = [old EXCEPT !.status = s]
        BY <1>1, <1>5, <2>1
    <2>4. \A old \in heldRows : \E row \in heldRows' : row.id = old.id
        BY <1>1, <1>5, <2>2
    <2>5. RecordsInOrder' /\ HeldIds' = HeldIds /\ Known' = Known
        BY <1>2, <1>5, <2>3, <2>4, StatusChangeKeeps DEF CaptureInv
    <2> QED BY <1>2, <1>5, <2>5, BehindTheScreenKeeps
  <1> QED BY <1>3, <1>4, <1>5

(* Refused rows are queued again, or dropped: then the screen owes itself  *)
(* a reading of everything.                                                *)
LEMMA RecoveryKeeps ==
    ASSUME CaptureInv, NEW keep \in BOOLEAN, recoverConflicts(keep) PROVE CaptureInv'
  <1>1. /\ UNCHANGED <<rowsMade, accepted, applied, submission, reads>>
        /\ capture' = [capture EXCEPT !.recovering = TRUE, !.owed = IF keep THEN @ ELSE {"job", "parts"}]
        /\ OnScreen /\ cachedJob.there
        /\ \/ cachedJob' = [cachedJob EXCEPT !.removed = TRUE]
           \/ \E lost : cachedJob' = Copy(lost)
      BY DEF recoverConflicts, RecoveryOffered, serverVars, CaptureInv, ScreenIsBacked
  <1>2. /\ retained \subseteq heldRows
        /\ heldRows' = (heldRows \ retained)
                       \cup (IF keep THEN {[row EXCEPT !.status = "pending"] : row \in retained} ELSE {})
      BY DEF recoverConflicts, retained, WithStatus
  <1>3. ASSUME NEW row \in heldRows
        PROVE  /\ row \in OutboxRows
               /\ [row EXCEPT !.status = "pending"] \in OutboxRows
               /\ [row EXCEPT !.status = "pending"].id = row.id
      BY DEF CaptureInv, RecordsInOrder, OutboxRows
  <1>4. /\ heldRows' \subseteq OutboxRows
        /\ \A row \in heldRows' : \E old \in heldRows : row.id = old.id
        /\ keep => \A old \in heldRows : \E row \in heldRows' : row.id = old.id
      BY <1>2, <1>3
  <1>5. HeldIds' \subseteq HeldIds /\ (keep => HeldIds' = HeldIds)
      BY <1>4 DEF HeldIds
  <1>6. /\ "there" \in DOMAIN cachedJob' /\ cachedJob'.there /\ "rows" \in DOMAIN cachedJob'
        /\ cachedJob'.rows \in [Entries -> applied \cup {0}]
    <2>1. CASE cachedJob' = [cachedJob EXCEPT !.removed = TRUE]
        BY <1>1, <2>1 DEF CaptureInv, RecordsInOrder
    <2>2. ASSUME NEW lost, cachedJob' = Copy(lost) PROVE <1>6!:
        BY <2>2 DEF CaptureInv, RecordsInOrder, Copy
    <2> QED BY <1>1, <2>1, <2>2
  <1>7. RecordsInOrder'
      BY <1>1, <1>4, <1>6 DEF CaptureInv, RecordsInOrder
  <1>8. /\ DOMAIN capture' = DOMAIN capture /\ capture'.stage = capture.stage /\ capture'.shown = capture.shown
        /\ capture'.recovering
        /\ capture'.owed = IF keep THEN capture.owed ELSE {"job", "parts"}
      BY <1>1 DEF CaptureInv, ScreenFields
  <1>9. ScreenFields'
      BY <1>1, <1>8 DEF CaptureInv, ScreenFields
  <1>10. ScreenIsBacked'
    <2>1. CASE keep
      <3>1. Known' = Known
          BY <1>1, <1>5, <2>1 DEF Known
      <3>2. capture'.owed = capture.owed
          BY <1>8, <2>1
      <3>3. \A e \in Entries : Behind(e)' <=> Behind(e)
          BY <1>8, <3>1 DEF Behind, Known
      <3>4. /\ "job" \notin capture'.owed => \A e \in Recorders : Behind(e)'
            /\ "parts" \notin capture'.owed => \A p \in PartEntries : Behind(p)'
          BY <3>2, <3>3 DEF CaptureInv, ScreenIsBacked, Recorders, Entries
      <3>5. reads'.ready => ReadIsOld' \/ \A p \in PartEntries : reads'.parts[p] \in Known'
          BY <1>1, <1>8, <3>1, <3>2 DEF CaptureInv, ScreenIsBacked, ReadIsOld
      <3> QED BY <1>1, <1>6, <1>8, <3>4, <3>5 DEF CaptureInv, ScreenIsBacked
    <2>2. CASE ~keep
      <3>1. capture'.owed = {"job", "parts"} /\ ReadIsOld'
          BY <1>8, <2>2 DEF ReadIsOld
      <3> QED BY <1>1, <1>6, <1>8, <3>1 DEF CaptureInv, ScreenIsBacked
    <2> QED BY <2>1, <2>2
  <1>11. SignedRowsAreSent'
      BY <1>1, <1>5, SignedStays
  <1> QED BY <1>7, <1>9, <1>10, <1>11 DEF CaptureInv

-----------------------------------------------------------------------------
(* Loading and reading.                                                    *)

LEMMA ShowsFields ==
    ASSUME CaptureInv, cachedJob.there, NEW outboxRead \in BOOLEAN
    PROVE  LET screen == Shows(capture, outboxRead)
           IN  /\ DOMAIN screen = DOMAIN capture /\ screen.stage = capture.stage
               /\ screen.recovering = capture.recovering /\ screen.owed = capture.owed \ {"job"}
               /\ DOMAIN screen.shown = Entries
               /\ \A e \in Recorders : screen.shown[e] \in Known
               /\ \A p \in PartEntries : screen.shown[p] = capture.shown[p]
  <1>1. \A e \in Recorders : e \in Entries /\ e \notin PartEntries
      BY CaptureAssumption DEF Recorders, Entries
  <1>2. \A e \in Recorders : pendingTitleMachineNumber(e, outboxRead) \in Known
      BY LoadedIsKnown DEF CaptureInv
  <1>3. \A p \in PartEntries : p \in Entries
      BY DEF Entries
  <1> QED BY <1>1, <1>2, <1>3 DEF Shows, CaptureInv, ScreenFields

LEMMA LoadingKeeps ==
    ASSUME CaptureInv, loadCached \/ recovered PROVE CaptureInv'
  <1>1. UNCHANGED <<heldRows, rowsMade, accepted, applied, cachedJob, submission>>
      BY DEF loadCached, recovered, deviceVars, serverVars
  <1>2. RecordsInOrder' /\ Known' = Known
      BY <1>1, RecordsStay DEF CaptureInv
  <1>3. SignedRowsAreSent'
      BY <1>1, SignedStays DEF HeldIds
  <1>4. refreshState
      BY DEF loadCached, recovered
  <1>5. /\ {"asked", "ready", "parts"} \subseteq DOMAIN reads'
        /\ reads'.ready = reads.ready /\ reads'.parts = reads.parts
        /\ reads.asked => reads'.asked
        /\ capture.stage = "left" => reads' = reads
        /\ capture.stage # "left" => reads'.asked
      BY <1>4, AskingStays DEF CaptureInv, refreshState, ScreenFields
  <1>6. capture.stage # "left"
      BY DEF loadCached, recovered, OnScreen
  <1>7. ASSUME DOMAIN capture' = DOMAIN capture, capture'.stage # "left", cachedJob.there,
               DOMAIN capture'.shown = Entries, capture'.owed = capture.owed \ {"job"},
               \A e \in Recorders : capture'.shown[e] \in Known,
               \A p \in PartEntries : capture'.shown[p] = capture.shown[p]
        PROVE  CaptureInv'
    <2>1. ScreenFields'
        BY <1>5, <1>7 DEF CaptureInv, ScreenFields
    <2>2. /\ \A e \in Recorders : Behind(e)'
          /\ "parts" \notin capture'.owed => \A p \in PartEntries : Behind(p)'
        BY <1>2, <1>7 DEF CaptureInv, ScreenIsBacked, Behind, Known
    <2>3. reads'.ready => ReadIsOld' \/ \A p \in PartEntries : reads'.parts[p] \in Known'
        BY <1>2, <1>5, <1>6, <1>7 DEF CaptureInv, ScreenIsBacked, ReadIsOld
    <2>4. ScreenIsBacked'
        BY <1>1, <1>7, <2>2, <2>3 DEF ScreenIsBacked
    <2> QED BY <1>2, <1>3, <2>1, <2>4 DEF CaptureInv
  <1>8. ASSUME NEW outboxRead \in BOOLEAN, cachedJob.there,
               \/ capture' = [Shows(capture, outboxRead) EXCEPT !.stage = "editing", !.fetchTried = FALSE]
               \/ capture' = [Shows(capture, outboxRead) EXCEPT !.recovering = FALSE]
        PROVE  CaptureInv'
    <2> DEFINE screen == Shows(capture, outboxRead)
    <2>1. /\ DOMAIN screen = DOMAIN capture /\ screen.stage = capture.stage
          /\ screen.recovering = capture.recovering /\ screen.owed = capture.owed \ {"job"}
          /\ DOMAIN screen.shown = Entries
          /\ \A e \in Recorders : screen.shown[e] \in Known
          /\ \A p \in PartEntries : screen.shown[p] = capture.shown[p]
        BY <1>8, ShowsFields
    <2>2. /\ {"stage", "shown", "owed"} \subseteq DOMAIN screen
        BY <2>1 DEF CaptureInv, ScreenFields
    <2>3. \/ capture' = [screen EXCEPT !.stage = "editing", !.fetchTried = FALSE]
          \/ capture' = [screen EXCEPT !.recovering = FALSE]
        BY <1>8
    <2> HIDE DEF screen
    <2>4. /\ DOMAIN capture' = DOMAIN capture /\ capture'.stage # "left"
          /\ capture'.shown = screen.shown /\ capture'.owed = screen.owed
        BY <1>6, <2>1, <2>2, <2>3
    <2> QED BY <1>7, <1>8, <2>1, <2>4
  <1>9. CASE \/ loadCached /\ (\/ capture' = [capture EXCEPT !.stage = "missing"]
                               \/ capture' = [capture EXCEPT !.stage = "unreadable"])
             \/ recovered /\ capture' = [capture EXCEPT !.recovering = FALSE]
    <2>1. /\ DOMAIN capture' = DOMAIN capture /\ capture'.shown = capture.shown
          /\ capture'.owed = capture.owed /\ capture'.stage # "left"
          /\ OnScreen' => OnScreen
        BY <1>6, <1>9 DEF CaptureInv, ScreenFields, OnScreen
    <2>2. ScreenFields'
        BY <1>5, <2>1 DEF CaptureInv, ScreenFields
    <2>3. /\ "job" \notin capture'.owed => \A e \in Recorders : Behind(e)'
          /\ "parts" \notin capture'.owed => \A p \in PartEntries : Behind(p)'
        BY <1>2, <2>1 DEF CaptureInv, ScreenIsBacked, Behind, Known
    <2>4. reads'.ready => ReadIsOld' \/ \A p \in PartEntries : reads'.parts[p] \in Known'
        BY <1>2, <1>5, <1>6, <2>1 DEF CaptureInv, ScreenIsBacked, ReadIsOld
    <2>5. ScreenIsBacked'
        BY <1>1, <2>1, <2>3, <2>4 DEF CaptureInv, ScreenIsBacked
    <2> QED BY <1>2, <1>3, <2>2, <2>5 DEF CaptureInv
  <1>10. recovered => cachedJob.there
      BY DEF recovered, CaptureInv, ScreenIsBacked
  <1> QED BY <1>8, <1>9, <1>10 DEF loadCached, recovered

LEMMA RefreshKeeps ==
    ASSUME CaptureInv, refreshReads \/ refreshApplied PROVE CaptureInv'
  <1>1. UNCHANGED <<heldRows, rowsMade, accepted, applied, cachedJob, submission>>
      BY DEF refreshReads, refreshApplied, deviceVars, serverVars
  <1>2. RecordsInOrder' /\ Known' = Known
      BY <1>1, RecordsStay DEF CaptureInv
  <1>3. SignedRowsAreSent'
      BY <1>1, SignedStays DEF HeldIds
  <1>4. CASE refreshReads
    <2>1. /\ capture' = capture /\ capture.stage # "left"
          /\ ~reads'.asked /\ {"asked", "ready", "parts"} \subseteq DOMAIN reads'
          /\ reads'.ready => reads'.parts = mergedParts
        BY <1>4 DEF refreshReads, CaptureInv, ScreenFields, ScreenIsBacked
    <2>2. ScreenFields'
        BY <2>1 DEF CaptureInv, ScreenFields
    <2>3. \A e \in Entries : Behind(e)' <=> Behind(e)
        BY <1>2, <2>1 DEF Behind, Known
    <2>4. reads'.ready => \A p \in PartEntries : reads'.parts[p] \in Known'
        BY <1>2, <2>1, MergedIsKnown DEF CaptureInv
    <2>5. ScreenIsBacked'
        BY <1>1, <2>1, <2>3, <2>4 DEF CaptureInv, ScreenIsBacked, OnScreen, Recorders, Entries
    <2> QED BY <1>2, <1>3, <2>2, <2>5 DEF CaptureInv
  <1>5. CASE refreshApplied
    <2>1. /\ reads.ready /\ ~reads'.ready /\ reads'.asked = reads.asked
          /\ {"asked", "ready", "parts"} \subseteq DOMAIN reads'
        BY <1>5 DEF refreshApplied, CaptureInv, ScreenFields
    <2>2. /\ DOMAIN capture' = DOMAIN capture /\ capture'.stage = capture.stage
          /\ capture'.recovering = capture.recovering
          /\ capture'.shown = [e \in Entries |-> IF e \in PartEntries THEN reads.parts[e] ELSE capture.shown[e]]
          /\ capture'.owed = IF reads.asked \/ capture.recovering THEN capture.owed
                             ELSE capture.owed \ {"parts"}
        BY <1>5 DEF refreshApplied, CaptureInv, ScreenFields
    <2>3. ScreenFields'
        BY <2>1, <2>2 DEF CaptureInv, ScreenFields
    <2>4. "job" \notin capture'.owed => \A e \in Recorders : Behind(e)'
      <3>1. \A e \in Recorders : e \in Entries /\ e \notin PartEntries
          BY CaptureAssumption DEF Recorders, Entries
      <3>2. "job" \notin capture'.owed => "job" \notin capture.owed
          BY <2>2
      <3> QED BY <1>2, <2>2, <3>1, <3>2 DEF CaptureInv, ScreenIsBacked, Behind, Known
    <2>5. "parts" \notin capture'.owed => \A p \in PartEntries : Behind(p)'
      <3>1. "parts" \notin capture'.owed => ~ReadIsOld
          BY <2>2 DEF ReadIsOld
      <3>2. "parts" \notin capture'.owed => \A p \in PartEntries : reads.parts[p] \in Known'
          BY <1>2, <2>1, <3>1 DEF CaptureInv, ScreenIsBacked
      <3>3. \A p \in PartEntries : p \in Entries
          BY DEF Entries
      <3> QED BY <2>2, <3>2, <3>3 DEF Behind, Known
    <2>6. ScreenIsBacked'
        BY <1>1, <2>1, <2>2, <2>4, <2>5 DEF CaptureInv, ScreenIsBacked, OnScreen
    <2> QED BY <1>2, <1>3, <2>3, <2>6 DEF CaptureInv
  <1> QED BY <1>4, <1>5

-----------------------------------------------------------------------------
(* The rest.                                                               *)

LEMMA ServerSideKeeps ==
    ASSUME CaptureInv, bootstrapLands \/ fetchMissingJob \/ submitAnswered PROVE CaptureInv'
  <1>1. UNCHANGED <<heldRows, rowsMade, accepted, applied>>
      BY DEF bootstrapLands, fetchMissingJob, submitAnswered, serverVars
  <1>2. \/ cachedJob' = cachedJob
        \/ \E lost : cachedJob' = Copy(lost)
        \/ \E flag : cachedJob' = [cachedJob EXCEPT !.answerLost = flag]
      BY DEF bootstrapLands, fetchMissingJob, submitAnswered, Bootstrapped,
             submitAccepted, submitRefused, submitUnanswered
  <1>3. RecordsInOrder' /\ Known' = Known /\ (cachedJob.there => cachedJob'.there)
      BY <1>1, <1>2, RecordsStay DEF CaptureInv
  <1>4. SignedRowsAreSent'
    <2>1. CASE submission' = submission
        BY <1>1, <2>1, SignedStays DEF HeldIds
    <2>2. CASE submission' = NoSubmission
        BY <1>1, <2>2 DEF NoSubmission, SignedRowsAreSent, SubmitCarriesWhatWasSigned, CaptureInv, RecordsInOrder
    <2> QED BY <2>1, <2>2 DEF bootstrapLands, fetchMissingJob, submitAnswered
  <1>5. CASE capture' = Left /\ reads' = NoReads
    <2>1. ScreenFields' /\ ScreenIsBacked'
        BY <1>5, FreshScreenKeeps DEF Left, NewScreen, CaptureInv
    <2> QED BY <1>3, <1>4, <2>1 DEF CaptureInv
  <1>6. CASE /\ \/ capture' = capture
                \/ fetchMissingJob /\ capture' = [capture EXCEPT !.stage = "reading", !.fetchTried = TRUE]
                \/ fetchMissingJob /\ capture' = [capture EXCEPT !.fetchTried = TRUE]
             /\ refreshState \/ reads' = reads
    <2>1. /\ {"asked", "ready", "parts"} \subseteq DOMAIN reads'
          /\ reads'.ready = reads.ready /\ reads'.parts = reads.parts
          /\ reads.asked => reads'.asked
          /\ capture.stage = "left" => reads' = reads
        BY <1>6, AskingStays DEF CaptureInv
    <2>2. /\ DOMAIN capture' = DOMAIN capture /\ capture'.shown = capture.shown
          /\ capture'.owed = capture.owed /\ capture'.recovering = capture.recovering
          /\ capture'.stage = capture.stage \/ capture'.stage = "reading"
        BY <1>6 DEF CaptureInv, ScreenFields
    <2>3. ScreenFields'
        BY <2>1, <2>2 DEF CaptureInv, ScreenFields
    <2>4. ScreenStays
        BY <1>3, <2>1, <2>2, <2>3 DEF ScreenStays, OnScreen
    <2> QED BY <1>3, <1>4, <2>3, <2>4, StayingIsBacked DEF CaptureInv
  <1> QED BY <1>5, <1>6 DEF bootstrapLands, fetchMissingJob, submitAnswered,
                            submitAccepted, submitRefused, submitUnanswered

(* The actions that touch neither the outbox nor the cached copy.          *)
LEMMA ScreenActionsKeep ==
    ASSUME CaptureInv, UNCHANGED <<heldRows, rowsMade, accepted, applied, cachedJob>>,
           \/ notifySynced
           \/ \E e \in TypedEntries : recordMeasurement(e)
           \/ \E p \in Photos : stagePhotos(p) \/ removePhoto(p) \/ uploadPhoto(p) \/ uploadAnswered(p)
           \/ startSigning \/ cancelSigning \/ handleSubmit \/ submitJob
           \/ handleBack \/ openAgain \/ jobChanges
           \/ UNCHANGED captureVars
    PROVE  CaptureInv'
  <1>1. RecordsInOrder' /\ Known' = Known
      BY RecordsStay DEF CaptureInv
  <1>2. SignedRowsAreSent'
    <2>1. CASE handleSubmit
      <3>1. submission' = [phase |-> "checking", signed |-> HeldIds]
          BY <2>1 DEF handleSubmit
      <3>2. HeldIds \subseteq 0 .. rowsMade
          BY DEF CaptureInv, RecordsInOrder, OutboxRows, HeldIds
      <3> QED BY <3>1, <3>2 DEF SignedRowsAreSent, SubmitCarriesWhatWasSigned
    <2>2. CASE submitJob /\ submission' = [submission EXCEPT !.phase = "posting"]
      <3>1. /\ heldRows = {} /\ submission'.signed = submission.signed
            /\ DOMAIN submission' = DOMAIN submission
          BY <2>2 DEF submitJob, pendingMutations, NoSubmission, CaptureInv, SignedRowsAreSent
      <3>2. HeldIds' = {}
          BY <3>1 DEF HeldIds
      <3> QED BY <3>1, <3>2 DEF CaptureInv, SignedRowsAreSent, SubmitCarriesWhatWasSigned
    <2>3. CASE submission' = NoSubmission
        BY <2>3 DEF SignedRowsAreSent, SubmitCarriesWhatWasSigned, NoSubmission, CaptureInv, RecordsInOrder
    <2>4. CASE submission' = submission
        BY <2>4, SignedStays DEF HeldIds
    <2> QED BY <2>1, <2>2, <2>3, <2>4
            DEF notifySynced, recordMeasurement, stagePhotos, removePhoto, uploadPhoto, uploadAnswered,
                PhotoMoves, startSigning, cancelSigning, ScreenOnly, submitJob, handleBack, openAgain,
                jobChanges, captureVars
  <1>3. ScreenFields' /\ ScreenIsBacked'
    <2>1. CASE handleBack
        BY <2>1, FreshScreenKeeps DEF handleBack, Left, NewScreen, CaptureInv
    <2>2. CASE openAgain
      <3>1. /\ capture' = [NewScreen EXCEPT !.late = capture.late] /\ reads' = reads
            /\ ~reads.asked /\ ~reads.ready
          BY <2>2 DEF openAgain, CaptureInv, ScreenIsBacked
      <3> QED BY <3>1, FreshScreenKeeps DEF NewScreen, CaptureInv
    <2>3. ASSUME /\ DOMAIN capture' = DOMAIN capture /\ capture'.shown = capture.shown
                 /\ capture'.owed = capture.owed /\ capture'.recovering = capture.recovering
                 /\ OnScreen' => OnScreen
                 /\ capture'.stage = "left" => capture.stage = "left"
                 /\ refreshState \/ reads' = reads
          PROVE  ScreenFields' /\ ScreenIsBacked'
      <3>1. /\ {"asked", "ready", "parts"} \subseteq DOMAIN reads'
            /\ reads'.ready = reads.ready /\ reads'.parts = reads.parts
            /\ reads.asked => reads'.asked
            /\ capture.stage = "left" => reads' = reads
          BY <2>3, AskingStays DEF CaptureInv
      <3>2. ScreenFields'
          BY <2>3, <3>1 DEF CaptureInv, ScreenFields
      <3>3. ScreenStays
          BY <1>1, <2>3, <3>1, <3>2 DEF ScreenStays
      <3> QED BY <3>2, <3>3, StayingIsBacked
    <2> USE DEF CaptureInv, ScreenFields, OnScreen
    <2>4. CASE notifySynced
        BY <2>3, <2>4 DEF notifySynced
    <2>5. ASSUME NEW e \in TypedEntries, recordMeasurement(e) PROVE ScreenFields' /\ ScreenIsBacked'
        BY <2>3, <2>5 DEF recordMeasurement
    <2>6. ASSUME NEW p \in Photos, NEW from, NEW to, PhotoMoves(p, from, to)
          PROVE  ScreenFields' /\ ScreenIsBacked'
        BY <2>3, <2>6 DEF PhotoMoves
    <2>7. CASE startSigning \/ cancelSigning \/ handleSubmit
        BY <2>3, <2>7 DEF startSigning, cancelSigning, handleSubmit, ScreenOnly
    <2>8. CASE submitJob \/ jobChanges \/ UNCHANGED captureVars
        BY <2>3, <2>8 DEF submitJob, jobChanges, captureVars
    <2> QED BY <2>1, <2>2, <2>4, <2>5, <2>6, <2>7, <2>8
            DEF stagePhotos, removePhoto, uploadPhoto, uploadAnswered
  <1> QED BY <1>1, <1>2, <1>3 DEF CaptureInv

LEMMA CaptureInvNext ==
    ASSUME CaptureInv, [CaptureNext]_captureVars PROVE CaptureInv'
  <1>1. CASE loadCached \/ recovered
      BY <1>1, LoadingKeeps
  <1>2. CASE \/ \E e \in ItemEntries : recordItemStatus(e)
             \/ \E p \in PartEntries : savePart(p) \/ removePart(p)
             \/ \E e \in TypedEntries : debounceFires(e) \/ flushTitleMachineNumber(e)
      BY <1>2, AppendActionsKeep
  <1>3. CASE bootstrapLands \/ fetchMissingJob \/ submitAnswered
      BY <1>3, ServerSideKeeps
  <1>4. CASE triggerDrainIfOnline \/ drainAll \/ batchUnanswered
      BY <1>4, DrainKeeps DEF triggerDrainIfOnline, drainAll
  <1>5. CASE rowAnswered
      BY <1>5, AnswerKeeps
  <1>6. ASSUME NEW keep \in BOOLEAN, recoverConflicts(keep) PROVE CaptureInv'
      BY <1>6, RecoveryKeeps
  <1>7. CASE refreshReads \/ refreshApplied
      BY <1>7, RefreshKeeps
  <1>8. CASE \/ notifySynced
             \/ \E e \in TypedEntries : recordMeasurement(e)
             \/ \E p \in Photos : stagePhotos(p) \/ removePhoto(p) \/ uploadPhoto(p) \/ uploadAnswered(p)
             \/ startSigning \/ cancelSigning \/ handleSubmit \/ submitJob
             \/ handleBack \/ openAgain \/ jobChanges
             \/ UNCHANGED captureVars
    <2>1. UNCHANGED <<heldRows, rowsMade, accepted, applied, cachedJob>>
        BY <1>8 DEF notifySynced, recordMeasurement, stagePhotos, removePhoto, uploadPhoto, uploadAnswered,
                PhotoMoves, startSigning, cancelSigning, ScreenOnly, handleSubmit, submitJob, handleBack,
                openAgain, jobChanges, captureVars, deviceVars, serverVars
    <2> QED BY <1>8, <2>1, ScreenActionsKeep
  <1> QED BY <1>1, <1>2, <1>3, <1>4, <1>5, <1>6, <1>7, <1>8 DEF CaptureNext

(* A submission goes out only with every row that was held when the        *)
(* technician finished signing already sent (handleSubmit, submitJob).     *)
THEOREM SubmissionIsComplete == CaptureSpec => []SubmitCarriesWhatWasSigned
  <1>1. CaptureInv => SubmitCarriesWhatWasSigned
      BY DEF CaptureInv, SignedRowsAreSent
  <1> QED BY <1>1, CaptureInvInit, CaptureInvNext, PTL DEF CaptureSpec

(* What the screen shows from a row is in the outbox or was applied by the *)
(* server, except text still in a box and, after a discard, what the       *)
(* screen has not read again (appendOrReport, drain, confirmAck,           *)
(* recoverConflicts, loadCached, refreshState).                            *)
THEOREM ShownIsHeld == CaptureSpec => []ShownEntryIsHeld
  <1>1. CaptureInv => ShownEntryIsHeld
      BY DEF CaptureInv, ScreenIsBacked, ShownEntryIsHeld, Recorders
  <1> QED BY <1>1, CaptureInvInit, CaptureInvNext, PTL DEF CaptureSpec

-----------------------------------------------------------------------------
(* PlannerScreen.                                                          *)

PlanRows == [rule : PlanRules, due : PlanYears]
PlanReads == [year : PlanYears, after : 0 .. RuleCount, pages : Nat,
              rows : SUBSET PlanRows, steady : SUBSET PlanRules]

OneRowPerRule(rows) == \A a, b \in rows : a.rule = b.rule => a = b

(* A read has every rule up to its cursor that was in the year all along,  *)
(* none beyond it, and none twice.                                         *)
WholeSoFar(read) ==
    /\ read.steady \subseteq Eligible(read.year)
    /\ \A row \in read.rows : row.rule <= read.after
    /\ OneRowPerRule(read.rows)
    /\ \A r \in read.steady : r <= read.after => \E row \in read.rows : row.rule = r

GridIsWhole ==
    planGrid.read => /\ OneRowPerRule(planGrid.rows)
                     /\ \A r \in planGrid.steady : \E row \in planGrid.rows : row.rule = r

PlannerInv ==
    /\ planDue \in [PlanRules -> PlanYears]
    /\ planYear \in PlanYears
    /\ planReads \subseteq PlanReads
    /\ \A read \in planReads : WholeSoFar(read)
    /\ GridIsWhole

LEMMA NewReadIsWhole ==
    ASSUME planDue \in [PlanRules -> PlanYears], NEW y \in PlanYears
    PROVE  NewRead(y) \in PlanReads /\ WholeSoFar(NewRead(y))
  <1>1. NewRead(y) = [year |-> y, after |-> 0, pages |-> 0, rows |-> {}, steady |-> Eligible(y)]
      BY DEF NewRead
  <1>2. Eligible(y) \subseteq PlanRules /\ 0 \in 0 .. RuleCount
      BY PlannerAssumption DEF Eligible
  <1>3. NewRead(y) \in PlanReads
      BY <1>1, <1>2 DEF PlanReads
  <1>4. \A r \in NewRead(y).steady : ~(r <= NewRead(y).after)
      BY <1>1, <1>2, PlannerAssumption DEF PlanRules
  <1> QED BY <1>1, <1>3, <1>4 DEF WholeSoFar, OneRowPerRule

LEMMA PlannerInvInit == PlannerInit => PlannerInv
  <1> SUFFICES ASSUME PlannerInit PROVE PlannerInv
      OBVIOUS
  <1>1. 1 \in PlanYears
      BY PlannerAssumption DEF PlanYears
  <1>2. NewRead(1) \in PlanReads /\ WholeSoFar(NewRead(1))
      BY <1>1, NewReadIsWhole DEF PlannerInit
  <1> QED BY <1>1, <1>2 DEF PlannerInit, PlannerInv, GridIsWhole, NotRead

(* The next page: the rules after the cursor, from the lowest up.          *)
LEMMA PageOfRules ==
    ASSUME PlannerInv, NEW read \in planReads
    PROVE  LET page == NextPage(read)
               later == {r \in Eligible(read.year) : r > read.after}
           IN  /\ page \subseteq later /\ later \subseteq PlanRules
               /\ \A i \in page : \A j \in later : j <= i => j \in page
               /\ page # {} => \E m \in page : \A q \in page : m >= q
               /\ ~HasMore(read, page) => page = later
  <1> DEFINE page == NextPage(read)
             later == {r \in Eligible(read.year) : r > read.after}
  <1>1. /\ later \in SUBSET Nat /\ later \subseteq PlanRules /\ RuleCount \in Nat
        /\ (\A k \in later : k <= RuleCount) /\ PageSize \in Nat
      BY PlannerAssumption DEF Eligible, PlanRules
  <1>2. page = FirstOf(later, PageSize)
      BY DEF NextPage, FirstOf, Before
  <1>3. page \subseteq later
      BY <1>2 DEF FirstOf
  <1> HIDE DEF later, page
  <1>4. ASSUME NEW i \in page, NEW j \in later, j <= i PROVE j \in page
      BY <1>1, <1>2, <1>4, FirstOfIsDownClosed
  <1>5. ASSUME page # {} PROVE \E m \in page : \A q \in page : m >= q
    <2>1. page \in SUBSET Nat /\ \A k \in page : k <= RuleCount
        BY <1>1, <1>3
    <2>2. PICK m \in page : \A q \in page : q <= m
        BY <1>1, <1>5, <2>1, GreatestNat
    <2> QED BY <2>1, <2>2
  <1>6. ASSUME ~HasMore(read, page), NEW r \in later PROVE r \in page
    <2>1. \E q \in page : ~(r > q)
        BY <1>6 DEF HasMore, later
    <2>2. PICK q \in page : ~(r > q)
        BY <2>1
    <2>3. r \in Nat /\ q \in Nat
        BY <1>1, <1>3
    <2> QED BY <1>4, <2>2, <2>3
  <1> QED BY <1>1, <1>3, <1>4, <1>5, <1>6 DEF later, page

(* A read with its next page is whole up to its new cursor; without more   *)
(* to come, it has every rule.                                             *)
LEMMA PageKeepsWhole ==
    ASSUME PlannerInv, NEW read \in planReads
    PROVE  LET page == NextPage(read)
               next == WithPage(read, page)
           IN  /\ next \in PlanReads /\ WholeSoFar(next)
               /\ next.steady = read.steady
               /\ ~HasMore(read, page) => \A r \in read.steady : \E row \in next.rows : row.rule = r
  <1> DEFINE page == NextPage(read)
             later == {r \in Eligible(read.year) : r > read.after}
             top == IF page = {} THEN read.after ELSE CHOOSE r \in page : \A q \in page : r >= q
             added == {[rule |-> r, due |-> planDue[r]] : r \in page}
             next == WithPage(read, page)
  <1>1. /\ page \subseteq later /\ later \subseteq PlanRules
        /\ \A i \in page : \A j \in later : j <= i => j \in page
        /\ page # {} => \E m \in page : \A q \in page : m >= q
        /\ ~HasMore(read, page) => page = later
      BY PageOfRules
  <1>2. read \in PlanReads /\ WholeSoFar(read)
      BY DEF PlannerInv
  <1>3. next = [read EXCEPT !.pages = read.pages + 1, !.after = top, !.rows = read.rows \cup added]
      BY DEF WithPage
  <1> HIDE DEF page, next
  <1>4. /\ top \in 0 .. RuleCount /\ read.after <= top
        /\ \A r \in page : r <= top /\ r > read.after /\ r \in Nat
        /\ page # {} => top \in page
      BY <1>1, <1>2, PlannerAssumption DEF PlanRules, PlanReads
  <1>5. added \subseteq PlanRows
      BY <1>1 DEF PlanRows, PlannerInv
  <1>6. /\ next \in PlanReads /\ next.year = read.year /\ next.after = top
        /\ next.rows = read.rows \cup added /\ next.steady = read.steady
    <2> HIDE DEF added, top, later
    <2>1. read.pages + 1 \in Nat /\ read.rows \cup added \in SUBSET PlanRows
        BY <1>2, <1>5 DEF PlanReads
    <2> QED BY <1>2, <1>3, <1>4, <2>1 DEF PlanReads
  <1> HIDE DEF top
  <1>7. \A row \in next.rows : row.rule <= next.after
    <2>1. \A row \in read.rows : row.rule \in Nat /\ row.rule <= read.after
        BY <1>2, PlannerAssumption DEF WholeSoFar, PlanReads, PlanRows, PlanRules
    <2>2. \A row \in added : row.rule <= top
        BY <1>4
    <2> QED BY <1>2, <1>4, <1>6, <2>1, <2>2 DEF PlanReads
  <1>8. OneRowPerRule(next.rows)
    <2>1. \A row \in read.rows : row.rule \in Nat /\ row.rule <= read.after
        BY <1>2, PlannerAssumption DEF WholeSoFar, PlanReads, PlanRows, PlanRules
    <2>2. \A row \in added : row.rule \in page /\ row = [rule |-> row.rule, due |-> planDue[row.rule]]
        OBVIOUS
    <2>3. \A a \in read.rows, b \in added : a.rule # b.rule
        BY <1>2, <1>4, <2>1, <2>2 DEF PlanReads
    <2> QED BY <1>2, <1>6, <2>2, <2>3 DEF WholeSoFar, OneRowPerRule
  <1>9. ASSUME NEW r \in read.steady, r \in page \/ r <= read.after
        PROVE  \E row \in next.rows : row.rule = r
    <2>1. CASE r <= read.after
        BY <1>2, <1>6, <2>1 DEF WholeSoFar
    <2>2. CASE r \in page
      <3>1. [rule |-> r, due |-> planDue[r]] \in added
          BY <2>2
      <3> QED BY <1>6, <3>1
    <2> QED BY <1>9, <2>1, <2>2
  <1>10. ASSUME NEW r \in read.steady
         PROVE  /\ r \in Nat /\ (r > read.after => r \in later)
                /\ r <= top => r \in page \/ r <= read.after
    <2>1. r \in Eligible(read.year) /\ r \in Nat
        BY <1>2, PlannerAssumption DEF WholeSoFar, PlanReads, PlanRules
    <2>2. r > read.after => r \in later
        BY <2>1
    <2>3. ASSUME r <= top, ~(r <= read.after) PROVE r \in page
      <3>1. r > read.after /\ page # {}
          BY <1>2, <2>1, <2>3 DEF PlanReads, top
      <3> QED BY <1>1, <1>4, <2>2, <2>3, <3>1
    <2> QED BY <2>1, <2>2, <2>3
  <1> HIDE DEF added, later
  <1>11. WholeSoFar(next)
    <2>1. \A r \in next.steady : r <= next.after => \E row \in next.rows : row.rule = r
        BY <1>6, <1>9, <1>10
    <2> QED BY <1>2, <1>6, <1>7, <1>8, <2>1 DEF WholeSoFar
  <1>12. ASSUME ~HasMore(read, page), NEW r \in read.steady PROVE \E row \in next.rows : row.rule = r
    <2>1. r \in page \/ r <= read.after
        BY <1>1, <1>2, <1>10, <1>12 DEF PlanReads
    <2> QED BY <1>9, <2>1
  <1> QED BY <1>6, <1>11, <1>12 DEF next, page

(* A due date moves: what leaves the year of a read is no longer steady.   *)
LEMMA MoveKeepsWhole ==
    ASSUME PlannerInv, NEW cell, NEW y \in PlanYears,
           planDue' = [planDue EXCEPT ![cell] = y],
           NEW read \in planReads,
           NEW next, next = [read EXCEPT !.steady = IF y > read.year THEN read.steady \ {cell} ELSE read.steady]
    PROVE  next \in PlanReads /\ WholeSoFar(next)'
  <1>1. read \in PlanReads /\ WholeSoFar(read) /\ planDue \in [PlanRules -> PlanYears]
      BY DEF PlannerInv
  <1> DEFINE kept == IF y > read.year THEN read.steady \ {cell} ELSE read.steady
  <1>2. kept \subseteq read.steady /\ (y > read.year => cell \notin kept)
      OBVIOUS
  <1>3. next = [read EXCEPT !.steady = kept]
      OBVIOUS
  <1> HIDE DEF kept
  <1>4. /\ next \in PlanReads /\ next.year = read.year /\ next.after = read.after
        /\ next.rows = read.rows /\ next.steady = kept
      BY <1>1, <1>2, <1>3 DEF PlanReads
  <1>5. ASSUME NEW r \in kept PROVE r \in Eligible(read.year)'
    <2>1. r \in PlanRules /\ planDue[r] <= read.year
        BY <1>1, <1>2 DEF WholeSoFar, Eligible
    <2>2. planDue'[r] <= read.year
      <3>1. CASE r = cell
        <4>1. ~(y > read.year) /\ planDue'[r] = y
            BY <1>1, <1>2, <2>1, <3>1
        <4> QED BY <1>1, <4>1, PlannerAssumption DEF PlanReads, PlanYears
      <3>2. CASE r # cell
          BY <1>1, <2>1, <3>2
      <3> QED BY <3>1, <3>2
    <2> QED BY <2>1, <2>2 DEF Eligible
  <1> QED BY <1>1, <1>2, <1>4, <1>5 DEF WholeSoFar

LEMMA PageArrivesKeeps ==
    ASSUME PlannerInv, PageArrives PROVE PlannerInv'
  <1>1. UNCHANGED <<planDue, planYear>>
      BY DEF PageArrives
  <1>2. PICK read \in planReads : pageAnswered(read) \/ readFailed(read)
      BY DEF PageArrives
  <1> DEFINE page == NextPage(read)
             next == WithPage(read, page)
  <1>3. /\ next \in PlanReads /\ WholeSoFar(next) /\ next.steady = read.steady
        /\ ~HasMore(read, page) => \A r \in read.steady : \E row \in next.rows : row.rule = r
      BY PageKeepsWhole
  <1>4. read \in PlanReads
      BY DEF PlannerInv
  <1>5. CASE readFailed(read) \/ (Drawn([read EXCEPT !.steady = {}], {}) /\ planReads' = planReads \ {read})
    <2>1. planReads' \subseteq planReads /\ planGrid'.steady = {} /\ planGrid'.rows = {}
        BY <1>4, <1>5 DEF readFailed, Drawn, PlanReads
    <2> QED BY <1>1, <2>1 DEF PlannerInv, GridIsWhole, OneRowPerRule, WholeSoFar, Eligible
  <1>6. CASE planReads' = (planReads \ {read}) \cup {next} /\ planGrid' = planGrid
    <2> HIDE DEF next
    <2>1. \A r \in planReads' : WholeSoFar(r)
        BY <1>3, <1>6 DEF PlannerInv
    <2> QED BY <1>1, <1>3, <1>6, <2>1 DEF PlannerInv, GridIsWhole, WholeSoFar, Eligible
  <1>7. CASE /\ ~HasMore(read, page) /\ planReads' = planReads \ {read}
             /\ Drawn(read, next.rows)
    <2> HIDE DEF next, page
    <2>1. planGrid'.rows = next.rows /\ planGrid'.steady = read.steady
        BY <1>7 DEF Drawn
    <2>2. GridIsWhole'
        BY <1>3, <1>7, <2>1 DEF GridIsWhole, WholeSoFar
    <2> QED BY <1>1, <1>7, <2>2 DEF PlannerInv, WholeSoFar, Eligible
  <1> QED BY <1>2, <1>5, <1>6, <1>7 DEF pageAnswered

LEMMA PlannerInvNext ==
    ASSUME PlannerInv, [PlannerNext]_plannerVars PROVE PlannerInv'
  <1>1. CASE PageArrives
      BY <1>1, PageArrivesKeeps
  <1>2. ASSUME NEW y \in PlanYears, setYear(y) PROVE PlannerInv'
    <2>1. /\ planDue' = planDue /\ planYear' = y /\ planGrid' = NotRead
          /\ planReads' = planReads \cup {NewRead(y)}
        BY <1>2 DEF setYear, loadYear
    <2>2. NewRead(y) \in PlanReads /\ WholeSoFar(NewRead(y))
        BY NewReadIsWhole DEF PlannerInv
    <2> QED BY <2>1, <2>2 DEF PlannerInv, GridIsWhole, NotRead, WholeSoFar, Eligible
  <1>3. ASSUME NEW y \in PlanYears, saveAnswered(y) PROVE PlannerInv'
    <2>1. PICK cell, moved, again :
             /\ cell = planCell
             /\ moved = {[read EXCEPT !.steady = IF y > read.year THEN @ \ {planCell} ELSE @] : read \in planReads}
             /\ again = [NewRead(planYear) EXCEPT !.steady = {r \in PlanRules : planDue'[r] <= planYear}]
        OBVIOUS
    <2>2. /\ planDue' = [planDue EXCEPT ![cell] = y] /\ planYear' = planYear /\ planGrid' = NotRead
          /\ planReads' = moved \cup {again}
        BY <1>3, <2>1 DEF saveAnswered
    <2>4. ASSUME NEW next \in moved PROVE  next \in PlanReads /\ WholeSoFar(next)'
      <3>1. PICK read \in planReads :
                 next = [read EXCEPT !.steady = IF y > read.year THEN read.steady \ {cell} ELSE read.steady]
          BY <2>1
      <3> QED BY <2>2, <3>1, MoveKeepsWhole
    <2>5. planDue' \in [PlanRules -> PlanYears] /\ planYear \in PlanYears
        BY <2>2 DEF PlannerInv
    <2>6. /\ again.year = planYear /\ again.after = 0 /\ again.rows = {}
          /\ again.steady = {r \in PlanRules : planDue'[r] <= planYear}
          /\ again \in PlanReads
      <3>1. {r \in PlanRules : planDue'[r] <= planYear} \subseteq PlanRules /\ 0 \in 0 .. RuleCount
          BY PlannerAssumption
      <3> QED BY <2>1, <2>5, <3>1 DEF NewRead, PlanReads
    <2>7. WholeSoFar(again)'
      <3>1. \A r \in again.steady : ~(r <= again.after)
          BY <2>6, PlannerAssumption DEF PlanRules
      <3>2. again.steady = Eligible(again.year)'
          BY <2>6 DEF Eligible
      <3> QED BY <2>6, <3>1, <3>2 DEF WholeSoFar, OneRowPerRule
    <2> QED BY <2>2, <2>4, <2>5, <2>6, <2>7 DEF PlannerInv, GridIsWhole, NotRead
  <1>4. ASSUME NEW y \in PlanYears, NEW cell, Moved(cell, y), UNCHANGED <<planGrid, planYear>>
        PROVE  PlannerInv'
    <2>1. PICK moved :
             moved = {[read EXCEPT !.steady = IF y > read.year THEN @ \ {cell} ELSE @] : read \in planReads}
        OBVIOUS
    <2>2. planDue' = [planDue EXCEPT ![cell] = y] /\ planReads' = moved
        BY <1>4, <2>1 DEF Moved
    <2>3. ASSUME NEW next \in moved PROVE  next \in PlanReads /\ WholeSoFar(next)'
      <3>1. PICK read \in planReads :
                 next = [read EXCEPT !.steady = IF y > read.year THEN read.steady \ {cell} ELSE read.steady]
          BY <2>1
      <3> QED BY <2>2, <3>1, MoveKeepsWhole
    <2> QED BY <1>4, <2>2, <2>3 DEF PlannerInv, GridIsWhole
  <1>5. ASSUME NEW y \in PlanYears, saveUnanswered(y) PROVE PlannerInv'
    <2>1. PICK cell : cell = planCell
        OBVIOUS
    <2>2. Moved(cell, y)
        BY <1>5, <2>1 DEF saveUnanswered, Moved
    <2> QED BY <1>4, <1>5, <2>2 DEF saveUnanswered
  <1>6. ASSUME NEW r \in PlanRules, NEW y \in PlanYears, otherMoves(r, y) PROVE PlannerInv'
      BY <1>4, <1>6 DEF otherMoves
  <1>7. ASSUME UNCHANGED <<planDue, planReads, planGrid, planYear>> PROVE PlannerInv'
      BY <1>7 DEF PlannerInv, GridIsWhole, WholeSoFar, Eligible
  <1>8. ASSUME NEW r \in PlanRules, openCell(r) PROVE PlannerInv'
      BY <1>7, <1>8 DEF openCell
  <1>9. CASE closeCell \/ openAdjustForm \/ cancelAdjustForm \/ UNCHANGED plannerVars
      BY <1>7, <1>9 DEF closeCell, openAdjustForm, cancelAdjustForm, plannerVars
  <1> QED BY <1>1, <1>2, <1>3, <1>5, <1>6, <1>8, <1>9 DEF PlannerNext

(* A plan that was drawn has every rule that was in its year from the      *)
(* moment its read began, and once, for any number of rules, pages and     *)
(* reads under way (listAllPlannerSchedule, findMany, paginate).           *)
THEOREM DrawnPlanIsWhole == PlannerSpec => []PlanIsWhole
  <1>1. PlannerInv => PlanIsWhole
    <2> SUFFICES ASSUME PlannerInv, planGrid.read, NEW r \in planGrid.steady
                 PROVE  Cardinality({row \in planGrid.rows : row.rule = r}) = 1
        BY DEF PlanIsWhole
    <2>1. PICK row \in planGrid.rows : row.rule = r
        BY DEF PlannerInv, GridIsWhole
    <2>2. {one \in planGrid.rows : one.rule = r} = {row}
        BY <2>1 DEF PlannerInv, GridIsWhole, OneRowPerRule
    <2> QED BY <2>2, FS_Singleton
  <1> QED BY <1>1, PlannerInvInit, PlannerInvNext, PTL DEF PlannerSpec

-----------------------------------------------------------------------------
(* The calendar of the plan.                                               *)

Calendar == INSTANCE PlanCalendar

(* Every day of every year lies in exactly one of its 52 work weeks, and   *)
(* that is the week whose column of the plan it is drawn in: the last week *)
(* takes the one or two days that are left (work-week.ts).                 *)
THEOREM EveryDayHasItsWeek ==
    ASSUME NEW year \in Nat, NEW day \in 0 .. Calendar!DaysInYear(year) - 1
    PROVE  Calendar!WeekHoldsItsDays(year, day)
  <1> DEFINE q == day \div 7
  <1>1. Calendar!DaysInYear(year) \in {365, 366}
      BY DEF Calendar!DaysInYear
  <1>2. day \in Nat /\ q \in Nat /\ 7 * q <= day /\ day < 7 * q + 7
      BY <1>1
  <1> HIDE DEF q
  <1>3. Calendar!weekOfDay(day) = IF q + 1 <= 52 THEN q + 1 ELSE 52
      BY DEF Calendar!weekOfDay, Calendar!WORK_WEEKS_PER_YEAR, q
  <1>4. ASSUME NEW week \in 1 .. 52
        PROVE  /\ Calendar!workWeekStart(week) = 7 * week - 7
               /\ Calendar!workWeekEnd(year, week) =
                    IF week = 52 THEN Calendar!DaysInYear(year) - 1 ELSE 7 * week - 1
      BY <1>1 DEF Calendar!workWeekStart, Calendar!workWeekEnd, Calendar!WORK_WEEKS_PER_YEAR
  <1>5. ASSUME NEW week \in 1 .. 52
        PROVE  week = Calendar!weekOfDay(day) <=>
                 Calendar!workWeekStart(week) <= day /\ day <= Calendar!workWeekEnd(year, week)
    <2>1. CASE week = 52
        BY <1>1, <1>2, <1>3, <1>4, <2>1
    <2>2. CASE week # 52
        BY <1>1, <1>2, <1>3, <1>4, <2>2
    <2> QED BY <2>1, <2>2
  <1> QED BY <1>5 DEF Calendar!WeekHoldsItsDays, Calendar!WORK_WEEKS_PER_YEAR

(* Months are added without leaving the calendar, and none is added twice. *)
LEMMA MonthsAddUp ==
    ASSUME NEW d \in Calendar!Dates, d[2] <= 28, NEW months \in Nat
    PROVE  Calendar!addCalendarMonthsClamped(d, months) = <<d[1] + months, d[2]>>
  <1>1. d[1] \in Nat /\ d[2] \in Nat
      BY DEF Calendar!Dates
  <1>2. Calendar!DaysInMonth(d[1] + months) \in {28, 29, 30, 31}
      BY DEF Calendar!DaysInMonth
  <1> QED BY <1>1, <1>2 DEF Calendar!addCalendarMonthsClamped

(* A rule anchored on a day that every month has keeps to the dates that   *)
(* were projected from it for as long as its visits are verified on time,  *)
(* whatever its interval (completion-cascade.ts, planner-projection.ts).   *)
THEOREM PunctualVisitsFollowThePlan ==
    ASSUME NEW first \in Calendar!Dates, first[2] <= 28, NEW n \in Nat, NEW interval \in Nat
    PROVE  Calendar!PunctualFollowsPlan(first, n, interval)
  <1> DEFINE nth == Calendar!addCalendarMonthsClamped(first, n * interval)
  <1>1. first[1] \in Nat /\ first[2] \in 1 .. 28 /\ n * interval \in Nat /\ (n + 1) * interval \in Nat
        /\ n * interval + interval = (n + 1) * interval
      BY DEF Calendar!Dates
  <1>2. nth = <<first[1] + n * interval, first[2]>>
      BY <1>1, MonthsAddUp
  <1>3. Calendar!DaysInMonth(first[1] + n * interval) \in {28, 29, 30, 31}
      BY DEF Calendar!DaysInMonth
  <1>4. nth \in Calendar!Dates /\ nth[1] = first[1] + n * interval /\ nth[2] = first[2]
      BY <1>1, <1>2, <1>3 DEF Calendar!Dates
  <1> HIDE DEF nth
  <1>5. Calendar!addCalendarMonthsClamped(nth, interval) = <<first[1] + (n + 1) * interval, first[2]>>
      BY <1>1, <1>4, MonthsAddUp
  <1>6. Calendar!addCalendarMonthsClamped(first, (n + 1) * interval)
          = <<first[1] + (n + 1) * interval, first[2]>>
      BY <1>1, MonthsAddUp
  <1>7. Calendar!computeCompletionCascade(nth, [f \in {"rule"} |-> interval])["rule"].nextDueOn
          = Calendar!addCalendarMonthsClamped(nth, interval)
      BY DEF Calendar!computeCompletionCascade
  <1> QED BY <1>5, <1>6, <1>7 DEF Calendar!PunctualFollowsPlan, nth

(* A date of a year has a work week of it, and a date of another has none. *)
LEMMA DatesHaveWeeks ==
    ASSUME NEW d \in Calendar!Dates, NEW year \in Nat
    PROVE  (Calendar!workWeekOfDate(d, year) # Calendar!NoWeek) <=> (Calendar!YearOf(d) = year)
  <1>1. d[1] \in Nat /\ d[2] \in 1 .. 31 /\ d[1] % 12 \in 0 .. 11
      BY DEF Calendar!Dates
  <1>2. \A m \in 0 .. 11 : Calendar!DaysBeforeMonth[m + 1] \in Nat
      BY DEF Calendar!DaysBeforeMonth
  <1>3. Calendar!DayIndex(d) \in Nat
    <2> DEFINE before == Calendar!DaysBeforeMonth[(d[1] % 12) + 1]
               extra == IF Calendar!Leap(Calendar!YearOf(d)) /\ d[1] % 12 > 1 THEN 1 ELSE 0
    <2>1. before \in Nat
        BY <1>1, <1>2
    <2>2. extra \in {0, 1}
        OBVIOUS
    <2>3. Calendar!DayIndex(d) = before + d[2] - 1 + extra
        BY DEF Calendar!DayIndex
    <2> HIDE DEF before, extra
    <2> QED BY <1>1, <2>1, <2>2, <2>3
  <1>4. Calendar!weekOfDay(Calendar!DayIndex(d)) # 0
      BY <1>3 DEF Calendar!weekOfDay, Calendar!WORK_WEEKS_PER_YEAR
  <1> QED BY <1>4 DEF Calendar!workWeekOfDate, Calendar!NoWeek

(* A rule that is past due is announced on the plan of the year its stored *)
(* date lies in, where that date is the one cell marked LATE, and on the   *)
(* plan of every later year, which names it as lying elsewhere; the plan   *)
(* of an earlier year does not have the rule.  For every stored date,      *)
(* interval, year and bound on the projected visits (findMany of           *)
(* PlannerScheduleRepository, buildGrid of Planner.tsx).                   *)
THEOREM LateRulesAreShown ==
    ASSUME NEW due \in Calendar!Dates, NEW interval \in Nat, NEW year \in Nat,
           NEW maxVisits \in Nat \ {0}, NEW now
    PROVE  Calendar!LateIsVisible(due, Calendar!PlannerRowsOf(due, interval, year, maxVisits), year, now)
  <1> DEFINE row == Calendar!toPlannerRow(due, interval, year, maxVisits)
             begin == <<12 * year, 1>>
             end == <<12 * year + 11, 31>>
  <1>1. row.nextDueOn = due /\ row.plannedDates =
          Calendar!projectVisitDates(due, interval, begin, end, maxVisits)
      BY DEF Calendar!toPlannerRow
  <1>2. due = <<due[1], due[2]>> /\ due[1] \in Nat /\ due[2] \in 1 .. 31
        /\ due[2] <= Calendar!DaysInMonth(due[1])
      BY DEF Calendar!Dates
  <1>3. Calendar!addCalendarMonthsClamped(due, 0) = due
      BY <1>2 DEF Calendar!addCalendarMonthsClamped
  <1>4. ASSUME Calendar!YearOf(due) = year PROVE due \in row.plannedDates
    <2>1. 12 * year <= due[1] /\ due[1] <= 12 * year + 11
        BY <1>2, <1>4 DEF Calendar!YearOf
    <2>2. Calendar!NotAfter(begin, due) /\ Calendar!NotAfter(due, end)
        BY <1>2, <2>1 DEF Calendar!NotAfter
    <2>3. 0 \in 0 .. maxVisits - 1 /\ 0 * interval = 0
        OBVIOUS
    <2> HIDE DEF begin, end, row
    <2>4. due \in {Calendar!addCalendarMonthsClamped(due, n * interval) : n \in 0 .. maxVisits - 1}
        BY <1>3, <2>3
    <2> QED BY <1>1, <2>2, <2>4 DEF Calendar!projectVisitDates
  <1> HIDE DEF row
  <1>5. Calendar!LateCells(row, year, now) =
          {d \in row.plannedDates : /\ Calendar!workWeekOfDate(d, year) # Calendar!NoWeek
                                    /\ d = due /\ Calendar!Before(d, now)}
      BY <1>1 DEF Calendar!LateCells, Calendar!GridCells
  <1>6. (Calendar!workWeekOfDate(due, year) # Calendar!NoWeek) <=> (Calendar!YearOf(due) = year)
      BY DatesHaveWeeks
  <1> DEFINE rows == Calendar!PlannerRowsOf(due, interval, year, maxVisits)
  <1>7. rows = {r \in {row} : Calendar!NotAfter(r.nextDueOn, end)}
      BY DEF Calendar!PlannerRowsOf, row
  <1>8. Calendar!NotAfter(due, end) <=> Calendar!YearOf(due) <= year
      BY <1>2 DEF Calendar!NotAfter, Calendar!YearOf
  <1>9. Calendar!YearOf(due) \in Int
      BY <1>2 DEF Calendar!YearOf
  <1> HIDE DEF rows, end
  <1>10. SUFFICES ASSUME Calendar!Before(due, now)
                  PROVE  IF Calendar!YearOf(due) > year THEN rows = {}
                         ELSE \E r \in rows :
                            IF Calendar!YearOf(due) = year
                            THEN Calendar!CountedLate(r, year, now) /\ Calendar!LateCells(r, year, now) = {due}
                            ELSE Calendar!OverdueElsewhere(r, year, now) /\ Calendar!LateCells(r, year, now) = {}
      BY Zenon DEF Calendar!LateIsVisible, rows
  <1>11. CASE Calendar!YearOf(due) > year
    <2>1. rows = {}
        BY <1>1, <1>7, <1>8, <1>9, <1>11
    <2> QED BY <1>11, <2>1
  <1>12. CASE Calendar!YearOf(due) = year
    <2>1. row \in rows
        BY <1>1, <1>7, <1>8, <1>12
    <2>2. Calendar!LateCells(row, year, now) = {due}
        BY <1>4, <1>5, <1>6, <1>10, <1>12
    <2>3. Calendar!CountedLate(row, year, now)
        BY <1>1, <1>6, <1>10, <1>12 DEF Calendar!CountedLate
    <2> QED BY <1>12, <2>1, <2>2, <2>3
  <1>13. CASE Calendar!YearOf(due) < year
    <2>1. row \in rows
        BY <1>1, <1>7, <1>8, <1>9, <1>13
    <2>2. Calendar!workWeekOfDate(due, year) = Calendar!NoWeek
        BY <1>6, <1>9, <1>13
    <2>3. Calendar!LateCells(row, year, now) = {}
        BY <1>5, <2>2
    <2>4. Calendar!OverdueElsewhere(row, year, now)
        BY <1>1, <1>10, <2>2 DEF Calendar!OverdueElsewhere
    <2> QED BY <1>9, <1>13, <2>1, <2>3, <2>4
  <1> QED BY <1>9, <1>11, <1>12, <1>13
=============================================================================
