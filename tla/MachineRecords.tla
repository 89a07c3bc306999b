--------------------------- MODULE MachineRecords ---------------------------
(***************************************************************************)
(* The machine register and what a record prints of it.  Administrators    *)
(* add machines, replace provisional codes, move machines between areas,   *)
(* tag and retire documents and fill in form numbers (api/src/assets,      *)
(* AdminMachineDetail, MachineDocuments).  A record's PDF is assembled     *)
(* from the live rows on every request (pdf-record-assembly.service), so   *)
(* the update endpoints refuse an edit that an archived record would show. *)
(* The refusal is decided before the transaction that makes the edit.      *)
(***************************************************************************)
EXTENDS Naturals, FiniteSets

CONSTANTS
    Admins, AdminArea,     \* people, and the area each is confined to (or NoArea)
    RegMachines, Areas, NoArea,
    RealCodes, ProvisionalCodes, NoCode,
    FormNumbers, NoNumber, \* form numbers: the blank of a document's title
    TitleBlank,            \* whether the document's title has a fillable run
    RegRecords, RecordOf,  \* records, and the machine of each
    LegacyRecords,         \* archived before a form number had to be captured
    SignerNames,
    MaxEdits               \* bound on the edits sent

ASSUME MachineRecordsAssumption ==
    /\ RecordOf \in [RegRecords -> RegMachines] /\ LegacyRecords \subseteq RegRecords
    /\ RealCodes \cap ProvisionalCodes = {} /\ RealCodes # {}
    /\ NoCode \notin RealCodes \cup ProvisionalCodes
    /\ "none" \notin RegMachines

VARIABLES
    machineRow,     \* asset: code, codeProvisional, area
    documentRow,    \* asset_document: machineNumber, active, tagged
    recordRow,         \* job: status, titleMachineNumber, the signer's name as signed, print
    signerName,     \* app_user.full_name of the signer
    page,           \* what each administrator's screen shows of which machine
    edit,           \* the PATCH each administrator has under way
    entered,        \* a captured form number that passed its check and is not written yet
    edits, overtaken

registerVars == <<machineRow, documentRow, recordRow, signerName, page, edit, entered, edits,
                  overtaken>>

NoRow == [code |-> NoCode, provisional |-> FALSE, area |-> NoArea]
NoEdit == [kind |-> "none"]
NoScreen == [machine |-> "none"]
Open == [status |-> "open", own |-> NoNumber, signed |-> "nobody", print |-> <<>>]

(* --- What a record prints. ---------------------------------------------- *)
resolveTemplateTitle(number) ==
    IF TitleBlank /\ number # NoNumber THEN number ELSE "title as printed"

documentTitle(r) ==
    resolveTemplateTitle(IF recordRow[r].own # NoNumber THEN recordRow[r].own
                         ELSE documentRow[RecordOf[r]].number)

snapshotName(r) == recordRow[r].signed

(* The name kept with the signature; today's name when none was kept.       *)
buildSignatures(r) == IF snapshotName(r) # "nobody" THEN snapshotName(r) ELSE signerName

buildVoidNotice(r) == recordRow[r].status = "voided"

assemble(r) ==
    <<machineRow[RecordOf[r]].code, documentTitle(r), buildSignatures(r), buildVoidNotice(r)>>

HasHistory(m) == \E r \in LegacyRecords : RecordOf[r] = m

RegisterInit ==
    /\ machineRow = [m \in RegMachines |->
         IF HasHistory(m) THEN [NoRow EXCEPT !.code = CHOOSE c \in RealCodes : TRUE] ELSE NoRow]
    /\ \E n \in FormNumbers \cup {NoNumber} :
         documentRow = [m \in RegMachines |->
           [number |-> IF HasHistory(m) THEN n ELSE NoNumber,
            active |-> HasHistory(m), tagged |-> HasHistory(m)]]
    /\ signerName = CHOOSE name \in SignerNames : TRUE
    /\ recordRow = [r \in RegRecords |->
         IF r \in LegacyRecords
         THEN [status |-> "archived", own |-> NoNumber, signed |-> signerName,
               print |-> <<machineRow[RecordOf[r]].code,
                           resolveTemplateTitle(documentRow[RecordOf[r]].number), signerName, FALSE>>]
         ELSE [Open EXCEPT !.status = "none"]]
    /\ page = [a \in Admins |-> NoScreen] /\ edit = [a \in Admins |-> NoEdit]
    /\ entered = [r \in RegRecords |-> NoNumber] /\ edits = 0 /\ overtaken = {}

AssetCodes == {machineRow[m].code : m \in RegMachines} \ {NoCode}
Existing(m) == machineRow[m].code # NoCode
ArchivedOf(m) == {r \in RegRecords : RecordOf[r] = m /\ recordRow[r].status = "archived"}

(* --- Creating a machine: a code of its own, or a generated one. ---------- *)
(* Up to MAX_CODE_GENERATION_ATTEMPTS draws; a taken code is drawn again.    *)
WithCode(m, c, generated, area) ==
    [machineRow EXCEPT ![m] = [code |-> c, provisional |-> generated, area |-> area]]

createMachine(a) ==
    /\ edits < MaxEdits /\ edits' = edits + 1
    /\ edit[a].kind = "none"
    /\ \E m \in RegMachines, area \in Areas \cup {NoArea} :
         /\ ~Existing(m)
         /\ \/ \E c \in RealCodes \ AssetCodes : machineRow' = WithCode(m, c, FALSE, area)
            \/ \E c \in ProvisionalCodes \ AssetCodes : machineRow' = WithCode(m, c, TRUE, area)
            \/ AssetCodes # {} /\ UNCHANGED machineRow   \* 409: the code, or every draw, is in use
    /\ UNCHANGED <<documentRow, recordRow, signerName, page, edit, entered, overtaken>>

(* --- The machine's page. ------------------------------------------------- *)
assertInScope(a, m) == AdminArea[a] = NoArea \/ machineRow[m].area = AdminArea[a]

applyAsset(a, m) == [page EXCEPT ![a] = [machine |-> m, row |-> machineRow[m],
                                         document |-> documentRow[m], retiring |-> FALSE]]

openMachine(a) ==
    /\ edit[a].kind = "none"
    /\ \E m \in RegMachines :
         /\ Existing(m)
         /\ page' = IF assertInScope(a, m) THEN applyAsset(a, m)
                    ELSE [page EXCEPT ![a] = NoScreen]
    /\ UNCHANGED <<machineRow, documentRow, recordRow, signerName, edit, entered, edits, overtaken>>

(* One change at a time: every button is disabled while busy.               *)
SendsEdit(a, kind, value) ==
    /\ page[a].machine # "none" /\ edit[a].kind = "none"
    /\ edits < MaxEdits /\ edits' = edits + 1
    /\ edit' = [edit EXCEPT ![a] = [kind |-> kind, value |-> value,
                                    machine |-> page[a].machine, stage |-> "sent",
                                    confirms |-> FALSE]]
    /\ UNCHANGED <<machineRow, documentRow, recordRow, signerName, page, entered, overtaken>>

(* The screen refuses the code it already shows.                            *)
confirmCode(a) ==
    \E c \in RealCodes \cup ProvisionalCodes :
      page[a].machine # "none" /\ c # page[a].row.code /\ SendsEdit(a, "code", c)

saveDetails(a) == \E area \in Areas \cup {NoArea} : SendsEdit(a, "area", area)

tag(a) ==
    /\ page[a].machine # "none" /\ ~page[a].document.tagged
    /\ SendsEdit(a, "tag", NoNumber)

(* The field is there only when the title has a blank.                      *)
saveNumber(a) ==
    /\ page[a].machine # "none" /\ TitleBlank
    /\ page[a].document.tagged /\ page[a].document.active
    /\ \E n \in FormNumbers \cup {NoNumber} : SendsEdit(a, "number", n)

setDocumentActive(a, active) ==
    /\ page[a].machine # "none" /\ page[a].document.tagged
    /\ page[a].document.active # active
    /\ SendsEdit(a, "active", active)

returnToService(a) == setDocumentActive(a, TRUE)

(* Retiring a document takes a second tap.                                  *)
askRetire(a) ==
    /\ page[a].machine # "none" /\ page[a].document.active /\ edit[a].kind = "none"
    /\ page' = [page EXCEPT ![a].retiring = ~@]
    /\ UNCHANGED <<machineRow, documentRow, recordRow, signerName, edit, entered, edits, overtaken>>

retire(a) == page[a].machine # "none" /\ page[a].retiring /\ setDocumentActive(a, FALSE)

(* --- The update endpoints: check, then write in a transaction. ----------- *)
changedPrintedAssetFields(e) == e.kind = "code" /\ e.value # machineRow[e.machine].code

(* A form number that is cleared blocks nothing.                            *)
recordsBlockingMachineNumberChange_ClearIsFree(m, proposed) ==
    {r \in ArchivedOf(m) :
       /\ recordRow[r].own = NoNumber /\ proposed # NoNumber
       /\ resolveTemplateTitle(documentRow[m].number) # resolveTemplateTitle(proposed)}

recordsBlockingMachineNumberChange(m, proposed) ==
    {r \in ArchivedOf(m) :
       /\ recordRow[r].own = NoNumber
       /\ resolveTemplateTitle(documentRow[m].number) # resolveTemplateTitle(proposed)}

assertNoArchivedRecordDependsOnPrintedFields(e) ==
    changedPrintedAssetFields(e) => ArchivedOf(e.machine) = {}

assertNoArchivedRecordDependsOnMachineNumber(e) ==
    e.kind = "number" => recordsBlockingMachineNumberChange(e.machine, e.value) = {}

Blocked(e) ==
    \/ ~assertNoArchivedRecordDependsOnPrintedFields(e)
    \/ ~assertNoArchivedRecordDependsOnMachineNumber(e)

EditAnswered(a) == edit' = [edit EXCEPT ![a] = NoEdit]

checkEdit(a) ==
    /\ edit[a].kind # "none" /\ edit[a].stage = "sent"
    /\ \/ /\ assertInScope(a, edit[a].machine) /\ ~Blocked(edit[a])
          /\ edit' = [edit EXCEPT ![a].stage = "checked",
                                  ![a].confirms = changedPrintedAssetFields(edit[a])]
       \/ /\ ~assertInScope(a, edit[a].machine) \/ Blocked(edit[a])
          /\ EditAnswered(a)
    /\ UNCHANGED <<machineRow, documentRow, recordRow, signerName, page, entered, edits, overtaken>>

(* The unique indexes answer 409: a code in use, a document tagged already. *)
CodeTaken(e) == e.kind = "code" /\ \E m \in RegMachines \ {e.machine} : machineRow[m].code = e.value
AlreadyTagged(e) == e.kind = "tag" /\ documentRow[e.machine].tagged
IndexRefuses(e) == CodeTaken(e) \/ AlreadyTagged(e)

updateMachine(e) ==
    CASE e.kind = "code" -> [machineRow EXCEPT ![e.machine].code = e.value,
                               ![e.machine].provisional = IF e.confirms THEN FALSE ELSE @]
      [] e.kind = "area" -> [machineRow EXCEPT ![e.machine].area = e.value]
      [] OTHER -> machineRow

updateDocument(e) ==
    CASE e.kind = "tag" -> [documentRow EXCEPT ![e.machine] =
                              [number |-> NoNumber, active |-> TRUE, tagged |-> TRUE]]
      [] e.kind = "number" -> [documentRow EXCEPT ![e.machine].number = e.value]
      [] e.kind = "active" -> [documentRow EXCEPT ![e.machine].active = e.value]
      [] OTHER -> documentRow

(* The answer refreshes the page, unless it is lost on the way.             *)
commitEdit(a) ==
    /\ edit[a].kind # "none" /\ edit[a].stage = "checked"
    /\ LET e == edit[a] IN
       \/ IndexRefuses(e) /\ UNCHANGED <<machineRow, documentRow, page>>
       \/ /\ ~IndexRefuses(e)
          /\ machineRow' = updateMachine(e) /\ documentRow' = updateDocument(e)
          /\ \/ page' = [page EXCEPT ![a].row = machineRow'[e.machine],
                                     ![a].document = documentRow'[e.machine],
                                     ![a].retiring = FALSE]
             \/ UNCHANGED page
    /\ EditAnswered(a)
    /\ UNCHANGED <<recordRow, signerName, entered, edits, overtaken>>

(* --- Records, from being raised to the archive. -------------------------- *)
RecordBecomes(r, row) ==
    /\ recordRow' = [recordRow EXCEPT ![r] = row]
    /\ UNCHANGED <<machineRow, documentRow, signerName, page, edit, edits>>

raiseRecord(r) ==
    /\ recordRow[r].status = "none" /\ Existing(RecordOf[r])
    /\ documentRow[RecordOf[r]].tagged /\ documentRow[RecordOf[r]].active
    /\ RecordBecomes(r, Open) /\ UNCHANGED <<entered, overtaken>>

(* assertJobWritable on the row as read, then a write that is not guarded.  *)
recordTitleMachineNumber(r) ==
    \/ /\ recordRow[r].status = "open" /\ TitleBlank /\ entered[r] = NoNumber
       /\ \E n \in FormNumbers : entered' = [entered EXCEPT ![r] = n]
       /\ UNCHANGED <<machineRow, documentRow, recordRow, signerName, page, edit, edits, overtaken>>
    \/ /\ entered[r] # NoNumber /\ entered' = [entered EXCEPT ![r] = NoNumber]
       /\ RecordBecomes(r, [recordRow[r] EXCEPT !.own = entered[r]])
       /\ UNCHANGED overtaken

(* The signer's name is kept, unless it could not be encrypted.             *)
snapshotSignatoryNames(name) == name \in {signerName, "nobody"}

(* A blank in the title has to be filled before a record is signed.         *)
signRecord(r) ==
    /\ recordRow[r].status = "open" /\ (TitleBlank => recordRow[r].own # NoNumber)
    /\ \E name \in SignerNames \cup {"nobody"} :
         /\ snapshotSignatoryNames(name)
         /\ RecordBecomes(r, [recordRow[r] EXCEPT !.status = "signed", !.signed = name])
    /\ UNCHANGED <<entered, overtaken>>

Overtaking(r) ==
    \/ entered[r] # NoNumber
    \/ \E a \in Admins : /\ edit[a].kind # "none" /\ edit[a].stage = "checked"
                         /\ edit[a].machine = RecordOf[r]

archiveRecord(r) ==
    /\ recordRow[r].status = "signed"
    /\ RecordBecomes(r, [recordRow[r] EXCEPT !.status = "archived", !.print = assemble(r)])
    /\ overtaken' = IF Overtaking(r) THEN overtaken \cup {r} ELSE overtaken
    /\ UNCHANGED entered

(* Voiding takes a record out of the guards' reach.                         *)
voidRecord(r) ==
    /\ recordRow[r].status \in {"open", "archived"}
    /\ RecordBecomes(r, [recordRow[r] EXCEPT !.status = "voided"]) /\ UNCHANGED <<entered, overtaken>>

renameSigner ==
    /\ signerName' \in SignerNames \ {signerName}
    /\ UNCHANGED <<machineRow, documentRow, recordRow, page, edit, entered, edits, overtaken>>

RegisterNext ==
    \/ \E a \in Admins :
         \/ createMachine(a) \/ openMachine(a) \/ confirmCode(a) \/ saveDetails(a)
         \/ tag(a) \/ saveNumber(a) \/ askRetire(a) \/ retire(a) \/ returnToService(a)
         \/ checkEdit(a) \/ commitEdit(a)
    \/ \E r \in RegRecords :
         \/ raiseRecord(r) \/ recordTitleMachineNumber(r) \/ signRecord(r)
         \/ archiveRecord(r) \/ voidRecord(r)
    \/ renameSigner

RegisterSpec == RegisterInit /\ [][RegisterNext]_registerVars

----------------------------------------------------------------------------
(* The variables stay in their types, and no two machines share a code.     *)
RegisterTypeOK ==
    /\ \A m \in RegMachines :
         /\ machineRow[m].code \in RealCodes \cup ProvisionalCodes \cup {NoCode}
         /\ machineRow[m].area \in Areas \cup {NoArea}
         /\ documentRow[m].number \in FormNumbers \cup {NoNumber}
         /\ \A n \in RegMachines \ {m} : Existing(m) => machineRow[n].code # machineRow[m].code
    /\ \A r \in RegRecords :
         recordRow[r].status \in {"none", "open", "signed", "archived", "voided"}
    /\ edits \in 0..MaxEdits /\ overtaken \subseteq RegRecords

(* INV-09 as the code enforces it: an archived record goes on printing the  *)
(* machine code, the title and the signatory it was archived with, through  *)
(* renames, form numbers and retired documents.  Excepted are the records   *)
(* archived while a write that shows on them was between its check and its  *)
(* transaction, which nothing re-checks, and signatures without a name.     *)
ArchivedPrintHolds ==
    \A r \in RegRecords \ overtaken :
      recordRow[r].status = "archived" /\ snapshotName(r) # "nobody"
        => assemble(r) = recordRow[r].print

=============================================================================
