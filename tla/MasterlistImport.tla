-------------------------- MODULE MasterlistImport --------------------------
(***************************************************************************)
(* The masterlist importer (scripts/template-load/src/masterlist): it      *)
(* turns the rows of the plant's maintenance plan into machines, documents *)
(* and due dates, one HTTP call at a time, against a live system in which  *)
(* administrators register machines, planners attach documents and move    *)
(* dates, technicians complete visits and the scheduler's sweep creates    *)
(* rules.  A call may fail before or after it took effect; the importer    *)
(* then stops with a banner and is run again, perhaps with another         *)
(* revision of the workbook.                                               *)
(***************************************************************************)
EXTENDS Naturals, Sequences, FiniteSets, FiniteSetsExt

CONSTANTS
    Sheets,         \* revisions of the workbook: sequences of rows
    FormDefines,    \* loadTemplateCatalogue: form's asset type -> its frequencies
    KnownTypes,     \* asset types of the environment
    LoadedForms,    \* asset types whose form is loaded in the environment
    MachineCodes, Intervals, \* machine codes; frequency -> days between visits
    NoType,         \* a model that no rule of mapping.ts recognises
    MaxImports, MaxTouches   \* bounds: runs of the importer, steps of other people

ASSUME MasterlistImportAssumption == "none" \notin LoadedForms

VARIABLES
    plant,          \* machine code -> the machine, its document, its schedule rules
    imp,            \* the running importer
    writes,         \* its WRITE lines and what really reached the server
    touches, imports,
    decided         \* rules a person had moved or completed when the run began

importVars == <<plant, imp, writes, touches, imports, decided>>

ImportFrequencies == DOMAIN Intervals
ImportTypes == KnownTypes \cup DOMAIN FormDefines \cup {NoType}
NoMachine == [type |-> "none", anchor |-> 0, document |-> "none", rules |-> <<>>]
NotListed == {"not listed"}
Idle == [step |-> "off", sheet |-> 0, row |-> 0, apply |-> FALSE,
         ofType |-> [t \in KnownTypes |-> NotListed], all |-> NotListed,
         rules |-> <<>>, todo |-> {}, banner |-> "none"]

ImportInit ==
    /\ plant = [c \in MachineCodes |-> NoMachine]
    /\ imp = Idle
    /\ writes = [attempted |-> 0, confirmed |-> 0, applied |-> 0]
    /\ touches = 0 /\ imports = 0 /\ decided = {}

(* --- What the workbook says. -------------------------------------------- *)
(* Work week 1 starts on 1 January: days counted from it.                   *)
workWeekToDate(week) == 7 * (week - 1)

planned(row) == {visit[1] : visit \in row.visits}

firstPlannedWeek(row) ==
    [f \in planned(row) |-> Min({visit[2] : visit \in {v \in row.visits : v[1] = f}})]

plannedDueDates(row) ==
    [f \in planned(row) |-> workWeekToDate(firstPlannedWeek(row)[f])]

anchorDate(row) == Min({plannedDueDates(row)[f] : f \in planned(row)})

formDefines(row) == IF row.type \in DOMAIN FormDefines THEN FormDefines[row.type] ELSE {}
surplus(row) == formDefines(row) \ planned(row)
missing(row) == planned(row) \ formDefines(row)

Row == Sheets[imp.sheet][imp.row]

(* --- The endpoints the importer calls. ---------------------------------- *)
Registered == {c \in MachineCodes : plant[c].type # "none"}

WithMachine(c, type, anchor) ==
    [plant EXCEPT ![c] = [NoMachine EXCEPT !.type = type, !.anchor = anchor]]

(* A form is tagged to a machine once.                                      *)
WithDocument(c) == [plant EXCEPT ![c].document = plant[c].type]

(* ensureForOne: one rule for every frequency of the form that has none,    *)
(* due on the machine's anchor date.                                        *)
RulesEnsured(machine) ==
    LET frequencies == IF machine.document \in LoadedForms
                       THEN FormDefines[machine.document] ELSE {}
    IN [machine EXCEPT !.rules =
          [f \in DOMAIN machine.rules \cup frequencies |->
             IF f \in DOMAIN machine.rules THEN machine.rules[f]
             ELSE [due |-> machine.anchor, reason |-> <<"none", 0>>, completed |-> FALSE]]]

Adjusted(c, f, due, reason) ==
    [plant EXCEPT ![c].rules[f].due = due, ![c].rules[f].reason = reason]

(* --- A write: its two log lines, and the three ways it can end. --------- *)

Tagged(call) == call \in {"asset", "document", "schedule", "put"}

Lines(call) == IF Tagged(call) THEN 1 ELSE 0

classifyWriteState(attempted, confirmed) ==
    CASE attempted = 0 -> "nothing attempted"
      [] attempted > confirmed -> "outcome unknown"
      [] OTHER -> "all confirmed"

Failed(attempted, confirmed) ==
    imp' = [Idle EXCEPT !.banner = classifyWriteState(attempted, confirmed)]

Write(call, effect, next) ==
    LET attempted == writes.attempted + Lines(call)
        reached == writes.applied + (IF effect = plant THEN 0 ELSE 1)
    IN
    \/ /\ plant' = effect /\ imp' = next
       /\ writes' = [attempted |-> attempted, confirmed |-> writes.confirmed + Lines(call),
                     applied |-> reached]
    \/ /\ plant' = effect /\ Failed(attempted, writes.confirmed)
       /\ writes' = [writes EXCEPT !.attempted = attempted, !.applied = reached]
    \/ /\ UNCHANGED plant /\ Failed(attempted, writes.confirmed)
       /\ writes' = [writes EXCEPT !.attempted = attempted]

Read(next) ==
    /\ imp' = next \/ Failed(writes.attempted, writes.confirmed)
    /\ UNCHANGED <<plant, writes>>

At(step) == imp.step = step /\ UNCHANGED <<touches, imports, decided>>

(* --- The run. ----------------------------------------------------------- *)
HandMoved(rule) == rule.reason[1] = "by hand"

runImport ==
    /\ imp.step = "off" /\ imports < MaxImports
    /\ imports' = imports + 1
    /\ \E sheet \in 1..Len(Sheets), apply \in BOOLEAN :
         imp' = [Idle EXCEPT !.step = "row", !.sheet = sheet, !.row = 1, !.apply = apply]
    /\ writes' = [attempted |-> 0, confirmed |-> 0, applied |-> 0]
    /\ decided' = {d \in MachineCodes \X ImportFrequencies :
                     LET rules == plant[d[1]].rules
                     IN  /\ d[2] \in DOMAIN rules
                         /\ HandMoved(rules[d[2]]) \/ rules[d[2]].completed}
    /\ UNCHANGED <<plant, touches>>

NextRow == [imp EXCEPT !.step = "row", !.row = @ + 1, !.rules = <<>>, !.todo = {}]

(* Rows that end without a call: machines not on site, models the mapping   *)
(* does not know in a dry run, visits the form does not define, forms not   *)
(* in the catalogue, and every other row of a dry run.                      *)
processRow ==
    /\ At("row") /\ imp.row <= Len(Sheets[imp.sheet])
    /\ \/ Row.skipped
       \/ ~imp.apply
       \/ Row.type # NoType /\ missing(Row) # {}
       \/ Row.type \notin DOMAIN FormDefines \cup {NoType}
    /\ imp' = NextRow
    /\ UNCHANGED <<plant, writes>>

HasWork == ~Row.skipped /\ imp.apply

processUnmapped ==
    /\ At("row") /\ imp.row <= Len(Sheets[imp.sheet])
    /\ HasWork /\ Row.type = NoType
    /\ \/ imp.all = NotListed /\ Read([NextRow EXCEPT !.all = Registered])
       \/ imp.all # NotListed /\ imp' = NextRow /\ UNCHANGED <<plant, writes>>

(* The machines of the type are listed once in a run.                       *)
processMapped ==
    /\ At("row") /\ imp.row <= Len(Sheets[imp.sheet])
    /\ HasWork /\ Row.type \in DOMAIN FormDefines /\ missing(Row) = {}
    /\ \/ Row.type \notin KnownTypes /\ imp' = NextRow /\ UNCHANGED <<plant, writes>>
       \/ /\ Row.type \in KnownTypes /\ imp.ofType[Row.type] = NotListed
          /\ Read([imp EXCEPT !.step = "asset",
                     !.ofType[Row.type] = {c \in Registered : plant[c].type = Row.type}])
       \/ /\ Row.type \in KnownTypes /\ imp.ofType[Row.type] # NotListed
          /\ imp' = [imp EXCEPT !.step = "asset"] /\ UNCHANGED <<plant, writes>>

(* A code that is taken answers 409, which is not swallowed.                *)
createAsset ==
    /\ At("asset")
    /\ \/ /\ Row.code \in imp.ofType[Row.type]
          /\ imp' = [imp EXCEPT !.step = "template"] /\ UNCHANGED <<plant, writes>>
       \/ /\ Row.code \notin imp.ofType[Row.type] /\ Row.code \notin Registered
          /\ Write("asset", WithMachine(Row.code, Row.type, anchorDate(Row)),
                   [imp EXCEPT !.step = "template", !.ofType[Row.type] = @ \cup {Row.code}])
       \/ /\ Row.code \notin imp.ofType[Row.type] /\ Row.code \in Registered
          /\ Failed(writes.attempted + Lines("asset"), writes.confirmed)
          /\ writes' = [writes EXCEPT !.attempted = @ + Lines("asset")]
          /\ UNCHANGED plant

(* Only a machine whose form defines nothing beyond the plan is planned:    *)
(* any other gets no document, so that no sweep can give it a schedule.     *)
leaveUnplanned(row) == surplus(row) # {}

findTemplate ==
    /\ At("template")
    /\ imp' = IF Row.type \notin LoadedForms \/ leaveUnplanned(Row)
              THEN NextRow ELSE [imp EXCEPT !.step = "documents"]
    /\ UNCHANGED <<plant, writes>>

attachDocument ==
    /\ At("documents")
    /\ \/ /\ plant[Row.code].document # "none"
          /\ Read([imp EXCEPT !.step = "schedule"])
       \/ /\ plant[Row.code].document = "none"
          /\ Write("document", WithDocument(Row.code), [imp EXCEPT !.step = "schedule"])

readSchedule ==
    /\ At("schedule")
    /\ LET machine == RulesEnsured(plant[Row.code]) IN
       Write("schedule", [plant EXCEPT ![Row.code] = machine],
             [imp EXCEPT !.step = "put", !.rules = machine.rules, !.todo = planned(Row)])

wantedReason(row, f) == <<"migrated", firstPlannedWeek(row)[f]>>

(* What the importer leaves alone, judged on the rules it read.             *)
MayWrite_CompletedToo(row, f) ==
    /\ f \in DOMAIN imp.rules
    /\ ~HandMoved(imp.rules[f])

MayWrite(row, f) ==
    /\ f \in DOMAIN imp.rules
    /\ ~imp.rules[f].completed
    /\ ~HandMoved(imp.rules[f])
    /\ \/ imp.rules[f].due # plannedDueDates(row)[f]
       \/ imp.rules[f].reason # wantedReason(row, f)

setDueDate ==
    /\ At("put")
    /\ \E f \in imp.todo :
         LET next == [imp EXCEPT !.todo = @ \ {f}] IN
         \/ /\ MayWrite(Row, f)
            /\ Write("put", Adjusted(Row.code, f, plannedDueDates(Row)[f], wantedReason(Row, f)),
                     next)
         \/ ~MayWrite(Row, f) /\ imp' = next /\ UNCHANGED <<plant, writes>>

rowImported ==
    /\ At("put") /\ imp.todo = {}
    /\ imp' = NextRow /\ UNCHANGED <<plant, writes>>

(* The summary, the warning and the evidence file.                          *)
reportImport ==
    /\ At("row") /\ imp.row > Len(Sheets[imp.sheet])
    /\ imp' = Idle /\ UNCHANGED <<plant, writes>>

(* --- Everybody else. ---------------------------------------------------- *)
Touch == touches < MaxTouches /\ touches' = touches + 1
         /\ UNCHANGED <<imp, writes, imports, decided>>

machineRegistered ==
    /\ Touch
    /\ \E c \in MachineCodes \ Registered, t \in KnownTypes : plant' = WithMachine(c, t, 0)

plannerAttaches ==
    /\ Touch
    /\ \E c \in Registered :
         /\ plant[c].document = "none" /\ plant[c].type \in LoadedForms
         /\ plant' = WithDocument(c)

sweepBootstraps ==
    /\ Touch
    /\ plant' = [c \in MachineCodes |-> RulesEnsured(plant[c])]

plannerMoves ==
    /\ Touch
    /\ \E c \in Registered : \E f \in DOMAIN plant[c].rules :
         plant' = Adjusted(c, f, Intervals[f], <<"by hand", 0>>)

(* A verified visit moves the date and leaves the reason as it is.          *)
visitCompleted ==
    /\ Touch
    /\ \E c \in Registered : \E f \in DOMAIN plant[c].rules :
         plant' = [plant EXCEPT ![c].rules[f].due = @ + Intervals[f],
                                ![c].rules[f].completed = TRUE]

ImportNext ==
    \/ runImport \/ processRow \/ processUnmapped \/ processMapped \/ createAsset
    \/ findTemplate \/ attachDocument \/ readSchedule \/ setDueDate \/ rowImported
    \/ reportImport
    \/ machineRegistered \/ plannerAttaches \/ sweepBootstraps \/ plannerMoves
    \/ visitCompleted

ImportSpec == ImportInit /\ [][ImportNext]_importVars

----------------------------------------------------------------------------
(* The variables stay in their types: machines of known types, rules of     *)
(* known frequencies, counters within their bounds.                         *)
ImportTypeOK ==
    /\ \A c \in MachineCodes :
         /\ plant[c].type \in ImportTypes \cup {"none"}
         /\ plant[c].document \in {"none", plant[c].type}
         /\ DOMAIN plant[c].rules \subseteq ImportFrequencies
    /\ imp.row \in Nat /\ imp.todo \subseteq ImportFrequencies
    /\ writes.attempted \in Nat /\ writes.confirmed <= writes.attempted
    /\ touches \in 0..MaxTouches /\ imports \in 0..MaxImports

(* A re-run never moves a date that a person had moved, or whose visit had  *)
(* been completed, before the run began (import.ts, step 8), whatever run   *)
(* wrote the rule before and whatever the workbook says now.                *)
DecisionsSurviveImport ==
    [][touches' = touches =>
         \A d \in decided : plant'[d[1]].rules[d[2]] = plant[d[1]].rules[d[2]]]_importVars

=============================================================================
