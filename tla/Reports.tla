------------------------------- MODULE Reports -------------------------------
(***************************************************************************)
(* The read side of the job table: the paginated lists (overdue jobs, jobs *)
(* waiting for a verifier, the archive), the compliance report and the     *)
(* measurement trend.  Each is a filter of its own over the same rows,     *)
(* read again for every page while people work and administrators rescope. *)
(*                                                                         *)
(* Time is counted in half days: day d begins at 2 * d.  A due date is a   *)
(* day; an archive stamp is a moment.                                      *)
(***************************************************************************)
EXTENDS Integers, FiniteSets, FiniteSetsExt

CONSTANTS
    PlanVisits,            \* the planned periods: a document's frequency and due date
    VisitDue,          \* the day each falls due
    ReportAreas,       \* areas of the plant
    VisitArea,         \* the area of each visit's machine
    MaxRows,           \* job rows, numbered in the order of their ids
    PageLimit,         \* rows a page may hold
    MaxHalfDay,        \* the last moment looked at
    MaxRescopes        \* times the reader's scope is edited

ASSUME ReportsAssumption ==
    /\ VisitDue \in [PlanVisits -> Nat]
    /\ VisitArea \in [PlanVisits -> ReportAreas]
    /\ MaxRows \in Nat
    /\ PageLimit \in Nat \ {0}
    /\ MaxHalfDay \in Nat
    /\ MaxRescopes \in Nat

VARIABLES
    jobRows,           \* the job table: a row for every id in use
    halfDay,           \* now
    scopeRows,         \* the reader's active user_area_scope rows
    rescopes,          \* edits of them so far
    reading,           \* the list the reader is paging through
    steady             \* history: rows that qualified ever since reading began

reportVars == <<jobRows, halfDay, scopeRows, rescopes, reading, steady>>

RowIds == 1 .. MaxRows
OffPlan == "ad hoc"
NotArchived == -1
EveryArea == "every area"
Lists == {"jobs", "overdue", "pending", "archive"}
ReportRow == [visit : PlanVisits \cup {OffPlan}, due : Nat, area : ReportAreas,
              mine : BOOLEAN, status : {"assigned", "submitted", "archived", "voided"},
              archivedAt : Int]

ReportsTypeOK ==
    /\ DOMAIN jobRows \subseteq RowIds
    /\ \A i \in DOMAIN jobRows : jobRows[i] \in ReportRow
    /\ halfDay \in 0 .. MaxHalfDay
    /\ scopeRows \subseteq ReportAreas
    /\ rescopes \in 0 .. MaxRescopes
    /\ reading \in [list : Lists \cup {"none"}, broad : BOOLEAN, cursor : 0 .. MaxRows,
                 listed : SUBSET RowIds, done : BOOLEAN]
    /\ steady \subseteq DOMAIN jobRows

-----------------------------------------------------------------------------
(* The filters. *)

today == halfDay \div 2

(* A reader without active rows is not restricted (getAllowedAreaIds).     *)
InReach(area) == scopeRows = {} \/ area \in scopeRows

(* Two filters and a flag over the status: the overdue list, the flag      *)
(* every listed job carries, and the archive, which keeps what was voided  *)
(* after it was archived.                                                  *)
overdueWhere(row) == row.due < today /\ row.status \notin {"archived", "voided"}
isOverdue(row) == row.status \in {"assigned", "submitted"} /\ row.due < today
archiveStatusWhere(row) ==
    row.status = "archived" \/ (row.status = "voided" /\ row.archivedAt # NotArchived)

(* Only a broad role sees the jobs assigned to other people. *)
InScope(broad, row) == InReach(row.area) /\ (broad \/ row.mine)

(* The rows of a list, for a reader. *)
Jobs(broad) == {i \in DOMAIN jobRows : InScope(broad, jobRows[i])}
Overdue(broad) == {i \in Jobs(broad) : overdueWhere(jobRows[i])}
Pending(broad) == {i \in Jobs(broad) : jobRows[i].status = "submitted"}
Archive(broad) == {i \in Jobs(broad) : archiveStatusWhere(jobRows[i])}
OnList(list, broad) ==
    CASE list = "jobs" -> Jobs(broad)
      [] list = "overdue" -> Overdue(broad)
      [] list = "pending" -> Pending(broad)
      [] list = "archive" -> Archive(broad)
      [] OTHER -> {}

(* The first n ids of a set, in id order. *)
FirstIds(ids, n) == {i \in ids : Cardinality({k \in ids : k < i}) < n}

(* One record opened by its id (RecordsService.getById). *)
MayOpen(broad, i) ==
    /\ archiveStatusWhere(jobRows[i])
    /\ InReach(jobRows[i].area)
    /\ broad \/ jobRows[i].mine

(* compliance: the rows due in the window, for the area asked for or for   *)
(* every area.  A scoped reader's areas replace the area asked for         *)
(* (applyAreaScope).                                                       *)
FindDueInRange(from, to, asked) ==
    {i \in DOMAIN jobRows :
        /\ 2 * jobRows[i].due \in from .. to
        /\ IF scopeRows = {} THEN asked \in {EveryArea, jobRows[i].area}
                            ELSE jobRows[i].area \in scopeRows}

PlannedRows_VoidedToo(rows) == {i \in rows : jobRows[i].visit # OffPlan}

(* Voided rows are in no bucket, off-plan rows only in their own.          *)
PlannedRows(rows) ==
    {i \in rows : jobRows[i].status # "voided" /\ jobRows[i].visit # OffPlan}

CompletedRows(rows) == {i \in PlannedRows(rows) : jobRows[i].archivedAt # NotArchived}

(* The areas that get a bucket: those of the rows found and not voided.    *)
byArea(from, to, asked) ==
    {jobRows[i].area : i \in {k \in FindDueInRange(from, to, asked) : jobRows[k].status # "voided"}}

(* The bucket of an area; a row is on time when its archive stamp is not   *)
(* after the midnight its due date begins with.                            *)
Compliance(from, to, asked, area) ==
    LET found == {i \in FindDueInRange(from, to, asked) : jobRows[i].area = area}
        onTime == {i \in CompletedRows(found) : jobRows[i].archivedAt <= 2 * jobRows[i].due}
    IN  [due           |-> Cardinality(PlannedRows(found)),
         onTime        |-> Cardinality(onTime),
         late          |-> Cardinality(CompletedRows(found) \ onTime),
         notCompleted  |-> Cardinality(PlannedRows(found) \ CompletedRows(found)),
         adhocExcluded |-> Cardinality({i \in found : jobRows[i].visit = OffPlan
                                                       /\ jobRows[i].status # "voided"})]

(* The readings of a machine: of live records only, and refused out of     *)
(* reach.                                                                  *)
findMeasurementTrend(area) ==
    {i \in DOMAIN jobRows : jobRows[i].area = area /\ jobRows[i].status = "archived"}
measurementTrend(area) == IF InReach(area) THEN findMeasurementTrend(area) ELSE {}

-----------------------------------------------------------------------------
NoReading == [list |-> "none", broad |-> FALSE, cursor |-> 0, listed |-> {}, done |-> FALSE]

ReportsInit ==
    /\ jobRows = [i \in {} |-> {}]
    /\ halfDay = 0
    /\ scopeRows = {}
    /\ rescopes = 0
    /\ reading = NoReading
    /\ steady = {}

(* What stays on the list being read. *)
KeepSteady == steady' = steady \cap OnList(reading.list, reading.broad)'

(* A row is inserted.  Ids follow the clock, commits do not: a row may     *)
(* appear below one that is already visible.                               *)
Insert(i, row) ==
    /\ i \in RowIds \ DOMAIN jobRows
    /\ jobRows' = [k \in DOMAIN jobRows \cup {i} |-> IF k = i THEN row ELSE jobRows[k]]
    /\ UNCHANGED <<halfDay, scopeRows, rescopes, reading>>
    /\ KeepSteady

NewRow(visit, due, area, mine) ==
    [visit |-> visit, due |-> due, area |-> area, mine |-> mine,
     status |-> "assigned", archivedAt |-> NotArchived]

(* The scheduler raises a visit unless a row that is not voided holds its  *)
(* period: the partial unique index.                                       *)
RaisePlanned(i, v, mine) ==
    /\ \A k \in DOMAIN jobRows : jobRows[k].visit = v => jobRows[k].status = "voided"
    /\ Insert(i, NewRow(v, VisitDue[v], VisitArea[v], mine))

(* Off-plan work, on the day and in the area whoever raises it chooses. *)
RaiseAdhoc(i, due, area, mine) == Insert(i, NewRow(OffPlan, due, area, mine))

Rewrite(i, row) ==
    /\ jobRows' = [jobRows EXCEPT ![i] = row]
    /\ UNCHANGED <<halfDay, scopeRows, rescopes, reading>>
    /\ KeepSteady

(* A job nobody has submitted goes to another person. *)
ReassignRow(i) ==
    /\ jobRows[i].status = "assigned"
    /\ Rewrite(i, [jobRows[i] EXCEPT !.mine = ~@])

SubmitRow(i) ==
    /\ jobRows[i].status = "assigned"
    /\ Rewrite(i, [jobRows[i] EXCEPT !.status = "submitted"])

ReturnRow(i) ==
    /\ jobRows[i].status = "submitted"
    /\ Rewrite(i, [jobRows[i] EXCEPT !.status = "assigned"])

(* The last stage verifies and archives in one write. *)
ArchiveRow(i) ==
    /\ jobRows[i].status = "submitted"
    /\ Rewrite(i, [jobRows[i] EXCEPT !.status = "archived", !.archivedAt = halfDay])

(* A void keeps archivedAt as it is. *)
VoidRow(i) ==
    /\ jobRows[i].status # "voided"
    /\ Rewrite(i, [jobRows[i] EXCEPT !.status = "voided"])

TickHalfDay ==
    /\ halfDay < MaxHalfDay
    /\ halfDay' = halfDay + 1
    /\ UNCHANGED <<jobRows, scopeRows, rescopes, reading>>
    /\ KeepSteady

(* An administrator replaces the reader's scope rows. *)
Rescope(areas) ==
    /\ rescopes < MaxRescopes /\ areas # scopeRows
    /\ scopeRows' = areas
    /\ rescopes' = rescopes + 1
    /\ UNCHANGED <<jobRows, halfDay, reading>>
    /\ KeepSteady

OpenList(list, broad) ==
    /\ reading = NoReading
    /\ reading' = [NoReading EXCEPT !.list = list, !.broad = broad]
    /\ steady' = OnList(list, broad)
    /\ UNCHANGED <<jobRows, halfDay, scopeRows, rescopes>>

paginate_LookAhead(rows, limit) ==
    LET hasMore == Cardinality(rows) > limit
    IN  [data |-> FirstIds(rows, limit), hasMore |-> hasMore,
         nextCursor |-> IF hasMore THEN Max(rows) ELSE 0]

(* One page: take + 1 rows past the cursor; a full page and one more row   *)
(* give the page's last id as the next cursor.                             *)
paginate(rows, limit) ==
    LET data == FirstIds(rows, limit)
        hasMore == Cardinality(rows) > limit
    IN  [data |-> data, hasMore |-> hasMore, nextCursor |-> IF hasMore THEN Max(data) ELSE 0]

(* The query of a page: rows past the cursor, one more than are shown. *)
Found(rows) == FirstIds({i \in rows : i > reading.cursor}, PageLimit + 1)
findMany == Found(Jobs(reading.broad))
findOverdue == Found(Overdue(reading.broad))
findPendingVerification == Found(Pending(reading.broad))
findRecords == Found(Archive(reading.broad))

ShowPage(rows) ==
    /\ ~reading.done
    /\ LET page == paginate(rows, PageLimit)
       IN  reading' = [reading EXCEPT !.listed = @ \cup page.data,
                                      !.cursor = IF page.hasMore THEN page.nextCursor ELSE @,
                                      !.done = ~page.hasMore]
    /\ UNCHANGED <<jobRows, halfDay, scopeRows, rescopes, steady>>

listJobs == reading.list = "jobs" /\ ShowPage(findMany)
overdueReport == reading.list = "overdue" /\ ShowPage(findOverdue)
pendingReport == reading.list = "pending" /\ ShowPage(findPendingVerification)
listRecords == reading.list = "archive" /\ ShowPage(findRecords)

ReportsNext ==
    \/ \E i \in RowIds, v \in PlanVisits, mine \in BOOLEAN : RaisePlanned(i, v, mine)
    \/ \E i \in RowIds, due \in 0 .. MaxHalfDay \div 2, area \in ReportAreas, mine \in BOOLEAN :
          RaiseAdhoc(i, due, area, mine)
    \/ \E i \in DOMAIN jobRows : \/ ReassignRow(i) \/ SubmitRow(i) \/ ReturnRow(i)
                                \/ ArchiveRow(i) \/ VoidRow(i)
    \/ TickHalfDay
    \/ \E areas \in SUBSET ReportAreas : Rescope(areas)
    \/ \E list \in Lists, broad \in BOOLEAN : OpenList(list, broad)
    \/ listJobs \/ overdueReport \/ pendingReport \/ listRecords

ReportsSpec == ReportsInit /\ [][ReportsNext]_reportVars

-----------------------------------------------------------------------------
(* A period of the plan is counted once however often it was voided and    *)
(* raised again: what the compliance report calls due is the number of     *)
(* periods, and every one of them is on time, late or not completed.       *)
PeriodCountedOnce ==
    \A from, to \in 0 .. MaxHalfDay, asked \in ReportAreas \cup {EveryArea} :
      \A area \in byArea(from, to, asked) :
        LET found == {i \in FindDueInRange(from, to, asked) : jobRows[i].area = area}
            bucket == Compliance(from, to, asked, area)
        IN  /\ bucket.due = Cardinality({jobRows[i].visit : i \in PlannedRows(found)})
            /\ bucket.due = bucket.onTime + bucket.late + bucket.notCompleted

(* Read page by page while rows are inserted, worked on, voided and moved  *)
(* out of reach, a list that was read to its end holds every row that was  *)
(* on it all the time.                                                     *)
ReadingIsExact == reading.done => steady \subseteq reading.listed

(* The filters over the job table tell one story: a job on the overdue     *)
(* list is flagged overdue, open in the compliance figures and in no       *)
(* archive; every reading of a trend comes from a completed, archived      *)
(* record; and a record on the archive list opens.                         *)
ReportsAgree ==
    \A i \in DOMAIN jobRows :
        /\ overdueWhere(jobRows[i]) => /\ isOverdue(jobRows[i])
                                       /\ ~archiveStatusWhere(jobRows[i])
                                       /\ i \notin CompletedRows(DOMAIN jobRows)
        /\ \A area \in ReportAreas : i \in measurementTrend(area) =>
              /\ archiveStatusWhere(jobRows[i])
              /\ jobRows[i].visit # OffPlan => i \in CompletedRows(DOMAIN jobRows)
        /\ \A broad \in BOOLEAN : i \in Archive(broad) => MayOpen(broad, i)

(* A record that is in the archive stays in it, with its archive stamp: a  *)
(* void annotates it and never takes it out.                               *)
ArchiveKeepsRecords ==
    [][\A i \in DOMAIN jobRows : archiveStatusWhere(jobRows[i]) =>
          /\ i \in DOMAIN jobRows'
          /\ archiveStatusWhere(jobRows'[i])
          /\ jobRows'[i].archivedAt = jobRows[i].archivedAt]_reportVars
=============================================================================
