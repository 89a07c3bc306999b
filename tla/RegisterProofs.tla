--------------------------- MODULE RegisterProofs ---------------------------
(***************************************************************************)
(* Proofs about the registers and the reports over them, for every number  *)
(* of rows, areas, people and requests under way: the read side of the job *)
(* table (Reports), the accounts (UserAdmin), the forms' revisions         *)
(* (TemplateRevisions) and the program that loads them (TemplateLoad), the *)
(* audit chain (AuditChain) and the importer of the maintenance plan       *)
(* (MasterlistImport).                                                     *)
(***************************************************************************)
EXTENDS Reports, UserAdmin, TemplateLoad, MasterlistImport, AuditChain, OrderLemmas

-----------------------------------------------------------------------------
(* Reports.                                                                *)

(* A period of the plan has one row that is not voided: the partial unique *)
(* index.                                                                  *)
OneLiveRowPerVisit ==
    \A i, k \in DOMAIN jobRows :
        /\ jobRows[i].visit = jobRows[k].visit /\ jobRows[i].visit # OffPlan
        /\ jobRows[i].status # "voided" /\ jobRows[k].status # "voided"
        => i = k

(* A row carries an archive stamp from the moment it is archived.          *)
StampFollowsStatus ==
    \A i \in DOMAIN jobRows :
        /\ jobRows[i].status \in {"assigned", "submitted"} => jobRows[i].archivedAt = NotArchived
        /\ jobRows[i].status = "archived" => jobRows[i].archivedAt # NotArchived

RowsInv ==
    /\ DOMAIN jobRows \subseteq RowIds
    /\ \A i \in DOMAIN jobRows : jobRows[i] \in ReportRow
    /\ halfDay \in Nat
    /\ OneLiveRowPerVisit
    /\ StampFollowsStatus

LEMMA RowsInvInit == ReportsInit => RowsInv
  BY DEF ReportsInit, RowsInv, OneLiveRowPerVisit, StampFollowsStatus

(* What an action does to the table: nothing, a row inserted, or a row     *)
(* rewritten with its place in the plan kept.                              *)
Inserted(i, row) ==
    /\ i \in RowIds \ DOMAIN jobRows
    /\ jobRows' = [k \in DOMAIN jobRows \cup {i} |-> IF k = i THEN row ELSE jobRows[k]]

Rewritten(i, row) ==
    /\ i \in DOMAIN jobRows
    /\ jobRows' = [jobRows EXCEPT ![i] = row]
    /\ row \in ReportRow
    /\ row.visit = jobRows[i].visit
    /\ \/ /\ row.status \in {"assigned", "submitted"} /\ jobRows[i].status \in {"assigned", "submitted"}
          /\ row.archivedAt = jobRows[i].archivedAt
       \/ row.status = "archived" /\ jobRows[i].status = "submitted" /\ row.archivedAt # NotArchived
       \/ row.status = "voided" /\ row.archivedAt = jobRows[i].archivedAt

LEMMA TableSteps ==
    ASSUME RowsInv, [ReportsNext]_reportVars
    PROVE  /\ halfDay' \in Nat
           /\ \/ jobRows' = jobRows
              \/ \E i, row : /\ Inserted(i, row) /\ row \in ReportRow
                             /\ row.status = "assigned" /\ row.archivedAt = NotArchived
                             /\ row.visit # OffPlan => \A k \in DOMAIN jobRows :
                                  jobRows[k].visit = row.visit => jobRows[k].status = "voided"
              \/ \E i, row : Rewritten(i, row)
  <1> DEFINE Ins == \E i, row : /\ Inserted(i, row) /\ row \in ReportRow
                                /\ row.status = "assigned" /\ row.archivedAt = NotArchived
                                /\ row.visit # OffPlan => \A k \in DOMAIN jobRows :
                                     jobRows[k].visit = row.visit => jobRows[k].status = "voided"
             Rew == \E i, row : Rewritten(i, row)
             Goal == halfDay' \in Nat /\ (jobRows' = jobRows \/ Ins \/ Rew)
  <1> SUFFICES Goal
      OBVIOUS
  <1>0. halfDay \in Nat
      BY DEF RowsInv
  <1>1. ASSUME NEW i \in RowIds, NEW v \in PlanVisits, NEW mine \in BOOLEAN, RaisePlanned(i, v, mine)
        PROVE  Goal
    <2> DEFINE row == NewRow(v, VisitDue[v], VisitArea[v], mine)
    <2>1. /\ row \in ReportRow /\ row.status = "assigned" /\ row.archivedAt = NotArchived /\ row.visit = v
        BY ReportsAssumption DEF NewRow, ReportRow, NotArchived
    <2>2. Inserted(i, row) /\ halfDay' = halfDay
        BY <1>1 DEF RaisePlanned, Insert, Inserted
    <2>3. \A k \in DOMAIN jobRows : jobRows[k].visit = v => jobRows[k].status = "voided"
        BY <1>1 DEF RaisePlanned
    <2> HIDE DEF row
    <2> QED BY <1>0, <2>1, <2>2, <2>3
  <1>2. ASSUME NEW i \in RowIds, NEW due \in 0 .. MaxHalfDay \div 2, NEW area \in ReportAreas,
               NEW mine \in BOOLEAN, RaiseAdhoc(i, due, area, mine)
        PROVE  Goal
    <2> DEFINE row == NewRow(OffPlan, due, area, mine)
    <2>1. /\ row \in ReportRow /\ row.status = "assigned" /\ row.archivedAt = NotArchived /\ row.visit = OffPlan
        BY ReportsAssumption DEF NewRow, ReportRow, NotArchived
    <2>2. Inserted(i, row) /\ halfDay' = halfDay
        BY <1>2 DEF RaiseAdhoc, Insert, Inserted
    <2> HIDE DEF row
    <2> QED BY <1>0, <2>1, <2>2
  <1>3. ASSUME NEW i \in DOMAIN jobRows,
               ReassignRow(i) \/ SubmitRow(i) \/ ReturnRow(i) \/ ArchiveRow(i) \/ VoidRow(i)
        PROVE  Goal
    <2>1. jobRows[i] \in ReportRow
        BY DEF RowsInv
    <2>2. halfDay' = halfDay
        BY <1>3 DEF ReassignRow, SubmitRow, ReturnRow, ArchiveRow, VoidRow, Rewrite
    <2>3. ASSUME ReassignRow(i) PROVE Rewritten(i, [jobRows[i] EXCEPT !.mine = ~@])
        BY <2>1, <2>3 DEF ReassignRow, Rewrite, Rewritten, ReportRow
    <2>4. ASSUME SubmitRow(i) PROVE Rewritten(i, [jobRows[i] EXCEPT !.status = "submitted"])
        BY <2>1, <2>4 DEF SubmitRow, Rewrite, Rewritten, ReportRow
    <2>5. ASSUME ReturnRow(i) PROVE Rewritten(i, [jobRows[i] EXCEPT !.status = "assigned"])
        BY <2>1, <2>5 DEF ReturnRow, Rewrite, Rewritten, ReportRow
    <2>6. ASSUME ArchiveRow(i)
          PROVE  Rewritten(i, [jobRows[i] EXCEPT !.status = "archived", !.archivedAt = halfDay])
      <3>1. halfDay \in Int /\ halfDay # NotArchived
          BY <1>0 DEF NotArchived
      <3> QED BY <2>1, <2>6, <3>1 DEF ArchiveRow, Rewrite, Rewritten, ReportRow
    <2>7. ASSUME VoidRow(i) PROVE Rewritten(i, [jobRows[i] EXCEPT !.status = "voided"])
        BY <2>1, <2>7 DEF VoidRow, Rewrite, Rewritten, ReportRow
    <2> QED BY <1>0, <1>3, <2>2, <2>3, <2>4, <2>5, <2>6, <2>7
  <1>4. CASE TickHalfDay
      BY <1>0, <1>4 DEF TickHalfDay
  <1>5. ASSUME UNCHANGED <<jobRows, halfDay>> PROVE Goal
      BY <1>0, <1>5
  <1>6. ASSUME NEW areas, Rescope(areas) PROVE Goal
      BY <1>5, <1>6 DEF Rescope
  <1>7. ASSUME NEW list, NEW broad, OpenList(list, broad) PROVE Goal
      BY <1>5, <1>7 DEF OpenList
  <1>8. CASE listJobs \/ overdueReport \/ pendingReport \/ listRecords
      BY <1>5, <1>8 DEF listJobs, overdueReport, pendingReport, listRecords, ShowPage
  <1>9. CASE UNCHANGED reportVars
      BY <1>5, <1>9 DEF reportVars
  <1> HIDE DEF Goal
  <1> QED BY <1>1, <1>2, <1>3, <1>4, <1>6, <1>7, <1>8, <1>9 DEF ReportsNext

LEMMA RowsInvNext ==
    ASSUME RowsInv, [ReportsNext]_reportVars PROVE RowsInv'
  <1>1. CASE jobRows' = jobRows
      BY <1>1, TableSteps DEF RowsInv, OneLiveRowPerVisit, StampFollowsStatus
  <1>2. ASSUME NEW i, NEW row, Inserted(i, row), row \in ReportRow,
               row.status = "assigned", row.archivedAt = NotArchived,
               row.visit # OffPlan => \A k \in DOMAIN jobRows :
                  jobRows[k].visit = row.visit => jobRows[k].status = "voided"
        PROVE  RowsInv'
    <2>1. /\ DOMAIN jobRows' = DOMAIN jobRows \cup {i} /\ i \in RowIds /\ i \notin DOMAIN jobRows
          /\ jobRows'[i] = row /\ \A k \in DOMAIN jobRows : jobRows'[k] = jobRows[k]
        BY <1>2 DEF Inserted
    <2>2. OneLiveRowPerVisit'
        BY <1>2, <2>1 DEF RowsInv, OneLiveRowPerVisit
    <2>3. StampFollowsStatus'
        BY <1>2, <2>1 DEF RowsInv, StampFollowsStatus
    <2> QED BY <1>2, <2>1, <2>2, <2>3, TableSteps DEF RowsInv
  <1>3. ASSUME NEW i, NEW row, Rewritten(i, row) PROVE RowsInv'
    <2>1. /\ DOMAIN jobRows' = DOMAIN jobRows /\ i \in DOMAIN jobRows /\ jobRows'[i] = row
          /\ \A k \in DOMAIN jobRows : k # i => jobRows'[k] = jobRows[k]
          /\ row.visit = jobRows[i].visit /\ row \in ReportRow
        BY <1>3 DEF Rewritten
    <2>2. OneLiveRowPerVisit'
      <3>1. row.status # "voided" => jobRows[i].status # "voided"
          BY <1>3 DEF Rewritten
      <3> QED BY <2>1, <3>1 DEF RowsInv, OneLiveRowPerVisit
    <2>3. StampFollowsStatus'
        BY <1>3, <2>1 DEF Rewritten, RowsInv, StampFollowsStatus
    <2> QED BY <2>1, <2>2, <2>3, TableSteps DEF RowsInv
  <1> QED BY <1>1, <1>2, <1>3, TableSteps

(* The overdue list, the flags, the compliance figures, the trend and the  *)
(* archive never contradict each other (overdueWhere, isOverdue,           *)
(* archiveStatusWhere, findMeasurementTrend, getById).                     *)
THEOREM OneStory == ReportsSpec => []ReportsAgree
  <1>1. RowsInv => ReportsAgree
    <2> SUFFICES ASSUME RowsInv, NEW i \in DOMAIN jobRows
                 PROVE  /\ overdueWhere(jobRows[i]) => /\ isOverdue(jobRows[i])
                                                       /\ ~archiveStatusWhere(jobRows[i])
                                                       /\ i \notin CompletedRows(DOMAIN jobRows)
                        /\ \A area \in ReportAreas : i \in measurementTrend(area) =>
                              /\ archiveStatusWhere(jobRows[i])
                              /\ jobRows[i].visit # OffPlan => i \in CompletedRows(DOMAIN jobRows)
                        /\ \A broad \in BOOLEAN : i \in Archive(broad) => MayOpen(broad, i)
        BY DEF ReportsAgree
    <2>1. jobRows[i].status \in {"assigned", "submitted", "archived", "voided"}
        BY DEF RowsInv, ReportRow
    <2>2. overdueWhere(jobRows[i]) => /\ isOverdue(jobRows[i])
                                      /\ ~archiveStatusWhere(jobRows[i])
                                      /\ i \notin CompletedRows(DOMAIN jobRows)
        BY <2>1 DEF overdueWhere, isOverdue, archiveStatusWhere, CompletedRows, RowsInv, StampFollowsStatus
    <2>3. ASSUME NEW area \in ReportAreas, i \in measurementTrend(area)
          PROVE  /\ archiveStatusWhere(jobRows[i])
                 /\ jobRows[i].visit # OffPlan => i \in CompletedRows(DOMAIN jobRows)
        BY <2>3 DEF measurementTrend, findMeasurementTrend, archiveStatusWhere, CompletedRows, PlannedRows,
                    RowsInv, StampFollowsStatus
    <2>4. ASSUME NEW broad \in BOOLEAN, i \in Archive(broad) PROVE MayOpen(broad, i)
        BY <2>4 DEF Archive, Jobs, InScope, MayOpen
    <2> QED BY <2>2, <2>3, <2>4
  <1> QED BY <1>1, RowsInvInit, RowsInvNext, PTL DEF ReportsSpec

(* A record in the archive stays there with its stamp through every write  *)
(* to the table, a void included.                                          *)
THEOREM ArchiveIsKept == ReportsSpec => ArchiveKeepsRecords
  <1> DEFINE Keeps == \A i \in DOMAIN jobRows : archiveStatusWhere(jobRows[i]) =>
                        /\ i \in DOMAIN jobRows'
                        /\ archiveStatusWhere(jobRows'[i])
                        /\ jobRows'[i].archivedAt = jobRows[i].archivedAt
  <1>1. ASSUME RowsInv, [ReportsNext]_reportVars PROVE Keeps
    <2> SUFFICES ASSUME NEW i \in DOMAIN jobRows, archiveStatusWhere(jobRows[i])
                 PROVE  /\ i \in DOMAIN jobRows'
                        /\ archiveStatusWhere(jobRows'[i])
                        /\ jobRows'[i].archivedAt = jobRows[i].archivedAt
        OBVIOUS
    <2>1. ASSUME NEW k, NEW row, Inserted(k, row)
          PROVE  i \in DOMAIN jobRows' /\ jobRows'[i] = jobRows[i]
        BY <2>1 DEF Inserted
    <2>2. ASSUME NEW k, NEW row, Rewritten(k, row)
          PROVE  /\ i \in DOMAIN jobRows' /\ archiveStatusWhere(jobRows'[i])
                 /\ jobRows'[i].archivedAt = jobRows[i].archivedAt
      <3>1. CASE k # i
          BY <2>2, <3>1 DEF Rewritten
      <3>2. CASE k = i
          BY <1>1, <2>2, <3>2 DEF Rewritten, archiveStatusWhere, RowsInv, StampFollowsStatus
      <3> QED BY <3>1, <3>2
    <2> QED BY <1>1, <2>1, <2>2, TableSteps
  <1> HIDE DEF Keeps
  <1>2. RowsInv /\ [ReportsNext]_reportVars => [Keeps]_reportVars
      BY <1>1
  <1>3. ReportsSpec => []RowsInv
      BY RowsInvInit, RowsInvNext, PTL DEF ReportsSpec
  <1>4. ReportsSpec => [][Keeps]_reportVars
      BY <1>2, <1>3, PTL DEF ReportsSpec
  <1> QED BY <1>4 DEF ArchiveKeepsRecords, Keeps

(* A period is counted once however often it was voided and raised again,  *)
(* and lands in one of the three buckets (ReportsService.compliance, the   *)
(* partial unique index on job).                                           *)
THEOREM PeriodsAreCounted == ReportsSpec => []PeriodCountedOnce
  <1>1. RowsInv => PeriodCountedOnce
    <2> SUFFICES ASSUME RowsInv, NEW from \in 0 .. MaxHalfDay, NEW to \in 0 .. MaxHalfDay,
                        NEW asked \in ReportAreas \cup {EveryArea},
                        NEW area \in byArea(from, to, asked)
                 PROVE  LET found == {i \in FindDueInRange(from, to, asked) : jobRows[i].area = area}
                            bucket == Compliance(from, to, asked, area)
                        IN  /\ bucket.due = Cardinality({jobRows[i].visit : i \in PlannedRows(found)})
                            /\ bucket.due = bucket.onTime + bucket.late + bucket.notCompleted
        BY DEF PeriodCountedOnce
    <2> DEFINE found == {i \in FindDueInRange(from, to, asked) : jobRows[i].area = area}
               inPlan == PlannedRows(found)
               completed == CompletedRows(found)
               onTime == {i \in completed : jobRows[i].archivedAt <= 2 * jobRows[i].due}
               visits == {jobRows[i].visit : i \in inPlan}
               bucket == Compliance(from, to, asked, area)
    <2>1. /\ bucket.due = Cardinality(inPlan) /\ bucket.onTime = Cardinality(onTime)
          /\ bucket.late = Cardinality(completed \ onTime)
          /\ bucket.notCompleted = Cardinality(inPlan \ completed)
        BY DEF Compliance
    <2>2. /\ inPlan \subseteq DOMAIN jobRows /\ completed \subseteq inPlan /\ onTime \subseteq completed
          /\ \A i \in inPlan : jobRows[i].status # "voided" /\ jobRows[i].visit # OffPlan
        BY DEF FindDueInRange, PlannedRows, CompletedRows
    <2>3. IsFiniteSet(inPlan)
      <3>1. IsFiniteSet(RowIds)
          BY ReportsAssumption, FS_Interval DEF RowIds
      <3>2. inPlan \in SUBSET RowIds
          BY <2>2 DEF RowsInv
      <3> QED BY <3>1, <3>2, FS_Subset
    <2> HIDE DEF found, inPlan, completed, onTime, bucket
    <2>4. Cardinality(inPlan) = Cardinality(visits)
      <3> DEFINE f == [i \in inPlan |-> jobRows[i].visit]
      <3>1. f \in Surjection(inPlan, visits)
          BY DEF Surjection
      <3>2. f \in Injection(inPlan, visits)
        <4>1. f \in [inPlan -> visits]
            OBVIOUS
        <4>2. \A a, b \in inPlan : f[a] = f[b] => a = b
            BY <2>2 DEF RowsInv, OneLiveRowPerVisit
        <4> QED BY <4>1, <4>2 DEF Injection, IsInjective
      <3> HIDE DEF f, visits
      <3> QED BY <2>3, <3>1, <3>2, FS_Surjection
    <2>5. /\ IsFiniteSet(completed) /\ IsFiniteSet(onTime)
          /\ Cardinality(inPlan) \in Nat /\ Cardinality(completed) \in Nat /\ Cardinality(onTime) \in Nat
      <3>1. IsFiniteSet(completed)
          BY <2>2, <2>3, FS_Subset
      <3>2. IsFiniteSet(onTime)
          BY <2>2, <3>1, FS_Subset
      <3> QED BY <2>3, <3>1, <3>2, FS_CardinalityType
    <2>6. Cardinality(inPlan \ completed) = Cardinality(inPlan) - Cardinality(completed)
      <3>1. inPlan \cap completed = completed
          BY <2>2
      <3> QED BY <2>3, <3>1, FS_Difference
    <2>7. Cardinality(completed \ onTime) = Cardinality(completed) - Cardinality(onTime)
      <3>1. completed \cap onTime = onTime
          BY <2>2
      <3> QED BY <2>5, <3>1, FS_Difference
    <2>8. bucket.due = bucket.onTime + bucket.late + bucket.notCompleted
        BY <2>1, <2>5, <2>6, <2>7
    <2>9. bucket.due = Cardinality(visits)
        BY <2>1, <2>4
    <2> QED BY <2>8, <2>9 DEF bucket, visits, inPlan, found
  <1> QED BY <1>1, RowsInvInit, RowsInvNext, PTL DEF ReportsSpec

-----------------------------------------------------------------------------
(* Reading a list page by page.                                            *)

OnMyList == OnList(reading.list, reading.broad)

(* What was steady is still on the list, and listed up to the cursor; a    *)
(* list read to its end has all of it.                                     *)
ReadingInv ==
    /\ DOMAIN jobRows \subseteq RowIds
    /\ {"list", "broad", "cursor", "listed", "done"} \subseteq DOMAIN reading
    /\ reading.cursor \in Nat
    /\ steady \subseteq OnMyList
    /\ \A i \in steady : i <= reading.cursor => i \in reading.listed
    /\ ReadingIsExact

LEMMA OnListIsRows ==
    ASSUME NEW list, NEW broad PROVE OnList(list, broad) \subseteq DOMAIN jobRows
  <1>1. /\ Jobs(broad) \subseteq DOMAIN jobRows /\ Overdue(broad) \subseteq Jobs(broad)
        /\ Pending(broad) \subseteq Jobs(broad) /\ Archive(broad) \subseteq Jobs(broad)
      BY DEF Jobs, Overdue, Pending, Archive
  <1> QED BY <1>1 DEF OnList

LEMMA ReadingInvInit == ReportsInit => ReadingInv
  <1> SUFFICES ASSUME ReportsInit PROVE ReadingInv
      OBVIOUS
  <1> QED BY DEF ReportsInit, ReadingInv, NoReading, ReadingIsExact

(* The page after the cursor: what is on the list up to its last id is on  *)
(* the page, and without more everything is.                               *)
LEMMA PageOfIds ==
    ASSUME ReadingInv, NEW rows, rows \subseteq RowIds,
           NEW page, page = paginate(Found(rows), PageLimit)
    PROVE  /\ page.hasMore \in BOOLEAN
           /\ page.hasMore => /\ page.nextCursor \in Nat
                              /\ \A i \in rows : i > reading.cursor /\ i <= page.nextCursor => i \in page.data
           /\ ~page.hasMore => \A i \in rows : i > reading.cursor => i \in page.data
  <1> DEFINE later == {i \in rows : i > reading.cursor}
             found == FirstOf(later, PageLimit + 1)
             data == FirstOf(found, PageLimit)
  <1>1. /\ later \in SUBSET Nat /\ MaxRows \in Nat /\ PageLimit \in Nat \ {0}
        /\ \A k \in later : k <= MaxRows
    <2>1. MaxRows \in Nat /\ PageLimit \in Nat \ {0}
        BY ReportsAssumption
    <2>2. later \subseteq RowIds
        OBVIOUS
    <2>3. \A k \in RowIds : k \in Nat /\ k <= MaxRows
        BY <2>1 DEF RowIds
    <2> HIDE DEF later
    <2> QED BY <2>1, <2>2, <2>3
  <1>2. /\ page.data = data
        /\ page.hasMore = (Cardinality(found) > PageLimit)
        /\ page.hasMore => page.nextCursor = Max(data)
      BY DEF paginate, Found, FirstIds, FirstOf, Before
  <1>3. IsPage(later, found, data, PageLimit)
    <2> HIDE DEF later
    <2>1. found = FirstOf(later, PageLimit + 1) /\ data = FirstOf(found, PageLimit)
        OBVIOUS
    <2> HIDE DEF found, data
    <2> QED BY <1>1, <2>1, PageOfFirst
  <1> HIDE DEF found, data
  <1>4. ASSUME page.hasMore
        PROVE  /\ page.nextCursor \in Nat
               /\ \A i \in rows : i > reading.cursor /\ i <= page.nextCursor => i \in page.data
    <2>1. PICK m \in data : /\ \A k \in data : k <= m
                           /\ \A i \in later : i <= m => i \in data
        BY <1>2, <1>3, <1>4 DEF IsPage
    <2>2. data \in SUBSET Nat /\ m \in Nat
        BY <1>1, <1>3 DEF IsPage
    <2>3. Max(data) = m
      <3>1. \A x \in data : (\A y \in data : x >= y) => x = m
          BY <2>1, <2>2
      <3>2. \A y \in data : m >= y
          BY <2>1, <2>2
      <3> QED BY <3>1, <3>2 DEF Max
    <2> QED BY <1>2, <1>4, <2>1, <2>2, <2>3
  <1>5. page.hasMore \in BOOLEAN
      BY DEF paginate
  <1>6. ASSUME ~page.hasMore PROVE \A i \in rows : i > reading.cursor => i \in page.data
      BY <1>2, <1>3, <1>6 DEF IsPage
  <1> QED BY <1>4, <1>5, <1>6

(* A step of somebody else: the reader's place stays, and what is no       *)
(* longer on the list is not steady any more.                              *)
LEMMA WorkKeepsReading ==
    ASSUME ReadingInv, RowsInv', reading' = reading, KeepSteady PROVE ReadingInv'
  <1>1. steady' \subseteq steady /\ steady' \subseteq OnMyList'
      BY DEF KeepSteady, OnMyList
  <1> QED BY <1>1 DEF ReadingInv, RowsInv, ReadingIsExact

(* A page of the list being read.                                          *)
LEMMA PageKeepsReading ==
    ASSUME ReadingInv, RowsInv', ShowPage(Found(OnMyList)) PROVE ReadingInv'
  <1> DEFINE rows == OnMyList
             page == paginate(Found(rows), PageLimit)
  <1>1. rows \subseteq RowIds /\ steady \subseteq rows
      BY OnListIsRows DEF ReadingInv, OnMyList
  <1>2. /\ page.hasMore \in BOOLEAN
        /\ page.hasMore => /\ page.nextCursor \in Nat
                           /\ \A i \in rows : i > reading.cursor /\ i <= page.nextCursor => i \in page.data
        /\ ~page.hasMore => \A i \in rows : i > reading.cursor => i \in page.data
    <2> HIDE DEF rows, page
    <2> QED BY <1>1, PageOfIds DEF page
  <1>3. /\ reading'.list = reading.list /\ reading'.broad = reading.broad
        /\ reading'.listed = reading.listed \cup page.data
        /\ reading'.cursor = (IF page.hasMore THEN page.nextCursor ELSE reading.cursor)
        /\ reading'.done = ~page.hasMore
        /\ DOMAIN reading' = DOMAIN reading
        /\ steady' = steady /\ UNCHANGED <<jobRows, halfDay, scopeRows>>
      BY DEF ShowPage, ReadingInv
  <1>4. OnMyList' = rows
      BY <1>3 DEF OnMyList, OnList, Jobs, Overdue, Pending, Archive, InScope, InReach,
                  overdueWhere, archiveStatusWhere, today
  <1>5. /\ reading.cursor \in Nat
        /\ \A i \in steady : i \in Nat /\ (i <= reading.cursor => i \in reading.listed)
      BY <1>1 DEF ReadingInv, RowIds
  <1> HIDE DEF rows, page
  <1>6. \A i \in steady : i <= reading'.cursor => i \in reading'.listed
    <2> SUFFICES ASSUME NEW i \in steady, i <= reading'.cursor PROVE i \in reading'.listed
        OBVIOUS
    <2>1. CASE i <= reading.cursor
        BY <1>3, <1>5, <2>1
    <2>2. CASE i > reading.cursor
        BY <1>1, <1>2, <1>3, <1>5, <2>2
    <2> QED BY <1>5, <2>1, <2>2
  <1>7. reading'.done => steady \subseteq reading'.listed
    <2> SUFFICES ASSUME ~page.hasMore, NEW i \in steady PROVE i \in reading'.listed
        BY <1>2, <1>3
    <2>1. CASE i <= reading.cursor
        BY <1>3, <1>5, <2>1
    <2>2. CASE i > reading.cursor
        BY <1>1, <1>2, <1>3, <1>5, <2>2
    <2> QED BY <1>5, <2>1, <2>2
  <1>8. reading'.cursor \in Nat
      BY <1>2, <1>3, <1>5
  <1> QED BY <1>1, <1>3, <1>4, <1>6, <1>7, <1>8 DEF ReadingInv, RowsInv, ReadingIsExact

LEMMA ReadingInvNext ==
    ASSUME ReadingInv, RowsInv, RowsInv', [ReportsNext]_reportVars PROVE ReadingInv'
  <1>1. ASSUME reading' = reading, KeepSteady PROVE ReadingInv'
      BY <1>1, WorkKeepsReading
  <1>2. ASSUME NEW i \in RowIds, NEW v \in PlanVisits, NEW mine \in BOOLEAN, RaisePlanned(i, v, mine)
        PROVE  ReadingInv'
      BY <1>1, <1>2 DEF RaisePlanned, Insert
  <1>3. ASSUME NEW i \in RowIds, NEW due \in 0 .. MaxHalfDay \div 2, NEW area \in ReportAreas,
               NEW mine \in BOOLEAN, RaiseAdhoc(i, due, area, mine)
        PROVE  ReadingInv'
      BY <1>1, <1>3 DEF RaiseAdhoc, Insert
  <1>4. ASSUME NEW i \in DOMAIN jobRows,
               ReassignRow(i) \/ SubmitRow(i) \/ ReturnRow(i) \/ ArchiveRow(i) \/ VoidRow(i)
        PROVE  ReadingInv'
      BY <1>1, <1>4 DEF ReassignRow, SubmitRow, ReturnRow, ArchiveRow, VoidRow, Rewrite
  <1>5. CASE TickHalfDay
      BY <1>1, <1>5 DEF TickHalfDay
  <1>6. ASSUME NEW areas, Rescope(areas) PROVE ReadingInv'
      BY <1>1, <1>6 DEF Rescope
  <1>7. ASSUME NEW list, NEW broad, OpenList(list, broad) PROVE ReadingInv'
    <2>1. /\ reading'.list = list /\ reading'.broad = broad /\ reading'.cursor = 0
          /\ reading'.listed = {} /\ reading'.done = FALSE /\ DOMAIN reading' = DOMAIN reading
          /\ steady' = OnList(list, broad) /\ UNCHANGED <<jobRows, halfDay, scopeRows>>
        BY <1>7 DEF OpenList, NoReading
    <2>2. OnMyList' = OnList(list, broad)
        BY <2>1 DEF OnMyList, OnList, Jobs, Overdue, Pending, Archive, InScope, InReach,
                    overdueWhere, archiveStatusWhere, today
    <2>3. \A i \in steady' : i \in Nat /\ i > 0
      <3>1. steady' \subseteq RowIds
          BY <2>1, OnListIsRows DEF RowsInv
      <3> QED BY <3>1, ReportsAssumption DEF RowIds
    <2> QED BY <2>1, <2>2, <2>3 DEF ReadingInv, RowsInv, ReadingIsExact
  <1>8. CASE listJobs \/ overdueReport \/ pendingReport \/ listRecords
    <2>1. ShowPage(Found(OnMyList))
        BY <1>8 DEF listJobs, overdueReport, pendingReport, listRecords, findMany, findOverdue,
                    findPendingVerification, findRecords, OnMyList, OnList
    <2> QED BY <2>1, PageKeepsReading
  <1>9. CASE UNCHANGED reportVars
    <2>1. OnMyList' = OnMyList
        BY <1>9 DEF reportVars, OnMyList, OnList, Jobs, Overdue, Pending, Archive, InScope, InReach,
                    overdueWhere, archiveStatusWhere, today
    <2> QED BY <1>9, <2>1 DEF reportVars, ReadingInv, ReadingIsExact
  <1> QED BY <1>2, <1>3, <1>4, <1>5, <1>6, <1>7, <1>8, <1>9 DEF ReportsNext

(* Read page by page while rows are inserted, worked on, voided and moved  *)
(* out of reach, a list read to its end holds every row that was on it all *)
(* the time (paginate, findMany, findOverdue, findPendingVerification).    *)
THEOREM PagesMissNothing == ReportsSpec => []ReadingIsExact
  <1>1. ReadingInv => ReadingIsExact
      BY DEF ReadingInv
  <1> QED BY <1>1, RowsInvInit, RowsInvNext, ReadingInvInit, ReadingInvNext, PTL DEF ReportsSpec

-----------------------------------------------------------------------------
(* Accounts.                                                               *)

AccountRow == [status : {"absent", "active", "deactivated"}, roles : SUBSET RoleCodes]

UpdateRow == [target : Accounts, roleCodes : SUBSET RoleCodes, active : {"unset", "yes", "no"},
              revoked : SUBSET RoleCodes, guarded : BOOLEAN, seen : (SUBSET Accounts) \cup {Unset}]

(* An account that exists goes on existing, so what a token or a request   *)
(* names is there.                                                         *)
Accounted == {u \in Accounts : users[u].status # "absent"}

UserInv ==
    /\ UserTypeOK
    /\ \A u \in Accounts : users[u].status = "absent" => users[u] = Absent
    /\ adminTokens \subseteq Accounted
    /\ updates \in [Updates -> UpdateRow \cup {NoUpdate}]
    /\ \A k \in Updates : updates[k] # NoUpdate => updates[k].target \in Accounted
    /\ othersActed \in BOOLEAN /\ staleGuard \in BOOLEAN
    /\ AnAdminRemains

LEMMA UserInvInit == UserInit => UserInv
  <1> SUFFICES ASSUME UserInit PROVE UserInv
      OBVIOUS
  <1>1. UserTypeOK
      BY DEF UserInit, UserTypeOK, Absent
  <1>2. AnAdminRemains
      BY DEF UserInit, AnAdminRemains
  <1> QED BY <1>1, <1>2 DEF UserInit, UserInv

(* Creating an account takes no administrator away.                        *)
LEMMA CreateKeepsUserInv ==
    ASSUME UserInv, NEW u \in Accounts, NEW rs \in SUBSET RoleCodes, Create(u, rs),
           rs = {"ADMIN"} \/ adminTokens # {}
    PROVE  UserInv'
  <1> DEFINE row == [status |-> "active", roles |-> rs]
  <1>1. /\ users \in [Accounts -> AccountRow] /\ row \in AccountRow
        /\ row.status = "active" /\ row.roles = rs
        /\ users' = [users EXCEPT ![u] = row] /\ users[u].status = "absent"
        /\ UNCHANGED <<adminTokens, updates, othersActed, staleGuard>>
      BY DEF Create, UserInv, UserTypeOK, AccountRow, Absent
  <1> HIDE DEF row
  <1>2. /\ users' \in [Accounts -> AccountRow] /\ users'[u] = row
        /\ \A v \in Accounts : v # u => users'[v] = users[v]
      BY <1>1
  <1>3. UserTypeOK'
      BY <1>2 DEF UserTypeOK, AccountRow
  <1>4. \A v \in Accounts : users'[v].status = "absent" => users'[v] = Absent
      BY <1>1, <1>2 DEF UserInv
  <1>5. Accounted \subseteq Accounted'
      BY <1>1, <1>2 DEF Accounted
  <1>6. AnAdminRemains'
    <2>1. ASSUME rs = {"ADMIN"} PROVE u \in ActiveAdmins'
        BY <1>1, <1>2, <2>1 DEF ActiveAdmins, Holders
    <2>2. ASSUME adminTokens # {} PROVE ActiveAdmins # {} \/ othersActed \/ staleGuard
      <3>1. \E v \in Accounts : users[v] # Absent
          BY <2>2 DEF UserInv, Accounted, Absent
      <3> QED BY <3>1 DEF UserInv, AnAdminRemains
    <2>3. ASSUME NEW v \in ActiveAdmins PROVE v \in ActiveAdmins'
        BY <1>1, <1>2, <2>3 DEF ActiveAdmins, Holders
    <2>4. ActiveAdmins' # {} \/ othersActed' \/ staleGuard'
        BY <1>1, <2>1, <2>2, <2>3
    <2> QED BY <2>4 DEF AnAdminRemains
  <1>7. /\ adminTokens' \subseteq Accounted'
        /\ \A k \in Updates : updates'[k] # NoUpdate => updates'[k].target \in Accounted'
    <2>1. \A k \in Updates : updates[k] # NoUpdate => updates[k].target \in Accounts
        BY DEF UserInv, UpdateRow
    <2> QED BY <1>1, <1>5, <2>1 DEF UserInv
  <1>8. updates' \in [Updates -> UpdateRow \cup {NoUpdate}] /\ othersActed' \in BOOLEAN /\ staleGuard' \in BOOLEAN
      BY <1>1 DEF UserInv
  <1> QED BY <1>3, <1>4, <1>6, <1>7, <1>8 DEF UserInv, Accounted

(* A guarded update leaves the administrator it counted; any other that    *)
(* removes one is somebody else's doing.                                   *)
LEMMA UpdateKeepsAdmin ==
    ASSUME UserInv, NEW k \in Updates, Update(k) PROVE AnAdminRemains'
  <1> DEFINE u == updates[k].target
             row == UpdatedUser(k)
  <1>1. /\ updates[k] \in UpdateRow /\ u \in Accounts /\ u \in Accounted
      BY DEF Update, UserInv, UpdateRow
  <1>2. /\ users' = [users EXCEPT ![u] = row] /\ users \in [Accounts -> AccountRow]
      BY DEF Update, UserInv, UserTypeOK, AccountRow
  <1> HIDE DEF u, row
  <1>3. users'[u] = row /\ \A v \in Accounts : v # u => users'[v] = users[v]
      BY <1>1, <1>2
  <1>4. ActiveAdmins # {} \/ othersActed \/ staleGuard
    <2>1. users[u] # Absent
        BY <1>1 DEF Accounted, Absent
    <2> QED BY <1>1, <2>1 DEF UserInv, AnAdminRemains
  <1>5. (othersActed => othersActed') /\ (staleGuard => staleGuard')
      BY DEF Update, UserInv
  <1>6. ASSUME NEW a \in ActiveAdmins, a # u PROVE a \in ActiveAdmins'
      BY <1>3, <1>6 DEF ActiveAdmins, Holders
  <1>7. ASSUME updates[k].guarded PROVE ActiveAdmins' # {} \/ staleGuard'
    <2>1. PICK v : v \in otherActiveAdmins(k)
        BY <1>7 DEF Update
    <2>2. v # u /\ users[v].status = "active"
        BY <2>1 DEF otherActiveAdmins, u
    <2>3. CASE v \in Holders
        BY <1>6, <2>2, <2>3 DEF ActiveAdmins
    <2>4. CASE v \notin Holders
      <3>1. ~(otherActiveAdmins(k) \subseteq Holders)
          BY <2>1, <2>4
      <3> QED BY <1>7, <3>1 DEF Update
    <2> QED BY <2>3, <2>4
  <1>8. ASSUME ~updates[k].guarded, NEW a \in ActiveAdmins PROVE ActiveAdmins' # {} \/ othersActed'
    <2>1. CASE a # u
        BY <1>6, <2>1
    <2>2. CASE a = u /\ row.status = "active" /\ "ADMIN" \in row.roles
        BY <1>1, <1>3, <2>2 DEF ActiveAdmins, Holders
    <2>3. CASE a = u /\ ~(row.status = "active" /\ "ADMIN" \in row.roles)
        BY <1>8, <2>3 DEF Update, u, row
    <2> QED BY <2>1, <2>2, <2>3
  <1>9. ActiveAdmins' # {} \/ othersActed' \/ staleGuard'
      BY <1>4, <1>5, <1>7, <1>8
  <1> QED BY <1>9 DEF AnAdminRemains

LEMMA UpdateKeepsUserInv ==
    ASSUME UserInv, NEW k \in Updates, Update(k) PROVE UserInv'
  <1> DEFINE u == updates[k].target
             row == UpdatedUser(k)
  <1>1. /\ updates[k] \in UpdateRow /\ u \in Accounts /\ u \in Accounted /\ updates[k] # NoUpdate
      BY DEF Update, UserInv, UpdateRow
  <1>2. row \in AccountRow /\ row.status # "absent"
    <2>1. users[u] \in AccountRow
        BY <1>1 DEF UserInv, UserTypeOK, AccountRow
    <2>2. row.roles \in SUBSET RoleCodes
        BY <1>1, <2>1 DEF UpdatedUser, ReplacedRoles, AccountRow, UpdateRow
    <2>3. row.status \in {"active", "deactivated"}
        BY <1>1, <2>1 DEF UpdatedUser, AccountRow, UpdateRow, Accounted
    <2>4. PICK st, ro : row = [status |-> st, roles |-> ro]
        BY DEF UpdatedUser
    <2> HIDE DEF row
    <2> QED BY <2>2, <2>3, <2>4 DEF AccountRow
  <1>3. /\ users' = [users EXCEPT ![u] = row] /\ users \in [Accounts -> AccountRow]
        /\ updates' = [updates EXCEPT ![k] = NoUpdate] /\ adminTokens' = adminTokens
      BY DEF Update, UserInv, UserTypeOK, AccountRow
  <1>3a. updates \in [Updates -> UpdateRow \cup {NoUpdate}]
      BY DEF UserInv
  <1>4. othersActed' \in BOOLEAN /\ staleGuard' \in BOOLEAN
      BY DEF Update, UserInv
  <1>5. AnAdminRemains'
      BY UpdateKeepsAdmin
  <1> HIDE DEF u, row
  <1>6. /\ users' \in [Accounts -> AccountRow] /\ users'[u] = row
        /\ \A v \in Accounts : v # u => users'[v] = users[v]
      BY <1>1, <1>2, <1>3
  <1>7. /\ UserTypeOK'
        /\ \A v \in Accounts : users'[v].status = "absent" => users'[v] = Absent
        /\ Accounted \subseteq Accounted'
      BY <1>2, <1>6 DEF UserTypeOK, AccountRow, Accounted, UserInv
  <1>8. /\ updates' \in [Updates -> UpdateRow \cup {NoUpdate}]
        /\ \A q \in Updates : updates'[q] # NoUpdate => updates[q] # NoUpdate /\ updates'[q] = updates[q]
      BY <1>3, <1>3a
  <1>9. /\ adminTokens' \subseteq Accounted'
        /\ \A q \in Updates : updates'[q] # NoUpdate => updates'[q].target \in Accounted'
    <2>1. \A q \in Updates : updates[q] # NoUpdate => updates[q].target \in Accounts
        BY DEF UserInv, UpdateRow
    <2> QED BY <1>3, <1>7, <1>8, <2>1 DEF UserInv
  <1> QED BY <1>4, <1>5, <1>7, <1>8, <1>9 DEF UserInv, Accounted

(* A step that only files, refuses or moves on a request.                  *)
LEMMA RequestKeepsUserInv ==
    ASSUME UserInv, NEW k \in Updates, NEW req \in UpdateRow \cup {NoUpdate},
           req # NoUpdate => req.target \in Accounted,
           updates' = [updates EXCEPT ![k] = req],
           UNCHANGED <<users, adminTokens, othersActed, staleGuard>>
    PROVE  UserInv'
  <1>1. updates \in [Updates -> UpdateRow \cup {NoUpdate}]
      BY DEF UserInv
  <1>2. /\ updates' \in [Updates -> UpdateRow \cup {NoUpdate}] /\ updates'[k] = req
        /\ \A q \in Updates : q # k => updates'[q] = updates[q]
      BY <1>1
  <1>3. \A q \in Updates : updates'[q] # NoUpdate => updates'[q].target \in Accounted
      BY <1>2 DEF UserInv
  <1>4. UserTypeOK' /\ AnAdminRemains'
      BY DEF UserInv, UserTypeOK, AnAdminRemains, ActiveAdmins, Holders
  <1> QED BY <1>2, <1>3, <1>4 DEF UserInv, Accounted

LEMMA UserInvNext == UserInv /\ [UserNext]_userVars => UserInv'
  <1> SUFFICES ASSUME UserInv, [UserNext]_userVars PROVE UserInv'
      OBVIOUS
  <1>1. ASSUME NEW u \in Accounts, bootstrapFirstAdmin(u) PROVE UserInv'
    <2>1. {"ADMIN"} \in SUBSET RoleCodes
        BY UserAdminAssumption
    <2> QED BY <1>1, <2>1, CreateKeepsUserInv DEF bootstrapFirstAdmin
  <1>2. ASSUME NEW u \in Accounts, NEW rs \in SUBSET RoleCodes, AdminUserCreate(u, rs) PROVE UserInv'
      BY <1>2, CreateKeepsUserInv DEF AdminUserCreate
  <1>3. ASSUME NEW u \in Accounts, AdminSignsIn(u) PROVE UserInv'
    <2>1. u \in ActiveAdmins /\ adminTokens' = adminTokens \cup {u} /\ UNCHANGED <<users, updates, othersActed, staleGuard>>
        BY <1>3 DEF AdminSignsIn
    <2>2. u \in Accounted
        BY <2>1 DEF ActiveAdmins, Accounted
    <2>3. UserTypeOK' /\ AnAdminRemains'
        BY <2>1 DEF UserInv, UserTypeOK, AnAdminRemains, ActiveAdmins, Holders
    <2> QED BY <2>1, <2>2, <2>3 DEF UserInv, Accounted
  <1>4. ASSUME NEW k \in Updates, NEW a \in adminTokens, NEW u \in Accounts, NEW rs \in SUBSET RoleCodes,
               NEW active \in {"unset", "yes", "no"}, SendUpdate(k, a, u, rs, active)
        PROVE  UserInv'
    <2> DEFINE revoked == IF rs = {} THEN {} ELSE users[u].roles \ rs
               guarded == u = a /\ (active = "no" \/ "ADMIN" \in revoked)
               req == [target |-> u, roleCodes |-> rs, active |-> active, revoked |-> revoked,
                       guarded |-> guarded, seen |-> Unset]
    <2>1. revoked \in SUBSET RoleCodes /\ guarded \in BOOLEAN
        BY DEF UserInv, UserTypeOK
    <2>2. updates' = [updates EXCEPT ![k] = req] /\ UNCHANGED <<users, adminTokens, othersActed, staleGuard>>
        BY <1>4 DEF SendUpdate
    <2>3. u \in Accounted
        BY <1>4 DEF SendUpdate, Accounted, UserInv
    <2> HIDE DEF revoked, guarded
    <2>4. req \in UpdateRow /\ req.target = u
        BY <2>1 DEF UpdateRow
    <2> HIDE DEF req
    <2> QED BY <2>2, <2>3, <2>4, RequestKeepsUserInv
  <1>5. ASSUME NEW k \in Updates, GuardBegins(k) PROVE UserInv'
    <2> DEFINE req == [updates[k] EXCEPT !.seen = Holders]
    <2>1. updates[k] \in UpdateRow /\ updates[k].target \in Accounted
        BY <1>5 DEF GuardBegins, UserInv
    <2>2. req \in UpdateRow /\ req.target = updates[k].target
        BY <2>1 DEF UpdateRow, Holders
    <2>3. updates' = [updates EXCEPT ![k] = req] /\ UNCHANGED <<users, adminTokens, othersActed, staleGuard>>
        BY <1>5 DEF GuardBegins
    <2> HIDE DEF req
    <2> QED BY <2>1, <2>2, <2>3, RequestKeepsUserInv
  <1>6. ASSUME NEW k \in Updates, UpdateRefused(k) PROVE UserInv'
      BY <1>6, RequestKeepsUserInv DEF UpdateRefused
  <1>7. ASSUME NEW k \in Updates, Update(k) PROVE UserInv'
      BY <1>7, UpdateKeepsUserInv
  <1>8. CASE UNCHANGED userVars
      BY <1>8 DEF userVars, UserInv, UserTypeOK, AnAdminRemains, ActiveAdmins, Holders, Accounted
  <1>9. ASSUME NEW k \in Updates, NEW a \in adminTokens, NEW u \in Accounts,
               \/ \E rs \in SUBSET RoleCodes : saveRoles(k, a, u, rs)
               \/ \E b \in {"yes", "no"} : setActive(k, a, u, b)
        PROVE  UserInv'
      BY <1>4, <1>9 DEF saveRoles, setActive
  <1> QED BY <1>1, <1>2, <1>3, <1>5, <1>6, <1>7, <1>8, <1>9 DEF UserNext

(* However overlapping requests read, wait and write, people deactivating  *)
(* themselves never leave the system without an administrator: the row     *)
(* locks serialise them.  Not claimed where somebody removed somebody      *)
(* else, which nothing guards, nor where a guard counted an ADMIN role     *)
(* dropped after its statement began: two people who drop their own roles  *)
(* at once can be the last two (UsersService.update and its row locks).    *)
THEOREM AdministratorsRemain == UserSpec => []AnAdminRemains
  <1>1. UserInv => AnAdminRemains
      BY DEF UserInv
  <1> QED BY <1>1, UserInvInit, UserInvNext, PTL DEF UserSpec

-----------------------------------------------------------------------------
(* Template revisions.                                                     *)

(* A revision row; the text of a code does not matter here.                *)
RevisionRow ==
    [code : Codes \cup {"B"}, status : RevisionStatuses, author : Editors,
     content : [Parts -> Texts \cup {"none"}]]

(* A request that writes names the revision it read, and never one that    *)
(* is not there any more: rows are never deleted.                          *)
RevRequestRow(q) ==
    \/ q = NoRevRequest
    \/ /\ q.op = "create" /\ q.by \in Editors /\ q.read \in [Parts -> Texts \cup {"none"}]
    \/ q.op \in {"edit", "submit", "reject", "approve", "superseding"} /\ q.rev \in Ordinals

RevisionsInv ==
    /\ revisions \in Seq(RevisionRow)
    /\ DOMAIN revRequests = RevRequests
    /\ \A k \in RevRequests : RevRequestRow(revRequests[k])

LEMMA RevisionsInvInit == RevisionsInit => RevisionsInv
  BY DEF RevisionsInit, RevisionsInv, RevRequestRow

(* A request is filed, moved on or dropped; the rows stay.                 *)
LEMMA RequestKeepsRevisions ==
    ASSUME RevisionsInv, NEW k \in RevRequests, NEW q, RevRequestRow(q),
           revRequests' = [revRequests EXCEPT ![k] = q], revisions' = revisions
    PROVE  RevisionsInv'
  <1>1. \A j \in RevRequests : revRequests'[j] = q \/ revRequests'[j] = revRequests[j]
      BY DEF RevisionsInv
  <1>2. \A j \in RevRequests : RevRequestRow(revRequests'[j])
      BY <1>1 DEF RevisionsInv
  <1>3. \A j \in RevRequests : RevRequestRow(revRequests[j])'
      BY <1>2 DEF RevRequestRow, Ordinals
  <1> QED BY <1>3 DEF RevisionsInv

(* The rows are written: no row is lost.                                   *)
LEMMA WriteKeepsRevisions ==
    ASSUME RevisionsInv, NEW k \in RevRequests, NEW rows \in Seq(RevisionRow),
           Ordinals \subseteq DOMAIN rows, Writes(k, rows)
    PROVE  RevisionsInv'
  <1>1. \A j \in RevRequests : revRequests'[j] = NoRevRequest \/ revRequests'[j] = revRequests[j]
      BY DEF RevisionsInv, Writes
  <1>2. \A j \in RevRequests : RevRequestRow(revRequests'[j])
      BY <1>1 DEF RevisionsInv, RevRequestRow
  <1>3. Ordinals \subseteq Ordinals'
      BY DEF Writes, Ordinals
  <1>4. \A j \in RevRequests : RevRequestRow(revRequests[j])'
      BY <1>2, <1>3 DEF RevRequestRow
  <1> QED BY <1>4 DEF RevisionsInv, Writes

(* One row rewritten.                                                      *)
LEMMA RowWriteKeepsRevisions ==
    ASSUME RevisionsInv, NEW k \in RevRequests, NEW i \in Ordinals, NEW row \in RevisionRow,
           Writes(k, [revisions EXCEPT ![i] = row])
    PROVE  RevisionsInv'
  <1> DEFINE rows == [revisions EXCEPT ![i] = row]
  <1>1. rows \in Seq(RevisionRow) /\ DOMAIN rows = Ordinals
      BY DEF RevisionsInv, Ordinals
  <1> HIDE DEF rows
  <1> QED BY <1>1, WriteKeepsRevisions DEF rows

LEMMA RevisionsInvNext == RevisionsInv /\ [RevisionsNext]_revisionVars => RevisionsInv'
  <1> SUFFICES ASSUME RevisionsInv, [RevisionsNext]_revisionVars PROVE RevisionsInv'
      OBVIOUS
  <1>1. CASE UNCHANGED revisionVars
      BY <1>1 DEF revisionVars, RevisionsInv, RevRequestRow, Ordinals
  <1> SUFFICES ASSUME NEW k \in RevRequests,
                      \/ \E who \in Editors :
                           \/ ReadForCreate(k, who)
                           \/ \E i \in Ordinals : \/ ReadForEdit(k, i, who) \/ ReadForSubmit(k, i, who)
                                                  \/ ReadForApprove(k, i, who) \/ ReadForReject(k, i, who)
                      \/ \E code \in Codes : create(k, code)
                      \/ \E text \in Texts : patch(k, text) \/ replaceItems(k, text) \/ replaceMeasurements(k, text)
                      \/ submit(k) \/ reject(k)
                      \/ previousCurrent(k) \/ approve(k)
                      \/ RequestFails(k)
               PROVE  RevisionsInv'
      BY <1>1 DEF RevisionsNext
  <1> DEFINE q == revRequests[k]
  <1>0. RevRequestRow(q)
      BY DEF RevisionsInv
  <1>0a. /\ \A i \in Ordinals : revisions[i] \in RevisionRow
         /\ revisions \in Seq(RevisionRow) /\ Ordinals = 1 .. Len(revisions) /\ Len(revisions) \in Nat
      BY DEF RevisionsInv, Ordinals
  <1>2. ASSUME NEW who \in Editors, ReadForCreate(k, who) PROVE RevisionsInv'
    <2> DEFINE new == [op |-> "create", rev |-> nextSequenceOrdinal, by |-> who, read |-> CopiedContent]
    <2>1. CopiedContent \in [Parts -> Texts \cup {"none"}]
      <3>1. CASE CurrentOf(revisions) = {}
          BY <3>1 DEF CopiedContent, Empty
      <3>2. CASE CurrentOf(revisions) # {}
        <4>1. (CHOOSE i \in CurrentOf(revisions) : TRUE) \in CurrentOf(revisions)
            BY <3>2
        <4>2. (CHOOSE i \in CurrentOf(revisions) : TRUE) \in Ordinals
            BY <4>1 DEF CurrentOf, Ordinals
        <4> QED BY <1>0a, <3>2, <4>2 DEF CopiedContent, RevisionRow
      <3> QED BY <3>1, <3>2
    <2>2. RevRequestRow(new)
        BY <2>1 DEF RevRequestRow
    <2>3. revRequests' = [revRequests EXCEPT ![k] = new] /\ revisions' = revisions
        BY <1>2 DEF ReadForCreate
    <2> HIDE DEF new
    <2> QED BY <2>2, <2>3, RequestKeepsRevisions
  <1>3. ASSUME NEW who \in Editors, NEW i \in Ordinals,
               \/ ReadForEdit(k, i, who) \/ ReadForSubmit(k, i, who)
               \/ ReadForApprove(k, i, who) \/ ReadForReject(k, i, who)
        PROVE  RevisionsInv'
    <2>1. PICK op \in {"edit", "submit", "approve", "reject"} : ReadRevision(k, op, i, who)
        BY <1>3 DEF ReadForEdit, ReadForSubmit, ReadForApprove, ReadForReject
    <2> DEFINE new == [op |-> op, rev |-> i, by |-> who]
    <2>2. RevRequestRow(new)
        BY DEF RevRequestRow
    <2>3. revRequests' = [revRequests EXCEPT ![k] = new] /\ revisions' = revisions
        BY <2>1 DEF ReadRevision
    <2> HIDE DEF new
    <2> QED BY <2>2, <2>3, RequestKeepsRevisions
  <1>4. ASSUME NEW code \in Codes, create(k, code) PROVE RevisionsInv'
    <2> DEFINE row == [code |-> contractTrim(code), status |-> "draft", author |-> q.by, content |-> q.read]
               rows == Append(revisions, row)
    <2>1. q.by \in Editors /\ q.read \in [Parts -> Texts \cup {"none"}]
        BY <1>0, <1>4 DEF create, RevRequestRow, NoRevRequest
    <2>2. row \in RevisionRow
        BY <2>1 DEF RevisionRow, RevisionStatuses, contractTrim
    <2>3. Writes(k, rows)
        BY <1>4 DEF create, Created
    <2> HIDE DEF row
    <2>4. rows \in Seq(RevisionRow) /\ Ordinals \subseteq DOMAIN rows
        BY <1>0a, <2>2
    <2> HIDE DEF rows
    <2> QED BY <2>3, <2>4, WriteKeepsRevisions
  <1>5. ASSUME NEW text \in Texts, patch(k, text) \/ replaceItems(k, text) \/ replaceMeasurements(k, text)
        PROVE  RevisionsInv'
    <2>1. PICK part \in Parts : Edits(k, part, text)
        BY <1>5 DEF patch, replaceItems, replaceMeasurements, Parts
    <2> DEFINE i == q.rev
               row == [revisions[i] EXCEPT !.content[part] = text]
    <2>2. i \in Ordinals
        BY <1>0, <2>1 DEF Edits, RevRequestRow, NoRevRequest
    <2>3. row \in RevisionRow
        BY <1>0a, <2>2 DEF RevisionRow
    <2>4. Writes(k, [revisions EXCEPT ![i] = row])
        BY <2>1 DEF Edits, Replaced
    <2> HIDE DEF i, row
    <2> QED BY <2>2, <2>3, <2>4, RowWriteKeepsRevisions
  <1>6. ASSUME NEW status \in {"pending_approval", "rejected"}, q.rev \in Ordinals,
               Writes(k, [revisions EXCEPT ![q.rev].status = status])
        PROVE  RevisionsInv'
    <2> DEFINE i == q.rev
               row == [revisions[i] EXCEPT !.status = status]
    <2>1. row \in RevisionRow
        BY <1>0a, <1>6 DEF RevisionRow, RevisionStatuses
    <2>2. Writes(k, [revisions EXCEPT ![i] = row]) /\ i \in Ordinals
        BY <1>6
    <2> HIDE DEF i, row
    <2> QED BY <2>1, <2>2, RowWriteKeepsRevisions
  <1>7. CASE submit(k) \/ reject(k)
    <2>1. q.rev \in Ordinals
        BY <1>0, <1>7 DEF submit, reject, RevRequestRow, NoRevRequest
    <2> QED BY <1>6, <1>7, <2>1 DEF submit, reject, Submitted, Rejected
  <1>8. CASE previousCurrent(k)
    <2> DEFINE new == [op |-> "superseding", rev |-> q.rev, by |-> q.by, previous |-> CurrentOf(revisions)]
    <2>1. q.rev \in Ordinals
        BY <1>0, <1>8 DEF previousCurrent, RevRequestRow, NoRevRequest
    <2>2. RevRequestRow(new)
        BY <2>1 DEF RevRequestRow
    <2>3. revRequests' = [revRequests EXCEPT ![k] = new] /\ revisions' = revisions
        BY <1>8 DEF previousCurrent, RevisionsInv
    <2> HIDE DEF new
    <2> QED BY <2>2, <2>3, RequestKeepsRevisions
  <1>9. CASE approve(k)
    <2> DEFINE rows == Superseding(k)
    <2>1. Writes(k, rows)
        BY <1>9 DEF approve
    <2>2. DOMAIN rows = Ordinals /\ \A j \in Ordinals : rows[j] \in RevisionRow
        BY <1>0a DEF Superseding, RevisionRow, RevisionStatuses
    <2>3. rows \in [1 .. Len(revisions) -> RevisionRow]
        BY <1>0a, <2>2 DEF Superseding
    <2> HIDE DEF rows
    <2>4. rows \in Seq(RevisionRow)
        BY <1>0a, <2>3
    <2> QED BY <2>1, <2>2, <2>4, WriteKeepsRevisions
  <1>10. CASE RequestFails(k)
    <2>1. RevRequestRow(NoRevRequest)
        BY DEF RevRequestRow
    <2> QED BY <1>10, <2>1, RequestKeepsRevisions DEF RequestFails
  <1> QED BY <1>2, <1>3, <1>4, <1>5, <1>7, <1>8, <1>9, <1>10

(* What a step may do to an issued revision that no request is on its way  *)
(* to.                                                                     *)
Untouched(i) ==
    /\ revisions'[i].content = revisions[i].content
    /\ Issued(i)' /\ ~UnderWayTo(i)'

(* A request that starts or moves on touches no such revision: it reads    *)
(* another row than an issued one.                                         *)
LEMMA RequestSparesIssued ==
    ASSUME RevisionsInv, NEW i \in Ordinals, Issued(i), ~UnderWayTo(i), NEW k \in RevRequests, NEW q,
           q.op \in {"none", "create"} \/ q.rev # i,
           revRequests' = [revRequests EXCEPT ![k] = q], revisions'[i].content = revisions[i].content,
           Issued(i)'
    PROVE  Untouched(i)
  <1>1. \A j \in RevRequests : revRequests'[j] = q \/ revRequests'[j] = revRequests[j]
      BY DEF RevisionsInv
  <1> QED BY <1>1 DEF Untouched, UnderWayTo

(* Whatever requests overlap, an issued revision that none of them had     *)
(* read before it was issued stays as it is (assertDraft,                  *)
(* assertPendingApproval, RevisionsService.approve).                       *)
THEOREM IssuedFormsAreFrozen == RevisionsSpec => FrozenOnceIssued
  <1>1. ASSUME RevisionsInv, NEW i \in Ordinals, Issued(i), ~UnderWayTo(i),
               NEW k \in RevRequests,
               \/ \E who \in Editors :
                    \/ ReadForCreate(k, who)
                    \/ \E j \in Ordinals : \/ ReadForEdit(k, j, who) \/ ReadForSubmit(k, j, who)
                                           \/ ReadForApprove(k, j, who) \/ ReadForReject(k, j, who)
               \/ \E code \in Codes : create(k, code)
               \/ \E text \in Texts : patch(k, text) \/ replaceItems(k, text) \/ replaceMeasurements(k, text)
               \/ submit(k) \/ reject(k)
               \/ previousCurrent(k) \/ approve(k)
               \/ RequestFails(k)
        PROVE  Untouched(i)
    <2> DEFINE q == revRequests[k]
    <2>0. q.op \in {"none", "create"} \/ q.rev # i
        BY <1>1 DEF UnderWayTo
    <2>1. ASSUME NEW who \in Editors, ReadForCreate(k, who) PROVE Untouched(i)
      <3> DEFINE new == [op |-> "create", rev |-> nextSequenceOrdinal, by |-> who, read |-> CopiedContent]
      <3>1. new.op = "create" /\ revRequests' = [revRequests EXCEPT ![k] = new] /\ revisions' = revisions
          BY <2>1 DEF ReadForCreate
      <3> HIDE DEF new
      <3> QED BY <1>1, <3>1, RequestSparesIssued DEF Issued
    <2>2. ASSUME NEW who \in Editors, NEW j \in Ordinals,
                 \/ ReadForEdit(k, j, who) \/ ReadForSubmit(k, j, who)
                 \/ ReadForApprove(k, j, who) \/ ReadForReject(k, j, who)
          PROVE  Untouched(i)
      <3>1. PICK op \in {"edit", "submit", "approve", "reject"} : ReadRevision(k, op, j, who)
          BY <2>2 DEF ReadForEdit, ReadForSubmit, ReadForApprove, ReadForReject
      <3>2. j # i
          BY <1>1, <2>2 DEF ReadForEdit, ReadForSubmit, ReadForApprove, ReadForReject,
                            assertDraft, assertPendingApproval, Issued
      <3> DEFINE new == [op |-> op, rev |-> j, by |-> who]
      <3>3. new.rev = j /\ revRequests' = [revRequests EXCEPT ![k] = new] /\ revisions' = revisions
          BY <3>1 DEF ReadRevision
      <3> HIDE DEF new
      <3> QED BY <1>1, <3>2, <3>3, RequestSparesIssued DEF Issued
    <2>3. CASE previousCurrent(k)
      <3> DEFINE new == [op |-> "superseding", rev |-> q.rev, by |-> q.by, previous |-> CurrentOf(revisions)]
      <3>1. q.rev # i
          BY <2>0, <2>3 DEF previousCurrent
      <3>2. new.rev = q.rev /\ revRequests' = [revRequests EXCEPT ![k] = new] /\ revisions' = revisions
          BY <1>1, <2>3 DEF previousCurrent, RevisionsInv
      <3> HIDE DEF new
      <3> QED BY <1>1, <3>1, <3>2, RequestSparesIssued DEF Issued
    <2>4. ASSUME NEW rows, Writes(k, rows), rows[i].content = revisions[i].content,
                 rows[i].status \in {"current", "superseded"}
          PROVE  Untouched(i)
      <3>1. revisions'[i].content = revisions[i].content /\ Issued(i)'
          BY <2>4 DEF Writes, Issued
      <3>2. NoRevRequest.op = "none" /\ revRequests' = [revRequests EXCEPT ![k] = NoRevRequest]
          BY <2>4 DEF Writes, NoRevRequest
      <3> QED BY <1>1, <3>1, <3>2, RequestSparesIssued
    <2>5. ASSUME NEW code \in Codes, create(k, code) PROVE Untouched(i)
      <3> DEFINE row == [code |-> contractTrim(code), status |-> "draft", author |-> q.by, content |-> q.read]
      <3>1. Writes(k, Append(revisions, row))
          BY <2>5 DEF create, Created
      <3> HIDE DEF row
      <3>2. Append(revisions, row)[i] = revisions[i]
          BY <1>1 DEF RevisionsInv, Ordinals
      <3> QED BY <1>1, <2>4, <3>1, <3>2 DEF Issued
    <2>6. CASE \/ \E text \in Texts : patch(k, text) \/ replaceItems(k, text) \/ replaceMeasurements(k, text)
               \/ submit(k) \/ reject(k)
      <3>1. PICK row : Writes(k, [revisions EXCEPT ![q.rev] = row])
          BY <2>6 DEF patch, replaceItems, replaceMeasurements, Edits, Replaced, submit, Submitted,
                      reject, Rejected
      <3>2. q.rev # i
          BY <2>0, <2>6 DEF patch, replaceItems, replaceMeasurements, Edits, submit, reject
      <3>3. [revisions EXCEPT ![q.rev] = row][i] = revisions[i]
          BY <1>1, <3>2 DEF Ordinals
      <3> QED BY <1>1, <2>4, <3>1, <3>3 DEF Issued
    <2>7. CASE approve(k)
      <3>1. Writes(k, Superseding(k)) /\ q.rev # i
          BY <2>0, <2>7 DEF approve
      <3>2. Superseding(k)[i] = [revisions[i] EXCEPT !.status =
                                    IF i \in q.previous THEN "superseded" ELSE @]
          BY <1>1, <3>1 DEF Superseding, Ordinals
      <3>3. revisions[i] \in RevisionRow
          BY <1>1 DEF RevisionsInv, Ordinals
      <3>4. Superseding(k)[i].content = revisions[i].content
          BY <3>2, <3>3 DEF RevisionRow
      <3>5. Superseding(k)[i].status \in {"current", "superseded"}
          BY <1>1, <3>2, <3>3 DEF RevisionRow, Issued
      <3> QED BY <2>4, <3>1, <3>4, <3>5
    <2>8. CASE RequestFails(k)
      <3>1. /\ NoRevRequest.op = "none" /\ revisions' = revisions
            /\ revRequests' = [revRequests EXCEPT ![k] = NoRevRequest]
          BY <2>8 DEF RequestFails, NoRevRequest
      <3> QED BY <1>1, <3>1, RequestSparesIssued DEF Issued
    <2> QED BY <1>1, <2>1, <2>2, <2>3, <2>5, <2>6, <2>7, <2>8
  <1>2. RevisionsInv /\ [RevisionsNext]_revisionVars =>
            [\A i \in Ordinals : Issued(i) /\ ~UnderWayTo(i)
                => /\ revisions'[i].content = revisions[i].content
                   /\ Issued(i)' /\ ~UnderWayTo(i)']_revisionVars
      BY <1>1 DEF RevisionsNext, Untouched
  <1> QED BY <1>2, RevisionsInvInit, RevisionsInvNext, PTL DEF RevisionsSpec, FrozenOnceIssued

-----------------------------------------------------------------------------
(* The audit chain.                                                        *)

(* Rows numbered up to n.                                                  *)
NumberedTo(f, n) == \A s \in DOMAIN f : s \in Nat /\ s > 0 /\ s <= n

(* A hash names its row and the alteration its content came from, the n-th *)
(* at most.                                                                *)
IsHash(h, n) == h # NoHash /\ h[1] \in Nat /\ h[3] \in Nat /\ h[3] <= n

(* Rows may be altered or gone, but none was ever put in between: every    *)
(* link names a row no earlier than the rows that are before it.           *)
Chained(rows, n) ==
    \A s \in DOMAIN rows :
        /\ DOMAIN rows[s] = {"id", "action", "content", "prevHash", "hash"}
        /\ rows[s].id = s /\ IsHash(rows[s].hash, n) /\ rows[s].hash[1] = s
        /\ rows[s].prevHash # NoHash => IsHash(rows[s].prevHash, n)
        /\ \A a \in DOMAIN rows : a < s => rows[s].prevHash # NoHash /\ rows[s].prevHash[1] >= a

IsFirst(rows, s) == \A a \in DOMAIN rows : ~(a < s)
Precedes(rows, p, s) == p \in DOMAIN rows /\ p < s /\ \A a \in DOMAIN rows : a < s => a <= p

(* Nobody touched them.                                                    *)
Whole(rows) ==
    \A s \in DOMAIN rows :
        /\ digest(rows[s]) = rows[s].hash
        /\ IsFirst(rows, s) => rows[s].prevHash = NoHash
        /\ \A p \in DOMAIN rows : Precedes(rows, p, s) => rows[s].prevHash = rows[p].hash

(* Row s does not pass when the rows after n are read, and h is the hash   *)
(* the verifier carries from row n.                                        *)
FailsAfter(rows, s, n, h) ==
    \/ digest(rows[s]) # rows[s].hash
    \/ \E p \in DOMAIN rows : Precedes(rows, p, s) /\ p > n /\ rows[s].prevHash # rows[p].hash
    \/ (\A a \in DOMAIN rows : a < s => a <= n) /\ rows[s].prevHash # h

(* A witness is ahead of the verifier, and so is a row, the witness at the *)
(* latest, that will not pass.                                             *)
TellsAfter(rows, e, n, h) ==
    /\ e \in DOMAIN rows /\ e > n
    /\ \E t \in DOMAIN rows : t > n /\ t <= e /\ FailsAfter(rows, t, n, h)

Transactions == Writers \cup {Daily}

AuditTypes ==
    /\ sequence \in Nat /\ tampers \in Nat
    /\ NumberedTo(log, sequence)
    /\ DOMAIN trans = Transactions
    /\ \A w \in Transactions : NumberedTo(trans[w], sequence)
    /\ \A w \in Transactions : DOMAIN trans[w] = {} => trans[w] = NoRows

(* The lock: one transaction at a time has rows of its own, and they come  *)
(* after every committed one.                                              *)
LockHolds ==
    \A w \in Transactions :
        /\ DOMAIN trans[w] # {} => chainLock = w
        /\ \A s \in DOMAIN log, t \in DOMAIN trans[w] : s < t

(* Where the verifier stands: at the beginning or at a row it has read.    *)
Standing ==
    /\ walk.after \in Nat
    /\ walk.after = 0 => walk.lastHash = NoHash
    /\ walk.after # 0 => walk.lastHash[1] = walk.after
    /\ walk.after # 0 /\ tampers = 0 => walk.after \in DOMAIN log /\ log[walk.after].hash = walk.lastHash

(* The table, whoever looks at it.                                         *)
ChainInv ==
    /\ AuditTypes
    /\ LockHolds
    /\ \A w \in Transactions : Chained(SeenBy(w), tampers)
    /\ tampers = 0 => \A w \in Transactions : Whole(SeenBy(w))
    /\ \A e \in witnesses : TellsAfter(log, e, 0, NoHash)

(* The verification under way: what told of tampering when it began is     *)
(* still ahead of it.                                                      *)
WalkInv ==
    /\ {"step", "after", "lastHash", "broken"} = DOMAIN walk
    /\ walk.step = "page" => Standing
    /\ walk.step = "page" => \A e \in evidence : TellsAfter(log, e, walk.after, walk.lastHash)
    /\ VerdictIsRight

(* --- Rows. ------------------------------------------------------------- *)

LEMMA ChainedSub ==
    ASSUME NEW n, NEW f, NEW g, Chained(f, n), DOMAIN g \subseteq DOMAIN f, \A s \in DOMAIN g : g[s] = f[s]
    PROVE  Chained(g, n)
  BY DEF Chained

LEMMA ChainedMore ==
    ASSUME NEW n \in Nat, NEW f, Chained(f, n) PROVE Chained(f, n + 1)
  <1>1. ASSUME NEW h, IsHash(h, n) PROVE IsHash(h, n + 1)
      BY <1>1 DEF IsHash
  <1> QED BY <1>1 DEF Chained

(* A row put after the others and linked to the last of them.              *)
LinkedAfter(f, g, n, action) ==
    /\ DOMAIN g = DOMAIN f \cup {n}
    /\ \A s \in DOMAIN f : g[s] = f[s]
    /\ g[n].id = n /\ g[n].action = action /\ g[n].content = 0
    /\ g[n].prevHash = LastHash(f)
    /\ g[n].hash = <<n, action, 0, LastHash(f)>>
    /\ DOMAIN g[n] = {"id", "action", "content", "prevHash", "hash"}

LEMMA MaxOf ==
    ASSUME NEW S, S # {}, NEW n \in Nat, \A s \in S : s \in Nat /\ s <= n
    PROVE  Max(S) \in S /\ \A k \in S : k <= Max(S)
  <1>1. S \in SUBSET Nat /\ \A k \in S : k <= n
      OBVIOUS
  <1>2. PICK m \in S : \A k \in S : k <= m
      BY <1>1, GreatestNat
  <1>3. m \in S /\ \A k \in S : m >= k
      BY <1>1, <1>2
  <1>4. Max(S) \in S /\ \A k \in S : Max(S) >= k
      BY <1>3 DEF Max
  <1> QED BY <1>1, <1>4

(* A hash is never the empty one.                                          *)
LEMMA HashIsSome ==
    ASSUME NEW a, NEW b, NEW c, NEW d, NEW h, h = <<a, b, c, d>> PROVE h # NoHash /\ h[1] = a /\ h[3] = c
  <1>1. Len(h) = 4 /\ h[1] = a /\ h[3] = c
      OBVIOUS
  <1>2. Len(NoHash) = 0
      BY DEF NoHash
  <1> QED BY <1>1, <1>2

(* The last hash is the hash of the last row.                              *)
LEMMA LastHashOf ==
    ASSUME NEW f, NEW n \in Nat, NumberedTo(f, n), DOMAIN f # {}, NEW m, m = Max(DOMAIN f)
    PROVE  /\ m \in DOMAIN f /\ m \in Nat /\ m > 0 /\ m <= n /\ \A k \in DOMAIN f : k \in Nat /\ k <= m
           /\ LastHash(f) = f[m].hash
  <1>1. m \in DOMAIN f /\ \A k \in DOMAIN f : k <= m
      BY MaxOf DEF NumberedTo
  <1>2. LastHash(f) = f[m].hash
      BY DEF LastHash
  <1> QED BY <1>1, <1>2 DEF NumberedTo

(* A row linked to the last of them keeps the chain.                       *)
LEMMA ChainedLinked ==
    ASSUME NEW f, NEW n \in Nat, NumberedTo(f, n), NEW k \in Nat, Chained(f, k), NEW g, NEW action,
           LinkedAfter(f, g, n + 1, action)
    PROVE  Chained(g, k) /\ (Whole(f) => Whole(g))
  <1> DEFINE t == n + 1
             m == Max(DOMAIN f)
             link == LastHash(f)
  <1>1. /\ t \in Nat /\ DOMAIN g = DOMAIN f \cup {t} /\ \A s \in DOMAIN f : g[s] = f[s] /\ s \in Nat /\ s < t
        /\ g[t].id = t /\ g[t].prevHash = link /\ g[t].content = 0 /\ g[t].hash = <<t, action, 0, link>>
        /\ DOMAIN g[t] = {"id", "action", "content", "prevHash", "hash"} /\ g[t].action = action
    <2>1. t \in Nat /\ \A s \in DOMAIN f : s \in Nat /\ s < t
        BY DEF NumberedTo
    <2>2. LinkedAfter(f, g, t, action)
        OBVIOUS
    <2> HIDE DEF t
    <2> QED BY <2>1, <2>2 DEF LinkedAfter
  <1>2. ASSUME DOMAIN f # {}
        PROVE  /\ m \in DOMAIN f /\ m \in Nat /\ \A a \in DOMAIN f : a <= m
               /\ link = f[m].hash /\ IsHash(link, k) /\ link[1] = m
    <2>1. m \in DOMAIN f /\ m \in Nat /\ link = f[m].hash /\ \A a \in DOMAIN f : a <= m
        BY <1>2, LastHashOf
    <2> QED BY <2>1 DEF Chained
  <1>3. DOMAIN f = {} => link = NoHash
      BY DEF LastHash
  <1> HIDE DEF m, link, t
  <1>4. g[t].hash # NoHash /\ g[t].hash[1] = t /\ g[t].hash[3] = 0
      BY <1>1, HashIsSome
  <1>5. IsHash(g[t].hash, k)
      BY <1>1, <1>4 DEF IsHash
  <1>6. Chained(g, k)
    <2>1. /\ g[t].prevHash # NoHash => IsHash(g[t].prevHash, k)
          /\ \A a \in DOMAIN g : a < t => g[t].prevHash # NoHash /\ g[t].prevHash[1] >= a
      <3>1. CASE DOMAIN f = {}
          BY <1>1, <1>3, <3>1
      <3>2. CASE DOMAIN f # {}
          BY <1>1, <1>2, <3>2 DEF IsHash
      <3> QED BY <3>1, <3>2
    <2>2. ASSUME NEW s \in DOMAIN f, NEW a \in DOMAIN g, a < s PROVE a \in DOMAIN f
        BY <1>1, <2>2
    <2> QED BY <1>1, <1>4, <1>5, <2>1, <2>2 DEF Chained
  <1>7. ASSUME Whole(f) PROVE Whole(g)
    <2>1. digest(g[t]) = g[t].hash
        BY <1>1 DEF digest
    <2>2. IsFirst(g, t) => g[t].prevHash = NoHash
        BY <1>1, <1>3 DEF IsFirst
    <2>3. ASSUME NEW p \in DOMAIN g, Precedes(g, p, t) PROVE g[t].prevHash = g[p].hash
      <3>1. p \in DOMAIN f
          BY <1>1, <2>3 DEF Precedes
      <3>2. m \in DOMAIN f /\ m \in Nat /\ p <= m /\ m < t /\ m \in DOMAIN g /\ link = f[m].hash
          BY <1>1, <1>2, <3>1
      <3>3. m <= p
          BY <2>3, <3>2 DEF Precedes
      <3>4. p = m
          BY <1>1, <3>1, <3>2, <3>3
      <3> QED BY <1>1, <3>2, <3>4
    <2>4. ASSUME NEW s \in DOMAIN f
          PROVE  /\ digest(g[s]) = g[s].hash
                 /\ IsFirst(g, s) => g[s].prevHash = NoHash
                 /\ \A p \in DOMAIN g : Precedes(g, p, s) => g[s].prevHash = g[p].hash
      <3>1. g[s] = f[s] /\ digest(f[s]) = f[s].hash
          BY <1>1, <1>7 DEF Whole
      <3>2. IsFirst(g, s) => IsFirst(f, s)
          BY <1>1 DEF IsFirst
      <3>3. ASSUME NEW p \in DOMAIN g, Precedes(g, p, s) PROVE p \in DOMAIN f /\ Precedes(f, p, s) /\ g[p] = f[p]
        <4>1. p # t
            BY <1>1, <3>3 DEF Precedes
        <4> QED BY <1>1, <3>3, <4>1 DEF Precedes
      <3> QED BY <1>7, <3>1, <3>2, <3>3 DEF Whole
    <2> QED BY <1>1, <2>1, <2>2, <2>3, <2>4 DEF Whole
  <1> QED BY <1>6, <1>7

(* --- What tampering leaves. -------------------------------------------- *)

LEMMA TellsOutlivesCommit ==
    ASSUME NEW f, NEW g, NEW n, NEW h, NEW e, TellsAfter(f, e, n, h), DOMAIN f \subseteq DOMAIN g,
           \A s \in DOMAIN f : g[s] = f[s] /\ s \in Nat,
           \A s \in DOMAIN f, t \in DOMAIN g : t \notin DOMAIN f => t \in Nat /\ s < t
    PROVE  TellsAfter(g, e, n, h)
  <1>1. PICK t \in DOMAIN f : t > n /\ t <= e /\ FailsAfter(f, t, n, h)
      BY DEF TellsAfter
  <1>2. g[t] = f[t] /\ \A a \in DOMAIN g : a < t => a \in DOMAIN f
      BY <1>1
  <1>3. \A p \in DOMAIN f : g[p] = f[p] /\ (Precedes(f, p, t) => Precedes(g, p, t))
      BY <1>2 DEF Precedes
  <1>4. FailsAfter(g, t, n, h)
      BY <1>1, <1>2, <1>3 DEF FailsAfter
  <1> QED BY <1>1, <1>4 DEF TellsAfter

(* What is done to row s alone: it is removed, or it fails by itself, or   *)
(* its hash is one that no other row is linked to.                         *)
TamperedWith(f, g, s) ==
    /\ DOMAIN g \subseteq DOMAIN f /\ \A t \in DOMAIN f : t # s => t \in DOMAIN g /\ g[t] = f[t]
    /\ s \in DOMAIN g => \/ digest(g[s]) # g[s].hash
                         \/ \A t \in DOMAIN f : t # s => f[t].prevHash # g[s].hash

(* The row after it, at the latest, tells of it.                           *)
LEMMA LaterRowTells ==
    ASSUME NEW f, NEW last \in Nat, NumberedTo(f, last), NEW k, Chained(f, k), NEW g, NEW s \in DOMAIN f,
           TamperedWith(f, g, s), NEW n \in Nat, NEW h, h = NoHash \/ h[1] = n,
           NEW e \in DOMAIN f, e > s, s > n
    PROVE  TellsAfter(g, e, n, h)
  <1> DEFINE After == {t \in DOMAIN f : t > s}
  <1>1. \A t \in DOMAIN f : t \in Nat /\ t <= last
      BY DEF NumberedTo
  <1>2. After \in SUBSET Nat /\ After # {}
      BY <1>1
  <1>3. PICK t \in After : \A j \in After : t <= j
      BY <1>2, LeastNat
  <1>4. t \in DOMAIN f /\ t > s /\ t \in Nat /\ s \in Nat /\ e \in Nat /\ t <= e
      BY <1>1, <1>3
  <1>5. \A a \in DOMAIN f : a < t => a <= s
      BY <1>1, <1>3, <1>4
  <1> HIDE DEF After
  <1>6. /\ t \in DOMAIN g /\ g[t] = f[t] /\ e \in DOMAIN g /\ DOMAIN g \subseteq DOMAIN f
        /\ \A a \in DOMAIN f : a # s => a \in DOMAIN g /\ g[a] = f[a]
      BY <1>4 DEF TamperedWith
  <1>7. t > n /\ e > n /\ s <= e
      BY <1>4
  <1>8. CASE s \in DOMAIN g /\ digest(g[s]) # g[s].hash
      BY <1>6, <1>7, <1>8 DEF TellsAfter, FailsAfter
  <1>9. CASE s \in DOMAIN g /\ digest(g[s]) = g[s].hash
    <2>1. f[t].prevHash # g[s].hash
        BY <1>4, <1>9 DEF TamperedWith
    <2>2. Precedes(g, s, t)
        BY <1>4, <1>5, <1>6, <1>9 DEF Precedes
    <2> QED BY <1>4, <1>6, <1>7, <1>9, <2>1, <2>2 DEF TellsAfter, FailsAfter
  <1>10. CASE s \notin DOMAIN g
    <2> DEFINE Before_ == {a \in DOMAIN g : a < t /\ a > n}
               link == f[t].prevHash
    <2>1. link # NoHash /\ link[1] >= s /\ link[1] \in Nat
        BY <1>4 DEF Chained, IsHash
    <2> HIDE DEF link
    <2>2. CASE Before_ = {}
      <3>1. \A a \in DOMAIN g : a < t => a <= n
          BY <1>1, <1>6, <2>2
      <3>2. link # h
          BY <1>4, <2>1
      <3> QED BY <1>4, <1>6, <1>7, <3>1, <3>2 DEF TellsAfter, FailsAfter, link
    <2>3. CASE Before_ # {}
      <3>1. Before_ \in SUBSET Nat /\ \A a \in Before_ : a <= last
          BY <1>1, <1>6
      <3>2. PICK p \in Before_ : \A a \in Before_ : a <= p
          BY <2>3, <3>1, GreatestNat
      <3>3. p \in DOMAIN g /\ p < t /\ p > n /\ p \in DOMAIN f /\ p \in Nat
          BY <1>1, <1>6, <3>2
      <3>4. Precedes(g, p, t)
        <4>1. ASSUME NEW a \in DOMAIN g, a < t PROVE a <= p
          <5>1. a \in Nat
              BY <1>1, <1>6
          <5>2. CASE a > n
              BY <3>2, <4>1, <5>2
          <5>3. CASE ~(a > n)
              BY <3>3, <5>1, <5>3
          <5> QED BY <5>2, <5>3
        <4> QED BY <3>3, <4>1 DEF Precedes
      <3>5. p < s
          BY <1>4, <1>5, <1>10, <3>3
      <3>6. g[p] = f[p] /\ f[p].hash[1] = p
          BY <1>6, <3>3, <3>5, <1>10 DEF Chained
      <3>7. link # g[p].hash
          BY <1>4, <2>1, <3>3, <3>5, <3>6
      <3> QED BY <1>4, <1>6, <1>7, <3>3, <3>4, <3>7 DEF TellsAfter, FailsAfter, link
    <2> QED BY <2>2, <2>3
  <1> QED BY <1>8, <1>9, <1>10

(* A row that told before still tells, unless it is the one touched.       *)
LEMMA TamperTells ==
    ASSUME NEW f, NEW last \in Nat, NumberedTo(f, last), NEW k, Chained(f, k), NEW g, NEW s \in DOMAIN f,
           TamperedWith(f, g, s), NEW n \in Nat, NEW h, h = NoHash \/ h[1] = n,
           NEW e, e # s, TellsAfter(f, e, n, h)
    PROVE  TellsAfter(g, e, n, h)
  <1>1. \A a \in DOMAIN f : a \in Nat
      BY DEF NumberedTo
  <1>2. PICK t \in DOMAIN f : t > n /\ t <= e /\ FailsAfter(f, t, n, h)
      BY DEF TellsAfter
  <1>3. /\ e \in DOMAIN f /\ e > n /\ e \in DOMAIN g /\ DOMAIN g \subseteq DOMAIN f
        /\ \A a \in DOMAIN f : a # s => a \in DOMAIN g /\ g[a] = f[a]
      BY DEF TellsAfter, TamperedWith
  <1>4. CASE e > s /\ s > n
      BY <1>3, <1>4, LaterRowTells
  <1>5. CASE ~(e > s /\ s > n)
    <2>1. t # s /\ (t < s \/ s <= n)
        BY <1>1, <1>2, <1>3, <1>5
    <2>2. t \in DOMAIN g /\ g[t] = f[t]
        BY <1>3, <2>1
    <2>3. ASSUME NEW p \in DOMAIN f, Precedes(f, p, t), p > n PROVE p \in DOMAIN g /\ g[p] = f[p] /\ Precedes(g, p, t)
      <3>1. p # s
          BY <1>1, <2>1, <2>3 DEF Precedes
      <3> QED BY <1>3, <2>3, <3>1 DEF Precedes
    <2>4. FailsAfter(g, t, n, h)
        BY <1>2, <1>3, <2>2, <2>3 DEF FailsAfter
    <2> QED BY <1>2, <1>3, <2>2, <2>4 DEF TellsAfter
  <1> QED BY <1>4, <1>5

(* --- The table. -------------------------------------------------------- *)

LEMMA WholeSub ==
    ASSUME NEW f, NEW g, Whole(f), DOMAIN g \subseteq DOMAIN f, \A s \in DOMAIN g : g[s] = f[s],
           \A s \in DOMAIN g : s \in Nat,
           \A s \in DOMAIN g, t \in DOMAIN f : t \notin DOMAIN g => t \in Nat /\ s < t
    PROVE  Whole(g)
  <1> SUFFICES ASSUME NEW s \in DOMAIN g
               PROVE  /\ digest(g[s]) = g[s].hash
                      /\ IsFirst(g, s) => g[s].prevHash = NoHash
                      /\ \A p \in DOMAIN g : Precedes(g, p, s) => g[s].prevHash = g[p].hash
      BY DEF Whole
  <1>1. g[s] = f[s] /\ s \in DOMAIN f /\ \A a \in DOMAIN f : a < s => a \in DOMAIN g
      OBVIOUS
  <1>2. IsFirst(g, s) => IsFirst(f, s)
      BY <1>1 DEF IsFirst
  <1>3. \A p \in DOMAIN g : g[p] = f[p] /\ p \in DOMAIN f /\ (Precedes(g, p, s) => Precedes(f, p, s))
      BY <1>1 DEF Precedes
  <1> QED BY <1>1, <1>2, <1>3 DEF Whole

LEMMA CommittedRows ==
    ASSUME ChainInv
    PROVE  /\ sequence \in Nat /\ NumberedTo(log, sequence) /\ Chained(log, tampers) /\ (tampers = 0 => Whole(log))
           /\ \A w \in Transactions :
                /\ NumberedTo(SeenBy(w), sequence)
                /\ DOMAIN SeenBy(w) = DOMAIN log \cup DOMAIN trans[w]
                /\ \A s \in DOMAIN log : SeenBy(w)[s] = log[s] /\ s \notin DOMAIN trans[w]
                /\ \A s \in DOMAIN trans[w] : SeenBy(w)[s] = trans[w][s]
                /\ \A s \in DOMAIN log, t \in DOMAIN trans[w] : s \in Nat /\ t \in Nat /\ s < t
  <1>1. sequence \in Nat /\ NumberedTo(log, sequence)
      BY DEF ChainInv, AuditTypes
  <1>2. ASSUME NEW w \in Transactions
        PROVE  /\ NumberedTo(SeenBy(w), sequence)
               /\ DOMAIN SeenBy(w) = DOMAIN log \cup DOMAIN trans[w]
               /\ \A s \in DOMAIN log : SeenBy(w)[s] = log[s] /\ s \notin DOMAIN trans[w]
               /\ \A s \in DOMAIN trans[w] : SeenBy(w)[s] = trans[w][s]
               /\ \A s \in DOMAIN log, t \in DOMAIN trans[w] : s \in Nat /\ t \in Nat /\ s < t
    <2>1. \A t \in DOMAIN trans[w] : t \in Nat /\ t > 0 /\ t <= sequence
        BY DEF ChainInv, AuditTypes, NumberedTo
    <2>2. \A s \in DOMAIN log, t \in DOMAIN trans[w] : s \in Nat /\ s < t
        BY <1>1 DEF ChainInv, LockHolds, NumberedTo
    <2>3. \A s \in DOMAIN log : s \notin DOMAIN trans[w]
        BY <2>2
    <2>4. DOMAIN SeenBy(w) = DOMAIN log \cup DOMAIN trans[w]
        BY DEF SeenBy, WithRows
    <2>5. /\ \A s \in DOMAIN log : SeenBy(w)[s] = log[s]
          /\ \A s \in DOMAIN trans[w] : SeenBy(w)[s] = trans[w][s]
        BY <2>3 DEF SeenBy, WithRows
    <2>6. NumberedTo(SeenBy(w), sequence)
        BY <1>1, <2>1, <2>4 DEF NumberedTo
    <2> QED BY <2>1, <2>2, <2>3, <2>4, <2>5, <2>6
  <1>3. Daily \in Transactions
      BY DEF Transactions
  <1> DEFINE f == SeenBy(Daily)
  <1>4. /\ Chained(f, tampers) /\ (tampers = 0 => Whole(f)) /\ DOMAIN log \subseteq DOMAIN f
        /\ \A s \in DOMAIN log : log[s] = f[s] /\ s \in Nat
        /\ \A s \in DOMAIN log, t \in DOMAIN f : t \notin DOMAIN log => t \in Nat /\ s < t
      BY <1>1, <1>2, <1>3 DEF ChainInv, NumberedTo
  <1> HIDE DEF f
  <1>5. Chained(log, tampers)
      BY <1>4, ChainedSub
  <1>6. tampers = 0 => Whole(log)
      BY <1>4, WholeSub
  <1> QED BY <1>1, <1>2, <1>5, <1>6

(* A row is linked under the lock.                                         *)
LEMMA RecordLinks ==
    ASSUME ChainInv, NEW w \in Transactions, NEW action, recordEvent(w, action), log' = log
    PROVE  /\ LinkedAfter(SeenBy(w), SeenBy(w)', sequence + 1, action)
           /\ DOMAIN trans'[w] = DOMAIN trans[w] \cup {sequence + 1}
           /\ \A v \in Transactions : v # w => trans'[v] = trans[v] /\ trans[v] = NoRows /\ SeenBy(v)' = SeenBy(v)
           /\ DOMAIN trans' = Transactions /\ chainLock' = w /\ sequence' = sequence + 1
  <1> DEFINE n == sequence + 1
             row == Linked(w, action)
             new == [s \in {n} |-> row]
             f == SeenBy(w)
             g == SeenBy(w)'
  <1>1. /\ trans' = [trans EXCEPT ![w] = WithRows(trans[w], new)] /\ DOMAIN trans = Transactions
        /\ chainLock' = w /\ sequence' = n
      BY DEF recordEvent, ChainInv, AuditTypes
  <1>2. trans'[w] = WithRows(trans[w], new) /\ \A v \in Transactions : v # w => trans'[v] = trans[v]
      BY <1>1
  <1>3. /\ row.id = n /\ row.action = action /\ row.content = 0
        /\ row.prevHash = LastHash(f) /\ row.hash = <<n, action, 0, LastHash(f)>>
        /\ DOMAIN row = {"id", "action", "content", "prevHash", "hash"}
      BY DEF Linked, digest
  <1> HIDE DEF row
  <1>4. /\ DOMAIN trans'[w] = DOMAIN trans[w] \cup {n} /\ trans'[w][n] = row
        /\ \A s \in DOMAIN trans[w] : s # n => trans'[w][s] = trans[w][s]
      BY <1>2 DEF WithRows
  <1>5. g = WithRows(log, trans'[w])
      BY DEF SeenBy
  <1>6. /\ DOMAIN f = DOMAIN log \cup DOMAIN trans[w] /\ n \notin DOMAIN f
        /\ \A s \in DOMAIN log : f[s] = log[s] /\ s \notin DOMAIN trans[w]
        /\ \A s \in DOMAIN trans[w] : f[s] = trans[w][s]
    <2>1. /\ DOMAIN f = DOMAIN log \cup DOMAIN trans[w]
          /\ \A s \in DOMAIN log : f[s] = log[s] /\ s \notin DOMAIN trans[w]
          /\ \A s \in DOMAIN trans[w] : f[s] = trans[w][s]
          /\ NumberedTo(f, sequence) /\ sequence \in Nat
        BY CommittedRows
    <2> HIDE DEF f
    <2>2. n \notin DOMAIN f
        BY <2>1 DEF NumberedTo
    <2> QED BY <2>1, <2>2
  <1>7. DOMAIN g = DOMAIN f \cup {n} /\ g[n] = row /\ \A s \in DOMAIN f : g[s] = f[s]
      BY <1>4, <1>5, <1>6 DEF WithRows
  <1>8. LinkedAfter(f, g, n, action)
    <2> HIDE DEF f, g, n
    <2> QED BY <1>3, <1>7 DEF LinkedAfter
  <1>9. ASSUME NEW v \in Transactions, v # w PROVE trans[v] = NoRows /\ SeenBy(v)' = SeenBy(v)
    <2>1. chainLock \in {NobodyWrites, w}
        BY DEF recordEvent, LockFree
    <2>2. v # NobodyWrites
        BY AuditChainAssumption DEF Transactions, NobodyWrites, Daily
    <2>3. DOMAIN trans[v] = {}
        BY <1>9, <2>1, <2>2 DEF ChainInv, LockHolds
    <2>4. trans[v] = NoRows
        BY <2>3 DEF ChainInv, AuditTypes
    <2>5. SeenBy(v)' = SeenBy(v)
        BY <1>2, <1>9 DEF SeenBy
    <2> QED BY <2>4, <2>5
  <1> QED BY <1>1, <1>2, <1>4, <1>8, <1>9

LEMMA RecordKeepsChain ==
    ASSUME ChainInv, NEW w \in Transactions, NEW action, recordEvent(w, action),
           log' = log, tampers' = tampers, witnesses' = witnesses
    PROVE  ChainInv'
  <1>1. /\ LinkedAfter(SeenBy(w), SeenBy(w)', sequence + 1, action)
        /\ DOMAIN trans'[w] = DOMAIN trans[w] \cup {sequence + 1}
        /\ \A v \in Transactions : v # w => trans'[v] = trans[v] /\ trans[v] = NoRows /\ SeenBy(v)' = SeenBy(v)
        /\ DOMAIN trans' = Transactions /\ chainLock' = w /\ sequence' = sequence + 1
      BY RecordLinks
  <1>2. /\ sequence \in Nat /\ tampers \in Nat /\ NumberedTo(log, sequence) /\ NumberedTo(SeenBy(w), sequence)
        /\ Chained(SeenBy(w), tampers) /\ (tampers = 0 => Whole(SeenBy(w)))
      BY CommittedRows DEF ChainInv, AuditTypes
  <1>3. Chained(SeenBy(w)', tampers) /\ (tampers = 0 => Whole(SeenBy(w)'))
    <2>1. \A g : LinkedAfter(SeenBy(w), g, sequence + 1, action) => Chained(g, tampers) /\ (tampers = 0 => Whole(g))
        BY <1>2, ChainedLinked
    <2> QED BY <1>1, <2>1
  <1>4. ASSUME NEW v \in Transactions, v # w
        PROVE  /\ DOMAIN trans'[v] = {} /\ trans'[v] = NoRows
               /\ Chained(SeenBy(v)', tampers) /\ (tampers = 0 => Whole(SeenBy(v)'))
    <2>1. DOMAIN NoRows = {}
        BY DEF NoRows
    <2>2. Chained(SeenBy(v), tampers) /\ (tampers = 0 => Whole(SeenBy(v)))
        BY DEF ChainInv
    <2> QED BY <1>1, <1>4, <2>1, <2>2
  <1>5. AuditTypes'
    <2>1. sequence' \in Nat /\ tampers' \in Nat
        BY <1>1, <1>2 DEF ChainInv, AuditTypes
    <2>2. NumberedTo(log, sequence)'
        BY <1>1, <1>2 DEF NumberedTo
    <2>3. ASSUME NEW v \in Transactions PROVE NumberedTo(trans[v], sequence)' /\ (DOMAIN trans'[v] = {} => trans'[v] = NoRows)
      <3>1. CASE v = w
        <4>1. NumberedTo(trans[w], sequence)
            BY DEF ChainInv, AuditTypes
        <4>2. NumberedTo(trans'[w], sequence + 1)
            BY <1>1, <1>2, <4>1 DEF NumberedTo
        <4> QED BY <1>1, <3>1, <4>2
      <3>2. CASE v # w
          BY <1>4, <3>2 DEF NumberedTo
      <3> QED BY <3>1, <3>2
    <2> QED BY <1>1, <2>1, <2>2, <2>3 DEF AuditTypes
  <1>6. LockHolds'
    <2>1. ASSUME NEW s \in DOMAIN log, NEW t \in DOMAIN trans'[w] PROVE s < t
      <3>1. CASE t \in DOMAIN trans[w]
          BY <3>1 DEF ChainInv, LockHolds
      <3>2. CASE t = sequence + 1
          BY <1>2, <3>2 DEF NumberedTo
      <3> QED BY <1>1, <2>1, <3>1, <3>2
    <2> QED BY <1>1, <1>4, <2>1 DEF LockHolds
  <1> QED BY <1>3, <1>4, <1>5, <1>6 DEF ChainInv

(* The holder of the lock commits or rolls back.                           *)
LEMMA EndKeepsChain ==
    ASSUME ChainInv, NEW w \in Transactions, TransactionEnds(w), log' = log \/ log' = SeenBy(w),
           witnesses' = witnesses
    PROVE  /\ ChainInv'
           /\ \A n, h, e : TellsAfter(log, e, n, h) => TellsAfter(log', e, n, h)
           /\ \A v \in Transactions : DOMAIN SeenBy(v)' = DOMAIN log' /\ \A s \in DOMAIN log' : SeenBy(v)'[s] = log'[s]
  <1>1. /\ trans' = [trans EXCEPT ![w] = NoRows] /\ DOMAIN trans = Transactions
        /\ sequence' = sequence /\ tampers' = tampers /\ trans[w] # NoRows
      BY DEF TransactionEnds, ChainInv, AuditTypes
  <1>2. DOMAIN trans[w] # {}
      BY <1>1 DEF ChainInv, AuditTypes
  <1>3. ASSUME NEW v \in Transactions PROVE trans'[v] = NoRows
    <2>1. CASE v = w
        BY <1>1, <2>1
    <2>2. CASE v # w
      <3>1. DOMAIN trans[v] = {}
          BY <1>2, <2>2 DEF ChainInv, LockHolds
      <3>2. trans[v] = NoRows
          BY <3>1 DEF ChainInv, AuditTypes
      <3> QED BY <1>1, <2>2, <3>2
    <2> QED BY <2>1, <2>2
  <1>4. DOMAIN NoRows = {}
      BY DEF NoRows
  <1> DEFINE f == SeenBy(w)
  <1>5. /\ sequence \in Nat /\ NumberedTo(f, sequence) /\ NumberedTo(log, sequence) /\ Chained(log, tampers)
        /\ (tampers = 0 => Whole(log)) /\ Chained(f, tampers) /\ (tampers = 0 => Whole(f))
        /\ DOMAIN log \subseteq DOMAIN f /\ \A s \in DOMAIN log : f[s] = log[s] /\ s \in Nat
        /\ \A s \in DOMAIN log, t \in DOMAIN f \ DOMAIN log : t \in Nat /\ s < t
      BY CommittedRows DEF ChainInv, NumberedTo
  <1> HIDE DEF f
  <1>6. NumberedTo(log', sequence) /\ Chained(log', tampers) /\ (tampers = 0 => Whole(log'))
      BY <1>5 DEF f
  <1>7. ASSUME NEW v \in Transactions
        PROVE  /\ DOMAIN SeenBy(v)' = DOMAIN log' /\ \A s \in DOMAIN log' : SeenBy(v)'[s] = log'[s]
    <2>1. SeenBy(v)' = WithRows(log', NoRows)
        BY <1>3 DEF SeenBy
    <2> QED BY <1>4, <2>1 DEF WithRows
  <1>8. ASSUME NEW v \in Transactions PROVE Chained(SeenBy(v)', tampers) /\ (tampers = 0 => Whole(SeenBy(v)'))
    <2> DEFINE g == SeenBy(v)'
               h == log'
    <2>1. DOMAIN g = DOMAIN h /\ \A s \in DOMAIN h : g[s] = h[s]
        BY <1>7
    <2>2. \A s \in DOMAIN h : s \in Nat
        BY <1>6 DEF NumberedTo
    <2>3. Chained(h, tampers) /\ (tampers = 0 => Whole(h))
        BY <1>6
    <2> HIDE DEF g, h
    <2>4. Chained(g, tampers)
        BY <2>1, <2>3, ChainedSub
    <2>5. tampers = 0 => Whole(g)
        BY <2>1, <2>2, <2>3, WholeSub
    <2> QED BY <2>4, <2>5 DEF g
  <1>9. ASSUME NEW n, NEW h, NEW e, TellsAfter(log, e, n, h) PROVE TellsAfter(log', e, n, h)
    <2>1. TellsAfter(f, e, n, h)
        BY <1>5, <1>9, TellsOutlivesCommit
    <2> QED BY <1>9, <2>1 DEF f
  <1>10. AuditTypes'
    <2>1. ASSUME NEW v \in Transactions PROVE NumberedTo(trans[v], sequence)'
        BY <1>3, <1>4 DEF NumberedTo
    <2>2. NumberedTo(log, sequence)' /\ DOMAIN trans' = Transactions
        BY <1>1, <1>6
    <2> QED BY <1>1, <1>3, <2>1, <2>2 DEF AuditTypes, ChainInv
  <1>11. LockHolds'
      BY <1>3, <1>4 DEF LockHolds
  <1>12. \A e \in witnesses' : TellsAfter(log', e, 0, NoHash)
      BY <1>9 DEF ChainInv
  <1> QED BY <1>1, <1>7, <1>8, <1>9, <1>10, <1>11, <1>12 DEF ChainInv

(* Row s is altered, re-hashed, linked again or removed.                   *)
LEMMA TamperKeepsChain ==
    ASSUME ChainInv, NEW s \in DOMAIN log, TamperedWith(log, log', s), TellsOf(s),
           tampers' = tampers + 1, UNCHANGED <<sequence, chainLock, trans>>,
           s \in DOMAIN log' =>
              /\ DOMAIN log'[s] = {"id", "action", "content", "prevHash", "hash"}
              /\ log'[s].id = s /\ IsHash(log'[s].hash, tampers + 1) /\ log'[s].hash[1] = s
              /\ log'[s].prevHash = log[s].prevHash \/ log'[s].prevHash = HashBefore(s)
    PROVE  /\ ChainInv'
           /\ \A n \in Nat : \A h, e : e # s /\ (h = NoHash \/ h[1] = n) /\ TellsAfter(log, e, n, h)
                                     => TellsAfter(log', e, n, h)
  <1>1. /\ sequence \in Nat /\ NumberedTo(log, sequence) /\ Chained(log, tampers) /\ tampers \in Nat
        /\ \A t \in DOMAIN log : t \in Nat /\ t > 0 /\ t <= sequence
      BY CommittedRows DEF ChainInv, AuditTypes, NumberedTo
  <1>2. DOMAIN log' \subseteq DOMAIN log /\ \A t \in DOMAIN log : t # s => t \in DOMAIN log' /\ log'[t] = log[t]
      BY DEF TamperedWith
  <1>3. ASSUME NEW n \in Nat, NEW h, NEW e, e # s, h = NoHash \/ h[1] = n, TellsAfter(log, e, n, h)
        PROVE  TellsAfter(log', e, n, h)
    <2>1. \A g : TamperedWith(log, g, s) => TellsAfter(g, e, n, h)
        BY <1>1, <1>3, TamperTells
    <2> QED BY <2>1
  <1>4. ASSUME NEW e \in DOMAIN log, e > s PROVE TellsAfter(log', e, 0, NoHash)
    <2>1. \A g : TamperedWith(log, g, s) => TellsAfter(g, e, 0, NoHash)
        BY <1>1, <1>4, LaterRowTells
    <2> QED BY <2>1
  <1>5. ASSUME s \in DOMAIN log', digest(log'[s]) # log'[s].hash PROVE TellsAfter(log', s, 0, NoHash)
      BY <1>1, <1>5 DEF TellsAfter, FailsAfter
  <1>6. ASSUME NEW e \in witnesses' PROVE TellsAfter(log', e, 0, NoHash)
    <2>1. \/ e \in witnesses /\ e # s
          \/ e \in DOMAIN log' /\ e > s
          \/ e \in DOMAIN log' /\ e = s /\ digest(log'[s]) # log'[s].hash
        BY <1>6 DEF TellsOf
    <2>2. CASE e \in witnesses /\ e # s
        BY <1>3, <2>2 DEF ChainInv
    <2> QED BY <1>2, <1>4, <1>5, <2>1, <2>2
  <1>7. /\ HashBefore(s) # NoHash => IsHash(HashBefore(s), tampers)
        /\ \A a \in DOMAIN log : a < s => HashBefore(s) # NoHash /\ HashBefore(s)[1] >= a
    <2> DEFINE E == EarlierIn(DOMAIN log, s)
               f == [t \in E |-> log[t]]
    <2>1. HashBefore(s) = LastHash(f) /\ DOMAIN f = E /\ E = {t \in DOMAIN log : t < s}
        BY DEF HashBefore, EarlierIn
    <2>2. CASE E = {}
        BY <2>1, <2>2 DEF LastHash
    <2>3. CASE E # {}
      <3>1. Max(E) \in E /\ \A a \in E : a <= Max(E)
          BY <1>1, <2>1, <2>3, MaxOf
      <3>2. HashBefore(s) = log[Max(E)].hash /\ Max(E) \in DOMAIN log
          BY <2>1, <2>3, <3>1 DEF LastHash
      <3>3. IsHash(HashBefore(s), tampers) /\ HashBefore(s)[1] = Max(E)
          BY <1>1, <3>2 DEF Chained
      <3> HIDE DEF E
      <3> QED BY <1>1, <2>1, <3>1, <3>2, <3>3 DEF IsHash
    <2> QED BY <2>2, <2>3
  <1>8. ASSUME NEW v \in Transactions PROVE Chained(SeenBy(v)', tampers + 1)
    <2> DEFINE f == SeenBy(v)
               g == SeenBy(v)'
    <2>1. /\ DOMAIN f = DOMAIN log \cup DOMAIN trans[v] /\ Chained(f, tampers)
          /\ \A t \in DOMAIN log : f[t] = log[t] /\ t \notin DOMAIN trans[v]
          /\ \A t \in DOMAIN trans[v] : f[t] = trans[v][t]
          /\ \A a \in DOMAIN log, t \in DOMAIN trans[v] : t \in Nat /\ a < t
        BY CommittedRows DEF ChainInv
    <2>2. /\ DOMAIN g = DOMAIN log' \cup DOMAIN trans[v]
          /\ \A t \in DOMAIN log' : t \notin DOMAIN trans[v] => g[t] = log'[t]
          /\ \A t \in DOMAIN trans[v] : g[t] = trans[v][t]
        BY DEF SeenBy, WithRows
    <2> HIDE DEF f, g
    <2>3. DOMAIN g \subseteq DOMAIN f /\ \A t \in DOMAIN g : t # s => g[t] = f[t]
        BY <1>2, <2>1, <2>2
    <2>4. Chained(f, tampers + 1)
        BY <1>1, <2>1, ChainedMore
    <2>5. s \in DOMAIN g => s \in DOMAIN log' /\ g[s] = log'[s]
        BY <2>1, <2>2
    <2>6. ASSUME s \in DOMAIN g
          PROVE  /\ DOMAIN g[s] = {"id", "action", "content", "prevHash", "hash"}
                 /\ g[s].id = s /\ IsHash(g[s].hash, tampers + 1) /\ g[s].hash[1] = s
                 /\ g[s].prevHash # NoHash => IsHash(g[s].prevHash, tampers + 1)
                 /\ \A a \in DOMAIN g : a < s => g[s].prevHash # NoHash /\ g[s].prevHash[1] >= a
      <3>1. /\ DOMAIN g[s] = {"id", "action", "content", "prevHash", "hash"}
            /\ g[s].id = s /\ IsHash(g[s].hash, tampers + 1) /\ g[s].hash[1] = s
            /\ g[s].prevHash = log[s].prevHash \/ g[s].prevHash = HashBefore(s)
          BY <2>5, <2>6
      <3>2. \A a \in DOMAIN g : a < s => a \in DOMAIN log
        <4>1. \A t \in DOMAIN trans[v] : t \in Nat /\ s < t
            BY <2>1
        <4>2. \A a \in DOMAIN trans[v] : ~(a < s)
            BY <1>1, <4>1
        <4> QED BY <2>1, <2>3, <4>2
      <3>3. IsHash(HashBefore(s), tampers) => IsHash(HashBefore(s), tampers + 1)
        <4> DEFINE x == HashBefore(s)
        <4> HIDE DEF x
        <4>1. IsHash(x, tampers) => IsHash(x, tampers + 1)
            BY <1>1 DEF IsHash
        <4> QED BY <4>1 DEF x
      <3>4. CASE g[s].prevHash = HashBefore(s)
          BY <1>7, <3>1, <3>2, <3>3, <3>4
      <3>5. CASE g[s].prevHash = log[s].prevHash
        <4>1. g[s].prevHash = f[s].prevHash /\ s \in DOMAIN f
            BY <2>1, <3>5
        <4> QED BY <2>3, <2>4, <3>1, <4>1 DEF Chained
      <3> QED BY <3>1, <3>4, <3>5
    <2>7. ASSUME NEW t \in DOMAIN g, t # s
          PROVE  /\ DOMAIN g[t] = {"id", "action", "content", "prevHash", "hash"}
                 /\ g[t].id = t /\ IsHash(g[t].hash, tampers + 1) /\ g[t].hash[1] = t
                 /\ g[t].prevHash # NoHash => IsHash(g[t].prevHash, tampers + 1)
                 /\ \A a \in DOMAIN g : a < t => g[t].prevHash # NoHash /\ g[t].prevHash[1] >= a
      <3>1. g[t] = f[t] /\ t \in DOMAIN f
          BY <2>3, <2>7
      <3> QED BY <2>3, <2>4, <3>1 DEF Chained
    <2> DEFINE k == tampers + 1
    <2> HIDE DEF k
    <2>8. Chained(g, k)
        BY <2>6, <2>7 DEF Chained, k
    <2> QED BY <2>8 DEF g, k
  <1>9. AuditTypes' /\ LockHolds'
    <2>1. NumberedTo(log', sequence)
        BY <1>1, <1>2 DEF NumberedTo
    <2>2. AuditTypes'
        BY <1>1, <2>1 DEF ChainInv, AuditTypes
    <2>3. LockHolds'
        BY <1>2 DEF ChainInv, LockHolds
    <2> QED BY <2>2, <2>3
  <1>10. tampers' # 0
      BY <1>1
  <1>11. ChainInv'
      BY <1>6, <1>8, <1>9, <1>10 DEF ChainInv
  <1> QED BY <1>3, <1>11

(* An altered row fails by itself or has a hash no row is linked to: its   *)
(* content is one no hash was made of.                                     *)
LEMMA AlterTampers ==
    ASSUME ChainInv, alterRow
    PROVE  \E s \in DOMAIN log :
              /\ TamperedWith(log, log', s) /\ TellsOf(s)
              /\ s \in DOMAIN log' =>
                    /\ DOMAIN log'[s] = {"id", "action", "content", "prevHash", "hash"}
                    /\ log'[s].id = s /\ IsHash(log'[s].hash, tampers + 1) /\ log'[s].hash[1] = s
                    /\ log'[s].prevHash = log[s].prevHash \/ log'[s].prevHash = HashBefore(s)
  <1>1. PICK s \in DOMAIN log : \E link \in {log[s].prevHash, HashBefore(s)} :
             LET row == [log[s] EXCEPT !.content = tampers + 1, !.prevHash = link]
             IN \E h \in {row.hash, digest(row)} :
                  /\ log' = [log EXCEPT ![s] = [row EXCEPT !.hash = h]]
                  /\ TellsOf(s)
      BY DEF alterRow
  <1>2. PICK link \in {log[s].prevHash, HashBefore(s)} :
             LET row == [log[s] EXCEPT !.content = tampers + 1, !.prevHash = link]
             IN \E h \in {row.hash, digest(row)} :
                  /\ log' = [log EXCEPT ![s] = [row EXCEPT !.hash = h]]
                  /\ TellsOf(s)
      BY <1>1
  <1> DEFINE row == [log[s] EXCEPT !.content = tampers + 1, !.prevHash = link]
  <1>3. PICK h \in {row.hash, digest(row)} : log' = [log EXCEPT ![s] = [row EXCEPT !.hash = h]] /\ TellsOf(s)
      BY <1>2
  <1>4. /\ Chained(log, tampers) /\ tampers \in Nat /\ s \in Nat
        /\ DOMAIN log[s] = {"id", "action", "content", "prevHash", "hash"}
        /\ log[s].id = s /\ IsHash(log[s].hash, tampers) /\ log[s].hash[1] = s
      BY CommittedRows DEF ChainInv, AuditTypes, NumberedTo, Chained
  <1>5. /\ row.id = s /\ row.action = log[s].action /\ row.content = tampers + 1 /\ row.prevHash = link
        /\ row.hash = log[s].hash /\ DOMAIN row = DOMAIN log[s]
      BY <1>4
  <1> HIDE DEF row
  <1> DEFINE new == [row EXCEPT !.hash = h]
  <1>6. /\ new.id = s /\ new.action = log[s].action /\ new.content = tampers + 1 /\ new.prevHash = link
        /\ new.hash = h /\ DOMAIN new = {"id", "action", "content", "prevHash", "hash"}
      BY <1>4, <1>5
  <1>7. log' = [log EXCEPT ![s] = new]
      BY <1>3
  <1> HIDE DEF new
  <1>8. DOMAIN log' = DOMAIN log /\ log'[s] = new /\ \A t \in DOMAIN log : t # s => log'[t] = log[t]
      BY <1>7
  <1> DEFINE d == <<s, log[s].action, tampers + 1, link>>
  <1>9. digest(row) = d /\ digest(new) = d
      BY <1>5, <1>6 DEF digest
  <1>10. d # NoHash /\ d[1] = s /\ d[3] = tampers + 1
      BY HashIsSome
  <1> HIDE DEF d
  <1>11. IsHash(d, tampers + 1) /\ ~IsHash(d, tampers)
      BY <1>4, <1>10 DEF IsHash
  <1>12. h = d \/ h = log[s].hash
      BY <1>3, <1>5, <1>9
  <1>13. IsHash(h, tampers + 1) /\ h[1] = s
    <2>1. IsHash(log[s].hash, tampers) => IsHash(log[s].hash, tampers + 1)
      <3> DEFINE x == log[s].hash
      <3> HIDE DEF x
      <3>1. IsHash(x, tampers) => IsHash(x, tampers + 1)
          BY <1>4 DEF IsHash
      <3> QED BY <3>1 DEF x
    <2> QED BY <1>4, <1>10, <1>11, <1>12, <2>1
  <1>14. \/ digest(new) # h
         \/ \A t \in DOMAIN log : t # s => log[t].prevHash # h
    <2>1. CASE h = log[s].hash
        BY <1>4, <1>9, <1>11, <2>1
    <2>2. CASE h = d
        BY <1>4, <1>10, <1>11, <2>2 DEF Chained
    <2> QED BY <1>12, <2>1, <2>2
  <1>15. TamperedWith(log, log', s)
      BY <1>6, <1>8, <1>14 DEF TamperedWith
  <1> QED BY <1>2, <1>3, <1>6, <1>8, <1>13, <1>15

LEMMA DeleteTampers ==
    ASSUME deleteRow
    PROVE  \E s \in DOMAIN log : TamperedWith(log, log', s) /\ TellsOf(s) /\ s \notin DOMAIN log'
  <1>1. PICK s \in DOMAIN log : log' = [t \in DOMAIN log \ {s} |-> log[t]] /\ TellsOf(s)
      BY DEF deleteRow
  <1>2. /\ DOMAIN log' = DOMAIN log \ {s} /\ \A t \in DOMAIN log' : log'[t] = log[t]
      BY <1>1
  <1> QED BY <1>1, <1>2 DEF TamperedWith

(* --- The verifier. ----------------------------------------------------- *)

LEMMA PageFacts ==
    ASSUME ChainInv, walk.after \in Nat, NEW page, page = fetchPage(walk.after)
    PROVE  /\ \A s \in page : s \in DOMAIN log /\ s \in Nat /\ s > walk.after /\ s > 0 /\ s <= sequence
           /\ \A a \in page, s \in DOMAIN log : s > walk.after /\ s <= a => s \in page
           /\ Cardinality(page) < PageRows => \A s \in DOMAIN log : s > walk.after => s \in page
           /\ ~(Cardinality(page) < PageRows) => page # {}
  <1> DEFINE rest == {s \in DOMAIN log : s > walk.after}
  <1>1. /\ sequence \in Nat /\ \A s \in DOMAIN log : s \in Nat /\ s > 0 /\ s <= sequence
        /\ PageRows \in Nat /\ PageRows - 1 \in Nat /\ PageRows > 0 /\ (PageRows - 1) + 1 = PageRows
      BY AuditChainAssumption, CommittedRows DEF NumberedTo
  <1>2. rest \in SUBSET Nat /\ \A k \in rest : k <= sequence
      BY <1>1
  <1>3. page = FirstOf(rest, PageRows)
      BY DEF fetchPage, EarlierIn, FirstOf, Before
  <1> HIDE DEF rest
  <1>4. page \in SUBSET rest
      BY <1>3 DEF FirstOf
  <1>5. ASSUME NEW a \in page, NEW s \in rest, s <= a PROVE s \in page
    <2>1. a \in FirstOf(rest, PageRows)
        BY <1>3
    <2>2. s \in FirstOf(rest, PageRows)
        BY <1>1, <1>2, <1>5, <2>1, FirstOfIsDownClosed
    <2> QED BY <1>3, <2>2
  <1>6. ASSUME Cardinality(page) < PageRows PROVE page = rest
    <2> DEFINE n == PageRows - 1
    <2>1. n \in Nat /\ page = FirstOf(rest, n + 1)
        BY <1>1, <1>3
    <2>2. IsFiniteSet(rest)
        BY <1>1, <1>2, FS_BoundedSetOfNaturals
    <2>3. Cardinality(page) \in Nat
        BY <1>4, <2>2, FS_Subset, FS_CardinalityType
    <2>4. Cardinality(FirstOf(rest, n + 1)) <= n
        BY <1>1, <1>6, <2>1, <2>3
    <2> HIDE DEF n
    <2>5. FirstOf(rest, n + 1) = rest
        BY <1>1, <1>2, <2>1, <2>4, OneMoreTells
    <2> QED BY <2>1, <2>5
  <1>7. ASSUME ~(Cardinality(page) < PageRows), page = {} PROVE FALSE
    <2>1. Cardinality(page) = 0
        BY <1>7, FS_EmptySet
    <2> QED BY <1>1, <1>7, <2>1
  <1>8. /\ \A s \in page : s \in DOMAIN log /\ s > walk.after
        /\ \A s \in DOMAIN log : s > walk.after => s \in rest
      BY <1>4 DEF rest
  <1> QED BY <1>1, <1>5, <1>6, <1>7, <1>8

(* What a row's link is compared with.                                     *)
LEMMA LinkFacts ==
    ASSUME ChainInv, walk.after \in Nat, NEW page, page = fetchPage(walk.after), NEW s \in page
    PROVE  \/ /\ \A k \in page : ~(k < s)
              /\ linkOk(page, s) <=> log[s].prevHash = walk.lastHash
           \/ \E p \in page : /\ p < s /\ \A k \in page : k < s => k <= p
                              /\ linkOk(page, s) <=> log[s].prevHash = log[p].hash
  <1> DEFINE E == EarlierIn(page, s)
  <1>1. \A k \in page : k \in Nat /\ k <= sequence
      BY PageFacts
  <1>2. CASE E = {}
      BY <1>2 DEF linkOk, EarlierIn
  <1>3. CASE E # {}
    <2>1. sequence \in Nat /\ \A k \in E : k \in Nat /\ k <= sequence
        BY <1>1, CommittedRows DEF EarlierIn
    <2>2. Max(E) \in E /\ \A k \in E : k <= Max(E)
        BY <1>3, <2>1, MaxOf
    <2>3. Max(E) \in page /\ Max(E) < s /\ \A k \in page : k < s => k <= Max(E)
        BY <2>2 DEF EarlierIn
    <2>4. linkOk(page, s) <=> log[s].prevHash = log[Max(E)].hash
        BY <1>3 DEF linkOk
    <2> HIDE DEF E
    <2> QED BY <2>3, <2>4
  <1> QED BY <1>2, <1>3

(* A row that passes both checks does not tell of anything.                *)
LEMMA PassedRowDoesNotFail ==
    ASSUME ChainInv, Standing, NEW page, page = fetchPage(walk.after), NEW s \in page,
           linkOk(page, s), digest(log[s]) = log[s].hash
    PROVE  ~FailsAfter(log, s, walk.after, walk.lastHash)
  <1>1. /\ walk.after \in Nat /\ s \in DOMAIN log /\ s \in Nat /\ s > walk.after
        /\ \A k \in DOMAIN log : k \in Nat
        /\ \A k \in DOMAIN log : k > walk.after /\ k < s => k \in page
        /\ \A k \in page : k \in DOMAIN log /\ k > walk.after
    <2>1. walk.after \in Nat /\ \A k \in DOMAIN log : k \in Nat
        BY CommittedRows DEF Standing, NumberedTo
    <2>2. /\ \A k \in page : k \in DOMAIN log /\ k \in Nat /\ k > walk.after
          /\ \A a \in page, k \in DOMAIN log : k > walk.after /\ k <= a => k \in page
        BY <2>1, PageFacts
    <2>3. \A k \in DOMAIN log : k < s => k <= s
        BY <2>1, <2>2
    <2> QED BY <2>1, <2>2, <2>3
  <1>2. \/ (\A k \in page : ~(k < s)) /\ log[s].prevHash = walk.lastHash
        \/ \E p \in page : p < s /\ (\A k \in page : k < s => k <= p) /\ log[s].prevHash = log[p].hash
      BY <1>1, LinkFacts
  <1>3. CASE (\A k \in page : ~(k < s)) /\ log[s].prevHash = walk.lastHash
      BY <1>1, <1>3 DEF FailsAfter, Precedes
  <1>4. ASSUME NEW p \in page, p < s, \A k \in page : k < s => k <= p, log[s].prevHash = log[p].hash
        PROVE  ~FailsAfter(log, s, walk.after, walk.lastHash)
    <2>1. p \in DOMAIN log /\ p > walk.after /\ p \in Nat
        BY <1>1, <1>4
    <2>2. ASSUME NEW q \in DOMAIN log, Precedes(log, q, s), q > walk.after PROVE q = p
      <3>1. q < s /\ p <= q
          BY <1>4, <2>1, <2>2 DEF Precedes
      <3>2. q <= p /\ q \in Nat
          BY <1>1, <1>4, <2>2, <3>1
      <3> QED BY <2>1, <3>1, <3>2
    <2>3. ~(p <= walk.after)
        BY <1>1, <2>1
    <2> QED BY <1>4, <2>1, <2>2, <2>3 DEF FailsAfter
  <1> QED BY <1>2, <1>3, <1>4

(* Rows nobody touched pass both.                                          *)
LEMMA UntouchedRowPasses ==
    ASSUME ChainInv, Standing, tampers = 0, NEW page, page = fetchPage(walk.after), NEW s \in page
    PROVE  linkOk(page, s) /\ digest(log[s]) = log[s].hash
  <1>1. /\ s \in DOMAIN log /\ Whole(log) /\ walk.after \in Nat
        /\ s \in Nat /\ s > walk.after
        /\ \A k \in DOMAIN log : k > walk.after /\ k <= s => k \in page
        /\ \A k \in DOMAIN log : k \in Nat /\ k > 0
        /\ \A k \in page : k \in DOMAIN log /\ k > walk.after
      BY PageFacts, CommittedRows DEF Standing, NumberedTo
  <1>2. digest(log[s]) = log[s].hash
      BY <1>1 DEF Whole
  <1>3. ASSUME \A k \in page : ~(k < s) PROVE log[s].prevHash = walk.lastHash
    <2>1. \A k \in DOMAIN log : k < s => k <= walk.after
        BY <1>1, <1>3
    <2>2. CASE walk.after = 0
      <3>1. IsFirst(log, s)
          BY <1>1, <2>1, <2>2 DEF IsFirst
      <3> QED BY <1>1, <2>2, <3>1 DEF Whole, Standing
    <2>3. CASE walk.after # 0
      <3>1. walk.after \in DOMAIN log /\ log[walk.after].hash = walk.lastHash
          BY <2>3 DEF Standing
      <3>2. Precedes(log, walk.after, s)
          BY <1>1, <2>1, <3>1 DEF Precedes
      <3> QED BY <1>1, <3>1, <3>2 DEF Whole
    <2> QED BY <2>2, <2>3
  <1>4. ASSUME NEW p \in page, p < s, \A k \in page : k < s => k <= p PROVE log[s].prevHash = log[p].hash
    <2>1. p \in DOMAIN log /\ p \in Nat /\ p > walk.after
        BY <1>1
    <2>2. ASSUME NEW a \in DOMAIN log, a < s PROVE a <= p
      <3>1. CASE a > walk.after
          BY <1>1, <1>4, <2>2, <3>1
      <3>2. CASE ~(a > walk.after)
          BY <1>1, <2>1, <2>2, <3>2
      <3> QED BY <3>1, <3>2
    <2>3. Precedes(log, p, s)
        BY <1>4, <2>1, <2>2 DEF Precedes
    <2> QED BY <1>1, <2>1, <2>3 DEF Whole
  <1>5. \/ /\ \A j \in page : ~(j < s)
           /\ linkOk(page, s) <=> log[s].prevHash = walk.lastHash
        \/ \E p \in page : /\ p < s /\ \A j \in page : j < s => j <= p
                           /\ linkOk(page, s) <=> log[s].prevHash = log[p].hash
      BY <1>1, LinkFacts
  <1>6. linkOk(page, s)
      BY <1>3, <1>4, <1>5
  <1> QED BY <1>2, <1>6

(* walkChainPage finds no break exactly when every row of the page passes. *)
LEMMA FoundIsBad ==
    ASSUME ChainInv, walk.after \in Nat, NEW page, page = fetchPage(walk.after)
    PROVE  walkChainPage(page) = 0 <=> \A s \in page : linkOk(page, s) /\ digest(log[s]) = log[s].hash
  <1> DEFINE bad == {s \in page : ~linkOk(page, s) \/ digest(log[s]) # log[s].hash}
  <1>1. walkChainPage(page) = IF bad = {} THEN 0 ELSE Min(bad)
      BY DEF walkChainPage
  <1>2. bad = {} <=> \A s \in page : linkOk(page, s) /\ digest(log[s]) = log[s].hash
      OBVIOUS
  <1>3. \A s \in bad : s \in Nat /\ s > 0
      BY PageFacts
  <1> HIDE DEF bad
  <1>4. ASSUME bad # {} PROVE Min(bad) # 0
    <2>1. bad \in SUBSET Nat
        BY <1>3
    <2>2. PICK m \in bad : \A k \in bad : m <= k
        BY <1>4, <2>1, LeastNat
    <2>3. Min(bad) \in bad
        BY <2>2 DEF Min
    <2> QED BY <1>3, <2>3
  <1> QED BY <1>1, <1>2, <1>4

(* A page is read: what tells of tampering is found on it or still ahead.  *)
LEMMA PageKeepsWalk ==
    ASSUME ChainInv, WalkInv, verifyPage PROVE WalkInv'
  <1> DEFINE page == fetchPage(walk.after)
             found == walkChainPage(page)
             m == Max(page)
  <1>1. /\ walk.step = "page" /\ UNCHANGED <<log, sequence, chainLock, trans, verifications, tampers, witnesses, evidence>>
        /\ walk' = IF found # 0 THEN [walk EXCEPT !.step = "broken", !.broken = found]
                   ELSE IF Cardinality(page) < PageRows THEN [walk EXCEPT !.step = "intact"]
                   ELSE [walk EXCEPT !.after = m, !.lastHash = log[m].hash]
      BY DEF verifyPage
  <1>2. /\ Standing /\ walk.after \in Nat /\ VerdictIsRight
        /\ \A e \in evidence : TellsAfter(log, e, walk.after, walk.lastHash)
        /\ DOMAIN walk = {"step", "after", "lastHash", "broken"}
      BY <1>1 DEF WalkInv, Standing
  <1>3. /\ \A s \in page : s \in DOMAIN log /\ s \in Nat /\ s > walk.after /\ s > 0 /\ s <= sequence
        /\ \A a \in page, s \in DOMAIN log : s > walk.after /\ s <= a => s \in page
        /\ Cardinality(page) < PageRows => \A s \in DOMAIN log : s > walk.after => s \in page
        /\ ~(Cardinality(page) < PageRows) => page # {}
      BY <1>2, PageFacts
  <1>4. tampers = 0 => found = 0
    <2>1. tampers = 0 => \A s \in page : linkOk(page, s) /\ digest(log[s]) = log[s].hash
        BY <1>2, UntouchedRowPasses
    <2> QED BY <1>2, <2>1, FoundIsBad
  <1>5. found = 0 => \A s \in page : ~FailsAfter(log, s, walk.after, walk.lastHash)
    <2>1. found = 0 => \A s \in page : linkOk(page, s) /\ digest(log[s]) = log[s].hash
        BY <1>2, FoundIsBad
    <2> QED BY <1>2, <2>1, PassedRowDoesNotFail
  <1>6. tampers \in Nat /\ sequence \in Nat /\ Chained(log, tampers) /\ \A s \in DOMAIN log : s \in Nat
      BY CommittedRows DEF ChainInv, AuditTypes, NumberedTo
  <1> HIDE DEF page, found, m
  <1>7. ASSUME found = 0, NEW e \in evidence
        PROVE  \E t \in DOMAIN log : /\ t \notin page /\ t > walk.after /\ t <= e /\ e \in DOMAIN log
                                     /\ FailsAfter(log, t, walk.after, walk.lastHash)
      BY <1>2, <1>5, <1>7 DEF TellsAfter
  <1>8. CASE found # 0
    <2>1. walk' = [walk EXCEPT !.step = "broken", !.broken = found]
        BY <1>1, <1>8
    <2>2. walk'.step = "broken" /\ walk'.broken = found /\ DOMAIN walk' = DOMAIN walk
        BY <1>2, <2>1
    <2>3. tampers' > 0
        BY <1>1, <1>4, <1>6, <1>8
    <2>4. VerdictIsRight'
        BY <2>2, <2>3 DEF VerdictIsRight
    <2> QED BY <1>1, <1>2, <2>2, <2>4 DEF WalkInv
  <1>9. CASE found = 0 /\ Cardinality(page) < PageRows
    <2>1. walk' = [walk EXCEPT !.step = "intact"]
        BY <1>1, <1>9
    <2>2. walk'.step = "intact" /\ walk'.broken = walk.broken /\ DOMAIN walk' = DOMAIN walk
        BY <1>2, <2>1
    <2>3. evidence' = {}
        BY <1>1, <1>3, <1>7, <1>9
    <2>4. VerdictIsRight'
        BY <1>1, <1>2, <2>2, <2>3 DEF VerdictIsRight
    <2> QED BY <1>1, <1>2, <2>2, <2>4 DEF WalkInv
  <1>10. CASE found = 0 /\ ~(Cardinality(page) < PageRows)
    <2>1. walk' = [walk EXCEPT !.after = m, !.lastHash = log[m].hash]
        BY <1>1, <1>10
    <2>2. /\ walk'.step = "page" /\ walk'.broken = walk.broken /\ DOMAIN walk' = DOMAIN walk
          /\ walk'.after = m /\ walk'.lastHash = log[m].hash
        BY <1>1, <1>2, <2>1
    <2>3. m \in page /\ \A k \in page : k <= m
        BY <1>3, <1>6, <1>10, MaxOf DEF m
    <2>4. m \in DOMAIN log /\ m \in Nat /\ m > 0 /\ m > walk.after
        BY <1>3, <2>3
    <2>5. log[m].hash[1] = m
        BY <1>6, <2>4 DEF Chained
    <2>6. Standing'
        BY <1>1, <2>2, <2>4, <2>5 DEF Standing
    <2>7. ASSUME NEW e \in evidence PROVE TellsAfter(log, e, m, log[m].hash)
      <3>1. PICK t \in DOMAIN log : /\ t \notin page /\ t > walk.after /\ t <= e /\ e \in DOMAIN log
                                    /\ FailsAfter(log, t, walk.after, walk.lastHash)
          BY <1>7, <1>10, <2>7
      <3>2. t > m /\ t \in Nat /\ e > m
        <4>1. t \in Nat /\ e \in Nat /\ ~(t <= m)
            BY <1>3, <1>6, <2>3, <3>1
        <4> QED BY <2>4, <3>1, <4>1
      <3>3. ~(\A a \in DOMAIN log : a < t => a <= walk.after)
          BY <1>2, <2>4, <3>2
      <3>4. ASSUME NEW p \in DOMAIN log, Precedes(log, p, t), log[t].prevHash # log[p].hash
            PROVE  FailsAfter(log, t, m, log[m].hash)
        <4>1. m <= p /\ p \in Nat
            BY <1>6, <2>4, <3>2, <3>4 DEF Precedes
        <4>2. CASE p = m
            BY <3>4, <4>2 DEF FailsAfter, Precedes
        <4>3. CASE p # m
          <5>1. p > m
              BY <2>4, <4>1, <4>3
          <5> QED BY <3>4, <5>1 DEF FailsAfter
        <4> QED BY <4>2, <4>3
      <3>5. FailsAfter(log, t, m, log[m].hash)
          BY <3>1, <3>3, <3>4 DEF FailsAfter
      <3> QED BY <3>1, <3>2, <3>5 DEF TellsAfter
    <2>8. VerdictIsRight'
        BY <1>1, <1>2, <2>2 DEF VerdictIsRight
    <2>9. \A e \in evidence' : TellsAfter(log', e, walk'.after, walk'.lastHash)
        BY <1>1, <2>2, <2>7
    <2> QED BY <1>2, <2>2, <2>6, <2>8, <2>9 DEF WalkInv
  <1> QED BY <1>8, <1>9, <1>10

(* A verification that is not at a page has only its verdict.              *)
LEMMA NoPageKeepsWalk ==
    ASSUME WalkInv, DOMAIN walk' = {"step", "after", "lastHash", "broken"}, walk'.step # "page",
           walk'.step = "intact" => walk.step = "intact",
           walk'.broken # 0 => walk.broken # 0, evidence' = evidence, tampers' = tampers
    PROVE  WalkInv'
  <1>1. VerdictIsRight'
      BY DEF WalkInv, VerdictIsRight
  <1> QED BY <1>1 DEF WalkInv

(* Somebody else's step: what tells of tampering ahead still does.         *)
LEMMA OthersKeepWalk ==
    ASSUME WalkInv, walk' = walk, evidence' \subseteq evidence, tampers \in Nat, tampers' \in Nat, tampers' >= tampers,
           Standing => Standing',
           \A n \in Nat : \A h, e : e \in evidence' /\ (h = NoHash \/ h[1] = n) /\ TellsAfter(log, e, n, h)
                                  => TellsAfter(log', e, n, h)
    PROVE  WalkInv'
  <1>1. VerdictIsRight'
      BY DEF WalkInv, VerdictIsRight
  <1>2. walk'.step = "page" => Standing'
      BY DEF WalkInv
  <1>3. ASSUME walk.step = "page", NEW e \in evidence' PROVE TellsAfter(log', e, walk.after, walk.lastHash)
    <2>1. Standing /\ TellsAfter(log, e, walk.after, walk.lastHash)
        BY <1>3 DEF WalkInv
    <2>2. walk.after \in Nat /\ (walk.lastHash = NoHash \/ walk.lastHash[1] = walk.after)
        BY <2>1 DEF Standing
    <2> QED BY <1>3, <2>1, <2>2
  <1> QED BY <1>1, <1>2, <1>3 DEF WalkInv

LEMMA AuditInvInit == AuditInit => ChainInv /\ WalkInv
  <1> SUFFICES ASSUME AuditInit PROVE ChainInv /\ WalkInv
      OBVIOUS
  <1>1. DOMAIN NoRows = {}
      BY DEF NoRows
  <1>2. /\ log = NoRows /\ sequence = 0 /\ tampers = 0 /\ witnesses = {} /\ evidence = {}
        /\ \A w \in Transactions : trans[w] = NoRows /\ DOMAIN SeenBy(w) = {}
        /\ DOMAIN trans = Transactions /\ walk.step = "off" /\ walk.broken = 0
        /\ DOMAIN walk = {"step", "after", "lastHash", "broken"}
      BY <1>1 DEF AuditInit, Transactions, SeenBy, WithRows, INITIAL_CHAIN_WALK_STATE
  <1>3. AuditTypes /\ LockHolds
      BY <1>1, <1>2 DEF AuditTypes, LockHolds, NumberedTo
  <1>4. \A w \in Transactions : Chained(SeenBy(w), tampers) /\ Whole(SeenBy(w))
      BY <1>2 DEF Chained, Whole
  <1>5. ChainInv
      BY <1>2, <1>3, <1>4 DEF ChainInv
  <1>6. WalkInv
      BY <1>2 DEF WalkInv, VerdictIsRight
  <1> QED BY <1>5, <1>6

LEMMA AuditInvNext == ChainInv /\ WalkInv /\ [AuditNext]_auditVars => (ChainInv /\ WalkInv)'
  <1> SUFFICES ASSUME ChainInv, WalkInv, [AuditNext]_auditVars PROVE ChainInv' /\ WalkInv'
      OBVIOUS
  <1>0. tampers \in Nat /\ Daily \in Transactions /\ Writers \subseteq Transactions
      BY DEF ChainInv, AuditTypes, Transactions
  <1>0a. /\ INITIAL_CHAIN_WALK_STATE.step = "off" /\ INITIAL_CHAIN_WALK_STATE.broken = 0
         /\ DOMAIN INITIAL_CHAIN_WALK_STATE = {"step", "after", "lastHash", "broken"}
      BY DEF INITIAL_CHAIN_WALK_STATE
  <1>1. ASSUME NEW w \in Writers, record_(w) PROVE ChainInv' /\ WalkInv'
    <2>1. /\ recordEvent(w, <<"work", 0>>) /\ log' = log /\ tampers' = tampers /\ walk' = walk
          /\ evidence' = evidence /\ witnesses' = witnesses /\ w \in Transactions
        BY <1>0, <1>1 DEF record_
    <2>2. Standing => Standing'
        BY <2>1 DEF Standing
    <2>3. WalkInv'
        BY <1>0, <2>1, <2>2, OthersKeepWalk
    <2> QED BY <2>1, <2>3, RecordKeepsChain
  <1>2. ASSUME NEW w \in Writers, commitEvents(w) \/ rollbackEvents(w) PROVE ChainInv' /\ WalkInv'
    <2>1. /\ TransactionEnds(w) /\ (log' = log \/ log' = SeenBy(w)) /\ walk' = walk
          /\ tampers' = tampers /\ evidence' = evidence /\ witnesses' = witnesses /\ w \in Transactions
        BY <1>0, <1>2 DEF commitEvents, rollbackEvents, TransactionEnds
    <2>2. \A s \in DOMAIN log : SeenBy(w)[s] = log[s] /\ s \in DOMAIN SeenBy(w)
        BY <2>1, CommittedRows
    <2>3. Standing => Standing'
        BY <2>1, <2>2 DEF Standing
    <2>4. ChainInv' /\ \A n, h, e : TellsAfter(log, e, n, h) => TellsAfter(log', e, n, h)
        BY <2>1, EndKeepsChain
    <2> QED BY <1>0, <2>1, <2>3, <2>4, OthersKeepWalk
  <1>3. CASE verify
    <2>1. /\ walk' = [INITIAL_CHAIN_WALK_STATE EXCEPT !.step = "page"]
          /\ evidence' = witnesses /\ UNCHANGED <<log, sequence, chainLock, trans, tampers, witnesses>>
        BY <1>3 DEF verify
    <2>2. /\ walk'.step = "page" /\ walk'.after = 0 /\ walk'.lastHash = NoHash /\ walk'.broken = 0
          /\ DOMAIN walk' = {"step", "after", "lastHash", "broken"}
        BY <2>1 DEF INITIAL_CHAIN_WALK_STATE
    <2>3. \A e \in evidence' : TellsAfter(log', e, walk'.after, walk'.lastHash)
        BY <2>1, <2>2 DEF ChainInv
    <2>4. Standing' /\ VerdictIsRight'
        BY <2>2 DEF Standing, VerdictIsRight
    <2>5. WalkInv'
        BY <2>2, <2>3, <2>4 DEF WalkInv
    <2>6. ChainInv'
        BY <2>1 DEF ChainInv, AuditTypes, LockHolds, SeenBy
    <2> QED BY <2>5, <2>6
  <1>4. ASSUME UNCHANGED <<log, sequence, chainLock, trans, tampers, witnesses>> PROVE ChainInv'
      BY <1>4 DEF ChainInv, AuditTypes, LockHolds, SeenBy
  <1>5. CASE verifyPage
    <2>1. UNCHANGED <<log, sequence, chainLock, trans, tampers, witnesses>>
        BY <1>5 DEF verifyPage
    <2> QED BY <1>4, <1>5, <2>1, PageKeepsWalk
  <1>6. CASE dailyVerified
    <2>1. /\ UNCHANGED <<log, sequence, chainLock, trans, tampers, witnesses, evidence>>
          /\ walk' = INITIAL_CHAIN_WALK_STATE
        BY <1>6 DEF dailyVerified
    <2>2. WalkInv'
        BY <1>0a, <2>1, NoPageKeepsWalk
    <2> QED BY <1>4, <2>1, <2>2
  <1>7. CASE reportBreak
    <2>1. /\ recordEvent(Daily, <<"chain_break_detected", walk.broken>>) /\ log' = log
          /\ tampers' = tampers /\ evidence' = evidence /\ witnesses' = witnesses
          /\ walk' = [walk EXCEPT !.step = "reporting"]
        BY <1>7 DEF reportBreak
    <2>2. DOMAIN walk' = {"step", "after", "lastHash", "broken"} /\ walk'.step = "reporting" /\ walk'.broken = walk.broken
        BY <2>1 DEF WalkInv
    <2>3. WalkInv'
        BY <2>1, <2>2, NoPageKeepsWalk
    <2> QED BY <1>0, <2>1, <2>3, RecordKeepsChain
  <1>8. CASE breakReported
    <2>1. /\ TransactionEnds(Daily) /\ log' = SeenBy(Daily) /\ walk' = INITIAL_CHAIN_WALK_STATE
          /\ tampers' = tampers /\ evidence' = evidence /\ witnesses' = witnesses
        BY <1>8 DEF breakReported, TransactionEnds
    <2>2. WalkInv'
        BY <1>0a, <2>1, NoPageKeepsWalk
    <2> QED BY <1>0, <2>1, <2>2, EndKeepsChain
  <1>9. CASE alterRow \/ deleteRow
    <2>1. tampers' = tampers + 1 /\ UNCHANGED <<sequence, chainLock, trans>> /\ walk' = walk
        BY <1>9 DEF alterRow, deleteRow
    <2>2. PICK s \in DOMAIN log :
              /\ TamperedWith(log, log', s) /\ TellsOf(s)
              /\ s \in DOMAIN log' =>
                    /\ DOMAIN log'[s] = {"id", "action", "content", "prevHash", "hash"}
                    /\ log'[s].id = s /\ IsHash(log'[s].hash, tampers + 1) /\ log'[s].hash[1] = s
                    /\ log'[s].prevHash = log[s].prevHash \/ log'[s].prevHash = HashBefore(s)
      <3>1. CASE alterRow
          BY <3>1, AlterTampers
      <3>2. CASE deleteRow
        <4>1. PICK s \in DOMAIN log : TamperedWith(log, log', s) /\ TellsOf(s) /\ s \notin DOMAIN log'
            BY <3>2, DeleteTampers
        <4> QED BY <4>1
      <3> QED BY <1>9, <3>1, <3>2
    <2>3. /\ ChainInv'
          /\ \A n \in Nat : \A h, e : e # s /\ (h = NoHash \/ h[1] = n) /\ TellsAfter(log, e, n, h)
                                    => TellsAfter(log', e, n, h)
        BY <2>1, <2>2, TamperKeepsChain
    <2>4. evidence' = evidence \ {s}
        BY <2>2 DEF TellsOf
    <2>5. tampers' # 0 /\ tampers' \in Nat /\ tampers' >= tampers
        BY <1>0, <2>1
    <2>6. Standing => Standing'
        BY <2>1, <2>5 DEF Standing
    <2>7. WalkInv'
        BY <1>0, <2>1, <2>3, <2>4, <2>5, <2>6, OthersKeepWalk
    <2> QED BY <2>3, <2>7
  <1>10. CASE UNCHANGED auditVars
    <2>1. UNCHANGED <<log, sequence, chainLock, trans, tampers, walk, witnesses, evidence>>
        BY <1>10 DEF auditVars
    <2>2. WalkInv'
        BY <2>1 DEF WalkInv, Standing, VerdictIsRight
    <2> QED BY <1>4, <2>1, <2>2
  <1> QED BY <1>1, <1>2, <1>3, <1>5, <1>6, <1>7, <1>8, <1>9, <1>10 DEF AuditNext

(* The verdict is right whatever the number of writers, rows, pages and    *)
(* tamperings: rows linked under the lock never look broken, and no chain  *)
(* is called intact that had, when the verification began, an altered row  *)
(* with its old hash, or a row nobody touched after one that was altered,  *)
(* re-hashed or removed, as long as that row itself stays as it is. Of     *)
(* newest rows removed or re-hashed together it says nothing, as           *)
(* chain-verification.service.ts:65-80 says itself                         *)
(* (compute_audit_event_hash_chain, ChainVerificationService.verify).      *)
THEOREM VerdictsAreRight == AuditSpec => []VerdictIsRight
  <1>1. WalkInv => VerdictIsRight
      BY DEF WalkInv
  <1> QED BY <1>1, AuditInvInit, AuditInvNext, PTL DEF AuditSpec


-----------------------------------------------------------------------------
(* The masterlist importer respects what people decided.                   *)

(* A rule that a person has moved, or whose visit has been completed. *)
SettledRule(rule) == HandMoved(rule) \/ rule.completed

RuleFields == {"due", "reason", "completed"}

(* A machine that is not registered has no document and no rules. *)
MachineFits(m) ==
  /\ DOMAIN m = {"type", "anchor", "document", "rules"}
  /\ m.type = "none" => m.document = "none" /\ DOMAIN m.rules = {}
  /\ \A f \in DOMAIN m.rules : DOMAIN m.rules[f] = RuleFields

PlantFits ==
  /\ DOMAIN plant = MachineCodes
  /\ \A c \in MachineCodes : MachineFits(plant[c])

ImpFields ==
  {"step", "sheet", "row", "apply", "ofType", "all", "rules", "todo", "banner"}

(* What was decided before the run stays decided while it goes on: people  *)
(* only decide more.                                                       *)
DecisionsStand ==
  /\ decided \subseteq MachineCodes \X ImportFrequencies
  /\ \A d \in decided :
       d[2] \in DOMAIN plant[d[1]].rules /\ SettledRule(plant[d[1]].rules[d[2]])

(* The importer read the rules of the row's machine after the run began.   *)
DecisionsWereRead ==
  imp.step = "put" =>
    \A d \in decided : d[1] = Row.code =>
      d[2] \in DOMAIN imp.rules /\ SettledRule(imp.rules[d[2]])

ImportInv ==
  /\ touches \in Nat /\ DOMAIN imp = ImpFields
  /\ PlantFits /\ DecisionsStand /\ DecisionsWereRead

(* What the importer's own writes may do to the plant. *)
KeepsDecisions(p) ==
  /\ DOMAIN p = MachineCodes
  /\ \A c \in MachineCodes : MachineFits(p[c])
  /\ \A d \in decided : p[d[1]].rules[d[2]] = plant[d[1]].rules[d[2]]
  /\ \A d \in decided : d[2] \in DOMAIN p[d[1]].rules

LEMMA PlantKept ==
    ASSUME ImportInv
    PROVE  KeepsDecisions(plant)
  BY DEF ImportInv, PlantFits, DecisionsStand, KeepsDecisions

(* One machine changes, its decided rules do not. *)
LEMMA MachineWritten ==
    ASSUME ImportInv, NEW c, NEW m,
           c \in MachineCodes =>
             /\ MachineFits(m)
             /\ \A d \in decided : d[1] = c =>
                  d[2] \in DOMAIN m.rules /\ m.rules[d[2]] = plant[c].rules[d[2]]
    PROVE  KeepsDecisions([plant EXCEPT ![c] = m])
  <1> DEFINE p == [plant EXCEPT ![c] = m]
  <1>1. /\ DOMAIN p = MachineCodes
        /\ c \in MachineCodes => p[c] = m
        /\ \A e \in MachineCodes : e # c => p[e] = plant[e]
      BY DEF ImportInv, PlantFits
  <1> HIDE DEF p
  <1>2. \A e \in MachineCodes : MachineFits(p[e])
      BY <1>1 DEF ImportInv, PlantFits
  <1>3. \A d \in decided : d[1] \in MachineCodes /\ d[2] \in DOMAIN plant[d[1]].rules
      BY DEF ImportInv, DecisionsStand
  <1>4. ASSUME NEW d \in decided
        PROVE  p[d[1]].rules[d[2]] = plant[d[1]].rules[d[2]] /\ d[2] \in DOMAIN p[d[1]].rules
    <2>1. CASE d[1] = c
        BY <1>1, <1>3, <2>1
    <2>2. CASE d[1] # c
        BY <1>1, <1>3, <2>2
    <2> QED BY <2>1, <2>2
  <1>5. KeepsDecisions(p)
      BY <1>1, <1>2, <1>4 DEF KeepsDecisions
  <1> QED BY <1>5 DEF p

(* A step of the importer. *)
LEMMA ImportStepKeeps ==
    ASSUME ImportInv, KeepsDecisions(plant'), UNCHANGED <<touches, decided>>,
           DOMAIN imp' = ImpFields, DecisionsWereRead'
    PROVE  ImportInv' /\ \A d \in decided : plant'[d[1]].rules[d[2]] = plant[d[1]].rules[d[2]]
  <1>1. touches' \in Nat
      BY DEF ImportInv
  <1>2. PlantFits'
      BY DEF KeepsDecisions, PlantFits, MachineFits
  <1>3. DecisionsStand'
      BY DEF KeepsDecisions, ImportInv, DecisionsStand, SettledRule, HandMoved
  <1> QED BY <1>1, <1>2, <1>3 DEF ImportInv, KeepsDecisions

(* The importer's own record. *)
LEMMA ImpFacts ==
    ASSUME ImportInv
    PROVE  /\ DOMAIN Idle = ImpFields /\ Idle.step = "off"
           /\ DOMAIN NextRow = ImpFields /\ NextRow.step = "row"
           /\ \A x : DOMAIN [Idle EXCEPT !.banner = x] = ImpFields
                     /\ [Idle EXCEPT !.banner = x].step = "off"
           /\ \A x : DOMAIN [imp EXCEPT !.step = x] = ImpFields /\ [imp EXCEPT !.step = x].step = x
           /\ \A x : DOMAIN [NextRow EXCEPT !.all = x] = ImpFields
                     /\ [NextRow EXCEPT !.all = x].step = "row"
  <1>0. DOMAIN imp = ImpFields
      BY DEF ImportInv
  <1>1. \A a, b, c, d, e, f, g, h, i :
          LET r == [step |-> a, sheet |-> b, row |-> c, apply |-> d, ofType |-> e, all |-> f,
                    rules |-> g, todo |-> h, banner |-> i]
          IN  DOMAIN r = ImpFields /\ r.step = a
      BY DEF ImpFields
  <1>2. DOMAIN Idle = ImpFields /\ Idle.step = "off"
      BY <1>1, Zenon DEF Idle
  <1>3. \A r, x : DOMAIN r = ImpFields =>
          /\ DOMAIN [r EXCEPT !.banner = x] = ImpFields /\ [r EXCEPT !.banner = x].step = r.step
          /\ DOMAIN [r EXCEPT !.step = x] = ImpFields /\ [r EXCEPT !.step = x].step = x
          /\ DOMAIN [r EXCEPT !.all = x] = ImpFields /\ [r EXCEPT !.all = x].step = r.step
      BY DEF ImpFields
  <1>4. DOMAIN NextRow = ImpFields /\ NextRow.step = "row"
      BY <1>0 DEF NextRow, ImpFields
  <1>5. \A x : DOMAIN [Idle EXCEPT !.banner = x] = ImpFields
               /\ [Idle EXCEPT !.banner = x].step = "off"
      BY <1>2, <1>3
  <1>6. \A x : DOMAIN [imp EXCEPT !.step = x] = ImpFields /\ [imp EXCEPT !.step = x].step = x
      BY <1>0, <1>3
  <1>7. \A x : DOMAIN [NextRow EXCEPT !.all = x] = ImpFields
               /\ [NextRow EXCEPT !.all = x].step = "row"
      BY <1>3, <1>4
  <1> QED BY <1>2, <1>4, <1>5, <1>6, <1>7, Zenon

(* The importer stops, or goes on anywhere but to the writing of dates. *)
LEMMA NotWriting ==
    ASSUME imp'.step # "put"
    PROVE  DecisionsWereRead'
  BY DEF DecisionsWereRead

(* A write ends in one of three ways. *)
LEMMA WriteEnds ==
    ASSUME ImportInv, NEW call, NEW effect, NEW next, Write(call, effect, next),
           KeepsDecisions(effect), DOMAIN next = ImpFields,
           imp' = next => DecisionsWereRead'
    PROVE  KeepsDecisions(plant') /\ DOMAIN imp' = ImpFields /\ DecisionsWereRead'
  <1>1. \/ plant' = effect /\ imp' = next
        \/ plant' = effect /\ \E x : imp' = [Idle EXCEPT !.banner = x]
        \/ plant' = plant /\ \E x : imp' = [Idle EXCEPT !.banner = x]
      BY Zenon DEF Write, Failed
  <1>2. KeepsDecisions(plant')
      BY <1>1, PlantKept
  <1>3. CASE imp' = next
      BY <1>2, <1>3
  <1>4. CASE \E x : imp' = [Idle EXCEPT !.banner = x]
    <2>1. DOMAIN imp' = ImpFields /\ imp'.step = "off"
        BY <1>4, ImpFacts
    <2> QED BY <1>2, <2>1, NotWriting
  <1> QED BY <1>1, <1>3, <1>4

(* The steps of the importer that write nothing. *)
LEMMA ImportReads ==
    ASSUME ImportInv,
           \/ processRow \/ processUnmapped \/ processMapped \/ findTemplate
           \/ rowImported \/ reportImport
    PROVE  UNCHANGED <<plant, touches, decided>> /\ DOMAIN imp' = ImpFields /\ DecisionsWereRead'
  <1> USE DEF At
  <1>1. UNCHANGED <<plant, touches, decided>>
      BY Zenon DEF processRow, processUnmapped, processMapped, findTemplate, rowImported,
             reportImport, Read
  <1>2. DOMAIN imp' = ImpFields /\ imp'.step # "put"
    <2>1. CASE processRow \/ rowImported \/ reportImport
        BY <2>1, ImpFacts DEF processRow, rowImported, reportImport
    <2>2. CASE processUnmapped
        BY <2>2, ImpFacts DEF processUnmapped, Read, Failed
    <2>3. CASE processMapped
      <3>1. \/ imp' = NextRow \/ imp' = [imp EXCEPT !.step = "asset"]
            \/ \E x : imp' = [Idle EXCEPT !.banner = x]
            \/ \E t, x : imp' = [imp EXCEPT !.step = "asset", !.ofType[t] = x]
          BY <2>3, Zenon DEF processMapped, Read, Failed
      <3>2. \A t, x : /\ DOMAIN [imp EXCEPT !.step = "asset", !.ofType[t] = x] = ImpFields
                      /\ [imp EXCEPT !.step = "asset", !.ofType[t] = x].step = "asset"
          BY DEF ImportInv, ImpFields
      <3>3. CASE imp' = NextRow \/ imp' = [imp EXCEPT !.step = "asset"]
          BY <3>3, ImpFacts
      <3>4. CASE \E x : imp' = [Idle EXCEPT !.banner = x]
          BY <3>4, ImpFacts
      <3>5. CASE \E t, x : imp' = [imp EXCEPT !.step = "asset", !.ofType[t] = x]
          BY <3>2, <3>5
      <3> QED BY <3>1, <3>3, <3>4, <3>5
    <2>4. CASE findTemplate
        BY <2>4, ImpFacts DEF findTemplate
    <2> QED BY <2>1, <2>2, <2>3, <2>4
  <1> QED BY <1>1, <1>2, NotWriting

LEMMA ImportRegisters ==
    ASSUME ImportInv, createAsset
    PROVE  /\ KeepsDecisions(plant') /\ UNCHANGED <<touches, decided>>
           /\ DOMAIN imp' = ImpFields /\ DecisionsWereRead'
  <1>1. UNCHANGED <<touches, decided>>
      BY DEF createAsset, At
  <1>2. CASE imp' = [imp EXCEPT !.step = "template"] /\ UNCHANGED plant
    <2>1. DOMAIN imp' = ImpFields /\ imp'.step # "put"
        BY <1>2, ImpFacts
    <2> QED BY <1>1, <1>2, <2>1, PlantKept, NotWriting
  <1>3. CASE (\E x : imp' = [Idle EXCEPT !.banner = x]) /\ UNCHANGED plant
    <2>1. DOMAIN imp' = ImpFields /\ imp'.step # "put"
        BY <1>3, ImpFacts
    <2> QED BY <1>1, <1>3, <2>1, PlantKept, NotWriting
  <1>4. ASSUME NEW c, NEW type, NEW anchor, NEW t, NEW x, c \notin Registered,
               Write("asset", WithMachine(c, type, anchor),
                     [imp EXCEPT !.step = "template", !.ofType[t] = x])
        PROVE  KeepsDecisions(plant') /\ DOMAIN imp' = ImpFields /\ DecisionsWereRead'
    <2> DEFINE m == [NoMachine EXCEPT !.type = type, !.anchor = anchor]
               next == [imp EXCEPT !.step = "template", !.ofType[t] = x]
    <2>1. MachineFits(m)
      <3>1. /\ DOMAIN m = {"type", "anchor", "document", "rules"}
            /\ m.document = "none" /\ DOMAIN m.rules = {}
          BY DEF NoMachine
      <3> HIDE DEF m
      <3> QED BY <3>1 DEF MachineFits
    <2>2. c \in MachineCodes => plant[c].type = "none"
        BY <1>4 DEF Registered
    <2>3. \A d \in decided : d[1] # c
        BY <2>2 DEF ImportInv, PlantFits, MachineFits, DecisionsStand
    <2> HIDE DEF m
    <2>4. KeepsDecisions([plant EXCEPT ![c] = m])
        BY <2>1, <2>3, MachineWritten
    <2>5. WithMachine(c, type, anchor) = [plant EXCEPT ![c] = m]
        BY DEF WithMachine, m
    <2>6. DOMAIN next = ImpFields /\ next.step = "template"
        BY DEF ImportInv, ImpFields
    <2>7. Write("asset", WithMachine(c, type, anchor), next)
        BY <1>4
    <2> HIDE DEF next
    <2>8. imp' = next => DecisionsWereRead'
        BY <2>6, NotWriting
    <2> QED BY <2>4, <2>5, <2>6, <2>7, <2>8, WriteEnds
  <1>5. \/ imp' = [imp EXCEPT !.step = "template"] /\ UNCHANGED plant
        \/ (\E x : imp' = [Idle EXCEPT !.banner = x]) /\ UNCHANGED plant
        \/ \E c, type, anchor, t, x : /\ c \notin Registered
             /\ Write("asset", WithMachine(c, type, anchor),
                      [imp EXCEPT !.step = "template", !.ofType[t] = x])
    <2>1. CASE /\ Row.code \notin imp.ofType[Row.type] /\ Row.code \notin Registered
               /\ Write("asset", WithMachine(Row.code, Row.type, anchorDate(Row)),
                   [imp EXCEPT !.step = "template", !.ofType[Row.type] = @ \cup {Row.code}])
      <3>1. [imp EXCEPT !.step = "template", !.ofType[Row.type] = @ \cup {Row.code}]
              = [imp EXCEPT !.step = "template",
                            !.ofType[Row.type] = imp.ofType[Row.type] \cup {Row.code}]
          BY DEF ImportInv, ImpFields
      <3> QED BY <2>1, <3>1, Zenon
    <2>2. CASE Row.code \in imp.ofType[Row.type]
        BY <2>2 DEF createAsset
    <2>3. CASE Row.code \notin imp.ofType[Row.type] /\ Row.code \in Registered
        BY <2>3, Zenon DEF createAsset, Failed
    <2> QED BY <2>1, <2>2, <2>3, Zenon DEF createAsset
  <1> QED BY <1>1, <1>2, <1>3, <1>4, <1>5, Zenon

LEMMA ImportAttaches ==
    ASSUME ImportInv, attachDocument
    PROVE  /\ KeepsDecisions(plant') /\ UNCHANGED <<touches, decided>>
           /\ DOMAIN imp' = ImpFields /\ DecisionsWereRead'
  <1>1. UNCHANGED <<touches, decided>>
      BY DEF attachDocument, At
  <1> DEFINE next == [imp EXCEPT !.step = "schedule"]
  <1>2. DOMAIN next = ImpFields /\ next.step = "schedule"
      BY ImpFacts
  <1>3. \/ UNCHANGED plant /\ (imp' = next \/ \E x : imp' = [Idle EXCEPT !.banner = x])
        \/ \E c : Write("document", WithDocument(c), next)
      BY Zenon DEF attachDocument, Read, Failed
  <1> HIDE DEF next
  <1>4. CASE UNCHANGED plant /\ (imp' = next \/ \E x : imp' = [Idle EXCEPT !.banner = x])
    <2>1. DOMAIN imp' = ImpFields /\ imp'.step # "put"
        BY <1>2, <1>4, ImpFacts
    <2> QED BY <1>1, <1>4, <2>1, PlantKept, NotWriting
  <1>5. ASSUME NEW c, Write("document", WithDocument(c), next)
        PROVE  KeepsDecisions(plant') /\ DOMAIN imp' = ImpFields /\ DecisionsWereRead'
    <2> DEFINE m == [plant[c] EXCEPT !.document = plant[c].type]
    <2>1. WithDocument(c) = [plant EXCEPT ![c] = m]
        BY DEF WithDocument
    <2>2. c \in MachineCodes => /\ MachineFits(m) /\ m.rules = plant[c].rules
      <3> SUFFICES ASSUME c \in MachineCodes PROVE MachineFits(m) /\ m.rules = plant[c].rules
          OBVIOUS
      <3>1. MachineFits(plant[c])
          BY DEF ImportInv, PlantFits
      <3> QED BY <3>1 DEF MachineFits
    <2>3. \A d \in decided : d[2] \in DOMAIN plant[d[1]].rules
        BY DEF ImportInv, DecisionsStand
    <2> HIDE DEF m
    <2>4. KeepsDecisions([plant EXCEPT ![c] = m])
        BY <2>2, <2>3, MachineWritten
    <2>5. imp' = next => DecisionsWereRead'
        BY <1>2, NotWriting
    <2> QED BY <1>2, <1>5, <2>1, <2>4, <2>5, WriteEnds
  <1> QED BY <1>1, <1>3, <1>4, <1>5

(* The rules that are missing are created; the others stay as they are. *)
LEMMA EnsuredRules ==
    ASSUME NEW m, MachineFits(m)
    PROVE  /\ MachineFits(RulesEnsured(m))
           /\ \A f \in DOMAIN m.rules : f \in DOMAIN RulesEnsured(m).rules
                                         /\ RulesEnsured(m).rules[f] = m.rules[f]
  <1> DEFINE fs == IF m.document \in LoadedForms THEN FormDefines[m.document] ELSE {}
             new == [due |-> m.anchor, reason |-> <<"none", 0>>, completed |-> FALSE]
             rs == [f \in DOMAIN m.rules \cup fs |-> IF f \in DOMAIN m.rules THEN m.rules[f] ELSE new]
             e == [m EXCEPT !.rules = rs]
  <1>1. RulesEnsured(m) = e
      BY Zenon DEF RulesEnsured
  <1>2. DOMAIN new = RuleFields
    <2>1. \A a, b, c : DOMAIN [due |-> a, reason |-> b, completed |-> c] = RuleFields
        BY DEF RuleFields
    <2> QED BY <2>1, Zenon
  <1>3. m.type = "none" => fs = {}
      BY MasterlistImportAssumption DEF MachineFits, MasterlistImportAssumption
  <1> HIDE DEF new, fs
  <1>4. /\ DOMAIN rs = DOMAIN m.rules \cup fs
        /\ \A f \in DOMAIN m.rules : rs[f] = m.rules[f]
        /\ \A f \in DOMAIN rs : f \notin DOMAIN m.rules => rs[f] = new
      OBVIOUS
  <1> HIDE DEF rs
  <1>5. /\ DOMAIN e = DOMAIN m /\ e.rules = rs /\ e.type = m.type /\ e.document = m.document
      BY DEF MachineFits
  <1>6. \A f \in DOMAIN m.rules : DOMAIN m.rules[f] = RuleFields
      BY DEF MachineFits
  <1> HIDE DEF e
  <1>7. MachineFits(e)
      BY <1>2, <1>3, <1>4, <1>5, <1>6 DEF MachineFits
  <1> QED BY <1>1, <1>4, <1>5, <1>7

LEMMA ImportReadsSchedule ==
    ASSUME ImportInv, readSchedule
    PROVE  /\ KeepsDecisions(plant') /\ UNCHANGED <<touches, decided>>
           /\ DOMAIN imp' = ImpFields /\ DecisionsWereRead'
  <1> DEFINE c == Row.code
             m == RulesEnsured(plant[c])
             next == [imp EXCEPT !.step = "put", !.rules = m.rules, !.todo = planned(Row)]
  <1>1. UNCHANGED <<touches, decided>> /\ Write("schedule", [plant EXCEPT ![c] = m], next)
      BY DEF readSchedule, At
  <1>2. \A d \in decided : /\ d[1] \in MachineCodes /\ d[2] \in DOMAIN plant[d[1]].rules
                           /\ SettledRule(plant[d[1]].rules[d[2]])
      BY DEF ImportInv, DecisionsStand
  <1>3. c \in MachineCodes =>
          /\ MachineFits(m)
          /\ \A f \in DOMAIN plant[c].rules : f \in DOMAIN m.rules /\ m.rules[f] = plant[c].rules[f]
      BY EnsuredRules DEF ImportInv, PlantFits
  <1>4. DOMAIN next = ImpFields /\ next.rules = m.rules /\ next.sheet = imp.sheet /\ next.row = imp.row
      BY DEF ImportInv, ImpFields
  <1> HIDE DEF m, next
  <1>5. KeepsDecisions([plant EXCEPT ![c] = m])
      BY <1>2, <1>3, MachineWritten
  <1>6. ASSUME imp' = next PROVE DecisionsWereRead'
    <2>1. Row' = Row
        BY <1>4, <1>6 DEF Row
    <2>2. ASSUME NEW d \in decided', d[1] = Row'.code
          PROVE  d[2] \in DOMAIN imp'.rules /\ SettledRule(imp'.rules[d[2]])
      <3>1. d \in decided /\ d[1] = c
          BY <1>1, <2>1, <2>2
      <3>2. d[2] \in DOMAIN m.rules /\ m.rules[d[2]] = plant[d[1]].rules[d[2]]
          BY <1>2, <1>3, <3>1
      <3> QED BY <1>2, <1>4, <1>6, <3>1, <3>2
    <2> QED BY <2>2 DEF DecisionsWereRead, SettledRule, HandMoved
  <1> QED BY <1>1, <1>4, <1>5, <1>6, WriteEnds

(* A rule's date is moved for a reason, or its visit is completed.   *)
ReasonSet(p, c, f, due, x) == [p EXCEPT ![c].rules[f].due = due, ![c].rules[f].reason = x]

LEMMA ReasonWritten ==
    ASSUME NEW p, NEW c \in DOMAIN p, MachineFits(p[c]), NEW f, NEW due, NEW x
    PROVE  /\ DOMAIN ReasonSet(p, c, f, due, x) = DOMAIN p
           /\ \A e \in DOMAIN p : e # c => ReasonSet(p, c, f, due, x)[e] = p[e]
           /\ MachineFits(ReasonSet(p, c, f, due, x)[c])
           /\ DOMAIN ReasonSet(p, c, f, due, x)[c].rules = DOMAIN p[c].rules
           /\ \A g \in DOMAIN p[c].rules :
                g # f => ReasonSet(p, c, f, due, x)[c].rules[g] = p[c].rules[g]
           /\ f \in DOMAIN p[c].rules => ReasonSet(p, c, f, due, x)[c].rules[f].reason = x
  <1> DEFINE q == ReasonSet(p, c, f, due, x)
  <1>1. DOMAIN p[c] = {"type", "anchor", "document", "rules"}
        /\ \A g \in DOMAIN p[c].rules : DOMAIN p[c].rules[g] = RuleFields
      BY DEF MachineFits
  <1>2. DOMAIN q = DOMAIN p /\ \A e \in DOMAIN p : e # c => q[e] = p[e]
      BY DEF ReasonSet
  <1>3. DOMAIN q[c] = DOMAIN p[c] /\ q[c].type = p[c].type /\ q[c].document = p[c].document
      BY <1>1 DEF ReasonSet
  <1>4. /\ DOMAIN q[c].rules = DOMAIN p[c].rules
        /\ \A g \in DOMAIN p[c].rules : g # f => q[c].rules[g] = p[c].rules[g]
      BY <1>1 DEF ReasonSet
  <1>5. f \in DOMAIN p[c].rules =>
          q[c].rules[f] = [[p[c].rules[f] EXCEPT !.due = due] EXCEPT !.reason = x]
      BY <1>1 DEF ReasonSet
  <1> HIDE DEF q
  <1>6. f \in DOMAIN p[c].rules => DOMAIN q[c].rules[f] = RuleFields /\ q[c].rules[f].reason = x
      BY <1>1, <1>5 DEF RuleFields
  <1>7. MachineFits(q[c])
      BY <1>1, <1>3, <1>4, <1>6 DEF MachineFits
  <1> QED BY <1>2, <1>4, <1>6, <1>7 DEF q

(* The same for a completion.                                       *)
CompletionSet(p, c, f, due, x) == [p EXCEPT ![c].rules[f].due = due, ![c].rules[f].completed = x]

LEMMA CompletionWritten ==
    ASSUME NEW p, NEW c \in DOMAIN p, MachineFits(p[c]), NEW f, NEW due, NEW x
    PROVE  /\ DOMAIN CompletionSet(p, c, f, due, x) = DOMAIN p
           /\ \A e \in DOMAIN p : e # c => CompletionSet(p, c, f, due, x)[e] = p[e]
           /\ MachineFits(CompletionSet(p, c, f, due, x)[c])
           /\ DOMAIN CompletionSet(p, c, f, due, x)[c].rules = DOMAIN p[c].rules
           /\ \A g \in DOMAIN p[c].rules :
                g # f => CompletionSet(p, c, f, due, x)[c].rules[g] = p[c].rules[g]
           /\ f \in DOMAIN p[c].rules => CompletionSet(p, c, f, due, x)[c].rules[f].completed = x
  <1> DEFINE q == CompletionSet(p, c, f, due, x)
  <1>1. DOMAIN p[c] = {"type", "anchor", "document", "rules"}
        /\ \A g \in DOMAIN p[c].rules : DOMAIN p[c].rules[g] = RuleFields
      BY DEF MachineFits
  <1>2. DOMAIN q = DOMAIN p /\ \A e \in DOMAIN p : e # c => q[e] = p[e]
      BY DEF CompletionSet
  <1>3. DOMAIN q[c] = DOMAIN p[c] /\ q[c].type = p[c].type /\ q[c].document = p[c].document
      BY <1>1 DEF CompletionSet
  <1>4. /\ DOMAIN q[c].rules = DOMAIN p[c].rules
        /\ \A g \in DOMAIN p[c].rules : g # f => q[c].rules[g] = p[c].rules[g]
      BY <1>1 DEF CompletionSet
  <1>5. f \in DOMAIN p[c].rules =>
          q[c].rules[f] = [[p[c].rules[f] EXCEPT !.due = due] EXCEPT !.completed = x]
      BY <1>1 DEF CompletionSet
  <1> HIDE DEF q
  <1>6. f \in DOMAIN p[c].rules => DOMAIN q[c].rules[f] = RuleFields /\ q[c].rules[f].completed = x
      BY <1>1, <1>5 DEF RuleFields
  <1>7. MachineFits(q[c])
      BY <1>1, <1>3, <1>4, <1>6 DEF MachineFits
  <1> QED BY <1>2, <1>4, <1>6, <1>7 DEF q

(* The importer writes a date: never of a rule that was decided.           *)
LEMMA ImportWritesDate ==
    ASSUME ImportInv, setDueDate
    PROVE  /\ KeepsDecisions(plant') /\ UNCHANGED <<touches, decided>>
           /\ DOMAIN imp' = ImpFields /\ DecisionsWereRead'
  <1>1. imp.step = "put" /\ UNCHANGED <<touches, decided>>
      BY DEF setDueDate, At
  <1>2. PICK f \in imp.todo :
          LET next == [imp EXCEPT !.todo = @ \ {f}] IN
          \/ /\ MayWrite(Row, f)
             /\ Write("put", Adjusted(Row.code, f, plannedDueDates(Row)[f], wantedReason(Row, f)), next)
          \/ imp' = next /\ UNCHANGED plant
      BY DEF setDueDate
  <1> DEFINE next == [imp EXCEPT !.todo = @ \ {f}]
             c == Row.code
             p == Adjusted(c, f, plannedDueDates(Row)[f], wantedReason(Row, f))
  <1>3. /\ DOMAIN next = ImpFields /\ next.rules = imp.rules
        /\ next.sheet = imp.sheet /\ next.row = imp.row
      BY DEF ImportInv, ImpFields
  <1> HIDE DEF next
  <1>4. ASSUME imp' = next PROVE DecisionsWereRead'
    <2>1. Row' = Row
        BY <1>3, <1>4 DEF Row
    <2>2. ASSUME NEW d \in decided', d[1] = Row'.code
          PROVE  d[2] \in DOMAIN imp'.rules /\ SettledRule(imp'.rules[d[2]])
      <3>1. d \in decided /\ d[1] = Row.code
          BY <1>1, <2>1, <2>2
      <3>2. d[2] \in DOMAIN imp.rules /\ SettledRule(imp.rules[d[2]])
          BY <1>1, <3>1 DEF ImportInv, DecisionsWereRead
      <3> QED BY <1>3, <1>4, <3>2
    <2> QED BY <2>2 DEF DecisionsWereRead, SettledRule, HandMoved
  <1>5. CASE imp' = next /\ UNCHANGED plant
      BY <1>1, <1>3, <1>4, <1>5, PlantKept
  <1>6. CASE MayWrite(Row, f) /\ Write("put", p, next)
    <2>1. \A d \in decided : d[1] = c => d[2] # f
      <3>1. ~SettledRule(imp.rules[f])
          BY <1>6 DEF MayWrite, SettledRule
      <3> QED BY <1>1, <3>1 DEF ImportInv, DecisionsWereRead
    <2>2. DOMAIN plant = MachineCodes /\ \A e \in MachineCodes : MachineFits(plant[e])
      BY DEF ImportInv, PlantFits
    <2>3. \A d \in decided : d[1] \in MachineCodes /\ d[2] \in DOMAIN plant[d[1]].rules
        BY DEF ImportInv, DecisionsStand
    <2>4. DOMAIN p = MachineCodes /\ \A e \in MachineCodes : e # c => p[e] = plant[e]
        BY <2>2 DEF Adjusted
    <2>0. p = ReasonSet(plant, c, f, plannedDueDates(Row)[f], wantedReason(Row, f))
        BY Zenon DEF Adjusted, ReasonSet
    <2>5. c \in MachineCodes =>
            /\ MachineFits(p[c]) /\ DOMAIN p[c].rules = DOMAIN plant[c].rules
            /\ \A g \in DOMAIN plant[c].rules : g # f => p[c].rules[g] = plant[c].rules[g]
      <3> HIDE DEF p, c
      <3> QED BY <2>0, <2>2, ReasonWritten
    <2> HIDE DEF p, c
    <2>6. KeepsDecisions(p)
      <3>1. \A e \in MachineCodes : MachineFits(p[e])
          BY <2>2, <2>4, <2>5
      <3>2. ASSUME NEW d \in decided
            PROVE  p[d[1]].rules[d[2]] = plant[d[1]].rules[d[2]] /\ d[2] \in DOMAIN p[d[1]].rules
        <4>1. CASE d[1] = c
            BY <2>1, <2>3, <2>5, <4>1
        <4>2. CASE d[1] # c
            BY <2>3, <2>4, <4>2
        <4> QED BY <4>1, <4>2
      <3> QED BY <2>4, <3>1, <3>2 DEF KeepsDecisions
    <2> QED BY <1>1, <1>3, <1>4, <1>6, <2>6, WriteEnds
  <1> QED BY <1>2, <1>5, <1>6, Zenon DEF next, p, c

(* A run begins: it notes what is decided. *)
LEMMA ImportBegins ==
    ASSUME ImportInv, runImport
    PROVE  ImportInv' /\ plant' = plant
  <1>1. UNCHANGED <<plant, touches>>
      BY DEF runImport
  <1>2. DOMAIN imp' = ImpFields /\ imp'.step = "row"
    <2>1. PICK sheet, apply :
            imp' = [Idle EXCEPT !.step = "row", !.sheet = sheet, !.row = 1, !.apply = apply]
        BY Zenon DEF runImport
    <2> QED BY <2>1, ImpFacts DEF ImpFields
  <1>3. DecisionsStand'
    <2>1. /\ decided' \subseteq MachineCodes \X ImportFrequencies
          /\ \A d \in decided' :
               /\ d[2] \in DOMAIN plant[d[1]].rules
               /\ HandMoved(plant[d[1]].rules[d[2]]) \/ plant[d[1]].rules[d[2]].completed
        BY Zenon DEF runImport
    <2> QED BY <1>1, <2>1, Zenon DEF DecisionsStand, SettledRule, HandMoved
  <1>4. DecisionsWereRead'
      BY <1>2, NotWriting
  <1> QED BY <1>1, <1>2, <1>3, <1>4 DEF ImportInv, PlantFits, MachineFits

(* Other people's steps: they may decide more, and undo no decision. *)
DecidesMore(p) ==
  /\ DOMAIN p = MachineCodes
  /\ \A c \in MachineCodes : MachineFits(p[c])
  /\ \A d \in decided : d[2] \in DOMAIN p[d[1]].rules /\ SettledRule(p[d[1]].rules[d[2]])

LEMMA KeepingIsEnough ==
    ASSUME ImportInv, NEW p, KeepsDecisions(p)
    PROVE  DecidesMore(p)
  BY DEF ImportInv, DecisionsStand, KeepsDecisions, DecidesMore

LEMMA TouchKeeps ==
    ASSUME ImportInv, Touch, DecidesMore(plant')
    PROVE  ImportInv' /\ touches' # touches
  <1>1. touches' = touches + 1 /\ UNCHANGED <<imp, decided>> /\ touches \in Nat
      BY DEF Touch, ImportInv
  <1>2. PlantFits'
      BY DEF DecidesMore, PlantFits, MachineFits
  <1>3. DecisionsStand'
      BY <1>1 DEF DecidesMore, ImportInv, DecisionsStand, SettledRule, HandMoved
  <1>4. DecisionsWereRead'
      BY <1>1 DEF ImportInv, DecisionsWereRead, Row, SettledRule, HandMoved
  <1> QED BY <1>1, <1>2, <1>3, <1>4 DEF ImportInv

LEMMA PeopleRegister ==
    ASSUME ImportInv, machineRegistered
    PROVE  Touch /\ DecidesMore(plant')
  <1>1. PICK c \in MachineCodes \ Registered, t \in KnownTypes : plant' = WithMachine(c, t, 0)
      BY DEF machineRegistered
  <1> DEFINE m == [NoMachine EXCEPT !.type = t, !.anchor = 0]
  <1>2. MachineFits(m)
    <2>1. /\ DOMAIN m = {"type", "anchor", "document", "rules"}
          /\ m.document = "none" /\ DOMAIN m.rules = {}
        BY DEF NoMachine
    <2> HIDE DEF m
    <2> QED BY <2>1 DEF MachineFits
  <1>3. \A d \in decided : d[1] # c
      BY <1>1 DEF Registered, ImportInv, PlantFits, MachineFits, DecisionsStand
  <1>4. plant' = [plant EXCEPT ![c] = m]
      BY <1>1 DEF WithMachine
  <1> HIDE DEF m
  <1>5. KeepsDecisions(plant')
      BY <1>2, <1>3, <1>4, MachineWritten
  <1> QED BY <1>5, KeepingIsEnough DEF machineRegistered

LEMMA PeopleAttach ==
    ASSUME ImportInv, plannerAttaches
    PROVE  Touch /\ DecidesMore(plant')
  <1>1. PICK c \in Registered : plant' = WithDocument(c)
      BY DEF plannerAttaches
  <1> DEFINE m == [plant[c] EXCEPT !.document = plant[c].type]
  <1>2. MachineFits(plant[c])
      BY DEF ImportInv, PlantFits, Registered
  <1>3. MachineFits(m) /\ m.rules = plant[c].rules
      BY <1>2 DEF MachineFits
  <1>4. plant' = [plant EXCEPT ![c] = m]
      BY <1>1 DEF WithDocument
  <1>5. \A d \in decided : d[2] \in DOMAIN plant[d[1]].rules
      BY DEF ImportInv, DecisionsStand
  <1> HIDE DEF m
  <1>6. KeepsDecisions(plant')
      BY <1>3, <1>4, <1>5, MachineWritten
  <1> QED BY <1>6, KeepingIsEnough DEF plannerAttaches

LEMMA SweepKeeps ==
    ASSUME ImportInv, sweepBootstraps
    PROVE  Touch /\ DecidesMore(plant')
  <1>1. plant' = [c \in MachineCodes |-> RulesEnsured(plant[c])]
      BY DEF sweepBootstraps
  <1>2. DOMAIN plant' = MachineCodes /\ \A c \in MachineCodes : plant'[c] = RulesEnsured(plant[c])
      BY <1>1
  <1>3. \A c \in MachineCodes : MachineFits(plant[c])
      BY DEF ImportInv, PlantFits
  <1>4. \A d \in decided : d[1] \in MachineCodes /\ d[2] \in DOMAIN plant[d[1]].rules
      BY DEF ImportInv, DecisionsStand
  <1>5. KeepsDecisions(plant')
      BY <1>2, <1>3, <1>4, EnsuredRules DEF KeepsDecisions
  <1> QED BY <1>5, KeepingIsEnough DEF sweepBootstraps

(* A planner moves a date by hand, or a visit is completed. *)
LEMMA PeopleDecide ==
    ASSUME ImportInv, plannerMoves \/ visitCompleted
    PROVE  Touch /\ DecidesMore(plant')
  <1>1. Touch
      BY DEF plannerMoves, visitCompleted
  <1>2. PICK c \in Registered : \E f \in DOMAIN plant[c].rules : \E due :
          \/ plant' = ReasonSet(plant, c, f, due, <<"by hand", 0>>)
          \/ plant' = CompletionSet(plant, c, f, due, TRUE)
      BY Zenon DEF plannerMoves, visitCompleted, Adjusted, ReasonSet, CompletionSet
  <1>3. PICK f \in DOMAIN plant[c].rules : \E due :
          \/ plant' = ReasonSet(plant, c, f, due, <<"by hand", 0>>)
          \/ plant' = CompletionSet(plant, c, f, due, TRUE)
      BY <1>2, Zenon
  <1>4. /\ c \in MachineCodes /\ DOMAIN plant = MachineCodes
        /\ \A e \in MachineCodes : MachineFits(plant[e])
      BY DEF Registered, ImportInv, PlantFits
  <1> DEFINE Moved(p) ==
               /\ DOMAIN p = MachineCodes /\ \A e \in MachineCodes : e # c => p[e] = plant[e]
               /\ MachineFits(p[c]) /\ DOMAIN p[c].rules = DOMAIN plant[c].rules
               /\ \A g \in DOMAIN plant[c].rules : g # f => p[c].rules[g] = plant[c].rules[g]
               /\ SettledRule(p[c].rules[f])
  <1>5. ASSUME NEW due PROVE Moved(ReasonSet(plant, c, f, due, <<"by hand", 0>>))
    <2>0. PICK why : why = <<"by hand", 0>> /\ why[1] = "by hand"
      <3>1. \A a, b : <<a, b>>[1] = a
          OBVIOUS
      <3> QED BY <3>1, Zenon
    <2> DEFINE p == ReasonSet(plant, c, f, due, why)
    <2>1. /\ DOMAIN p = MachineCodes /\ \A e \in MachineCodes : e # c => p[e] = plant[e]
          /\ MachineFits(p[c]) /\ DOMAIN p[c].rules = DOMAIN plant[c].rules
          /\ \A g \in DOMAIN plant[c].rules : g # f => p[c].rules[g] = plant[c].rules[g]
          /\ p[c].rules[f].reason = why
        BY <1>4, ReasonWritten
    <2> HIDE DEF p
    <2>2. HandMoved(p[c].rules[f])
        BY <2>0, <2>1 DEF HandMoved
    <2>3. Moved(p)
        BY <2>1, <2>2, Zenon DEF SettledRule
    <2> QED BY <2>0, <2>3 DEF p
  <1>6. ASSUME NEW due PROVE Moved(CompletionSet(plant, c, f, due, TRUE))
    <2> DEFINE p(x) == CompletionSet(plant, c, f, due, x)
    <2>1. \A x :
          /\ DOMAIN p(x) = MachineCodes /\ \A e \in MachineCodes : e # c => p(x)[e] = plant[e]
          /\ MachineFits(p(x)[c]) /\ DOMAIN p(x)[c].rules = DOMAIN plant[c].rules
          /\ \A g \in DOMAIN plant[c].rules : g # f => p(x)[c].rules[g] = plant[c].rules[g]
          /\ p(x)[c].rules[f].completed = x
        BY <1>4, CompletionWritten
    <2> HIDE DEF p
    <2>2. SettledRule(p(TRUE)[c].rules[f])
        BY <2>1, Zenon DEF SettledRule
    <2>3. Moved(p(TRUE))
        BY <2>1, <2>2, Zenon
    <2> QED BY <2>3, Zenon DEF p
  <1>7. Moved(plant')
      BY <1>3, <1>5, <1>6, Zenon
  <1>8. \A d \in decided : /\ d[1] \in MachineCodes /\ d[2] \in DOMAIN plant[d[1]].rules
                           /\ SettledRule(plant[d[1]].rules[d[2]])
      BY DEF ImportInv, DecisionsStand
  <1>9. \A e \in MachineCodes : MachineFits(plant'[e])
      BY <1>4, <1>7
  <1>10. ASSUME NEW d \in decided
         PROVE  d[2] \in DOMAIN plant'[d[1]].rules /\ SettledRule(plant'[d[1]].rules[d[2]])
    <2>1. CASE d[1] # c
        BY <1>7, <1>8, <2>1
    <2>2. CASE d[1] = c /\ d[2] # f
        BY <1>7, <1>8, <2>2
    <2>3. CASE d[1] = c /\ d[2] = f
        BY <1>7, <1>8, <2>3
    <2> QED BY <2>1, <2>2, <2>3
  <1> QED BY <1>1, <1>7, <1>9, <1>10 DEF DecidesMore

(* A re-run of the masterlist importer never moves a date that a planner   *)
(* had moved by hand, or whose visit had been completed, before the run    *)
(* began (import.ts, step 8): for any workbook, any number of runs and     *)
(* failures, and whatever people and the sweep do between its calls.       *)
THEOREM DecisionsSurvive == ImportSpec => DecisionsSurviveImport
  <1>1. ImportInit => ImportInv
    <2> SUFFICES ASSUME ImportInit PROVE ImportInv
        OBVIOUS
    <2>1. plant = [c \in MachineCodes |-> NoMachine] /\ imp = Idle /\ touches = 0 /\ decided = {}
        BY DEF ImportInit
    <2>2. MachineFits(NoMachine)
      <3>1. /\ DOMAIN NoMachine = {"type", "anchor", "document", "rules"}
            /\ NoMachine.document = "none" /\ DOMAIN NoMachine.rules = {}
          BY DEF NoMachine
      <3> QED BY <3>1 DEF MachineFits
    <2>3. DOMAIN imp = ImpFields /\ imp.step = "off"
      <3>1. \A a, b, c, d, e, f, g, h, i :
              LET r == [step |-> a, sheet |-> b, row |-> c, apply |-> d, ofType |-> e, all |-> f,
                        rules |-> g, todo |-> h, banner |-> i]
              IN  DOMAIN r = ImpFields /\ r.step = a
          BY DEF ImpFields
      <3> QED BY <2>1, <3>1, Zenon DEF Idle
    <2> QED BY <2>1, <2>2, <2>3 DEF ImportInv, PlantFits, DecisionsStand, DecisionsWereRead
  <1> DEFINE Kept == touches' = touches =>
                       \A d \in decided : plant'[d[1]].rules[d[2]] = plant[d[1]].rules[d[2]]
  <1>2. ImportInv /\ [ImportNext]_importVars => ImportInv' /\ Kept
    <2> SUFFICES ASSUME ImportInv, [ImportNext]_importVars PROVE ImportInv' /\ Kept
        OBVIOUS
    <2>1. CASE processRow \/ processUnmapped \/ processMapped \/ findTemplate
               \/ rowImported \/ reportImport
        BY <2>1, ImportReads, PlantKept, ImportStepKeeps
    <2>2. CASE createAsset
        BY <2>2, ImportRegisters, ImportStepKeeps
    <2>3. CASE attachDocument
        BY <2>3, ImportAttaches, ImportStepKeeps
    <2>4. CASE readSchedule
        BY <2>4, ImportReadsSchedule, ImportStepKeeps
    <2>5. CASE setDueDate
        BY <2>5, ImportWritesDate, ImportStepKeeps
    <2>6. CASE runImport
        BY <2>6, ImportBegins
    <2>7. CASE machineRegistered
        BY <2>7, PeopleRegister, TouchKeeps
    <2>8. CASE plannerAttaches
        BY <2>8, PeopleAttach, TouchKeeps
    <2>9. CASE sweepBootstraps
        BY <2>9, SweepKeeps, TouchKeeps
    <2>10. CASE plannerMoves \/ visitCompleted
        BY <2>10, PeopleDecide, TouchKeeps
    <2>11. CASE UNCHANGED importVars
      <3>1. UNCHANGED <<plant, imp, touches, decided>>
          BY <2>11 DEF importVars
      <3> QED BY <3>1 DEF ImportInv, PlantFits, MachineFits, DecisionsStand, DecisionsWereRead,
                          Row, SettledRule, HandMoved
    <2> QED BY <2>1, <2>2, <2>3, <2>4, <2>5, <2>6, <2>7, <2>8, <2>9, <2>10, <2>11 DEF ImportNext
  <1> QED BY <1>1, <1>2, PTL DEF ImportSpec, DecisionsSurviveImport

-----------------------------------------------------------------------------
(* The template loader.                                                    *)

RowShape == {"code", "status", "author", "content"}

IsContent(c) == c = [x \in Parts |-> c[x]]

(* Rows the loader wrote: nothing rejects them.                            *)
LoadedRow(row) ==
  /\ DOMAIN row = RowShape /\ IsContent(row.content)
  /\ row.status \in RevisionStatuses \ {"rejected"}

RowsFit ==
  /\ \E S : revisions \in Seq(S)
  /\ \A i \in DOMAIN revisions : LoadedRow(revisions[i])

(* The rows are the plan's, from its first revision on.                    *)
FollowsPlan(rows) ==
  /\ Len(rows) <= Len(Plan)
  /\ \A i \in DOMAIN rows : rows[i].code = contractTrim(Plan[i])

(* The last revision of the plan, or a correction of it, is current.       *)
FinalIsCurrent ==
  \E i \in CurrentOf(revisions) : revisions[i].code = contractTrim(FinalCode)

Loaded ==
  \E i \in CurrentOf(revisions) :
    revisions[i].content = Yaml[yaml] /\ revisions[i].code = contractTrim(FinalCode)

Planning == load.step \in {"plan", "calls, then plan"}
Correcting == load.step \in {"correct", "calls, then finish"}

LoadSteps == {"stopped", "template", "list", "plan", "correct", "calls, then plan",
              "calls, then finish", "finish", "done"}
LoaderCalls == Parts \cup {"no items", "no measurements", "submit", "approve"}

LoaderFits ==
  /\ DOMAIN load = {"step", "index", "rev", "calls", "action"}
  /\ load.step \in LoadSteps
  /\ load.calls \in Seq(LoaderCalls)
  /\ load.index \in Nat

(* What the loader starts from, at any moment it may die.                  *)
PlanOrFinal == FollowsPlan(revisions) \/ FinalIsCurrent

(* In the plan, the rows of the database are the listed ones and the ones  *)
(* it has made since.                                                      *)
PlanProceeds ==
  Planning =>
    /\ FollowsPlan(revisions) /\ FollowsPlan(existing)
    /\ \E S : existing \in Seq(S)
    /\ \A i \in DOMAIN existing : existing[i].status # "rejected"
    /\ load.index >= 1 /\ load.index <= Len(Plan) + 1
    /\ load.step = "plan" =>
         IF load.index > Len(existing) THEN Len(revisions) = load.index - 1
         ELSE Len(revisions) = Len(existing)
    /\ load.step = "calls, then plan" =>
         /\ load.rev = load.index /\ load.index <= Len(Plan) /\ load.index \in DOMAIN revisions
         /\ IF load.index > Len(existing) THEN Len(revisions) = load.index
            ELSE Len(revisions) = Len(existing)

CorrectionProceeds ==
  Correcting =>
    /\ FinalIsCurrent
    /\ load.step = "calls, then finish" =>
         load.rev \in DOMAIN revisions /\ revisions[load.rev].code = contractTrim(FinalCode)

(* A revision that is given its content: the calls that are left end with  *)
(* the approval, and a part none of them writes is as the YAML has it.     *)
ContentProceeds ==
  /\ \A n \in DOMAIN load.calls : load.calls[n] \in Parts \cup {"submit", "approve"}
  /\ load.calls # <<>> => load.calls[Len(load.calls)] = "approve"
  /\ load.calls = <<>> => revisions[load.rev].status = "current"
  /\ \A part \in Parts :
       (\A n \in DOMAIN load.calls : load.calls[n] # part) =>
         revisions[load.rev].content[part] = Yaml[yaml][part]

(* A template that is being created has nothing from an earlier run.       *)
TemplateFirst ==
  /\ load.step \notin {"stopped", "template"} => template
  /\ ~template => revisions = <<>>

Creating ==
  /\ load.step = "list" \/ Planning => load.action \in {"created", "resumed"}
  /\ load.step = "list" /\ load.action = "created" => revisions = <<>>
  /\ Planning /\ load.action = "created" => existing = <<>>
  /\ Correcting => load.action = "updated"

ContentFollows ==
  /\ load.step = "calls, then finish" => ContentProceeds
  /\ load.step = "calls, then plan" /\ load.action = "created" /\ load.index = Len(Plan)
       => ContentProceeds
  /\ load.step = "plan" /\ load.action = "created" /\ load.index > Len(Plan) => Loaded
  /\ load.step \in {"finish", "done"} /\ load.action # "resumed" => Loaded

LoadInv ==
  /\ RowsFit /\ LoaderFits /\ PlanOrFinal /\ PlanProceeds /\ CorrectionProceeds
  /\ yaml \in DOMAIN Yaml /\ TemplateFirst /\ Creating /\ ContentFollows

(* Rows after one is written.                                              *)
LEMMA LoadRowWritten ==
    ASSUME RowsFit, NEW i \in DOMAIN revisions, NEW row, LoadedRow(row),
           row.code = revisions[i].code, revisions' = [revisions EXCEPT ![i] = row]
    PROVE  /\ RowsFit' /\ DOMAIN revisions' = DOMAIN revisions /\ Len(revisions') = Len(revisions)
           /\ revisions'[i] = row
           /\ \A j \in DOMAIN revisions : j # i => revisions'[j] = revisions[j]
           /\ \A j \in DOMAIN revisions : revisions'[j].code = revisions[j].code
  <1>1. PICK S : revisions \in Seq(S)
      BY DEF RowsFit
  <1>2. revisions' \in Seq(S \cup {row})
      BY <1>1
  <1>3. /\ DOMAIN revisions' = DOMAIN revisions /\ Len(revisions') = Len(revisions)
        /\ revisions'[i] = row
        /\ \A j \in DOMAIN revisions : j # i => revisions'[j] = revisions[j]
      BY <1>1, <1>2
  <1>4. \A j \in DOMAIN revisions : LoadedRow(revisions'[j])
      BY <1>3 DEF RowsFit
  <1>5. RowsFit'
      BY <1>2, <1>3, <1>4 DEF RowsFit, LoadedRow, IsContent
  <1> QED BY <1>3, <1>5

(* PUT of one part of the content of a draft.                              *)
LEMMA LoadPartWritten ==
    ASSUME RowsFit, NEW i \in DOMAIN revisions, NEW part \in Parts, NEW text,
           revisions' = Replaced(i, part, text)
    PROVE  /\ RowsFit' /\ DOMAIN revisions' = DOMAIN revisions /\ Len(revisions') = Len(revisions)
           /\ \A j \in DOMAIN revisions : /\ revisions'[j].code = revisions[j].code
                                         /\ revisions'[j].status = revisions[j].status
           /\ \A j \in DOMAIN revisions : j # i => revisions'[j] = revisions[j]
           /\ revisions'[i].content[part] = text
           /\ \A p \in Parts : p # part => revisions'[i].content[p] = revisions[i].content[p]
  <1> DEFINE row == [revisions[i] EXCEPT !.content = [revisions[i].content EXCEPT ![part] = text]]
  <1>1. LoadedRow(revisions[i])
      BY DEF RowsFit
  <1>2. revisions' = [revisions EXCEPT ![i] = row]
      BY DEF Replaced
  <1>3. /\ DOMAIN row = RowShape /\ row.code = revisions[i].code /\ row.status = revisions[i].status
        /\ row.content = [revisions[i].content EXCEPT ![part] = text]
      BY <1>1 DEF LoadedRow, RowShape
  <1> HIDE DEF row
  <1>4. /\ IsContent(row.content) /\ row.content[part] = text
        /\ \A p \in Parts : p # part => row.content[p] = revisions[i].content[p]
      BY <1>1, <1>3 DEF LoadedRow, IsContent
  <1>5. LoadedRow(row)
      BY <1>1, <1>3, <1>4 DEF LoadedRow
  <1> QED BY <1>2, <1>3, <1>4, <1>5, LoadRowWritten

(* The submit, as a write of one row.                                      *)
LEMMA LoadSubmitWritten ==
    ASSUME RowsFit, NEW i \in DOMAIN revisions, revisions' = Submitted(i)
    PROVE  /\ RowsFit' /\ DOMAIN revisions' = DOMAIN revisions /\ Len(revisions') = Len(revisions)
           /\ \A j \in DOMAIN revisions : /\ revisions'[j].code = revisions[j].code
                                         /\ revisions'[j].content = revisions[j].content
           /\ \A j \in DOMAIN revisions : j # i => revisions'[j] = revisions[j]
           /\ revisions'[i].status = "pending_approval"
  <1> DEFINE row == [revisions[i] EXCEPT !.status = "pending_approval"]
  <1>1. LoadedRow(revisions[i])
      BY DEF RowsFit
  <1>2. revisions' = [revisions EXCEPT ![i] = row]
      BY DEF Submitted
  <1>3. /\ DOMAIN row = RowShape /\ row.code = revisions[i].code
        /\ row.status = "pending_approval" /\ row.content = revisions[i].content
      BY <1>1 DEF LoadedRow, RowShape
  <1> HIDE DEF row
  <1>4. LoadedRow(row)
      BY <1>1, <1>3 DEF LoadedRow, RevisionStatuses
  <1> QED BY <1>2, <1>3, <1>4, LoadRowWritten

(* The approval makes one row current and supersedes the others.           *)
LEMMA LoadApproveWritten ==
    ASSUME RowsFit, NEW i \in DOMAIN revisions, revisions' = Approved(i)
    PROVE  /\ RowsFit' /\ DOMAIN revisions' = DOMAIN revisions /\ Len(revisions') = Len(revisions)
           /\ \A j \in DOMAIN revisions : /\ revisions'[j].code = revisions[j].code
                                         /\ revisions'[j].content = revisions[j].content
           /\ revisions'[i].status = "current"
  <1>1. PICK S : revisions \in Seq(S)
      BY DEF RowsFit
  <1> DEFINE row(j) == [revisions[j] EXCEPT !.status = IF j = i THEN "current"
                                        ELSE IF @ = "current" THEN "superseded" ELSE @]
  <1>2. revisions' = [j \in DOMAIN revisions |-> row(j)]
      BY DEF Approved, Ordinals
  <1>3. ASSUME NEW j \in DOMAIN revisions
        PROVE  /\ LoadedRow(row(j)) /\ row(j).code = revisions[j].code
               /\ row(j).content = revisions[j].content
               /\ j = i => row(j).status = "current"
    <2>1. LoadedRow(revisions[j])
        BY DEF RowsFit
    <2>2. DOMAIN row(j) = RowShape /\ row(j).code = revisions[j].code
          /\ row(j).content = revisions[j].content
          /\ row(j).status = IF j = i THEN "current"
               ELSE IF revisions[j].status = "current" THEN "superseded" ELSE revisions[j].status
        BY <2>1 DEF LoadedRow, RowShape
    <2> HIDE DEF row
    <2> QED BY <2>1, <2>2 DEF LoadedRow, RevisionStatuses
  <1> HIDE DEF row
  <1>4. DOMAIN revisions' = DOMAIN revisions /\ \A j \in DOMAIN revisions : revisions'[j] = row(j)
      BY <1>2
  <1>5. revisions' \in Seq({row(j) : j \in DOMAIN revisions}) /\ Len(revisions') = Len(revisions)
    <2>1. DOMAIN revisions = 1 .. Len(revisions) /\ Len(revisions) \in Nat
        BY <1>1
    <2>2. revisions' \in [1 .. Len(revisions) -> {row(j) : j \in DOMAIN revisions}]
        BY <1>2, <2>1
    <2> QED BY <2>1, <2>2
  <1>6. RowsFit'
      BY <1>3, <1>4, <1>5 DEF RowsFit, LoadedRow, IsContent
  <1> QED BY <1>3, <1>4, <1>5, <1>6

(* POST of a revision.                                                     *)
LEMMA LoadRowCreated ==
    ASSUME RowsFit, NEW code, revisions' = Created(code, Author, CopiedContent)
    PROVE  /\ RowsFit' /\ Len(revisions') = Len(revisions) + 1
           /\ Len(revisions) \in Nat
           /\ DOMAIN revisions = 1 .. Len(revisions) /\ DOMAIN revisions' = 1 .. Len(revisions')
           /\ \A j \in DOMAIN revisions : revisions'[j] = revisions[j]
           /\ revisions'[Len(revisions')].code = contractTrim(code)
           /\ revisions'[Len(revisions')].status = "draft"
  <1> DEFINE row == [code |-> contractTrim(code), status |-> "draft", author |-> Author,
                     content |-> CopiedContent]
  <1>1. PICK S : revisions \in Seq(S)
      BY DEF RowsFit
  <1>2. IsContent(CopiedContent)
    <2>1. CASE CurrentOf(revisions) = {}
        BY <2>1 DEF CopiedContent, IsContent, Empty
    <2>2. CASE CurrentOf(revisions) # {}
      <3>1. PICK i \in CurrentOf(revisions) : CopiedContent = revisions[i].content
          BY <2>2 DEF CopiedContent
      <3> QED BY <3>1 DEF CurrentOf, RowsFit, LoadedRow
    <2> QED BY <2>1, <2>2
  <1>3. LoadedRow(row) /\ row.code = contractTrim(code) /\ row.status = "draft"
      BY <1>2 DEF LoadedRow, RowShape, RevisionStatuses
  <1>4. revisions' = Append(revisions, row)
      BY DEF Created
  <1> HIDE DEF row
  <1>5. revisions \in Seq(S \cup {row})
      BY <1>1
  <1>6. revisions' \in Seq(S \cup {row})
      BY <1>4, <1>5
  <1>7. /\ Len(revisions') = Len(revisions) + 1 /\ Len(revisions) \in Nat
        /\ DOMAIN revisions = 1 .. Len(revisions) /\ DOMAIN revisions' = 1 .. Len(revisions')
        /\ \A j \in DOMAIN revisions : revisions'[j] = revisions[j]
        /\ revisions'[Len(revisions')] = row
      BY <1>4, <1>5, <1>6
  <1>8. \A j \in DOMAIN revisions' : LoadedRow(revisions'[j])
      BY <1>3, <1>7 DEF RowsFit
  <1>9. RowsFit'
      BY <1>6, <1>8 DEF RowsFit, LoadedRow, IsContent
  <1> QED BY <1>3, <1>7, <1>9

(* What a step that touches neither rows nor YAML keeps.                   *)
LEMMA LoadRowsUnmoved ==
    ASSUME LoadInv, UNCHANGED <<revisions, yaml>>
    PROVE  /\ RowsFit' /\ PlanOrFinal' /\ yaml' \in DOMAIN Yaml
           /\ FinalIsCurrent' <=> FinalIsCurrent
           /\ Loaded' <=> Loaded
  <1>1. FinalIsCurrent' <=> FinalIsCurrent
      BY DEF FinalIsCurrent, CurrentOf
  <1>2. Loaded' <=> Loaded
      BY DEF Loaded, CurrentOf
  <1>3. RowsFit'
      BY DEF LoadInv, RowsFit, LoadedRow, IsContent
  <1>4. PlanOrFinal'
      BY <1>1 DEF LoadInv, PlanOrFinal, FollowsPlan
  <1> QED BY <1>1, <1>2, <1>3, <1>4 DEF LoadInv

(* The starting states.                                                    *)
LEMMA LoadInitHolds == LoadInit => LoadInv
  <1> SUFFICES ASSUME LoadInit PROVE LoadInv
      OBVIOUS
  <1>1. revisions = <<>> /\ load = NotRunning /\ yaml = 1
      BY DEF LoadInit, RevisionsInit
  <1>2. RowsFit /\ PlanOrFinal
      BY <1>1, TemplateLoadAssumption DEF RowsFit, PlanOrFinal, FollowsPlan
  <1>3. LoaderFits
      BY <1>1 DEF LoaderFits, NotRunning, LoadSteps
  <1>4. load.step = "stopped"
      BY <1>1 DEF NotRunning
  <1>5. PlanProceeds /\ CorrectionProceeds /\ Creating /\ ContentFollows
      BY <1>4 DEF PlanProceeds, CorrectionProceeds, Creating, ContentFollows, Planning, Correcting
  <1>6. yaml \in DOMAIN Yaml
      BY <1>1, TemplateLoadAssumption
  <1>7. TemplateFirst
      BY <1>1, <1>4, Zenon DEF TemplateFirst
  <1> QED BY <1>2, <1>3, <1>5, <1>6, <1>7 DEF LoadInv

(* A loader that is not at work on the rows.                               *)
LEMMA LoadAtRest ==
    ASSUME LoadInv, load' = [NotRunning EXCEPT !.step = "template"] \/ load' = NotRunning \/ load' = load,
           load'.step \in {"stopped", "template"}
    PROVE  /\ LoaderFits' /\ PlanProceeds' /\ CorrectionProceeds' /\ Creating' /\ ContentFollows'
  <1>1. LoaderFits'
    <2>1. CASE load' = load
        BY <2>1 DEF LoadInv, LoaderFits
    <2>2. CASE load' = NotRunning
        BY <2>2 DEF LoaderFits, NotRunning, LoadSteps
    <2>3. CASE load' = [NotRunning EXCEPT !.step = "template"]
        BY <2>3 DEF LoaderFits, NotRunning, LoadSteps
    <2> QED BY <2>1, <2>2, <2>3
  <1> QED BY <1>1 DEF PlanProceeds, CorrectionProceeds, Creating, ContentFollows, Planning, Correcting

(* A run starts.                                                           *)
LEMMA LoadRun == ASSUME LoadInv, runLoad PROVE LoadInv'
  <1>1. load' = [NotRunning EXCEPT !.step = "template"] /\ load'.step = "template"
      BY DEF runLoad, NotRunning
  <1>2. UNCHANGED <<revisions, yaml>> /\ UNCHANGED template
      BY DEF runLoad
  <1>3. TemplateFirst'
      BY <1>1, <1>2, Zenon DEF TemplateFirst, LoadInv
  <1> QED BY <1>1, <1>2, <1>3, LoadAtRest, LoadRowsUnmoved DEF LoadInv

(* A run ends or dies.                                                     *)
LEMMA LoadStops == ASSUME LoadInv, LoaderStops PROVE LoadInv'
  <1>1. load' = NotRunning /\ load'.step = "stopped"
      BY DEF LoaderStops, NotRunning
  <1>2. UNCHANGED <<revisions, yaml>> /\ UNCHANGED template
      BY DEF LoaderStops
  <1>3. TemplateFirst'
      BY <1>1, <1>2, Zenon DEF TemplateFirst, LoadInv
  <1> QED BY <1>1, <1>2, <1>3, LoadAtRest, LoadRowsUnmoved DEF LoadInv

(* The YAML is corrected between two runs.                                 *)
LEMMA LoadCorrected == ASSUME LoadInv, YamlCorrected PROVE LoadInv'
  <1>1. load' = load /\ load'.step = "stopped" /\ load.step = "stopped"
      BY DEF YamlCorrected, Running
  <1>2. revisions' = revisions /\ UNCHANGED template
      BY DEF YamlCorrected
  <1>3. TemplateFirst'
      BY <1>1, <1>2, Zenon DEF TemplateFirst, LoadInv
  <1>4. yaml' \in DOMAIN Yaml
      BY TemplateLoadAssumption DEF YamlCorrected, LoadInv
  <1>5. FinalIsCurrent' <=> FinalIsCurrent
      BY <1>2 DEF FinalIsCurrent, CurrentOf
  <1>6. RowsFit' /\ PlanOrFinal'
      BY <1>2, <1>5 DEF LoadInv, RowsFit, LoadedRow, IsContent, PlanOrFinal, FollowsPlan
  <1> QED BY <1>1, <1>3, <1>4, <1>6, LoadAtRest DEF LoadInv

(* POST of the template, or its row found.                                 *)
LEMMA LoadCreatesTemplate == ASSUME LoadInv, loadTemplate PROVE LoadInv'
  <1>1. UNCHANGED <<revisions, yaml>>
      BY DEF loadTemplate
  <1>2. load.step = "template" /\ load'.step = "list" /\ load'.calls = load.calls
        /\ load'.index = load.index /\ DOMAIN load' = DOMAIN load
        /\ load'.action = IF template THEN "resumed" ELSE "created"
      BY DEF loadTemplate, Running, LoadInv, LoaderFits
  <1>3. load'.action \in {"created", "resumed"}
      BY <1>2, Zenon
  <1>4. load'.action = "created" => revisions' = <<>>
    <2>1. CASE template
        BY <2>1, <1>2
    <2>2. CASE ~template
        BY <2>2, <1>1, Zenon DEF LoadInv, TemplateFirst
    <2> QED BY <2>1, <2>2
  <1>5. TemplateFirst'
      BY Zenon DEF loadTemplate, TemplateFirst
  <1>6. LoaderFits'
      BY <1>2 DEF LoadInv, LoaderFits, LoadSteps
  <1>7. PlanProceeds' /\ CorrectionProceeds' /\ ContentFollows'
      BY <1>2 DEF PlanProceeds, CorrectionProceeds, ContentFollows, Planning, Correcting
  <1>8. Creating'
      BY <1>2, <1>3, <1>4 DEF Creating, Planning, Correcting
  <1> QED BY <1>1, <1>5, <1>6, <1>7, <1>8, LoadRowsUnmoved DEF LoadInv

(* The template stays created.                                             *)
LEMMA LoadTemplateStays ==
    ASSUME LoadInv, template' = template, load.step \notin {"stopped", "template"}
    PROVE  TemplateFirst'
  BY Zenon DEF LoadInv, TemplateFirst

(* The list decides: nothing to do, a correction, or the plan.             *)
LEMMA LoadListed == ASSUME LoadInv, loadDocument PROVE LoadInv'
  <1> DEFINE current == CurrentOf(revisions)
             final == \E i \in current : sameUnderContract(revisions[i].code, FinalCode)
  <1>1. UNCHANGED <<revisions, yaml>> /\ existing' = revisions /\ template' = template
        /\ load.step = "list"
      BY DEF loadDocument, Running
  <1>2. TemplateFirst'
      BY <1>1, LoadTemplateStays
  <1>3. final <=> FinalIsCurrent
      BY DEF FinalIsCurrent, sameUnderContract
  <1>4. CASE /\ final /\ \A i \in current : contentMatches(i)
             /\ load' = [load EXCEPT !.step = "finish", !.action = "unchanged"]
    <2>1. load'.step = "finish" /\ load'.calls = load.calls /\ load'.index = load.index
          /\ DOMAIN load' = DOMAIN load
        BY <1>4 DEF LoadInv, LoaderFits
    <2>2. Loaded
        BY <1>4 DEF Loaded, contentMatches, sameUnderContract
    <2>3. LoaderFits'
        BY <2>1 DEF LoadInv, LoaderFits, LoadSteps
    <2>4. PlanProceeds' /\ CorrectionProceeds' /\ Creating'
        BY <2>1 DEF PlanProceeds, CorrectionProceeds, Creating, Planning, Correcting
    <2>5. Loaded'
        BY <1>1, <2>2, LoadRowsUnmoved
    <2>6. ContentFollows'
        BY <2>1, <2>5 DEF ContentFollows
    <2> QED BY <1>1, <1>2, <2>3, <2>4, <2>6, LoadRowsUnmoved DEF LoadInv
  <1>5. CASE final /\ load' = [load EXCEPT !.step = "correct", !.action = "updated"]
    <2>1. load'.step = "correct" /\ load'.calls = load.calls /\ load'.index = load.index
          /\ load'.action = "updated" /\ DOMAIN load' = DOMAIN load
        BY <1>5 DEF LoadInv, LoaderFits
    <2>2. FinalIsCurrent'
        BY <1>1, <1>3, <1>5, LoadRowsUnmoved
    <2>3. LoaderFits'
        BY <2>1 DEF LoadInv, LoaderFits, LoadSteps
    <2>4. PlanProceeds' /\ CorrectionProceeds' /\ Creating' /\ ContentFollows'
        BY <2>1, <2>2
        DEF PlanProceeds, CorrectionProceeds, Creating, ContentFollows, Planning, Correcting
    <2> QED BY <1>1, <1>2, <2>3, <2>4, LoadRowsUnmoved DEF LoadInv
  <1>6. CASE ~final /\ load' = [load EXCEPT !.step = "plan", !.index = 1]
    <2>1. load'.step = "plan" /\ load'.calls = load.calls /\ load'.index = 1
          /\ load'.action = load.action /\ DOMAIN load' = DOMAIN load
        BY <1>6 DEF LoadInv, LoaderFits
    <2>9. load'.index \in Nat /\ load'.step \in LoadSteps
        BY <2>1 DEF LoadSteps
    <2>10. load'.calls \in Seq(LoaderCalls)
        BY <2>1 DEF LoadInv, LoaderFits
    <2>11. DOMAIN load' = {"step", "index", "rev", "calls", "action"}
        BY <2>1 DEF LoadInv, LoaderFits
    <2>2. LoaderFits'
        BY <2>9, <2>10, <2>11 DEF LoaderFits
    <2>3. FollowsPlan(revisions)
        BY <1>3, <1>6 DEF LoadInv, PlanOrFinal
    <2>4. /\ FollowsPlan(revisions') /\ FollowsPlan(existing')
          /\ \E S : existing' \in Seq(S)
          /\ \A i \in DOMAIN existing' : existing'[i].status # "rejected"
        BY <1>1, <2>3 DEF LoadInv, RowsFit, LoadedRow
    <2>5. Len(revisions) \in Nat /\ Len(Plan) \in Nat /\ Len(Plan) >= 1
        BY TemplateLoadAssumption DEF LoadInv, RowsFit
    <2>6. PlanProceeds'
        BY <1>1, <2>1, <2>4, <2>5 DEF PlanProceeds, Planning
    <2>7. CorrectionProceeds' /\ ContentFollows'
        BY <2>1, <2>5 DEF CorrectionProceeds, ContentFollows, Planning, Correcting
    <2>8. Creating'
        BY <1>1, <2>1 DEF LoadInv, Creating, Planning, Correcting
    <2> QED BY <1>1, <1>2, <2>2, <2>6, <2>7, <2>8, LoadRowsUnmoved DEF LoadInv
  <1>7. \/ /\ final /\ \A i \in current : contentMatches(i)
           /\ load' = [load EXCEPT !.step = "finish", !.action = "unchanged"]
        \/ final /\ load' = [load EXCEPT !.step = "correct", !.action = "updated"]
        \/ ~final /\ load' = [load EXCEPT !.step = "plan", !.index = 1]
      BY DEF loadDocument
  <1> QED BY <1>4, <1>5, <1>6, <1>7

(* The calls a revision is sent.                                           *)
LEMMA LoadCallLists ==
    /\ putContent \o submitAndApprove \in Seq(LoaderCalls)
    /\ emptyContent \o submitAndApprove \in Seq(LoaderCalls)
    /\ approveWithStepUp \in Seq(LoaderCalls)
    /\ Len(putContent \o submitAndApprove) = 5
    /\ (putContent \o submitAndApprove)[1] = "standing"
    /\ (putContent \o submitAndApprove)[2] = "items"
    /\ (putContent \o submitAndApprove)[3] = "measurements"
    /\ (putContent \o submitAndApprove)[4] = "submit"
    /\ (putContent \o submitAndApprove)[5] = "approve"
  <1>1. /\ "standing" \in LoaderCalls /\ "items" \in LoaderCalls /\ "measurements" \in LoaderCalls
        /\ "no items" \in LoaderCalls /\ "no measurements" \in LoaderCalls
        /\ "submit" \in LoaderCalls /\ "approve" \in LoaderCalls
      BY DEF LoaderCalls, Parts
  <1>2. \A S : \A a \in S : <<a>> \in Seq(S) /\ Len(<<a>>) = 1 /\ <<a>>[1] = a
      OBVIOUS
  <1>3. \A S : \A a, b \in S : <<a, b>> \in Seq(S)
      OBVIOUS
  <1>4. \A S : \A a, b, c \in S : /\ <<a, b, c>> \in Seq(S) /\ Len(<<a, b, c>>) = 3
                                  /\ <<a, b, c>>[1] = a /\ <<a, b, c>>[2] = b /\ <<a, b, c>>[3] = c
      OBVIOUS
  <1>5. /\ approveWithStepUp \in Seq(LoaderCalls) /\ Len(approveWithStepUp) = 1
        /\ approveWithStepUp[1] = "approve"
      BY <1>1, <1>2, Zenon DEF approveWithStepUp
  <1>6. PICK first : first = <<"submit">> /\ first \in Seq(LoaderCalls) /\ Len(first) = 1 /\ first[1] = "submit"
      BY <1>1, <1>2, Zenon
  <1>9. submitAndApprove = first \o approveWithStepUp
      BY <1>6, Zenon DEF submitAndApprove
  <1>10. /\ submitAndApprove \in Seq(LoaderCalls) /\ Len(submitAndApprove) = 2
        /\ submitAndApprove[1] = "submit" /\ submitAndApprove[2] = "approve"
      BY <1>5, <1>6, <1>9
  <1>11. /\ putContent \in Seq(LoaderCalls) /\ Len(putContent) = 3 /\ putContent[1] = "standing"
        /\ putContent[2] = "items" /\ putContent[3] = "measurements"
      BY <1>1, <1>4, Zenon DEF putContent
  <1>12. emptyContent \in Seq(LoaderCalls)
      BY <1>1, <1>3, Zenon DEF emptyContent
  <1>7. putContent \o submitAndApprove \in Seq(LoaderCalls)
        /\ emptyContent \o submitAndApprove \in Seq(LoaderCalls)
      BY <1>10, <1>11, <1>12
  <1>13. PICK s, t : s = putContent /\ t = submitAndApprove
      OBVIOUS
  <1>14. /\ s \in Seq(LoaderCalls) /\ Len(s) = 3 /\ t \in Seq(LoaderCalls) /\ Len(t) = 2
         /\ s[1] = "standing" /\ s[2] = "items" /\ s[3] = "measurements"
         /\ t[1] = "submit" /\ t[2] = "approve"
      BY <1>10, <1>11, <1>13, Zenon
  <1>15. /\ Len(s \o t) = 5 /\ (s \o t)[1] = s[1] /\ (s \o t)[2] = s[2] /\ (s \o t)[3] = s[3]
         /\ (s \o t)[4] = t[1] /\ (s \o t)[5] = t[2]
    <2>1. /\ Len(s \o t) = Len(s) + Len(t)
          /\ \A n \in 1 .. Len(s) : (s \o t)[n] = s[n]
          /\ \A n \in 1 .. Len(t) : (s \o t)[Len(s) + n] = t[n]
      <3>1. s \in Seq(LoaderCalls) /\ t \in Seq(LoaderCalls)
          BY <1>14
      <3> QED BY <3>1
    <2>2. (s \o t)[3 + 1] = t[1] /\ (s \o t)[3 + 2] = t[2]
        BY <1>14, <2>1
    <2> QED BY <1>14, <2>1, <2>2
  <1> QED BY <1>5, <1>7, <1>13, <1>14, <1>15, Zenon

(* A revision that has only just been made has all its calls before it.    *)
LEMMA LoadContentBegins ==
    ASSUME load'.calls = putContent \o submitAndApprove
    PROVE  ContentProceeds'
  <1>1. /\ load'.calls \in Seq(LoaderCalls) /\ Len(load'.calls) = 5
        /\ DOMAIN load'.calls = 1 .. 5
        /\ load'.calls[1] = "standing" /\ load'.calls[2] = "items" /\ load'.calls[3] = "measurements"
        /\ load'.calls[4] = "submit" /\ load'.calls[5] = "approve"
    <2>1. PICK calls : calls = putContent \o submitAndApprove
        OBVIOUS
    <2>2. calls \in Seq(LoaderCalls) /\ Len(calls) = 5 /\ calls[1] = "standing" /\ calls[2] = "items"
          /\ calls[3] = "measurements" /\ calls[4] = "submit" /\ calls[5] = "approve"
        BY <2>1, LoadCallLists, Zenon
    <2>3. DOMAIN calls = 1 .. 5
        BY <2>2
    <2>4. load'.calls = calls
        BY <2>1
    <2> QED BY <2>2, <2>3, <2>4
  <1>2. \A n \in DOMAIN load'.calls : n = 1 \/ n = 2 \/ n = 3 \/ n = 4 \/ n = 5
      BY <1>1
  <1>3. \A n \in DOMAIN load'.calls : load'.calls[n] \in Parts \cup {"submit", "approve"}
      BY <1>1, <1>2 DEF Parts
  <1>4. load'.calls # <<>> /\ load'.calls[Len(load'.calls)] = "approve"
      BY <1>1
  <1>5. \A part \in Parts : ~(\A n \in DOMAIN load'.calls : load'.calls[n] # part)
      BY <1>1 DEF Parts
  <1> QED BY <1>3, <1>4, <1>5 DEF ContentProceeds

(* A correction is posted beside the current revision.                     *)
LEMMA LoadCorrects == ASSUME LoadInv, correctiveRevision PROVE LoadInv'
  <1>1. /\ revisions' = Created(FinalCode, Author, CopiedContent)
        /\ load' = [load EXCEPT !.step = "calls, then finish", !.rev = nextSequenceOrdinal,
                                !.calls = putContent \o submitAndApprove]
        /\ yaml' = yaml /\ template' = template /\ existing' = existing /\ load.step = "correct"
      BY DEF correctiveRevision, PostRevision, Running
  <1>2. load'.step = "calls, then finish" /\ load'.rev = Len(revisions) + 1
        /\ load'.calls = putContent \o submitAndApprove
        /\ load'.index = load.index /\ load'.action = load.action /\ DOMAIN load' = DOMAIN load
      BY <1>1 DEF LoadInv, LoaderFits, nextSequenceOrdinal
  <1>3. /\ RowsFit' /\ Len(revisions') = Len(revisions) + 1 /\ Len(revisions) \in Nat
        /\ DOMAIN revisions = 1 .. Len(revisions) /\ DOMAIN revisions' = 1 .. Len(revisions')
        /\ \A j \in DOMAIN revisions : revisions'[j] = revisions[j]
        /\ revisions'[Len(revisions')].code = contractTrim(FinalCode)
      BY <1>1, LoadRowCreated DEF LoadInv
  <1>4. LoaderFits'
      BY <1>2, LoadCallLists DEF LoadInv, LoaderFits, LoadSteps
  <1>5. FinalIsCurrent'
    <2>1. PICK i \in CurrentOf(revisions) : revisions[i].code = contractTrim(FinalCode)
        BY <1>1 DEF LoadInv, CorrectionProceeds, Correcting, FinalIsCurrent
    <2>2. i \in CurrentOf(revisions)' /\ revisions'[i].code = contractTrim(FinalCode)
        BY <1>3, <2>1 DEF CurrentOf
    <2> QED BY <2>2 DEF FinalIsCurrent
  <1>6. PlanOrFinal'
      BY <1>5 DEF PlanOrFinal
  <1>7. PlanProceeds'
      BY <1>2 DEF PlanProceeds, Planning
  <1>8. CorrectionProceeds'
    <2>3. load'.rev = Len(revisions) + 1
        BY <1>2
    <2>1. load'.rev \in DOMAIN revisions' /\ load'.rev = Len(revisions')
        BY <1>3, <2>3
    <2>2. revisions'[load'.rev].code = contractTrim(FinalCode)
        BY <1>3, <2>1
    <2> QED BY <1>5, <2>1, <2>2 DEF CorrectionProceeds
  <1>9. Creating'
      BY <1>1, <1>2 DEF LoadInv, Creating, Planning, Correcting
  <1>10. ContentFollows'
      BY <1>2, LoadCallLists, LoadContentBegins DEF ContentFollows
  <1>11. TemplateFirst'
      BY <1>1, LoadTemplateStays
  <1> QED BY <1>1, <1>3, <1>4, <1>6, <1>7, <1>8, <1>9, <1>10, <1>11 DEF LoadInv

(* The next revision of the plan is posted.                                *)
LEMMA LoadPlans == ASSUME LoadInv, planRevision PROVE LoadInv'
  <1>1. /\ revisions' = Created(Plan[load.index], Author, CopiedContent)
        /\ load' = [load EXCEPT !.step = "calls, then plan", !.rev = nextSequenceOrdinal,
                                !.calls = ContentCalls \o submitAndApprove]
        /\ yaml' = yaml /\ template' = template /\ existing' = existing /\ load.step = "plan"
        /\ load.index <= Len(Plan) /\ load.index > Len(existing)
      BY DEF planRevision, PostRevision, Running
  <1>2. load'.step = "calls, then plan" /\ load'.rev = Len(revisions) + 1
        /\ load'.calls = ContentCalls \o submitAndApprove
        /\ load'.index = load.index /\ load'.action = load.action /\ DOMAIN load' = DOMAIN load
      BY <1>1 DEF LoadInv, LoaderFits, nextSequenceOrdinal
  <1>3. /\ RowsFit' /\ Len(revisions') = Len(revisions) + 1 /\ Len(revisions) \in Nat
        /\ DOMAIN revisions = 1 .. Len(revisions) /\ DOMAIN revisions' = 1 .. Len(revisions')
        /\ \A j \in DOMAIN revisions : revisions'[j] = revisions[j]
        /\ revisions'[Len(revisions')].code = contractTrim(Plan[load.index])
      BY <1>1, LoadRowCreated DEF LoadInv
  <1>4. /\ FollowsPlan(revisions) /\ FollowsPlan(existing)
        /\ \E S : existing \in Seq(S)
        /\ \A i \in DOMAIN existing : existing[i].status # "rejected"
        /\ load.index >= 1 /\ load.index <= Len(Plan) + 1
        /\ load.index \in Nat /\ Len(revisions) = load.index - 1
      BY <1>1 DEF LoadInv, PlanProceeds, Planning, LoaderFits
  <1>5. Len(Plan) \in Nat
      BY TemplateLoadAssumption
  <1>6. FollowsPlan(revisions')
    <2>1. Len(revisions') = load.index
        BY <1>3, <1>4
    <2>2. \A i \in DOMAIN revisions : revisions[i].code = contractTrim(Plan[i])
        BY <1>4 DEF FollowsPlan
    <2>3. \A i \in DOMAIN revisions' : i \in DOMAIN revisions \/ i = load.index
        BY <1>3, <1>4, <2>1
    <2>4. \A i \in DOMAIN revisions' : revisions'[i].code = contractTrim(Plan[i])
        BY <1>3, <2>1, <2>2, <2>3
    <2> QED BY <1>1, <2>1, <2>4 DEF FollowsPlan
  <1>7. LoaderFits'
    <2>1. load'.calls \in Seq(LoaderCalls)
        BY <1>2, LoadCallLists DEF ContentCalls
    <2>2. load'.index \in Nat /\ DOMAIN load' = {"step", "index", "rev", "calls", "action"}
        BY <1>2, <1>4 DEF LoadInv, LoaderFits
    <2> QED BY <1>2, <2>1, <2>2 DEF LoaderFits, LoadSteps
  <1>8. PlanProceeds'
      BY <1>1, <1>2, <1>3, <1>4, <1>5, <1>6 DEF PlanProceeds
  <1>9. PlanOrFinal'
      BY <1>6 DEF PlanOrFinal
  <1>10. CorrectionProceeds'
      BY <1>2 DEF CorrectionProceeds, Correcting
  <1>11. Creating'
      BY <1>1, <1>2 DEF LoadInv, Creating, Planning, Correcting
  <1>12. ContentFollows'
    <2>1. load.index = Len(Plan) => ContentProceeds'
        BY <1>2, LoadCallLists, LoadContentBegins DEF ContentCalls
    <2> QED BY <1>2, <2>1 DEF ContentFollows
  <1>13. TemplateFirst'
      BY <1>1, LoadTemplateStays
  <1> QED BY <1>1, <1>3, <1>7, <1>8, <1>9, <1>10, <1>11, <1>12, <1>13 DEF LoadInv

(* The row of an earlier run is the plan's: it is taken up where it stands. *)
LEMMA LoadResumes == ASSUME LoadInv, resumeRevision PROVE LoadInv'
  <1> DEFINE row == existing[load.index]
  <1>1. /\ UNCHANGED <<revisions, yaml>> /\ template' = template /\ existing' = existing
        /\ load.step = "plan" /\ load.index <= Len(Plan) /\ load.index <= Len(existing)
      BY DEF resumeRevision, Running
  <1>2. /\ FollowsPlan(revisions) /\ FollowsPlan(existing)
        /\ \E S : existing \in Seq(S)
        /\ \A i \in DOMAIN existing : existing[i].status # "rejected"
        /\ load.index >= 1 /\ load.index <= Len(Plan) + 1 /\ load.index \in Nat
        /\ load.index <= Len(existing) => Len(revisions) = Len(existing)
      BY <1>1 DEF LoadInv, PlanProceeds, Planning, LoaderFits
  <1>3. Len(Plan) \in Nat /\ Len(existing) \in Nat /\ load.index \in DOMAIN existing
        /\ DOMAIN revisions = 1 .. Len(revisions) /\ Len(revisions) = Len(existing)
      BY <1>1, <1>2, TemplateLoadAssumption DEF LoadInv, RowsFit
  <1>4. sameUnderContract(row.code, Plan[load.index]) /\ row.status # "rejected"
      BY <1>2, <1>3 DEF FollowsPlan, sameUnderContract
  <1>5. existing # <<>>
      BY <1>3
  <1>6. load.action # "created"
      BY <1>1, <1>5 DEF LoadInv, Creating, Planning
  <1>7. TemplateFirst'
      BY <1>1, LoadTemplateStays
  <1>8. \E S : existing' \in Seq(S)
      BY <1>1, <1>2
  <1>9. FollowsPlan(revisions') /\ FollowsPlan(existing')
        /\ \A i \in DOMAIN existing' : existing'[i].status # "rejected"
      BY <1>1, <1>2
  <1>10. CASE load' = [load EXCEPT !.index = @ + 1]
    <2>1. load'.step = "plan" /\ load'.index = load.index + 1 /\ load'.calls = load.calls
          /\ load'.action = load.action /\ DOMAIN load' = DOMAIN load
        BY <1>1, <1>10 DEF LoadInv, LoaderFits
    <2>2. load'.index \in Nat
        BY <1>2, <2>1
    <2>3. LoaderFits'
        BY <2>1, <2>2 DEF LoadInv, LoaderFits, LoadSteps
    <2>4. PlanProceeds'
        BY <1>1, <1>2, <1>3, <1>8, <1>9, <2>1 DEF PlanProceeds
    <2>5. CorrectionProceeds' /\ Creating' /\ ContentFollows'
        BY <1>1, <1>6, <2>1
        DEF LoadInv, CorrectionProceeds, Creating, ContentFollows, Planning, Correcting
    <2> QED BY <1>1, <1>7, <2>3, <2>4, <2>5, LoadRowsUnmoved DEF LoadInv
  <1>11. ASSUME NEW calls \in Seq(LoaderCalls),
               load' = [load EXCEPT !.step = "calls, then plan", !.rev = load.index, !.calls = calls]
        PROVE  LoadInv'
    <2>1. load'.step = "calls, then plan" /\ load'.index = load.index /\ load'.calls = calls
          /\ load'.rev = load.index /\ load'.action = load.action /\ DOMAIN load' = DOMAIN load
        BY <1>1, <1>11 DEF LoadInv, LoaderFits
    <2>2. LoaderFits'
        BY <1>11, <2>1 DEF LoadInv, LoaderFits, LoadSteps
    <2>3. PlanProceeds'
      <3>5. load'.index = load.index /\ load'.rev = load.index
          BY <2>1
      <3>1. load'.index >= 1 /\ load'.index <= Len(Plan) /\ load'.index <= Len(Plan) + 1
          BY <1>1, <1>2, <1>3, <3>5
      <3>2. load'.index \in DOMAIN revisions' /\ load'.rev = load'.index
          BY <1>1, <1>2, <1>3, <3>5
      <3>3. ~(load'.index > Len(existing')) /\ Len(revisions') = Len(existing')
          BY <1>1, <1>2, <1>3, <3>5
      <3>4. load'.step # "plan"
          BY <2>1
      <3> QED BY <1>8, <1>9, <3>1, <3>2, <3>3, <3>4 DEF PlanProceeds
    <2>4. CorrectionProceeds' /\ Creating' /\ ContentFollows'
        BY <1>1, <1>6, <2>1
        DEF LoadInv, CorrectionProceeds, Creating, ContentFollows, Planning, Correcting
    <2> QED BY <1>1, <1>7, <2>2, <2>3, <2>4, LoadRowsUnmoved DEF LoadInv
  <1>12. ContentCalls \o submitAndApprove \in Seq(LoaderCalls) /\ approveWithStepUp \in Seq(LoaderCalls)
      BY LoadCallLists DEF ContentCalls
  <1>13. \/ load' = [load EXCEPT !.index = @ + 1]
        \/ load' = [load EXCEPT !.step = "calls, then plan", !.rev = load.index,
                                !.calls = ContentCalls \o submitAndApprove]
        \/ load' = [load EXCEPT !.step = "calls, then plan", !.rev = load.index,
                                !.calls = approveWithStepUp]
      BY <1>4, Zenon DEF resumeRevision
  <1> QED BY <1>10, <1>11, <1>12, <1>13

(* The plan is finished.                                                   *)
LEMMA LoadPlanDone == ASSUME LoadInv, planDone PROVE LoadInv'
  <1>1. UNCHANGED <<revisions, yaml>> /\ template' = template /\ existing' = existing
        /\ load.step = "plan" /\ load.index > Len(Plan)
      BY DEF planDone, Running
  <1>2. load'.step = "finish" /\ load'.index = load.index /\ load'.calls = load.calls
        /\ load'.action = load.action /\ DOMAIN load' = DOMAIN load
      BY DEF planDone, LoadInv, LoaderFits
  <1>3. LoaderFits'
      BY <1>2 DEF LoadInv, LoaderFits, LoadSteps
  <1>4. load.action \in {"created", "resumed"}
      BY <1>1 DEF LoadInv, Creating, Planning
  <1>5. load.action # "resumed" => Loaded
      BY <1>1, <1>4 DEF LoadInv, ContentFollows
  <1>6. ContentFollows'
      BY <1>1, <1>2, <1>5, LoadRowsUnmoved DEF ContentFollows
  <1>7. PlanProceeds' /\ CorrectionProceeds' /\ Creating'
      BY <1>2 DEF PlanProceeds, CorrectionProceeds, Creating, Planning, Correcting
  <1>8. TemplateFirst'
      BY <1>1, LoadTemplateStays
  <1> QED BY <1>1, <1>3, <1>6, <1>7, <1>8, LoadRowsUnmoved DEF LoadInv

(* Asset type, machines and tags.                                          *)
LEMMA LoadFinishes == ASSUME LoadInv, finishDocument PROVE LoadInv'
  <1>1. UNCHANGED <<revisions, yaml>> /\ template' = template /\ load.step = "finish"
      BY DEF finishDocument, Running
  <1>2. load' = load \/ load' = [load EXCEPT !.step = "done"]
      BY DEF finishDocument
  <1>3. load'.step \in {"finish", "done"} /\ load'.index = load.index /\ load'.calls = load.calls
        /\ load'.action = load.action /\ DOMAIN load' = DOMAIN load
      BY <1>1, <1>2 DEF LoadInv, LoaderFits
  <1>4. LoaderFits'
      BY <1>3 DEF LoadInv, LoaderFits, LoadSteps
  <1>5. load.action # "resumed" => Loaded
      BY <1>1 DEF LoadInv, ContentFollows
  <1>6. ContentFollows'
      BY <1>1, <1>3, <1>5, LoadRowsUnmoved DEF ContentFollows
  <1>7. PlanProceeds' /\ CorrectionProceeds' /\ Creating'
      BY <1>3 DEF PlanProceeds, CorrectionProceeds, Creating, Planning, Correcting
  <1>8. TemplateFirst'
      BY <1>1, LoadTemplateStays
  <1> QED BY <1>1, <1>4, <1>6, <1>7, <1>8, LoadRowsUnmoved DEF LoadInv

(* A revision whose calls are all made bears the YAML's content.           *)
LEMMA LoadContentArrives ==
    ASSUME LoadInv, ContentProceeds, load.calls = <<>>, load.rev \in DOMAIN revisions,
           revisions[load.rev].code = contractTrim(FinalCode)
    PROVE  Loaded
  <1> DEFINE row == revisions[load.rev]
  <1>1. \A part \in Parts : row.content[part] = Yaml[yaml][part]
    <2>1. DOMAIN load.calls = {}
        OBVIOUS
    <2> QED BY <2>1 DEF ContentProceeds
  <1>2. IsContent(row.content)
      BY DEF LoadInv, RowsFit, LoadedRow
  <1>3. Yaml[yaml] \in [Parts -> Texts]
      BY TemplateLoadAssumption DEF LoadInv
  <1>4. row.content = Yaml[yaml]
      BY <1>1, <1>2, <1>3 DEF IsContent
  <1>5. load.rev \in CurrentOf(revisions)
      BY DEF ContentProceeds, CurrentOf
  <1> QED BY <1>4, <1>5 DEF Loaded

(* The calls of one revision are made.                                     *)
LEMMA LoadCallsDone == ASSUME LoadInv, callsDone PROVE LoadInv'
  <1>1. UNCHANGED <<revisions, yaml>> /\ template' = template /\ existing' = existing
        /\ load.calls = <<>>
      BY DEF callsDone
  <1>2. CASE load.step = "calls, then plan" /\ load' = [load EXCEPT !.step = "plan", !.index = @ + 1]
    <2>1. load'.step = "plan" /\ load'.index = load.index + 1 /\ load'.calls = load.calls
          /\ load'.action = load.action /\ DOMAIN load' = DOMAIN load
        BY <1>2 DEF LoadInv, LoaderFits
    <2>2. /\ FollowsPlan(revisions) /\ FollowsPlan(existing)
          /\ \E S : existing \in Seq(S)
          /\ \A i \in DOMAIN existing : existing[i].status # "rejected"
          /\ load.index >= 1 /\ load.index \in Nat
          /\ load.rev = load.index /\ load.index <= Len(Plan) /\ load.index \in DOMAIN revisions
          /\ IF load.index > Len(existing) THEN Len(revisions) = load.index
             ELSE Len(revisions) = Len(existing)
        BY <1>2 DEF LoadInv, PlanProceeds, Planning, LoaderFits
    <2>3. Len(Plan) \in Nat /\ Len(existing) \in Nat /\ Len(revisions) \in Nat
        BY <2>2, TemplateLoadAssumption DEF LoadInv, RowsFit
    <2>4. LoaderFits'
      <3>1. load'.index \in Nat
          BY <2>1, <2>2
      <3> QED BY <2>1, <3>1 DEF LoadInv, LoaderFits, LoadSteps
    <2>5. PlanProceeds'
      <3>1. /\ FollowsPlan(revisions') /\ FollowsPlan(existing')
            /\ \E S : existing' \in Seq(S)
            /\ \A i \in DOMAIN existing' : existing'[i].status # "rejected"
          BY <1>1, <2>2
      <3>2. load'.index = load.index + 1
          BY <2>1
      <3>3. load'.index >= 1 /\ load'.index <= Len(Plan) + 1
          BY <2>2, <2>3, <3>2
      <3>4. IF load'.index > Len(existing') THEN Len(revisions') = load'.index - 1
            ELSE Len(revisions') = Len(existing')
          BY <1>1, <2>2, <2>3, <3>2
      <3>5. load'.step = "plan"
          BY <2>1
      <3> QED BY <3>1, <3>3, <3>4, <3>5 DEF PlanProceeds
    <2>6. CorrectionProceeds' /\ Creating'
        BY <1>1, <1>2, <2>1 DEF LoadInv, CorrectionProceeds, Creating, Planning, Correcting
    <2>7. ContentFollows'
      <3>1. load.index + 1 > Len(Plan) => load.index = Len(Plan)
          BY <2>2, <2>3
      <3>2. load.index = Len(Plan) => revisions[load.rev].code = contractTrim(FinalCode)
          BY <2>2 DEF FollowsPlan, FinalCode
      <3>3. load.action = "created" /\ load.index = Len(Plan) => Loaded
          BY <1>1, <1>2, <2>2, <3>2, LoadContentArrives DEF LoadInv, ContentFollows
      <3>4. load.action = "created" /\ load.index + 1 > Len(Plan) => Loaded'
          BY <1>1, <3>1, <3>3, LoadRowsUnmoved
      <3> QED BY <2>1, <3>4 DEF ContentFollows
    <2>8. TemplateFirst'
        BY <1>1, <1>2, LoadTemplateStays
    <2> QED BY <1>1, <2>4, <2>5, <2>6, <2>7, <2>8, LoadRowsUnmoved DEF LoadInv
  <1>3. CASE load.step = "calls, then finish" /\ load' = [load EXCEPT !.step = "finish"]
    <2>1. load'.step = "finish" /\ load'.index = load.index /\ load'.calls = load.calls
          /\ load'.action = load.action /\ DOMAIN load' = DOMAIN load
        BY <1>3 DEF LoadInv, LoaderFits
    <2>2. LoaderFits'
        BY <2>1 DEF LoadInv, LoaderFits, LoadSteps
    <2>3. Loaded
        BY <1>1, <1>3, LoadContentArrives
        DEF LoadInv, ContentFollows, CorrectionProceeds, Correcting
    <2>4. Loaded'
        BY <1>1, <2>3, LoadRowsUnmoved
    <2>5. PlanProceeds' /\ CorrectionProceeds' /\ Creating' /\ ContentFollows'
        BY <2>1, <2>4
        DEF PlanProceeds, CorrectionProceeds, Creating, ContentFollows, Planning, Correcting
    <2>6. TemplateFirst'
        BY <1>1, <1>3, LoadTemplateStays
    <2> QED BY <1>1, <2>2, <2>5, <2>6, LoadRowsUnmoved DEF LoadInv
  <1> QED BY <1>2, <1>3 DEF callsDone, Running

(* What one call leaves of the rows.                                       *)
LEMMA LoadCallWrites ==
    ASSUME RowsFit, NEW i \in DOMAIN revisions, NEW call \in LoaderCalls, Accepted(call, i),
           revisions' = Effect(call, i)
    PROVE  /\ RowsFit' /\ DOMAIN revisions' = DOMAIN revisions /\ Len(revisions') = Len(revisions)
           /\ \A j \in DOMAIN revisions : revisions'[j].code = revisions[j].code
           /\ call # "approve" => /\ revisions[i].status # "current"
                                  /\ \A j \in DOMAIN revisions : j # i => revisions'[j] = revisions[j]
           /\ call = "approve" => revisions'[i].status = "current"
           /\ call \in Parts => revisions'[i].content[call] = Yaml[yaml][call]
           /\ call \in Parts \cup {"submit", "approve"} =>
                \A p \in Parts : p # call => revisions'[i].content[p] = revisions[i].content[p]
  <1>1. CASE call \in Parts
    <2>1. revisions' = Replaced(i, call, Yaml[yaml][call])
        BY <1>1 DEF Effect, Parts
    <2>2. call # "approve" /\ revisions[i].status = "draft"
        BY <1>1 DEF Parts, Accepted, assertDraft
    <2> QED BY <1>1, <2>1, <2>2, LoadPartWritten
  <1>2. CASE call = "no items"
    <2>1. revisions' = Replaced(i, "items", "none") /\ "items" \in Parts
        BY <1>2 DEF Effect, Parts
    <2>2. call \notin Parts \cup {"submit", "approve"} /\ revisions[i].status = "draft"
        BY <1>2 DEF Parts, Accepted, assertDraft
    <2> QED BY <2>1, <2>2, LoadPartWritten
  <1>3. CASE call = "no measurements"
    <2>1. revisions' = Replaced(i, "measurements", "none") /\ "measurements" \in Parts
        BY <1>3 DEF Effect, Parts
    <2>2. call \notin Parts \cup {"submit", "approve"} /\ revisions[i].status = "draft"
        BY <1>3 DEF Parts, Accepted, assertDraft
    <2> QED BY <2>1, <2>2, LoadPartWritten
  <1>4. CASE call = "submit"
    <2>1. revisions' = Submitted(i)
        BY <1>4 DEF Effect, Parts
    <2>2. call # "approve" /\ call \notin Parts /\ revisions[i].status = "draft"
        BY <1>4 DEF Parts, Accepted, assertDraft
    <2> QED BY <2>1, <2>2, LoadSubmitWritten
  <1>5. CASE call = "approve"
    <2>1. revisions' = Approved(i) /\ call \notin Parts
        BY <1>5 DEF Effect, Parts
    <2> QED BY <1>5, <2>1, LoadApproveWritten
  <1> QED BY <1>1, <1>2, <1>3, <1>4, <1>5 DEF LoaderCalls

(* One call of the author or of the approver.                              *)
LEMMA LoadCalls == ASSUME LoadInv, callApi PROVE LoadInv'
  <1> DEFINE call == Head(load.calls)
  <1>1. /\ load.step \in {"calls, then plan", "calls, then finish"} /\ load.calls # <<>>
        /\ Accepted(call, load.rev) /\ revisions' = Effect(call, load.rev)
        /\ yaml' = yaml /\ template' = template /\ existing' = existing
      BY DEF callApi
  <1>2. load' = [load EXCEPT !.calls = Tail(load.calls)]
      BY DEF callApi, LoadInv, LoaderFits
  <1>3. /\ load'.step = load.step /\ load'.index = load.index /\ load'.rev = load.rev
        /\ load'.action = load.action /\ DOMAIN load' = DOMAIN load
      BY <1>2 DEF LoadInv, LoaderFits
  <1>4. load'.calls = Tail(load.calls)
      BY <1>2 DEF LoadInv, LoaderFits
  <1>5. /\ load.calls \in Seq(LoaderCalls) /\ load'.calls \in Seq(LoaderCalls) /\ call \in LoaderCalls
        /\ Len(load.calls) \in Nat /\ Len(load.calls) >= 1 /\ call = load.calls[1]
        /\ Len(load'.calls) = Len(load.calls) - 1
        /\ DOMAIN load.calls = 1 .. Len(load.calls) /\ DOMAIN load'.calls = 1 .. Len(load'.calls)
        /\ \A n \in DOMAIN load'.calls : load'.calls[n] = load.calls[n + 1]
    <2>1. PICK calls : calls = load.calls
        OBVIOUS
    <2>2. calls \in Seq(LoaderCalls) /\ calls # <<>>
        BY <1>1, <2>1 DEF LoadInv, LoaderFits
    <2>3. /\ Tail(calls) \in Seq(LoaderCalls) /\ Head(calls) \in LoaderCalls
          /\ Len(calls) \in Nat /\ Len(calls) >= 1 /\ Head(calls) = calls[1]
          /\ Len(Tail(calls)) = Len(calls) - 1
          /\ DOMAIN calls = 1 .. Len(calls) /\ DOMAIN Tail(calls) = 1 .. Len(Tail(calls))
          /\ \A n \in DOMAIN Tail(calls) : Tail(calls)[n] = calls[n + 1]
        BY <2>2
    <2> QED BY <1>4, <2>1, <2>2, <2>3, Zenon
  <1> HIDE DEF call
  <1>6. load.rev \in DOMAIN revisions
      BY <1>1 DEF LoadInv, PlanProceeds, CorrectionProceeds, Planning, Correcting
  <1>7. /\ RowsFit' /\ DOMAIN revisions' = DOMAIN revisions /\ Len(revisions') = Len(revisions)
        /\ \A j \in DOMAIN revisions : revisions'[j].code = revisions[j].code
        /\ call # "approve" => /\ revisions[load.rev].status # "current"
                               /\ \A j \in DOMAIN revisions : j # load.rev => revisions'[j] = revisions[j]
        /\ call = "approve" => revisions'[load.rev].status = "current"
        /\ call \in Parts => revisions'[load.rev].content[call] = Yaml[yaml][call]
        /\ call \in Parts \cup {"submit", "approve"} =>
             \A p \in Parts : p # call => revisions'[load.rev].content[p] = revisions[load.rev].content[p]
      BY <1>1, <1>5, <1>6, LoadCallWrites DEF LoadInv
  <1>8. LoaderFits'
    <2>1. load'.calls \in Seq(LoaderCalls)
        BY <1>5
    <2> QED BY <1>3, <2>1 DEF LoadInv, LoaderFits
  <1>9. TemplateFirst'
      BY <1>1, LoadTemplateStays
  <1>10. PlanProceeds'
    <2>1. SUFFICES ASSUME load.step = "calls, then plan" PROVE PlanProceeds'
        BY <1>1, <1>3 DEF PlanProceeds, Planning
    <2>2. FollowsPlan(revisions) => FollowsPlan(revisions')
        BY <1>7 DEF FollowsPlan
    <2> QED BY <1>1, <1>3, <1>7, <2>1, <2>2 DEF LoadInv, PlanProceeds, Planning
  <1>11. load.step = "calls, then finish" => FinalIsCurrent'
    <2>1. SUFFICES ASSUME load.step = "calls, then finish" PROVE FinalIsCurrent'
        OBVIOUS
    <2>2. FinalIsCurrent /\ revisions[load.rev].code = contractTrim(FinalCode)
        BY <2>1 DEF LoadInv, CorrectionProceeds, Correcting
    <2>3. CASE call = "approve"
      <3>1. load.rev \in CurrentOf(revisions)' /\ revisions'[load.rev].code = contractTrim(FinalCode)
          BY <1>6, <1>7, <2>2, <2>3 DEF CurrentOf
      <3> QED BY <3>1 DEF FinalIsCurrent
    <2>4. CASE call # "approve"
      <3>1. PICK i \in CurrentOf(revisions) : revisions[i].code = contractTrim(FinalCode)
          BY <2>2 DEF FinalIsCurrent
      <3>2. i \in CurrentOf(revisions)' /\ revisions'[i].code = contractTrim(FinalCode)
          BY <1>7, <2>4, <3>1 DEF CurrentOf
      <3> QED BY <3>2 DEF FinalIsCurrent
    <2> QED BY <2>3, <2>4
  <1>12. CorrectionProceeds'
    <2>1. load.step = "calls, then finish" => revisions[load.rev].code = contractTrim(FinalCode)
        BY DEF LoadInv, CorrectionProceeds, Correcting
    <2> QED BY <1>1, <1>3, <1>6, <1>7, <1>11, <2>1 DEF CorrectionProceeds, Correcting
  <1>13. PlanOrFinal'
    <2>1. CASE load.step = "calls, then finish"
        BY <1>11, <2>1 DEF PlanOrFinal
    <2>2. CASE load.step = "calls, then plan"
      <3>1. FollowsPlan(revisions)
          BY <2>2 DEF LoadInv, PlanProceeds, Planning
      <3>2. FollowsPlan(revisions')
          BY <1>7, <3>1 DEF FollowsPlan
      <3> QED BY <3>2 DEF PlanOrFinal
    <2> QED BY <1>1, <2>1, <2>2
  <1>14. Creating'
      BY <1>1, <1>3 DEF LoadInv, Creating, Planning, Correcting
  <1>15. ContentProceeds => ContentProceeds'
    <2> SUFFICES ASSUME ContentProceeds PROVE ContentProceeds'
        OBVIOUS
    <2>1. call \in Parts \cup {"submit", "approve"}
        BY <1>5 DEF ContentProceeds
    <2>2. \A n \in DOMAIN load'.calls : n + 1 \in DOMAIN load.calls
        BY <1>5
    <2>3. \A n \in DOMAIN load'.calls : load'.calls[n] \in Parts \cup {"submit", "approve"}
        BY <1>5, <2>2 DEF ContentProceeds
    <2>4. load.calls[Len(load.calls)] = "approve"
        BY <1>1 DEF ContentProceeds
    <2>5. load'.calls = <<>> => revisions'[load'.rev].status = "current"
      <3> SUFFICES ASSUME load'.calls = <<>> PROVE revisions'[load'.rev].status = "current"
          OBVIOUS
      <3>1. Len(load'.calls) = 0
          OBVIOUS
      <3>2. Len(load.calls) = 1
          BY <1>5, <3>1
      <3>3. call = "approve"
          BY <1>5, <2>4, <3>2
      <3> QED BY <1>3, <1>7, <3>3
    <2>6. load'.calls # <<>> => load'.calls[Len(load'.calls)] = "approve"
      <3> SUFFICES ASSUME load'.calls # <<>> PROVE load'.calls[Len(load'.calls)] = "approve"
          OBVIOUS
      <3>1. Len(load'.calls) \in DOMAIN load'.calls
        <4>1. PICK calls : calls = load'.calls
            OBVIOUS
        <4>2. calls \in Seq(LoaderCalls) /\ calls # <<>>
            BY <1>5, <4>1
        <4>3. Len(calls) \in DOMAIN calls
            BY <4>2
        <4> QED BY <4>1, <4>3
      <3>2. Len(load'.calls) + 1 = Len(load.calls)
          BY <1>5
      <3> QED BY <1>5, <2>4, <3>1, <3>2
    <2>7. ASSUME NEW part \in Parts, \A n \in DOMAIN load'.calls : load'.calls[n] # part
          PROVE  revisions'[load'.rev].content[part] = Yaml[yaml'][part]
      <3>1. CASE part = call
          BY <1>1, <1>3, <1>7, <3>1
      <3>2. CASE part # call
        <4>2. ASSUME NEW n \in DOMAIN load.calls PROVE load.calls[n] # part
          <5>1. CASE n = 1
              BY <1>5, <3>2, <5>1
          <5>2. CASE n # 1
            <6>1. PICK k \in DOMAIN load'.calls : k + 1 = n
              <7>1. n - 1 \in DOMAIN load'.calls /\ (n - 1) + 1 = n
                  BY <1>5, <5>2
              <7> QED BY <7>1
            <6>2. load'.calls[k] = load.calls[n]
                BY <1>5, <6>1
            <6> QED BY <2>7, <6>2
          <5> QED BY <5>1, <5>2
        <4>3. revisions[load.rev].content[part] = Yaml[yaml][part]
            BY <4>2 DEF ContentProceeds
        <4> QED BY <1>1, <1>3, <1>7, <2>1, <3>2, <4>3
      <3> QED BY <3>1, <3>2
    <2> QED BY <2>3, <2>5, <2>6, <2>7 DEF ContentProceeds
  <1>16. ContentFollows'
      BY <1>1, <1>3, <1>15 DEF LoadInv, ContentFollows
  <1> QED BY <1>1, <1>7, <1>8, <1>9, <1>10, <1>12, <1>13, <1>14, <1>16 DEF LoadInv

(* A rerun of the template loader is a recovery (LoadRecovers): whatever call *)
(* an earlier run died at, its rows are never refused as somebody else's, and *)
(* a document reported created, updated or unchanged has the YAML's content   *)
(* and code in its current revision - for any plan, any versions of the YAML  *)
(* and any number of runs.                                                 *)
THEOREM ReloadsRecover == LoadSpec => []LoadRecovers
  <1>1. LoadInit => LoadInv
      BY LoadInitHolds
  <1>2. LoadInv /\ [LoadNext]_<<revisionVars, loadVars>> => LoadInv'
    <2> SUFFICES ASSUME LoadInv, [LoadNext]_<<revisionVars, loadVars>> PROVE LoadInv'
        OBVIOUS
    <2>1. CASE UNCHANGED <<revisionVars, loadVars>>
      <3>1. UNCHANGED <<revisions, yaml>> /\ load' = load /\ existing' = existing /\ template' = template
          BY <2>1, Zenon DEF revisionVars, loadVars
      <3>2. LoaderFits' /\ PlanProceeds'
          BY <3>1 DEF LoadInv, LoaderFits, PlanProceeds, Planning
      <3>4. CorrectionProceeds' /\ Creating'
          BY <3>1, LoadRowsUnmoved DEF LoadInv, CorrectionProceeds, Creating, Planning, Correcting
      <3>5. ContentProceeds' <=> ContentProceeds
          BY <3>1 DEF ContentProceeds
      <3>6. ContentFollows'
          BY <3>1, <3>5, LoadRowsUnmoved DEF LoadInv, ContentFollows
      <3>3. TemplateFirst'
          BY <3>1, Zenon DEF LoadInv, TemplateFirst
      <3> QED BY <3>1, <3>2, <3>3, <3>4, <3>6, LoadRowsUnmoved DEF LoadInv
    <2>2. CASE LoadNext
        BY <2>2, LoadRun, LoadStops, LoadCorrected, LoadCreatesTemplate, LoadListed, LoadCorrects,
           LoadPlans, LoadResumes, LoadPlanDone, LoadFinishes, LoadCallsDone, LoadCalls, Zenon
        DEF LoadNext
    <2> QED BY <2>1, <2>2
  <1>3. LoadInv => LoadRecovers
      BY DEF LoadInv, LoaderFits, LoadSteps, ContentFollows, Loaded, LoadRecovers, Running, sameUnderContract
  <1> QED BY <1>1, <1>2, <1>3, PTL DEF LoadSpec
=============================================================================
