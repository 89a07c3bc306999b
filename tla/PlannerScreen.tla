---------------------------- MODULE PlannerScreen ----------------------------
(***************************************************************************)
(* The planner (web/src/screens/Planner): a year's maintenance plan, read  *)
(* page by page while other people and the scheduler move due dates, drawn *)
(* as a grid, and changed one visit at a time.  A change of year starts    *)
(* another read and does not stop the one under way, so answers arrive in  *)
(* any order.                                                              *)
(*                                                                         *)
(* A date is its year; a rule is due once a year from its next due date.   *)
(* A rule is its id, and ids are ordered (UUIDv7).                         *)
(***************************************************************************)
EXTENDS Naturals, FiniteSets

CONSTANTS
    RuleCount,        \* rules 1 .. RuleCount
    LastYear,         \* years 1 .. LastYear; year 1 is the current one
    PageSize,         \* rules in a page
    MaxPages,         \* MAX_PLANNER_PAGES
    MaxReads          \* bound on reads under way at once

ASSUME PlannerAssumption ==
    /\ RuleCount \in Nat \ {0} /\ LastYear \in Nat \ {0}
    /\ PageSize \in Nat \ {0} /\ MaxPages \in Nat \ {0} /\ MaxReads \in Nat \ {0}

PlanRules == 1 .. RuleCount
PlanYears == 1 .. LastYear

VARIABLES
    planDue,          \* rule -> the year of its next due date, on the server
    planReads,        \* the reads under way
    planGrid,         \* what the last finished read brought; see NotRead
    planYear,         \* the year in the heading
    planCell,         \* the rule whose cell is open, or 0
    planForm          \* the date form of that cell: closed, open or saving

plannerVars == <<planDue, planReads, planGrid, planYear, planCell, planForm>>

NotRead == [read |-> FALSE, rows |-> {}, year |-> 0, steady |-> {}]

Eligible(y) == {r \in PlanRules : planDue[r] <= y}

(* load: a read of a year, nothing in it yet.  steady is kept for the      *)
(* properties: the rules that have been in the year since it began.        *)
NewRead(y) == [year |-> y, after |-> 0, pages |-> 0, rows |-> {}, steady |-> Eligible(y)]

PlannerInit ==
    /\ planDue \in [PlanRules -> PlanYears]
    /\ planYear = 1 /\ planReads = {NewRead(1)} /\ planGrid = NotRead
    /\ planCell = 0 /\ planForm = "closed"

-----------------------------------------------------------------------------
(* The grid: a visit is drawn if it falls in the year in the heading, and  *)
(* it is the stored one if that year is the rule's next due.               *)

workWeekOf(y) == y = planYear

Visits == {row \in planGrid.rows : workWeekOf(planGrid.year)}

IsNextDue(row) == row.due = planGrid.year

selectedVisits == {row \in Visits : row.rule = planCell}

-----------------------------------------------------------------------------
(* Reading a year.                                                         *)

loadYear(y) == planReads' = planReads \cup {NewRead(y)}

(* The rows after the last one read, in id order.                          *)
NextPage_ByOffset(read) ==
    {r \in Eligible(read.year) :
        Cardinality({q \in Eligible(read.year) : q < r})
            \in Cardinality(read.rows) .. Cardinality(read.rows) + PageSize - 1}

NextPage(read) ==
    LET later == {r \in Eligible(read.year) : r > read.after}
    IN  {r \in later : Cardinality({q \in later : q < r}) < PageSize}

HasMore(read, page) == \E r \in Eligible(read.year) : r > read.after /\ \A q \in page : r > q

WithPage(read, page) ==
    [read EXCEPT !.pages = @ + 1,
                 !.after = IF page = {} THEN @ ELSE CHOOSE r \in page : \A q \in page : r >= q,
                 !.rows = @ \cup {[rule |-> r, due |-> planDue[r]] : r \in page}]

Drawn(read, rows) ==
    planGrid' = [read |-> TRUE, rows |-> rows, year |-> read.year, steady |-> read.steady]

(* listAllPlannerSchedule: another page, or the plan; a plan of too many   *)
(* pages is refused rather than drawn in part.                             *)
pageAnswered(read) ==
    LET page == NextPage(read)
        more == HasMore(read, page)
    IN  \/ /\ more /\ read.pages + 1 < MaxPages
           /\ planReads' = (planReads \ {read}) \cup {WithPage(read, page)}
           /\ UNCHANGED planGrid
        \/ /\ ~more /\ planReads' = planReads \ {read}
           /\ Drawn(read, WithPage(read, page).rows)
        \/ /\ more /\ read.pages + 1 >= MaxPages
           /\ planReads' = planReads \ {read}
           /\ Drawn([read EXCEPT !.steady = {}], {})

(* A page is refused or never comes: an empty plan, and the reason.        *)
readFailed(read) ==
    /\ planReads' = planReads \ {read}
    /\ Drawn([read EXCEPT !.steady = {}], {})

PageArrives ==
    /\ \E read \in planReads : pageAnswered(read) \/ readFailed(read)
    /\ UNCHANGED <<planDue, planYear, planCell, planForm>>

setYear(y) ==
    /\ y # planYear /\ Cardinality(planReads) < MaxReads
    /\ planYear' = y /\ planCell' = 0 /\ planForm' = "closed"
    /\ planGrid' = NotRead
    /\ loadYear(y)
    /\ UNCHANGED planDue

-----------------------------------------------------------------------------
(* A visit, and moving it.                                                 *)

openCell(r) ==
    /\ \E row \in Visits : row.rule = r
    /\ planCell' = r /\ planForm' = "closed"
    /\ UNCHANGED <<planDue, planReads, planGrid, planYear>>

closeCell ==
    /\ planCell # 0 /\ planCell' = 0
    /\ UNCHANGED <<planDue, planReads, planGrid, planYear, planForm>>

(* Only the stored date can be moved.                                      *)
openAdjustForm ==
    /\ planForm = "closed" /\ \E row \in selectedVisits : IsNextDue(row)
    /\ planForm' = "open"
    /\ UNCHANGED <<planDue, planReads, planGrid, planYear, planCell>>

cancelAdjustForm ==
    /\ planForm = "open" /\ planForm' = "closed"
    /\ UNCHANGED <<planDue, planReads, planGrid, planYear, planCell>>

Moved(r, y) ==
    /\ planDue' = [planDue EXCEPT ![r] = y]
    /\ planReads' = {[read EXCEPT !.steady = IF y > read.year THEN @ \ {r} ELSE @] : read \in planReads}

(* save: the date is stored whatever it was before; then the year is read  *)
(* again.  Without an answer the form stays, whether it was stored or not. *)
saveAnswered(y) ==
    /\ planForm = "open" /\ \E row \in selectedVisits : IsNextDue(row)
    /\ Cardinality(planReads) < MaxReads
    /\ planDue' = [planDue EXCEPT ![planCell] = y]
    /\ planReads' = {[read EXCEPT !.steady = IF y > read.year THEN @ \ {planCell} ELSE @] : read \in planReads}
                        \cup {[NewRead(planYear) EXCEPT !.steady = {r \in PlanRules : planDue'[r] <= planYear}]}
    /\ planGrid' = NotRead /\ planCell' = 0 /\ planForm' = "closed"
    /\ UNCHANGED planYear

saveUnanswered(y) ==
    /\ planForm = "open" /\ \E row \in selectedVisits : IsNextDue(row)
    /\ Moved(planCell, y)
    /\ UNCHANGED <<planGrid, planYear, planCell, planForm>>

(* Another planner, or a completion's cascade, moves a rule.               *)
otherMoves(r, y) ==
    /\ planDue[r] # y /\ Moved(r, y)
    /\ UNCHANGED <<planGrid, planYear, planCell, planForm>>

PlannerNext ==
    \/ PageArrives
    \/ \E y \in PlanYears : setYear(y) \/ saveAnswered(y) \/ saveUnanswered(y)
    \/ \E r \in PlanRules : openCell(r)
    \/ closeCell \/ openAdjustForm \/ cancelAdjustForm
    \/ \E r \in PlanRules, y \in PlanYears : otherMoves(r, y)

PlannerSpec == PlannerInit /\ [][PlannerNext]_plannerVars

-----------------------------------------------------------------------------

PlannerTypeOK ==
    /\ planDue \in [PlanRules -> PlanYears]
    /\ planYear \in PlanYears /\ planCell \in 0 .. RuleCount
    /\ planForm \in {"closed", "open"}
    /\ Cardinality(planReads) <= MaxReads

(* A plan that was drawn is whole: a rule that was in the year from the    *)
(* moment its read began is in the grid, and once, however other rules     *)
(* moved between the pages (listAllPlannerSchedule, findMany, paginate).   *)
PlanIsWhole ==
    planGrid.read =>
        \A r \in planGrid.steady : Cardinality({row \in planGrid.rows : row.rule = r}) = 1
=============================================================================
