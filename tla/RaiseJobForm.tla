---------------------------- MODULE RaiseJobForm ----------------------------
(***************************************************************************)
(* Raising a job by hand (web/src/screens/RaiseJob): a machine is chosen   *)
(* from a list that is read per machine type, its documents are read, the  *)
(* sole active document is taken or one is chosen, and the job is raised.  *)
(* Reads answer in any order; a document read is dropped once another      *)
(* machine was chosen, a machine list is not.                              *)
(***************************************************************************)
EXTENDS Naturals, FiniteSets

CONSTANTS
    MachineTypes,     \* values of the type filter
    Machines,
    MachineDocs,      \* machine -> the documents tagged on it
    NoChoice,
    MaxRaised         \* bound on jobs ever raised

ASSUME RaiseAssumption ==
    /\ MaxRaised \in Nat /\ NoChoice \notin Machines
    /\ \A a, b \in Machines : a # b => MachineDocs[a] \cap MachineDocs[b] = {}

AllDocs == UNION {MachineDocs[a] : a \in Machines}

VARIABLES
    activeDocs,       \* the documents that are active, on the server
    listReads,        \* machine lists under way, by type
    machineList,      \* read: the machines offered
    machine,          \* the machine chosen, or NoChoice
    docReads,         \* document lists under way: the machine, and whether still wanted
    docList,          \* the machine's documents, if read
    chosenDoc,        \* the document chosen by hand, or NoChoice
    posting,          \* the request under way, or none
    raisedJobs        \* how many jobs were raised

raiseVars == <<activeDocs, listReads, machineList, machine, docReads, docList, chosenDoc, posting, raisedJobs>>

NoDocs == [read |-> FALSE, docs |-> {}]
NotPosting == [machine |-> NoChoice, doc |-> NoChoice]

RaiseInit ==
    /\ activeDocs = AllDocs /\ listReads = {"all"} /\ machineList = {} /\ machine = NoChoice
    /\ docReads = {} /\ docList = NoDocs /\ chosenDoc = NoChoice
    /\ posting = NotPosting /\ raisedJobs = 0

(* A machine is chosen, or none: the earlier document read is dropped, and *)
(* what it had brought is cleared.                                         *)
MachineChosen(a) ==
    /\ machine' = a /\ docList' = NoDocs /\ chosenDoc' = NoChoice
    /\ docReads' = {[r EXCEPT !.live = FALSE] : r \in docReads}
                       \cup (IF a = NoChoice THEN {} ELSE {[machine |-> a, live |-> TRUE]})

setTypeFilter(t) ==
    /\ listReads' = listReads \cup {t} /\ machineList' = {}
    /\ MachineChosen(NoChoice)
    /\ UNCHANGED <<activeDocs, posting, raisedJobs>>

loadAssets(t) ==
    /\ t \in listReads /\ listReads' = listReads \ {t}
    /\ machineList' \in {{}, Machines}
    /\ UNCHANGED <<activeDocs, machine, docReads, docList, chosenDoc, posting, raisedJobs>>

setAssetId(a) ==
    /\ a \in machineList \cup {NoChoice} /\ a # machine
    /\ MachineChosen(a)
    /\ UNCHANGED <<activeDocs, listReads, machineList, posting, raisedJobs>>

(* An answer of a dropped read is not used.                                *)
listDocuments_AnyAnswer(r) ==
    /\ docReads' = docReads \ {r}
    /\ docList' \in {[read |-> TRUE, docs |-> MachineDocs[r.machine] \cap activeDocs],
                     [read |-> FALSE, docs |-> {}]}
    /\ UNCHANGED <<activeDocs, listReads, machineList, machine, chosenDoc, posting, raisedJobs>>

listDocuments(r) ==
    /\ docReads' = docReads \ {r}
    /\ IF r.live
       THEN docList' \in {[read |-> TRUE, docs |-> MachineDocs[r.machine] \cap activeDocs],
                          [read |-> FALSE, docs |-> {}]}
       ELSE UNCHANGED docList
    /\ UNCHANGED <<activeDocs, listReads, machineList, machine, chosenDoc, posting, raisedJobs>>

setAssetDocumentId(d) ==
    /\ docList.read /\ Cardinality(docList.docs) > 1 /\ d \in docList.docs
    /\ chosenDoc' = d
    /\ UNCHANGED <<activeDocs, listReads, machineList, machine, docReads, docList, posting, raisedJobs>>

(* The sole document is not asked for.                                     *)
chosenDocumentId ==
    IF Cardinality(docList.docs) = 1 THEN CHOOSE d \in docList.docs : TRUE ELSE chosenDoc

canRaise == machine # NoChoice /\ chosenDocumentId # NoChoice /\ posting = NotPosting

raise ==
    /\ canRaise
    /\ posting' = [machine |-> machine, doc |-> chosenDocumentId]
    /\ UNCHANGED <<activeDocs, listReads, machineList, machine, docReads, docList, chosenDoc, raisedJobs>>

(* What the server's create accepts: an active document of that machine.   *)
CreateAccepts(request) == request.doc \in MachineDocs[request.machine] \cap activeDocs

(* The server raises the job, or refuses it.  Raised and answered, the     *)
(* screen is left, and opened again it starts afresh; if the answer is     *)
(* lost the form is as it was, and says nothing was raised.                *)
raiseAnswered ==
    /\ posting # NotPosting /\ posting' = NotPosting
    /\ \/ /\ CreateAccepts(posting) /\ raisedJobs < MaxRaised
          /\ raisedJobs' = raisedJobs + 1
          /\ \/ MachineChosen(NoChoice) /\ machineList' = {} /\ listReads' = {"all"}
             \/ UNCHANGED <<listReads, machineList, machine, docReads, docList, chosenDoc>>
       \/ UNCHANGED <<raisedJobs, listReads, machineList, machine, docReads, docList, chosenDoc>>
    /\ UNCHANGED activeDocs

documentRetagged(d) ==
    /\ activeDocs' = IF d \in activeDocs THEN activeDocs \ {d} ELSE activeDocs \cup {d}
    /\ UNCHANGED <<listReads, machineList, machine, docReads, docList, chosenDoc, posting, raisedJobs>>

RaiseNext ==
    \/ \E t \in MachineTypes : setTypeFilter(t)
    \/ \E t \in MachineTypes \cup {"all"} : loadAssets(t)
    \/ \E a \in Machines \cup {NoChoice} : setAssetId(a)
    \/ \E r \in docReads : listDocuments(r)
    \/ \E d \in AllDocs : setAssetDocumentId(d) \/ documentRetagged(d)
    \/ raise \/ raiseAnswered

RaiseSpec == RaiseInit /\ [][RaiseNext]_raiseVars

-----------------------------------------------------------------------------

RaiseTypeOK ==
    /\ activeDocs \subseteq AllDocs /\ machine \in Machines \cup {NoChoice}
    /\ docList.docs \subseteq AllDocs /\ chosenDoc \in AllDocs \cup {NoChoice}
    /\ raisedJobs \in 0 .. MaxRaised

(* The request names a document of the machine it names: not one of a      *)
(* machine that was chosen before and whose list answered late, though the *)
(* sole document is taken without asking.  The server refuses the other    *)
(* pair; the screen is there to not ask for it (listAssetDocuments,        *)
(* chosenDocumentId, raise).                                               *)
RequestNamesTheMachinesForm ==
    posting # NotPosting => posting.doc \in MachineDocs[posting.machine]
=============================================================================
