----------------------------- MODULE AuditChain -----------------------------
(***************************************************************************)
(* The audit log: every state-changing transaction inserts audit_event     *)
(* rows, which a trigger links by hash under an advisory lock held to the  *)
(* end of the transaction; a verifier re-reads the table page by page, in  *)
(* a transaction per page, while writers go on, and records a break once.  *)
(* Somebody with the owner's rights may alter, re-hash or delete rows      *)
(* behind the application's back, the newest ones too.                     *)
(***************************************************************************)
EXTENDS Naturals, FiniteSets, FiniteSetsExt

CONSTANTS
    Writers,          \* concurrent transactions of the application
    PageRows,         \* DEFAULT_PAGE_SIZE
    MaxEvents,        \* bound on the audit rows drawn
    MaxVerifications, MaxTampers  \* bounds: runs of the verifier, alterations

NobodyWrites == "nobody"
Daily == "verifier"

ASSUME AuditChainAssumption == PageRows \in Nat \ {0} /\ NobodyWrites \notin Writers

VARIABLES
    log,              \* committed audit_event rows, by their sequence column
    sequence,         \* the last value drawn from the table's sequence
    chainLock,        \* who holds pg_advisory_xact_lock('audit_event_chain')
    trans,            \* each transaction: its uncommitted rows, likewise
    walk,             \* the verifier: where it is and what it found
    verifications, tampers,
    witnesses,        \* rows nobody touched since one before them was altered
                      \* or removed, and altered rows that kept their old hash
    evidence          \* the witnesses when the verification began, still there

auditVars == <<log, sequence, chainLock, trans, walk, verifications, tampers, witnesses, evidence>>

NoHash == <<>>
NoRows == [s \in {} |-> {}]
INITIAL_CHAIN_WALK_STATE ==
    [step |-> "off", after |-> 0, lastHash |-> NoHash, broken |-> 0]

AuditInit ==
    /\ log = NoRows /\ sequence = 0 /\ chainLock = NobodyWrites
    /\ trans = [w \in Writers \cup {Daily} |-> NoRows]
    /\ walk = INITIAL_CHAIN_WALK_STATE
    /\ verifications = 0 /\ tampers = 0 /\ witnesses = {} /\ evidence = {}

(* --- Writing. ------------------------------------------------------------ *)
(* The digest of the columns and of the hash before it: equal only when     *)
(* both are.                                                                *)
digest(row) == <<row.id, row.action, row.content, row.prevHash>>

LastHash(rows) == IF DOMAIN rows = {} THEN NoHash ELSE rows[Max(DOMAIN rows)].hash

WithRows(rows, more) ==
    [s \in DOMAIN rows \cup DOMAIN more |-> IF s \in DOMAIN more THEN more[s] ELSE rows[s]]

(* A transaction sees the committed rows and its own.                       *)
SeenBy(w) == WithRows(log, trans[w])

(* Two transactions link to the row each of them sees last.                 *)
LockFree_NeverTaken(w) == TRUE

LockFree(w) == chainLock \in {NobodyWrites, w}

(* compute_audit_event_hash_chain: the sequence is drawn again under the    *)
(* lock, and the row is linked to the last one its transaction sees.        *)
Linked(w, action) ==
    LET row == [id |-> sequence + 1, action |-> action, content |-> 0,
                prevHash |-> LastHash(SeenBy(w)), hash |-> NoHash]
    IN [row EXCEPT !.hash = digest(row)]

recordEvent(w, action) ==
    /\ LockFree(w) /\ sequence < MaxEvents
    /\ chainLock' = w /\ sequence' = sequence + 1
    /\ trans' = [trans EXCEPT ![w] =
                    WithRows(@, [s \in {sequence + 1} |-> Linked(w, action)])]

record_(w) ==
    /\ recordEvent(w, <<"work", 0>>)
    /\ UNCHANGED <<log, walk, verifications, tampers, witnesses, evidence>>

TransactionEnds(w) ==
    /\ trans[w] # NoRows
    /\ trans' = [trans EXCEPT ![w] = NoRows]
    /\ chainLock' = IF chainLock = w THEN NobodyWrites ELSE chainLock
    /\ UNCHANGED <<sequence, verifications, tampers, witnesses, evidence>>

commitEvents(w) == TransactionEnds(w) /\ log' = SeenBy(w) /\ UNCHANGED walk

(* A rolled-back transaction leaves a gap in the sequence.                  *)
rollbackEvents(w) == TransactionEnds(w) /\ UNCHANGED <<log, walk>>

(* --- Verifying. ---------------------------------------------------------- *)
EarlierIn(page, s) == {t \in page : t < s}

(* The first rows after a sequence number, a page of them at most.          *)
fetchPage(after) ==
    LET rest == {s \in DOMAIN log : s > after}
    IN {s \in rest : Cardinality(EarlierIn(rest, s)) < PageRows}

(* A row's link is to the row before it, the last of the page before for    *)
(* the first of a page.                                                     *)
linkOk(page, s) ==
    log[s].prevHash = IF EarlierIn(page, s) = {} THEN walk.lastHash
                      ELSE log[Max(EarlierIn(page, s))].hash

(* Links and digests of a page; the first row that fails either.            *)
walkChainPage(page) ==
    LET bad == {s \in page : ~linkOk(page, s) \/ digest(log[s]) # log[s].hash}
    IN IF bad = {} THEN 0 ELSE Min(bad)

verify ==
    /\ walk.step = "off" /\ verifications < MaxVerifications
    /\ verifications' = verifications + 1
    /\ walk' = [INITIAL_CHAIN_WALK_STATE EXCEPT !.step = "page"]
    /\ evidence' = witnesses
    /\ UNCHANGED <<log, sequence, chainLock, trans, tampers, witnesses>>

verifyPage ==
    /\ walk.step = "page"
    /\ LET page == fetchPage(walk.after)
           found == walkChainPage(page)
       IN walk' = IF found # 0 THEN [walk EXCEPT !.step = "broken", !.broken = found]
                  ELSE IF Cardinality(page) < PageRows THEN [walk EXCEPT !.step = "intact"]
                  ELSE [walk EXCEPT !.after = Max(page), !.lastHash = log[Max(page)].hash]
    /\ UNCHANGED <<log, sequence, chainLock, trans, verifications, tampers, witnesses, evidence>>

BreakReports == {s \in DOMAIN log : log[s].action[1] = "chain_break_detected"}

isAlreadyReported ==
    BreakReports # {} /\ log[Max(BreakReports)].action[2] = walk.broken

(* The daily run: an intact chain, or a known break, is only logged.        *)
dailyVerified ==
    /\ walk.step = "intact" \/ (walk.step = "broken" /\ isAlreadyReported)
    /\ walk' = INITIAL_CHAIN_WALK_STATE
    /\ UNCHANGED <<log, sequence, chainLock, trans, verifications, tampers, witnesses, evidence>>

reportBreak ==
    /\ walk.step = "broken" /\ ~isAlreadyReported
    /\ recordEvent(Daily, <<"chain_break_detected", walk.broken>>)
    /\ walk' = [walk EXCEPT !.step = "reporting"]
    /\ UNCHANGED <<log, verifications, tampers, witnesses, evidence>>

breakReported ==
    /\ walk.step = "reporting"
    /\ TransactionEnds(Daily) /\ log' = SeenBy(Daily)
    /\ walk' = INITIAL_CHAIN_WALK_STATE

(* --- Tampering, with no application code in the way. ---------------------- *)
(* What is left of the rows that tell of a tampering with row s.            *)
TellsOf(s) ==
    /\ witnesses' = (witnesses \ {s}) \cup {t \in DOMAIN log' : t > s \/ (t = s /\ digest(log'[s]) # log'[s].hash)}
    /\ evidence' = evidence \ {s}

HashBefore(s) == LastHash([t \in EarlierIn(DOMAIN log, s) |-> log[t]])

(* A column takes a value it never had; the row may be re-hashed, and       *)
(* linked to the row that is before it now.                                 *)
alterRow ==
    /\ tampers < MaxTampers /\ tampers' = tampers + 1
    /\ \E s \in DOMAIN log : \E link \in {log[s].prevHash, HashBefore(s)} :
         LET row == [log[s] EXCEPT !.content = tampers + 1, !.prevHash = link]
         IN \E h \in {row.hash, digest(row)} :
              /\ log' = [log EXCEPT ![s] = [row EXCEPT !.hash = h]]
              /\ TellsOf(s)
    /\ UNCHANGED <<sequence, chainLock, trans, walk, verifications>>

deleteRow ==
    /\ tampers < MaxTampers /\ tampers' = tampers + 1
    /\ \E s \in DOMAIN log :
         /\ log' = [t \in DOMAIN log \ {s} |-> log[t]]
         /\ TellsOf(s)
    /\ UNCHANGED <<sequence, chainLock, trans, walk, verifications>>

AuditNext ==
    \/ \E w \in Writers : record_(w) \/ commitEvents(w) \/ rollbackEvents(w)
    \/ verify \/ verifyPage \/ dailyVerified \/ reportBreak \/ breakReported
    \/ alterRow \/ deleteRow

AuditSpec == AuditInit /\ [][AuditNext]_auditVars

----------------------------------------------------------------------------
(* The variables stay in their types, and uncommitted rows belong to the    *)
(* holder of the lock.                                                      *)
AuditTypeOK ==
    /\ sequence \in 0..MaxEvents
    /\ chainLock \in Writers \cup {Daily, NobodyWrites}
    /\ \A w \in DOMAIN trans : trans[w] # NoRows => chainLock = w
    /\ verifications \in 0..MaxVerifications /\ tampers \in 0..MaxTampers
    /\ walk.broken \in 0..MaxEvents /\ evidence \cup witnesses \subseteq DOMAIN log

(* The verdict can be relied on while the system is in use: concurrent and  *)
(* rolled-back transactions never raise the alarm by themselves, and what   *)
(* was altered, re-hashed or removed before a verification began is found   *)
(* by it as long as one later row was left as it was, or the altered row    *)
(* kept its old hash (ChainVerificationService.verify). Nothing more: the   *)
(* newest rows removed, or every row to the newest re-hashed, is the KNOWN  *)
(* LIMITATION of chain-verification.service.ts:65-80.                       *)
VerdictIsRight ==
    /\ walk.broken # 0 => tampers > 0
    /\ walk.step = "intact" => evidence = {}

=============================================================================
