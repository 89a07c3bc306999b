---------------------------- MODULE SharedTablet ----------------------------
(***************************************************************************)
(* One tablet, several people.  The upgrade that partitions the device's   *)
(* database by person finds unsent rows whose author is not recorded; they *)
(* are held as legacy rows until a bootstrap, answered in somebody's name, *)
(* claims them.  The job list shows the signed-in person's jobs and how    *)
(* many rows are still held.  People sign in and out while bootstraps and  *)
(* drains of earlier sessions are under way.                               *)
(***************************************************************************)
EXTENDS Naturals, FiniteSets

CONSTANTS
    TabletPeople,
    TabletJobs,       \* each has one unsent outbox row from before the upgrade
    MaxSessions       \* bound on the sign-ins

VARIABLES
    attested,         \* the cached copy's assignedTo: a person, null, or no copy
    serverAssignee,   \* whom the server has each job assigned to
    upgraded,         \* the database is at version 2
    rowOwner, sentRows,  \* outbox.userId, and the rows acknowledged
    copies,           \* jobs2: <<owner, job>>
    session, mount,   \* who is signed in, and which JobList that is
    boots,            \* bootstraps under way
    drains,           \* people for whom a drainAll is under way
    refreshing, shown,  \* JobList.refresh, and what the list says
    online

tabletVars == <<attested, serverAssignee, upgraded, rowOwner, sentRows, copies, session, mount,
                boots, drains, refreshing, shown, online>>
server == <<attested, serverAssignee>>
screen == <<refreshing, shown>>

NoPerson == "nobody"
LEGACY_USER_ID == "@legacy"
NoCopy == "no copy"

ASSUME SharedTabletAssumption ==
    {NoPerson, LEGACY_USER_ID, NoCopy} \cap TabletPeople = {}

NothingShown == [listed |-> {}, held |-> 0, loaded |-> FALSE]

TabletInit ==
    /\ attested \in [TabletJobs -> TabletPeople \cup {NoPerson, NoCopy}]
    /\ serverAssignee \in [TabletJobs -> TabletPeople]
    /\ upgraded = FALSE /\ rowOwner = [j \in TabletJobs |-> NoPerson] /\ sentRows = {}
    /\ copies = {} /\ session = NoPerson /\ mount = 0
    /\ boots = {} /\ drains = {} /\ refreshing = FALSE /\ shown = NothingShown /\ online = TRUE

(* Dexie version 2: every row and every cached job gets the sentinel owner.  *)
upgrade ==
    /\ ~upgraded /\ upgraded' = TRUE
    /\ rowOwner' = [j \in TabletJobs |-> LEGACY_USER_ID]
    /\ copies' = {<<LEGACY_USER_ID, j>> : j \in {k \in TabletJobs : attested[k] # NoCopy}}
    /\ UNCHANGED <<server, sentRows, session, mount, boots, drains, screen, online>>

(* --- Sessions. -------------------------------------------------------------- *)
drainIfOnline == drains' = drains \cup (IF online THEN {session} \ {NoPerson} ELSE {})

(* The app mounts a job list, which bootstraps, and drains at once.           *)
signIn(u) ==
    /\ upgraded /\ session = NoPerson /\ mount < MaxSessions
    /\ session' = u /\ mount' = mount + 1
    /\ boots' = boots \cup {[of |-> mount + 1, user |-> u, step |-> "asked"]}
    /\ drains' = drains \cup (IF online THEN {u} ELSE {})
    /\ shown' = NothingShown /\ refreshing' = FALSE
    /\ UNCHANGED <<server, upgraded, rowOwner, sentRows, copies, online>>

(* The list is unmounted; what it started goes on.                            *)
signOut_ ==
    /\ session # NoPerson /\ session' = NoPerson
    /\ shown' = NothingShown /\ refreshing' = FALSE
    /\ UNCHANGED <<server, upgraded, rowOwner, sentRows, copies, mount, boots, drains, online>>

(* --- Bootstrap. ------------------------------------------------------------- *)
(* Rows whose cached job is assigned to somebody else stay where they are;    *)
(* without a copy or an assignee the owner is unrecorded.                     *)
Claimable(u) ==
    {j \in TabletJobs : /\ rowOwner[j] = LEGACY_USER_ID
                        /\ <<LEGACY_USER_ID, j>> \in copies => attested[j] \in {NoPerson, u}}

(* The answer is in the name of whoever asked, signed in still or not.        *)
claimLegacyRows(b) ==
    LET mine == Claimable(b.user)
        kept == {j \in mine : <<LEGACY_USER_ID, j>> \in copies}
    IN /\ b.step = "asked" /\ online
       /\ boots' = (boots \ {b}) \cup {[b EXCEPT !.step = "claimed"]}
       /\ rowOwner' = [j \in TabletJobs |-> IF j \in mine THEN b.user ELSE rowOwner[j]]
       /\ copies' = {c \in copies : c[1] # LEGACY_USER_ID \/ c[2] \notin kept}
                    \cup {<<b.user, j>> : j \in kept}
       /\ UNCHANGED <<server, upgraded, sentRows, session, mount, drains, screen, online>>

(* Only the list that is still there refreshes.                               *)
BootstrapSettles_OnlyIfMounted(b) ==
    /\ boots' = boots \ {b}
    /\ IF b.of = mount /\ session # NoPerson
       THEN refreshing' = TRUE /\ drainIfOnline
       ELSE UNCHANGED <<refreshing, drains>>

(* The effect's finally: the list refreshes if it is still mounted, and the   *)
(* person signed in by now drains in any case.                                *)
BootstrapSettles(b) ==
    /\ boots' = boots \ {b}
    /\ refreshing' = (refreshing \/ (b.of = mount /\ session # NoPerson))
    /\ drainIfOnline

bootstrapStores(b) ==
    /\ b.step = "claimed" /\ BootstrapSettles(b)
    /\ copies' = copies \cup {<<b.user, j>> : j \in {k \in TabletJobs : serverAssignee[k] = b.user}}
    /\ UNCHANGED <<server, upgraded, rowOwner, sentRows, session, mount, shown, online>>

bootstrapFails(b) ==
    /\ b.step = "asked" /\ BootstrapSettles(b)
    /\ UNCHANGED <<server, upgraded, rowOwner, sentRows, copies, session, mount, shown, online>>

(* --- Draining. --------------------------------------------------------------- *)
(* The rows are those of the person the drain began for, the bearer is that   *)
(* of whoever is signed in; the server takes a result only from the assignee. *)
drainSends(u, j) ==
    /\ u \in drains /\ online /\ rowOwner[j] = u /\ j \notin sentRows
    /\ session = serverAssignee[j]
    /\ sentRows' = sentRows \cup {j}
    /\ UNCHANGED <<server, upgraded, rowOwner, copies, session, mount, boots, drains, screen, online>>

(* notifySynced reaches the mounted list.                                      *)
drainEnds(u) ==
    /\ u \in drains /\ drains' = drains \ {u}
    /\ refreshing' = (session # NoPerson)
    /\ UNCHANGED <<server, upgraded, rowOwner, sentRows, copies, session, mount, boots, shown, online>>

goesOffline ==
    /\ online /\ online' = FALSE
    /\ UNCHANGED <<server, upgraded, rowOwner, sentRows, copies, session, mount, boots, drains, screen>>

(* watchOnlineAndDrain.                                                        *)
comesOnline ==
    /\ ~online /\ online' = TRUE
    /\ drains' = drains \cup ({session} \ {NoPerson})
    /\ UNCHANGED <<server, upgraded, rowOwner, sentRows, copies, session, mount, boots, screen>>

(* --- The job list. ------------------------------------------------------------ *)
listCachedJobs(u) == {j \in TabletJobs : <<u, j>> \in copies}

legacyHoldSummary == Cardinality({j \in TabletJobs : rowOwner[j] = LEGACY_USER_ID})

refreshList ==
    /\ refreshing /\ refreshing' = FALSE
    /\ shown' = [listed |-> listCachedJobs(session), held |-> legacyHoldSummary, loaded |-> TRUE]
    /\ UNCHANGED <<server, upgraded, rowOwner, sentRows, copies, session, mount, boots, drains, online>>

TabletNext ==
    \/ upgrade \/ signOut_ \/ goesOffline \/ comesOnline \/ refreshList
    \/ \E u \in TabletPeople : signIn(u) \/ drainEnds(u) \/ \E j \in TabletJobs : drainSends(u, j)
    \/ \E b \in boots : claimLegacyRows(b) \/ bootstrapStores(b) \/ bootstrapFails(b)

TabletSpec == TabletInit /\ [][TabletNext]_tabletVars

----------------------------------------------------------------------------
(* The variables stay in their types, and a cached job has one owner at the   *)
(* sentinel's side: a claimed copy is no longer a legacy copy.                *)
TabletTypeOK ==
    /\ rowOwner \in [TabletJobs -> TabletPeople \cup {NoPerson, LEGACY_USER_ID}]
    /\ sentRows \subseteq TabletJobs /\ drains \subseteq TabletPeople
    /\ copies \subseteq (TabletPeople \cup {LEGACY_USER_ID}) \X TabletJobs
    /\ session \in TabletPeople \cup {NoPerson} /\ mount \in 0..MaxSessions
    /\ boots \subseteq [of : 1..MaxSessions, user : TabletPeople, step : {"asked", "claimed"}]
    /\ refreshing \in BOOLEAN /\ online \in BOOLEAN /\ upgraded \in BOOLEAN

(* Unsent work whose job the server had assigned to a person is only ever     *)
(* held for that person, in whatever order people sign in and however late    *)
(* their bootstraps are answered (claimLegacyRows, H-4).                      *)
HeldForItsOwner ==
    \A j \in TabletJobs :
        attested[j] \in TabletPeople => rowOwner[j] \in {NoPerson, LEGACY_USER_ID, attested[j]}

(* Once nothing is under way a list tells the truth: exactly the signed-in    *)
(* person's jobs and the rows still held for others, also after a bootstrap   *)
(* of an earlier session claimed rows behind its back (JobList, H-2 and H-4). *)
SettledListIsHonest ==
    (shown.loaded /\ boots = {} /\ drains = {} /\ ~refreshing /\ online)
        => /\ shown.listed = listCachedJobs(session)
           /\ shown.held = legacyHoldSummary

=============================================================================
