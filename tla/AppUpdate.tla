------------------------------ MODULE AppUpdate ------------------------------
(***************************************************************************)
(* How a running page of the web app moves to a newly deployed build       *)
(* (web/src/update, register-sw, sw, UpdateBanner): the service worker of  *)
(* the new build takes control, or a poll of the origin sees other assets, *)
(* and the page reloads -- unless somebody is in the middle of something,  *)
(* or it has reloaded too often lately.                                    *)
(***************************************************************************)
EXTENDS Naturals, Sequences, FiniteSets

CONSTANTS
    Works,                \* pieces of critical work: a capture, a signing
    MaxBuild,             \* bound on deployments
    MaxReloadsPerWindow,  \* MAX_RELOADS_PER_WINDOW
    MaxManualReloads      \* bound on reloads asked for by the person

VARIABLES
    deployed,             \* the build the origin serves
    worker,               \* service worker: active build (0: none), the installed one, its cached page
    tab,                  \* the page: see NewTab
    underWay,             \* the critical work really in progress
    reloads,              \* sessionStorage log: kinds of reload inside the window
    connected             \* whether the origin can be reached

appVars == <<deployed, worker, tab, underWay, reloads, connected>>

(* controlled: a controller is there, so the next claim is an update;      *)
(* held: release functions not yet called, spent: called once;             *)
(* told: the page has been told that its build is superseded.              *)
NewTab(build, controlled) ==
    [build |-> build, controlled |-> controlled, criticalSections |-> 0, held |-> {}, spent |-> {},
     updateDeferred |-> FALSE, reloadIssued |-> FALSE, dismissed |-> FALSE, told |-> FALSE]

AppInit ==
    /\ deployed = 1 /\ worker = [active |-> 0, waiting |-> 0, cached |-> 0]
    /\ tab = NewTab(1, FALSE)
    /\ underWay = {} /\ reloads = <<>> /\ connected = TRUE

isReloadStorm == Len(reloads) >= MaxReloadsPerWindow

applyUpdate(t) ==
    IF t.reloadIssued THEN t
    ELSE IF t.criticalSections > 0 \/ isReloadStorm THEN [t EXCEPT !.updateDeferred = TRUE]
    ELSE [t EXCEPT !.reloadIssued = TRUE]

applyUpdateNow(t) ==
    IF t.reloadIssued THEN t
    ELSE IF t.criticalSections > 0 THEN [t EXCEPT !.updateDeferred = TRUE]
    ELSE [t EXCEPT !.reloadIssued = TRUE]

noteUpdateReload(t, kind) ==
    reloads' = IF t.reloadIssued /\ ~tab.reloadIssued THEN Append(reloads, kind) ELSE reloads

Becomes(t, kind) == tab' = t /\ noteUpdateReload(t, kind)

-----------------------------------------------------------------------------
(* Critical work.                                                          *)

beginCriticalWork(w) ==
    /\ w \notin underWay /\ w \notin tab.held
    /\ tab' = [tab EXCEPT !.criticalSections = @ + 1, !.held = @ \cup {w}, !.spent = @ \ {w}]
    /\ underWay' = underWay \cup {w}
    /\ UNCHANGED <<deployed, worker, reloads, connected>>

(* A release that counts every time it is called.                          *)
Released_EveryTime(w) ==
    [tab EXCEPT !.criticalSections = IF @ > 0 THEN @ - 1 ELSE 0,
                !.held = @ \ {w}, !.spent = @ \cup {w}]

Released(w) ==
    IF w \in tab.spent THEN tab
    ELSE [tab EXCEPT !.criticalSections = @ - 1, !.held = @ \ {w}, !.spent = @ \cup {w}]

Retried(t) == IF t.criticalSections = 0 /\ t.updateDeferred THEN applyUpdate(t) ELSE t

release(w) ==
    /\ w \in tab.held \cup tab.spent
    /\ underWay' = underWay \ {w}
    /\ Becomes(Retried(Released(w)), "auto")
    /\ UNCHANGED <<deployed, worker, connected>>

-----------------------------------------------------------------------------
(* Noticing an update.                                                     *)

(* controllerchange: the first claim of a page that had no controller is   *)
(* not an update.                                                          *)
controllerChange ==
    IF ~tab.controlled THEN [tab EXCEPT !.controlled = TRUE]
    ELSE applyUpdate([tab EXCEPT !.told = TRUE])

(* registration.update: the new build's worker installs and skips waiting. *)
workerInstalls ==
    /\ connected /\ worker.waiting # deployed /\ worker.active # deployed
    /\ worker' = [worker EXCEPT !.waiting = deployed]
    /\ UNCHANGED <<deployed, tab, underWay, reloads, connected>>

workerActivates ==
    /\ worker.waiting # 0
    /\ worker' = [active |-> worker.waiting, waiting |-> 0, cached |-> 0]
    /\ Becomes(controllerChange, "auto")
    /\ UNCHANGED <<deployed, underWay, connected>>

retryDeferredUpdate(t) == IF t.updateDeferred THEN applyUpdate(t) ELSE t

(* On start, every few minutes, when the tab is shown or comes online, and *)
(* when the API answers 400 or 422.                                        *)
checkForUpdate ==
    LET retried == retryDeferredUpdate(tab)
        differ == connected /\ worker.waiting = 0 /\ tab.build # deployed
    IN
    /\ Becomes(IF differ THEN applyUpdate([retried EXCEPT !.told = TRUE]) ELSE retried, "auto")
    /\ UNCHANGED <<deployed, worker, underWay, connected>>

(* The banner, and its two buttons.                                        *)
BannerShown == tab.updateDeferred /\ ~tab.dismissed

reloadNow ==
    /\ BannerShown /\ tab.criticalSections = 0
    /\ Cardinality({i \in DOMAIN reloads : reloads[i] = "manual"}) < MaxManualReloads
    /\ Becomes(applyUpdateNow(tab), "manual")
    /\ UNCHANGED <<deployed, worker, underWay, connected>>

dismissBanner ==
    /\ BannerShown /\ tab' = [tab EXCEPT !.dismissed = TRUE]
    /\ UNCHANGED <<deployed, worker, underWay, reloads, connected>>

(* The navigation: from the network first, else what the worker cached.    *)
navigation ==
    /\ tab.reloadIssued
    /\ \/ /\ connected
          /\ tab' = NewTab(deployed, worker.active # 0)
          /\ worker' = [worker EXCEPT !.cached = IF worker.active = 0 THEN 0 ELSE deployed]
       \/ /\ ~connected /\ worker.cached # 0
          /\ tab' = NewTab(worker.cached, TRUE)
          /\ UNCHANGED worker
    /\ underWay' = {}
    /\ UNCHANGED <<deployed, reloads, connected>>

-----------------------------------------------------------------------------

Deploy ==
    /\ deployed < MaxBuild /\ deployed' = deployed + 1
    /\ UNCHANGED <<worker, tab, underWay, reloads, connected>>

(* RELOAD_STORM_WINDOW_MS has passed since the oldest reload.              *)
WindowPasses ==
    /\ reloads # <<>> /\ reloads' = Tail(reloads)
    /\ UNCHANGED <<deployed, worker, tab, underWay, connected>>

Connectivity ==
    /\ connected' = ~connected
    /\ UNCHANGED <<deployed, worker, tab, underWay, reloads>>

AppNext ==
    \/ \E w \in Works : beginCriticalWork(w) \/ release(w)
    \/ workerInstalls \/ workerActivates \/ checkForUpdate \/ reloadNow \/ dismissBanner \/ navigation
    \/ Deploy \/ WindowPasses \/ Connectivity

AppSpec == AppInit /\ [][AppNext]_appVars

-----------------------------------------------------------------------------

AppTypeOK ==
    /\ deployed \in 1 .. MaxBuild /\ worker.active \in 0 .. MaxBuild
    /\ tab.criticalSections \in 0 .. Cardinality(Works)
    /\ Len(reloads) <= MaxReloadsPerWindow + MaxManualReloads

(* The page never starts to reload under somebody's hands: whatever order  *)
(* releases come in, and however often one release is called, no reload is *)
(* issued while any critical work is in progress (beginCriticalWork,       *)
(* applyUpdate, applyUpdateNow).                                           *)
ReloadSparesWork == [][tab'.reloadIssued /\ ~tab.reloadIssued => underWay' = {}]_appVars
=============================================================================
