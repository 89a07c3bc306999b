---------------------------- MODULE AndroidShell ----------------------------
(***************************************************************************)
(* The Android shell (com.bamform.shell): one activity round a WebView     *)
(* that shows the BamForm web app of a configured server.  The server is   *)
(* changed by the page, over a message channel, or by the person at the    *)
(* native offline card; a health probe on a worker thread decides.  Pages, *)
(* messages, probes, the renderer and the file chooser all run on their    *)
(* own clocks.                                                             *)
(***************************************************************************)
EXTENDS Naturals, FiniteSets

CONSTANTS
    Servers,          \* origins that answer the health probe
    Foreign,          \* an origin that is not a BamForm server
    DefaultServer,    \* ServerConfig.DEFAULT_URL
    MaxRendererCrashes

Origins == Servers \cup {Foreign}

ASSUME AndroidShellAssumption == DefaultServer \in Servers /\ Foreign \notin Servers

VARIABLES
    shell,            \* the activity: see ShellCreated
    stored,           \* SharedPreferences: server_url
    rendererCrashes,  \* process-wide count in the current crash window
    shellMessages,    \* messages posted by a page and not yet delivered
    choosers          \* chooser activities and permission prompts on screen

shellVars == <<shell, stored, rendererCrashes, shellMessages, choosers>>

NoPage == "no page"

(* What a new activity starts with: ServerConfig.get, and its first load.  *)
ShellCreated(server) ==
    [configured |-> server, bridge |-> server, alive |-> TRUE, dead |-> FALSE,
     switching |-> FALSE, probe |-> NoPage,
     page |-> NoPage, loading |-> server, failure |-> FALSE, card |-> FALSE,
     returning |-> FALSE, canGoBack |-> FALSE, clearHistory |-> FALSE, callback |-> FALSE]

ShellInit ==
    /\ stored = DefaultServer /\ rendererCrashes = 0
    /\ shellMessages = {} /\ choosers = {}
    /\ shell = ShellCreated(DefaultServer)

Live == shell.alive /\ ~shell.dead

ShellOnly(s) == shell' = s /\ UNCHANGED <<stored, rendererCrashes, shellMessages, choosers>>

-----------------------------------------------------------------------------
(* Pages.                                                                  *)

sameOrigin(o) == o = shell.configured

(* A link: off-origin ones are given to the browser.                       *)
shouldOverrideUrlLoading(o) ==
    /\ Live /\ shell.page # NoPage /\ sameOrigin(o)
    /\ ShellOnly([shell EXCEPT !.loading = o])

(* A redirect or a script reaches a document without asking.               *)
onPageStarted(o) ==
    /\ Live /\ shell.page # NoPage
    /\ ShellOnly(IF sameOrigin(o) THEN [shell EXCEPT !.loading = o]
                 ELSE [shell EXCEPT !.loading = NoPage, !.returning = TRUE])

returnToConfiguredOrigin ==
    /\ shell.returning
    /\ ShellOnly(IF Live THEN [shell EXCEPT !.returning = FALSE, !.clearHistory = TRUE,
                                            !.loading = shell.configured]
                 ELSE [shell EXCEPT !.returning = FALSE])

failMainFrame(s) == [s EXCEPT !.failure = TRUE, !.card = TRUE]

onReceivedError ==
    /\ Live /\ shell.loading # NoPage
    /\ ShellOnly(failMainFrame(shell))

(* A 5xx answer, from a healthy connection.                                *)
onReceivedHttpError == onReceivedError

onPageFinished ==
    /\ Live /\ shell.loading # NoPage
    /\ ShellOnly([shell EXCEPT
          !.card = shell.failure, !.failure = FALSE,
          !.page = IF shell.failure THEN NoPage ELSE shell.loading,
          !.loading = NoPage,
          !.canGoBack = ~shell.clearHistory /\ (shell.canGoBack \/ shell.page # NoPage),
          !.clearHistory = FALSE])

(* The back button, when the page can go back: the earlier document        *)
(* starts, whichever origin it was of.                                     *)
handleOnBackPressed ==
    /\ ~shell.card /\ shell.canGoBack /\ \E o \in Origins : onPageStarted(o)

(* The renderer dies: recreate, unless it keeps dying.                     *)
Recreated == shell' = ShellCreated(stored)

(* Counting on past the budget changes nothing.                            *)
nextCrash == IF rendererCrashes > MaxRendererCrashes THEN rendererCrashes ELSE rendererCrashes + 1

onRenderProcessGone ==
    /\ Live
    /\ \E count \in {1, nextCrash} :      \* outside or inside CRASH_WINDOW_MS
          /\ rendererCrashes' = count
          /\ IF count <= MaxRendererCrashes THEN Recreated
             ELSE shell' = [shell EXCEPT !.dead = TRUE, !.card = TRUE, !.page = NoPage, !.loading = NoPage]
    /\ UNCHANGED <<stored, shellMessages, choosers>>

wireOfflineCard ==
    /\ shell.alive /\ shell.card
    /\ IF shell.dead THEN Recreated
       ELSE shell' = [shell EXCEPT !.card = FALSE, !.loading = shell.configured]
    /\ UNCHANGED <<stored, rendererCrashes, shellMessages, choosers>>

(* The callback is answered with nothing; what the dead activity's probe    *)
(* or posted load would do is dropped, so its other fields are forgotten.   *)
onDestroy ==
    /\ shell.alive
    /\ ShellOnly([ShellCreated(stored) EXCEPT !.alive = FALSE, !.loading = NoPage])

onCreate ==
    /\ ~shell.alive
    /\ Recreated /\ UNCHANGED <<stored, rendererCrashes, shellMessages, choosers>>

-----------------------------------------------------------------------------
(* Changing the server.                                                    *)

(* The page's control posts a message; the channel is injected only into   *)
(* pages of the origin the bridge was installed for.                       *)
postSwitch(target) ==
    /\ Live /\ shell.page = shell.bridge /\ shellMessages = {}
    /\ shellMessages' = {[from |-> shell.page, target |-> target]}
    /\ UNCHANGED <<shell, stored, rendererCrashes, choosers>>

(* The request is refused as too fast, ignored while a probe runs, or      *)
(* starts a probe.                                                         *)
requestServerSwitch(target) ==
    \/ UNCHANGED shell                                \* not a URL, or within MIN_PROBE_INTERVAL_MS
    \/ shell.switching /\ UNCHANGED shell
    \/ /\ ~shell.switching
       /\ shell' = [shell EXCEPT !.switching = TRUE, !.probe = target]

onPostMessage ==
    \E msg \in shellMessages :
        /\ shellMessages' = shellMessages \ {msg}
        /\ IF Live /\ sameOrigin(msg.from) THEN requestServerSwitch(msg.target)
           ELSE UNCHANGED shell
        /\ UNCHANGED <<stored, rendererCrashes, choosers>>

connectButton(target) ==
    /\ shell.alive /\ shell.card
    /\ requestServerSwitch(target)
    /\ UNCHANGED <<stored, rendererCrashes, shellMessages, choosers>>

installBridge(s) == [s EXCEPT !.bridge = s.configured]

switched(target) ==
    installBridge([shell EXCEPT !.switching = FALSE, !.probe = NoPage, !.configured = target,
                                !.card = FALSE, !.clearHistory = TRUE,
                                !.loading = IF shell.dead THEN NoPage ELSE target])

(* HealthCheck.probe has answered, on the main thread.                     *)
probeAnswered ==
    /\ shell.alive /\ shell.switching
    /\ \/ stored' = shell.probe /\ shell' = switched(shell.probe)
       \/ /\ shell' = [shell EXCEPT !.switching = FALSE, !.probe = NoPage]
          /\ UNCHANGED stored
    /\ UNCHANGED <<rendererCrashes, shellMessages, choosers>>

-----------------------------------------------------------------------------
(* The file chooser behind the page's <input type=file>.                   *)

(* No activity takes the chooser intent: the page is not told.             *)
launchChooser_Unanswered(s, opened) ==
    \/ choosers' = opened \cup {"chooser"} /\ shell' = s
    \/ choosers' = opened /\ shell' = s

launchChooser(s, opened) ==
    \/ choosers' = opened \cup {"chooser"} /\ shell' = s
    \/ choosers' = opened /\ shell' = [s EXCEPT !.callback = FALSE]

onShowFileChooser ==
    /\ Live /\ shell.page # NoPage
    /\ \/ launchChooser([shell EXCEPT !.callback = TRUE], choosers)
       \/ /\ choosers' = choosers \cup {"permission"}
          /\ shell' = [shell EXCEPT !.callback = TRUE]
    /\ UNCHANGED <<stored, rendererCrashes, shellMessages>>

cameraPermissionAnswered ==
    /\ shell.alive /\ "permission" \in choosers
    /\ launchChooser(shell, choosers \ {"permission"})
    /\ UNCHANGED <<stored, rendererCrashes, shellMessages>>

onChooserResult ==
    /\ shell.alive /\ "chooser" \in choosers
    /\ choosers' = choosers \ {"chooser"}
    /\ shell' = [shell EXCEPT !.callback = FALSE]
    /\ UNCHANGED <<stored, rendererCrashes, shellMessages>>

(* A target that is no BamForm server fares as a server that is down.      *)
ShellNext ==
    \/ \E o \in Origins : shouldOverrideUrlLoading(o) \/ onPageStarted(o)
    \/ \E target \in Servers : postSwitch(target) \/ connectButton(target)
    \/ returnToConfiguredOrigin \/ onReceivedHttpError \/ onPageFinished \/ handleOnBackPressed
    \/ onRenderProcessGone \/ wireOfflineCard \/ onDestroy \/ onCreate
    \/ onPostMessage \/ probeAnswered
    \/ onShowFileChooser \/ cameraPermissionAnswered \/ onChooserResult

ShellSpec == ShellInit /\ [][ShellNext]_shellVars

-----------------------------------------------------------------------------

ShellTypeOK ==
    /\ stored \in Servers /\ shell.configured \in Servers
    /\ shell.page \in Origins \cup {NoPage} /\ shell.loading \in Origins \cup {NoPage}
    /\ shell.probe \in Servers \cup {NoPage}
    /\ rendererCrashes <= MaxRendererCrashes + 1
    /\ choosers \subseteq {"chooser", "permission"}

(* A page waiting for a file has something on screen that will answer it;  *)
(* otherwise its photo button is dead until the app restarts               *)
(* (onShowFileChooser, launchChooser, onChooserResult).                    *)
ChooserWillAnswer == shell.callback => choosers # {}
=============================================================================
