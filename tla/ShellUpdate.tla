----------------------------- MODULE ShellUpdate -----------------------------
(***************************************************************************)
(* The shell's own updates (UpdateController, UpdateService,               *)
(* UpdateManifest): the activity fetches a manifest, offers it, downloads  *)
(* the APK on a worker thread into one fixed cache file, verifies it and   *)
(* hands it to the installer.  The activity may be destroyed at any point; *)
(* its worker goes on until it notices, beside the next activity's.  The   *)
(* server publishes an APK and its manifest one after the other.           *)
(***************************************************************************)
EXTENDS Naturals, FiniteSets

CONSTANTS
    Apks,             \* APK files
    ApkCode,          \* apk -> its version code
    OurApks,          \* the ones with our package name and signer
    InstalledCode,    \* BuildConfig.VERSION_CODE at the start
    MaxActivities,    \* bound on activities created
    MaxPublished      \* bound on files and manifests published

ASSUME ShellUpdateAssumption ==
    /\ OurApks \subseteq Apks /\ DOMAIN ApkCode = Apks
    /\ {"none", "partial", "mixed"} \cap Apks = {}
    /\ MaxActivities \in Nat \ {0}

VARIABLES
    served,           \* what the update origin serves: manifest and APK
    published,        \* publications so far
    installedCode,    \* the version installed
    prefs,            \* SharedPreferences: throttled, dismissed version
    activity,         \* the running activity's controller
    workers,          \* worker threads still alive, by activity
    cacheFile,        \* updates/bamform-update.apk: NoFile, or writers and bytes
    handed            \* the file last handed to the installer: by which
                      \* activity, for which manifest, and as it was when read

updateVars == <<served, published, installedCode, prefs, activity, workers, cacheFile, handed>>

NoFile == [writers |-> {}, bytes |-> "none"]
NoManifest == [code |-> 0, sha |-> "none"]
NothingHanded == [by |-> 0, manifest |-> NoManifest, file |-> NoFile]

NewActivity(n) ==
    [id |-> n, offered |-> NoManifest, banner |-> "hidden", downloading |-> FALSE, verified |-> FALSE]

NoWorker == [stage |-> "none", manifest |-> NoManifest, cancelled |-> FALSE, digest |-> "none"]

ShellUpdateInit ==
    /\ \E apk \in Apks : served = [manifest |-> NoManifest, apk |-> apk]
    /\ published = 0 /\ installedCode = InstalledCode
    /\ prefs = [throttled |-> FALSE, dismissed |-> 0]
    /\ activity = NewActivity(1)
    /\ workers = [n \in 1 .. MaxActivities |-> NoWorker]
    /\ cacheFile = NoFile /\ handed = NothingHanded

-----------------------------------------------------------------------------
(* The release directory and the clock.                                    *)

PublishApk ==
    /\ published < MaxPublished
    /\ \E apk \in Apks : served' = [served EXCEPT !.apk = apk]
    /\ published' = published + 1
    /\ UNCHANGED <<installedCode, prefs, activity, workers, cacheFile, handed>>

PublishManifest ==
    /\ published < MaxPublished
    /\ \E apk \in Apks : served' = [served EXCEPT !.manifest = [code |-> ApkCode[apk], sha |-> apk]]
    /\ published' = published + 1
    /\ UNCHANGED <<installedCode, prefs, activity, workers, cacheFile, handed>>

(* CHECK_INTERVAL_MS has passed.                                           *)
ThrottleExpires ==
    /\ prefs.throttled
    /\ prefs' = [prefs EXCEPT !.throttled = FALSE]
    /\ UNCHANGED <<served, published, installedCode, activity, workers, cacheFile, handed>>

-----------------------------------------------------------------------------
(* The activity.                                                           *)

(* check and onManifest: an answer that is no manifest changes nothing.    *)
onManifest(m) ==
    IF m.code <= installedCode
    THEN /\ prefs' = [throttled |-> TRUE, dismissed |-> 0] /\ UNCHANGED activity
    ELSE /\ prefs' = [prefs EXCEPT !.throttled = TRUE]
         /\ activity' = IF m.code <= prefs.dismissed THEN activity
                        ELSE [activity EXCEPT !.offered = m, !.banner = "prompt"]

check ==
    /\ activity.id # 0 /\ ~prefs.throttled /\ activity.offered = NoManifest
    /\ \/ served.manifest # NoManifest /\ onManifest(served.manifest)
       \/ prefs' = [prefs EXCEPT !.throttled = TRUE] /\ UNCHANGED activity
    /\ UNCHANGED <<served, published, installedCode, workers, cacheFile, handed>>

dismissVersion ==
    /\ activity.banner = "prompt"
    /\ prefs' = [prefs EXCEPT !.dismissed = activity.offered.code]
    /\ activity' = [activity EXCEPT !.banner = "hidden"]
    /\ UNCHANGED <<served, published, installedCode, workers, cacheFile, handed>>

hide ==
    /\ activity.banner \in {"ready", "problem", "refused", "permission"}
    /\ activity' = [activity EXCEPT !.banner = "hidden"]
    /\ UNCHANGED <<served, published, installedCode, prefs, workers, cacheFile, handed>>

startDownload ==
    /\ activity.banner = "prompt" /\ ~activity.downloading
    /\ activity' = [activity EXCEPT !.downloading = TRUE, !.verified = FALSE, !.banner = "downloading"]
    /\ workers' = [workers EXCEPT ![activity.id] =
                      [NoWorker EXCEPT !.stage = "prepare", !.manifest = activity.offered]]
    /\ UNCHANGED <<served, published, installedCode, prefs, cacheFile, handed>>

cancelDownload ==
    /\ activity.banner = "downloading"
    /\ workers' = [workers EXCEPT ![activity.id].cancelled = TRUE]
    /\ UNCHANGED <<served, published, installedCode, prefs, activity, cacheFile, handed>>

(* The worker's outcome, posted to the main thread of a living activity.   *)
Posted(n, banner, ok) ==
    activity' = IF n = activity.id
                THEN [activity EXCEPT !.downloading = FALSE, !.verified = ok, !.banner = banner]
                ELSE activity

(* What is handed over is the file's URI.                                  *)
launchInstaller ==
    /\ activity.banner = "ready" /\ activity.verified
    /\ \/ /\ cacheFile = NoFile
          /\ activity' = [activity EXCEPT !.banner = "problem"]
          /\ UNCHANGED handed
       \/ /\ cacheFile # NoFile
          /\ activity' = [activity EXCEPT !.banner = "permission"]
          /\ UNCHANGED handed
       \/ /\ cacheFile # NoFile
          /\ handed' = [by |-> activity.id, manifest |-> activity.offered, file |-> NoFile]
          /\ activity' = [activity EXCEPT !.banner = "hidden"]
    /\ UNCHANGED <<served, published, installedCode, prefs, workers, cacheFile>>

(* The platform's installer opens the URI when it gets to it, and installs *)
(* a newer build of ours if the person agrees.                             *)
installerReads ==
    /\ handed.by # 0 /\ handed.file = NoFile /\ cacheFile # NoFile
    /\ handed' = [handed EXCEPT !.file = cacheFile]
    /\ installedCode' \in {installedCode} \cup
          {ApkCode[apk] : apk \in {b \in {cacheFile.bytes} \cap OurApks : ApkCode[b] > installedCode}}
    /\ UNCHANGED <<served, published, prefs, activity, workers, cacheFile>>

(* onDestroy: the worker is told, and goes on until it looks.              *)
controllerDestroyed ==
    /\ activity.id # 0 /\ activity.id < MaxActivities
    /\ workers' = [workers EXCEPT ![activity.id].cancelled = TRUE]
    /\ activity' = NewActivity(activity.id + 1)
    /\ UNCHANGED <<served, published, installedCode, prefs, cacheFile, handed>>

-----------------------------------------------------------------------------
(* UpdateService.download, on worker n.                                    *)

Deleted(n, banner) ==
    /\ cacheFile' = NoFile
    /\ workers' = [workers EXCEPT ![n] = NoWorker]
    /\ Posted(n, banner, FALSE)

WorkerKeeps == UNCHANGED <<served, published, installedCode, prefs, handed>>

(* The cache directory is emptied, then the connection is opened.          *)
downloadPrepare(n) ==
    /\ workers[n].stage = "prepare"
    /\ cacheFile' = NoFile
    /\ workers' = [workers EXCEPT ![n].stage = "connect"]
    /\ UNCHANGED activity /\ WorkerKeeps

(* Opening the output creates the file, or truncates the one that is there.*)
downloadConnect(n) ==
    /\ workers[n].stage = "connect"
    /\ \/ /\ cacheFile' = [writers |-> cacheFile.writers \cup {n}, bytes |-> "partial"]
          /\ workers' = [workers EXCEPT ![n].stage = "stream"]
          /\ UNCHANGED activity
       \/ Deleted(n, "problem")
    /\ WorkerKeeps

(* What the file holds when n has written all of what the server sent.     *)
Written(n) ==
    IF n \notin cacheFile.writers THEN cacheFile
    ELSE [cacheFile EXCEPT !.bytes = IF cacheFile.writers = {n} THEN served.apk ELSE "mixed"]

downloadStream(n) ==
    /\ workers[n].stage = "stream"
    /\ \/ workers[n].cancelled /\ Deleted(n, "hidden")
       \/ ~workers[n].cancelled /\ Deleted(n, "problem")      \* network, or too big
       \/ /\ ~workers[n].cancelled
          /\ cacheFile' = Written(n)
          /\ workers' = [workers EXCEPT ![n].stage = "verify", ![n].digest = served.apk]
          /\ UNCHANGED activity
    /\ WorkerKeeps

(* The check of the hash left out: the identity check still runs.          *)
digestMatches_Skipped(n) == TRUE

digestMatches(n) == workers[n].digest = workers[n].manifest.sha

verifyApkIdentity(n) ==
    /\ cacheFile.bytes \in OurApks /\ ApkCode[cacheFile.bytes] = workers[n].manifest.code

downloadVerify(n) ==
    /\ workers[n].stage = "verify"
    /\ \/ ~(digestMatches(n) /\ verifyApkIdentity(n)) /\ Deleted(n, "refused")
       \/ /\ digestMatches(n) /\ verifyApkIdentity(n)
          /\ workers' = [workers EXCEPT ![n] = NoWorker]
          /\ Posted(n, "ready", TRUE)
          /\ UNCHANGED cacheFile
    /\ WorkerKeeps

ShellUpdateNext ==
    \/ PublishApk \/ PublishManifest \/ ThrottleExpires
    \/ check \/ dismissVersion \/ hide \/ startDownload \/ cancelDownload
    \/ launchInstaller \/ installerReads \/ controllerDestroyed
    \/ \E n \in 1 .. MaxActivities : \/ downloadPrepare(n) \/ downloadConnect(n)
                                     \/ downloadStream(n) \/ downloadVerify(n)

ShellUpdateSpec == ShellUpdateInit /\ [][ShellUpdateNext]_updateVars

-----------------------------------------------------------------------------

ShellUpdateTypeOK ==
    /\ activity.banner \in {"hidden", "prompt", "downloading", "ready", "problem", "refused", "permission"}
    /\ cacheFile.bytes \in Apks \cup {"none", "partial", "mixed"}
    /\ \A n \in DOMAIN workers : workers[n].stage \in {"none", "prepare", "connect", "stream", "verify"}

(* A worker of another activity has opened the file handed over: an        *)
(* earlier one's truncated it, or a later one's is downloading into it.    *)
Spoilt(f) ==
    \/ f.bytes = "partial" /\ \E n \in f.writers : n < handed.by
    \/ \E n \in f.writers : n > handed.by

(* The installer reads the very file the offered manifest names, however   *)
(* the server's publishing, cancelled and repeated downloads overlap on    *)
(* the one cache file, with one exception: the file spoilt by the worker   *)
(* of another activity, a destroyed one's before the hand-over or between  *)
(* it and the reading, or the next one's before the reading                *)
(* (UpdateService.download, launchInstaller).                              *)
OnlyAnotherDownloadSpoilsTheApk ==
    handed.file = NoFile \/ handed.file.bytes = handed.manifest.sha \/ Spoilt(handed.file)
=============================================================================
