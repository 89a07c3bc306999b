---------------------------- MODULE DeviceProofs ----------------------------
(***************************************************************************)
(* Proofs about what runs on the tablet, for every set of people, jobs,    *)
(* servers and files: whose unsent work it holds and lists (SharedTablet), *)
(* the reloads of the page (AppUpdate), and the Android shell's file       *)
(* chooser (AndroidShell) and own updates (ShellUpdate).                   *)
(***************************************************************************)
EXTENDS SharedTablet, AndroidShell, ShellUpdate, AppUpdate, FiniteSetTheorems, TLAPS

USE SharedTabletAssumption

-----------------------------------------------------------------------------
(* SharedTablet.                                                           *)

Bootstrap == [of : Nat, user : TabletPeople, step : {"asked", "claimed"}]

(* A row nobody has claimed still has the copy that names its owner, and   *)
(* only people ask for a bootstrap.                                        *)
CopyNamesTheOwner ==
    \A j \in TabletJobs :
        rowOwner[j] = LEGACY_USER_ID /\ attested[j] \in TabletPeople
            => <<LEGACY_USER_ID, j>> \in copies

TabletInv ==
    /\ rowOwner \in [TabletJobs -> TabletPeople \cup {NoPerson, LEGACY_USER_ID}]
    /\ mount \in Nat
    /\ boots \subseteq Bootstrap
    /\ CopyNamesTheOwner
    /\ HeldForItsOwner

LEMMA TabletInvInit == TabletInit => TabletInv
  BY DEF TabletInit, TabletInv, CopyNamesTheOwner, HeldForItsOwner, NoPerson, LEGACY_USER_ID

(* A claim takes a row from the sentinel to the person its copy names.     *)
LEMMA ClaimKeepsOwner ==
    ASSUME TabletInv, NEW b \in boots, claimLegacyRows(b) PROVE TabletInv'
  <1> DEFINE mine == Claimable(b.user)
             kept == {j \in mine : <<LEGACY_USER_ID, j>> \in copies}
  <1>1. /\ rowOwner' = [j \in TabletJobs |-> IF j \in mine THEN b.user ELSE rowOwner[j]]
        /\ copies' = {c \in copies : c[1] # LEGACY_USER_ID \/ c[2] \notin kept}
                     \cup {<<b.user, j>> : j \in kept}
        /\ boots' = (boots \ {b}) \cup {[b EXCEPT !.step = "claimed"]}
        /\ attested' = attested /\ b.user \in TabletPeople
      BY DEF claimLegacyRows, TabletInv, server, Bootstrap
  <1>2. rowOwner' \in [TabletJobs -> TabletPeople \cup {NoPerson, LEGACY_USER_ID}]
      BY <1>1 DEF TabletInv
  <1>3. boots' \subseteq Bootstrap /\ mount' \in Nat
      BY <1>1 DEF TabletInv, Bootstrap, claimLegacyRows
  <1>4. CopyNamesTheOwner'
    <2> SUFFICES ASSUME NEW j \in TabletJobs, rowOwner'[j] = LEGACY_USER_ID,
                        attested[j] \in TabletPeople
                 PROVE  <<LEGACY_USER_ID, j>> \in copies'
        BY <1>1 DEF CopyNamesTheOwner
    <2>1. j \notin mine /\ rowOwner[j] = LEGACY_USER_ID
        BY <1>1
    <2>2. <<LEGACY_USER_ID, j>> \in copies
        BY <2>1 DEF TabletInv, CopyNamesTheOwner
    <2> QED BY <1>1, <2>1, <2>2
  <1>5. HeldForItsOwner'
    <2> SUFFICES ASSUME NEW j \in TabletJobs, attested[j] \in TabletPeople
                 PROVE  rowOwner'[j] \in {NoPerson, LEGACY_USER_ID, attested[j]}
        BY <1>1 DEF HeldForItsOwner
    <2>1. CASE j \in mine
      <3>1. rowOwner[j] = LEGACY_USER_ID /\ <<LEGACY_USER_ID, j>> \in copies
          BY <2>1 DEF Claimable, TabletInv, CopyNamesTheOwner
      <3>2. attested[j] = b.user
          BY <2>1, <3>1 DEF Claimable
      <3> QED BY <1>1, <2>1, <3>2
    <2>2. CASE j \notin mine
        BY <1>1, <2>2 DEF TabletInv, HeldForItsOwner
    <2> QED BY <2>1, <2>2
  <1> QED BY <1>2, <1>3, <1>4, <1>5 DEF TabletInv

LEMMA TabletInvNext ==
    ASSUME TabletInv, [TabletNext]_tabletVars PROVE TabletInv'
  <1> USE DEF TabletInv, CopyNamesTheOwner, HeldForItsOwner, server
  <1>1. CASE upgrade
      BY <1>1 DEF upgrade
  <1>2. CASE signOut_ \/ goesOffline \/ comesOnline \/ refreshList
      BY <1>2 DEF signOut_, goesOffline, comesOnline, refreshList
  <1>3. ASSUME NEW u \in TabletPeople, signIn(u) PROVE TabletInv'
      BY <1>3 DEF signIn, Bootstrap
  <1>4. ASSUME NEW u \in TabletPeople, NEW j \in TabletJobs, drainEnds(u) \/ drainSends(u, j)
        PROVE  TabletInv'
      BY <1>4 DEF drainEnds, drainSends
  <1>5. ASSUME NEW u \in TabletPeople, drainEnds(u) PROVE TabletInv'
      BY <1>5 DEF drainEnds
  <1>6. ASSUME NEW b \in boots, claimLegacyRows(b) PROVE TabletInv'
      BY <1>6, ClaimKeepsOwner
  <1>7. ASSUME NEW b \in boots, bootstrapStores(b) \/ bootstrapFails(b) PROVE TabletInv'
      BY <1>7 DEF bootstrapStores, bootstrapFails, BootstrapSettles
  <1>8. CASE UNCHANGED tabletVars
      BY <1>8 DEF tabletVars
  <1> QED BY <1>1, <1>2, <1>3, <1>4, <1>5, <1>6, <1>7, <1>8 DEF TabletNext

(* In whatever order people sign in on the tablet, and however late their  *)
(* bootstraps are answered, unsent work of a job assigned to a person is   *)
(* never held for anybody else (claimLegacyRows).                          *)
THEOREM WorkIsHeldForItsOwner == TabletSpec => []HeldForItsOwner
  <1>1. TabletInv => HeldForItsOwner
      BY DEF TabletInv
  <1> QED BY <1>1, TabletInvInit, TabletInvNext, PTL DEF TabletSpec

(* A list is on screen only while somebody is signed in, and nobody signs  *)
(* in before the upgrade; whatever else changes what a list should say     *)
(* leaves a bootstrap, a drain or a refresh behind it, or happens offline. *)
ListInv ==
    /\ upgraded \in BOOLEAN /\ refreshing \in BOOLEAN
    /\ ~upgraded => session = NoPerson
    /\ session = NoPerson => ~refreshing /\ ~shown.loaded
    /\ SettledListIsHonest

LEMMA ListInvNext == ListInv /\ [TabletNext]_tabletVars => ListInv'
  <1> SUFFICES ASSUME ListInv, [TabletNext]_tabletVars PROVE ListInv'
      OBVIOUS
  <1> USE DEF ListInv, server, screen
  <1>a. ASSUME UNCHANGED <<copies, rowOwner, session>>
        PROVE  listCachedJobs(session)' = listCachedJobs(session) /\ legacyHoldSummary' = legacyHoldSummary
      BY <1>a DEF listCachedJobs, legacyHoldSummary
  <1>b. NothingShown.loaded = FALSE
      BY DEF NothingShown
  <1>1. CASE upgrade
      BY <1>1 DEF upgrade, SettledListIsHonest
  <1>2. CASE signOut_
      BY <1>2, <1>b DEF signOut_, SettledListIsHonest
  <1>3. CASE goesOffline
      BY <1>3 DEF goesOffline, SettledListIsHonest
  <1>4. CASE comesOnline
    <2>1. CASE session = NoPerson
        BY <1>4, <2>1 DEF comesOnline, SettledListIsHonest
    <2>2. CASE session # NoPerson
      <3>1. drains' # {}
          BY <1>4, <2>2 DEF comesOnline
      <3> QED BY <1>4, <2>2, <3>1 DEF comesOnline, SettledListIsHonest
    <2> QED BY <2>1, <2>2
  <1>5. CASE refreshList
    <2>1. /\ session # NoPerson /\ UNCHANGED <<copies, rowOwner, session, upgraded>>
          /\ refreshing' = FALSE
          /\ shown' = [listed |-> listCachedJobs(session), held |-> legacyHoldSummary, loaded |-> TRUE]
        BY <1>5 DEF refreshList
    <2>2. shown'.listed = listCachedJobs(session)' /\ shown'.held = legacyHoldSummary'
        BY <1>a, <2>1
    <2> QED BY <2>1, <2>2 DEF SettledListIsHonest
  <1>6. ASSUME NEW u \in TabletPeople, signIn(u) PROVE ListInv'
    <2>1. u # NoPerson
        BY DEF NoPerson
    <2> QED BY <1>6, <1>b, <2>1 DEF signIn, SettledListIsHonest
  <1>7. ASSUME NEW u \in TabletPeople, drainEnds(u) PROVE ListInv'
      BY <1>7 DEF drainEnds, SettledListIsHonest
  <1>8. ASSUME NEW u \in TabletPeople, NEW j \in TabletJobs, drainSends(u, j) PROVE ListInv'
    <2>1. UNCHANGED <<copies, rowOwner, session, upgraded, refreshing, shown, boots, drains, online>>
        BY <1>8 DEF drainSends
    <2> QED BY <1>a, <2>1 DEF SettledListIsHonest
  <1>9. ASSUME NEW b \in boots, claimLegacyRows(b) PROVE ListInv'
    <2>1. boots' # {} /\ UNCHANGED <<session, upgraded, refreshing, shown>>
        BY <1>9 DEF claimLegacyRows
    <2> QED BY <2>1 DEF SettledListIsHonest
  <1>10. ASSUME NEW b \in boots, bootstrapStores(b) \/ bootstrapFails(b) PROVE ListInv'
    <2>1. /\ UNCHANGED <<session, upgraded, shown, online>>
          /\ refreshing' = (refreshing \/ (b.of = mount /\ session # NoPerson)) /\ drainIfOnline
        BY <1>10 DEF bootstrapStores, bootstrapFails, BootstrapSettles
    <2>2. session = NoPerson => ~refreshing'
        BY <2>1
    <2>3. refreshing' \in BOOLEAN
        BY <2>1
    <2>4. CASE session = NoPerson
        BY <2>1, <2>2, <2>3, <2>4 DEF SettledListIsHonest
    <2>5. CASE session # NoPerson /\ online
      <3>1. drains' # {}
          BY <2>1, <2>5 DEF drainIfOnline
      <3> QED BY <2>1, <2>3, <2>5, <3>1 DEF SettledListIsHonest
    <2>6. CASE session # NoPerson /\ ~online
        BY <2>1, <2>3, <2>6 DEF SettledListIsHonest
    <2> QED BY <2>4, <2>5, <2>6
  <1>11. CASE UNCHANGED tabletVars
    <2>1. UNCHANGED <<copies, rowOwner, session, upgraded, refreshing, shown, boots, drains, online>>
        BY <1>11 DEF tabletVars
    <2> QED BY <1>a, <2>1 DEF SettledListIsHonest
  <1> QED BY <1>1, <1>2, <1>3, <1>4, <1>5, <1>6, <1>7, <1>8, <1>9, <1>10, <1>11 DEF TabletNext

(* A list that nothing is about to refresh says what the device holds: the *)
(* signed-in person's jobs and the rows held for others, whichever earlier *)
(* session's bootstrap changed them (JobList's finally, notifySynced).     *)
THEOREM ListsAreHonest == TabletSpec => []SettledListIsHonest
  <1>1. TabletInit => ListInv
    <2>1. NothingShown.loaded = FALSE
        BY DEF NothingShown
    <2> QED BY <2>1 DEF TabletInit, ListInv, SettledListIsHonest
  <1>2. ListInv => SettledListIsHonest
      BY DEF ListInv
  <1> QED BY <1>1, <1>2, ListInvNext, PTL DEF TabletSpec

-----------------------------------------------------------------------------
(* AndroidShell.                                                           *)

(* The callback is a field of the activity's state.                        *)
HasCallback == "callback" \in DOMAIN shell

(* A page that waits for a file always has a chooser or a permission       *)
(* prompt that will answer it, through crashes of the renderer and         *)
(* re-creations of the activity (onShowFileChooser, launchChooser).        *)
THEOREM ChooserAnswers == ShellSpec => []ChooserWillAnswer
  <1> DEFINE Inv == HasCallback /\ ChooserWillAnswer
  <1>1. ShellInit => Inv
      BY DEF ShellInit, ShellCreated, HasCallback, ChooserWillAnswer
  <1>2. ASSUME Inv, [ShellNext]_shellVars PROVE Inv'
    <2> USE <1>2 DEF HasCallback, ChooserWillAnswer, ShellOnly, Recreated, ShellCreated
    <2>1. ASSUME NEW o \in Origins, shouldOverrideUrlLoading(o) \/ onPageStarted(o)
          PROVE  Inv'
        BY <2>1 DEF shouldOverrideUrlLoading, onPageStarted
    <2>2. ASSUME NEW t \in Servers, postSwitch(t) \/ connectButton(t) PROVE Inv'
        BY <2>2 DEF postSwitch, connectButton, requestServerSwitch
    <2>3. CASE returnToConfiguredOrigin \/ onReceivedHttpError \/ onPageFinished
        BY <2>3 DEF returnToConfiguredOrigin, onReceivedHttpError, onReceivedError, failMainFrame,
                    onPageFinished
    <2>4. CASE handleOnBackPressed
        BY <2>4 DEF handleOnBackPressed, onPageStarted
    <2>5. CASE onRenderProcessGone \/ wireOfflineCard \/ onDestroy \/ onCreate
      <3>1. CASE onRenderProcessGone
        <4>1. CASE shell' = ShellCreated(stored)
            BY <4>1
        <4>2. CASE shell' = [shell EXCEPT !.dead = TRUE, !.card = TRUE, !.page = NoPage,
                                          !.loading = NoPage]
            BY <3>1, <4>2 DEF onRenderProcessGone
        <4> HIDE DEF ShellCreated
        <4> QED BY <3>1, <4>1, <4>2 DEF onRenderProcessGone
      <3>2. CASE wireOfflineCard
        <4>1. CASE shell' = ShellCreated(stored)
            BY <4>1
        <4>2. CASE shell' = [shell EXCEPT !.card = FALSE, !.loading = shell.configured]
            BY <3>2, <4>2 DEF wireOfflineCard
        <4> HIDE DEF ShellCreated
        <4> QED BY <3>2, <4>1, <4>2 DEF wireOfflineCard
      <3>3. CASE onDestroy
          BY <3>3 DEF onDestroy
      <3>4. CASE onCreate
          BY <3>4 DEF onCreate
      <3> QED BY <2>5, <3>1, <3>2, <3>3, <3>4
    <2>6. CASE onPostMessage \/ probeAnswered
        BY <2>6 DEF onPostMessage, requestServerSwitch, probeAnswered, switched, installBridge
    <2>7. CASE onShowFileChooser \/ cameraPermissionAnswered \/ onChooserResult
        BY <2>7 DEF onShowFileChooser, cameraPermissionAnswered, onChooserResult, launchChooser
    <2>8. CASE UNCHANGED shellVars
        BY <2>8 DEF shellVars
    <2> QED BY <1>2, <2>1, <2>2, <2>3, <2>4, <2>5, <2>6, <2>7, <2>8 DEF ShellNext
  <1>3. Inv => ChooserWillAnswer
      OBVIOUS
  <1> QED BY <1>1, <1>2, <1>3, PTL DEF ShellSpec

-----------------------------------------------------------------------------
(* ShellUpdate.                                                            *)

(* The download of the running activity, seen from the file.  Before it    *)
(* starts, the file is what an earlier activity left; once it has emptied  *)
(* the directory, the file is at most half written, until the download has *)
(* written all it got, which is what it checks.                            *)
NotWhole == cacheFile.bytes \in {"none", "partial"}

(* The worker of an activity before id opened it for writing.              *)
TruncatedBefore(id) == cacheFile.bytes = "partial" /\ \E n \in cacheFile.writers : n < id

FileFollows ==
    LET w == workers[activity.id] IN
    /\ w.stage \in {"connect", "stream"} => NotWhole
    /\ w.stage = "verify" => NotWhole \/ cacheFile.bytes \in {w.digest, "mixed"}
    /\ activity.verified => \/ cacheFile = NoFile \/ cacheFile.bytes = activity.offered.sha
                            \/ TruncatedBefore(activity.id)

(* A worker that outlives its activity was told, and workers of activities *)
(* that do not exist yet have not begun.                                   *)
OthersAreTold ==
    \A n \in 1 .. MaxActivities :
        /\ n < activity.id => workers[n].stage = "none" \/ workers[n].cancelled = TRUE
        /\ n > activity.id => workers[n].stage = "none"

(* One download per activity, for the manifest it offered.                 *)
OneOffer ==
    LET w == workers[activity.id] IN
    /\ activity.banner = "prompt" => /\ activity.offered # NoManifest
                                    /\ activity.verified = FALSE /\ w.stage = "none"
    /\ activity.verified = TRUE => w.stage = "none" /\ activity.offered # NoManifest
    /\ w.stage # "none" => /\ activity.downloading = TRUE /\ activity.verified = FALSE
                           /\ w.manifest = activity.offered /\ activity.offered # NoManifest
    /\ activity.downloading = FALSE => w.stage = "none"

UpdateTypes ==
    /\ activity.id \in 1 .. MaxActivities
    /\ DOMAIN activity = {"id", "offered", "banner", "downloading", "verified"}
    /\ activity.verified \in BOOLEAN /\ activity.downloading \in BOOLEAN
    /\ DOMAIN workers = 1 .. MaxActivities
    /\ \A n \in 1 .. MaxActivities :
          /\ DOMAIN workers[n] = {"stage", "manifest", "cancelled", "digest"}
          /\ workers[n].cancelled \in BOOLEAN
    /\ DOMAIN cacheFile = {"writers", "bytes"}
    /\ cacheFile.bytes = "none" => cacheFile = NoFile

(* What the update origin serves is an APK.                                *)
ServedInv == DOMAIN served = {"manifest", "apk"} /\ served.apk \in Apks

(* The file as the installer may read it.                                  *)
Readable(f) == f = NoFile \/ f.bytes = handed.manifest.sha \/ Spoilt(f)

(* The activity that handed its file over is done with it: its worker has  *)
(* ended and it does not download again.  What it handed over stays        *)
(* readable, and so is what was read.                                      *)
HandOverHolds ==
    handed.by # 0 =>
        /\ handed.by \in 1 .. activity.id
        /\ workers[handed.by].stage = "none"
        /\ handed.by = activity.id => /\ activity.offered # NoManifest
                                      /\ activity.banner # "prompt"
        /\ Readable(cacheFile) /\ Readable(handed.file)

HandedInv == DOMAIN handed = {"by", "manifest", "file"} /\ (handed.by = 0 => handed.file = NoFile)

UpdateInv == UpdateTypes /\ OthersAreTold /\ OneOffer /\ FileFollows /\ HandedInv /\ HandOverHolds

LEMMA UpdateInvInit == ShellUpdateInit => UpdateInv
  <1> SUFFICES ASSUME ShellUpdateInit PROVE UpdateInv
      OBVIOUS
  <1>1. /\ activity = NewActivity(1) /\ cacheFile = NoFile /\ handed = NothingHanded
        /\ workers = [n \in 1 .. MaxActivities |-> NoWorker] /\ 1 \in 1 .. MaxActivities
      BY ShellUpdateAssumption DEF ShellUpdateInit
  <1>2. \A n \in 1 .. MaxActivities :
            /\ workers[n].stage = "none" /\ workers[n].cancelled = FALSE
            /\ DOMAIN workers[n] = {"stage", "manifest", "cancelled", "digest"}
      BY <1>1 DEF NoWorker
  <1>3. UpdateTypes
      BY <1>1, <1>2 DEF UpdateTypes, NewActivity, NoFile
  <1>4. OthersAreTold
      BY <1>2 DEF OthersAreTold
  <1>5. activity.id = 1 /\ activity.banner = "hidden" /\ activity.downloading = FALSE /\ activity.verified = FALSE
      BY <1>1 DEF NewActivity
  <1>6. OneOffer /\ FileFollows
      BY <1>1, <1>2, <1>5 DEF OneOffer, FileFollows
  <1>7. HandedInv /\ HandOverHolds
      BY <1>1 DEF HandedInv, HandOverHolds, NothingHanded
  <1> QED BY <1>3, <1>4, <1>6, <1>7 DEF UpdateInv

(* A step that leaves the file, the workers and what was handed over, and  *)
(* moves the running activity as the screen does.                          *)
LEMMA ScreenKeepsUpdate ==
    ASSUME UpdateInv, UNCHANGED <<workers, cacheFile>>, HandedInv', HandOverHolds',
           activity'.id = activity.id,
           DOMAIN activity' = {"id", "offered", "banner", "downloading", "verified"},
           activity'.downloading = activity.downloading, activity'.verified = activity.verified,
           \/ activity'.offered = activity.offered /\ activity'.banner # "prompt"
           \/ /\ activity.offered = NoManifest /\ activity'.offered # NoManifest
    PROVE  UpdateInv'
  <1>1. UpdateTypes'
      BY DEF UpdateInv, UpdateTypes
  <1>2. OthersAreTold'
      BY DEF UpdateInv, OthersAreTold
  <1> DEFINE w == workers[activity.id]
  <1>3. workers'[activity'.id] = w
      OBVIOUS
  <1>4. activity.verified \in BOOLEAN
      BY DEF UpdateInv, UpdateTypes
  <1>5. CASE activity'.offered = activity.offered /\ activity'.banner # "prompt"
    <2>1. OneOffer'
        BY <1>3, <1>5 DEF UpdateInv, OneOffer
    <2>2. FileFollows'
        BY <1>3, <1>5 DEF UpdateInv, FileFollows, NotWhole, TruncatedBefore
    <2> QED BY <1>1, <1>2, <2>1, <2>2 DEF UpdateInv
  <1>6. CASE activity.offered = NoManifest /\ activity'.offered # NoManifest
    <2>1. w.stage = "none" /\ activity.verified = FALSE
        BY <1>4, <1>6 DEF UpdateInv, OneOffer
    <2>2. OneOffer'
        BY <1>3, <1>6, <2>1 DEF OneOffer
    <2>3. FileFollows'
        BY <1>3, <2>1 DEF FileFollows
    <2> QED BY <1>1, <1>2, <2>2, <2>3 DEF UpdateInv
  <1> QED BY <1>5, <1>6

(* A step of a worker, its own activity's or an earlier one's: what it     *)
(* leaves in the file and what it posts.                                   *)
LEMMA OldWorkerStep ==
    ASSUME UpdateInv, NEW n \in 1 .. MaxActivities, n # activity.id, workers[n].stage # "none",
           UNCHANGED <<activity, handed>>,
           \/ cacheFile' \in {cacheFile, NoFile}
           \/ /\ DOMAIN cacheFile' = {"writers", "bytes"}
              /\ cacheFile'.bytes = "partial" /\ n \in cacheFile'.writers,
           NEW w, workers' = [workers EXCEPT ![n] = w],
           DOMAIN w = {"stage", "manifest", "cancelled", "digest"}, w.cancelled \in BOOLEAN,
           n < activity.id, w.stage = "none" \/ w.cancelled = TRUE
    PROVE  UpdateInv'
  <1>1. /\ workers'[activity.id] = workers[activity.id] /\ workers'[n] = w
        /\ \A k \in 1 .. MaxActivities : k # n => workers'[k] = workers[k]
      BY DEF UpdateInv, UpdateTypes
  <1>2. UpdateTypes'
    <2>1. DOMAIN cacheFile' = {"writers", "bytes"} /\ (cacheFile'.bytes = "none" => cacheFile' = NoFile)
        BY DEF UpdateInv, UpdateTypes, NoFile
    <2> QED BY <1>1, <2>1 DEF UpdateInv, UpdateTypes
  <1>3. OthersAreTold'
      BY <1>1 DEF UpdateInv, UpdateTypes, OthersAreTold
  <1>4. OneOffer'
      BY <1>1 DEF UpdateInv, OneOffer
  <1>5. \/ cacheFile' = cacheFile
        \/ NotWhole' /\ (cacheFile' = NoFile \/ TruncatedBefore(activity.id)')
      BY DEF NotWhole, NoFile, TruncatedBefore
  <1>6. FileFollows'
      BY <1>1, <1>5 DEF UpdateInv, FileFollows, NotWhole, TruncatedBefore
  <1>7. HandedInv' /\ HandOverHolds'
    <2> SUFFICES ASSUME handed.by # 0 PROVE HandOverHolds'
        BY DEF UpdateInv, HandedInv, HandOverHolds
    <2>1. /\ handed.by \in 1 .. activity.id /\ workers[handed.by].stage = "none"
          /\ Readable(cacheFile) /\ Readable(handed.file)
          /\ activity.id \in 1 .. MaxActivities
        BY DEF UpdateInv, UpdateTypes, HandOverHolds
    <2>2. n # handed.by /\ workers'[handed.by] = workers[handed.by]
        BY <1>1, <2>1
    <2>3. Readable(cacheFile)' /\ Readable(handed.file)'
        BY <2>1, <2>2 DEF Readable, Spoilt
    <2> QED BY <2>1, <2>2, <2>3 DEF UpdateInv, HandOverHolds
  <1> QED BY <1>2, <1>3, <1>4, <1>6, <1>7 DEF UpdateInv

(* The running activity's own worker.                                      *)
LEMMA OwnWorkerStep ==
    ASSUME UpdateInv, handed' = handed, activity'.id = activity.id,
           DOMAIN activity' = {"id", "offered", "banner", "downloading", "verified"},
           activity'.offered = activity.offered, activity'.banner # "prompt",
           NEW w, workers' = [workers EXCEPT ![activity.id] = w],
           DOMAIN w = {"stage", "manifest", "cancelled", "digest"}, w.cancelled \in BOOLEAN,
           DOMAIN cacheFile' = {"writers", "bytes"}, cacheFile'.bytes = "none" => cacheFile' = NoFile,
           cacheFile' \in {cacheFile, NoFile} \/ activity.id \in cacheFile'.writers,
           activity.offered # NoManifest, handed.by # activity.id,
           \/ /\ w.stage # "none" /\ w.manifest = activity.offered
              /\ activity'.downloading = TRUE /\ activity'.verified = FALSE
           \/ w.stage = "none" /\ activity'.downloading = FALSE /\ activity'.verified \in BOOLEAN,
           w.stage \in {"connect", "stream"} => NotWhole',
           w.stage = "verify" => NotWhole' \/ cacheFile'.bytes \in {w.digest, "mixed"},
           activity'.verified => cacheFile' = NoFile \/ cacheFile'.bytes = activity.offered.sha
    PROVE  UpdateInv'
  <1>0. activity.id \in 1 .. MaxActivities
      BY DEF UpdateInv, UpdateTypes
  <1>1. /\ workers'[activity.id] = w
        /\ \A k \in 1 .. MaxActivities : k # activity.id => workers'[k] = workers[k]
      BY <1>0 DEF UpdateInv, UpdateTypes
  <1>a. workers'[activity'.id] = w
      BY <1>1
  <1>2. UpdateTypes'
      BY <1>0, <1>1 DEF UpdateInv, UpdateTypes
  <1>3. OthersAreTold'
      BY <1>0, <1>1 DEF UpdateInv, OthersAreTold
  <1>4. OneOffer'
      BY <1>a DEF OneOffer
  <1>6. FileFollows'
      BY <1>a DEF FileFollows
  <1>7. HandedInv' /\ HandOverHolds'
    <2> SUFFICES ASSUME handed.by # 0 PROVE HandOverHolds'
        BY DEF UpdateInv, HandedInv, HandOverHolds
    <2>1. /\ handed.by \in 1 .. activity.id /\ workers[handed.by].stage = "none"
          /\ Readable(cacheFile) /\ Readable(handed.file)
        BY DEF UpdateInv, HandOverHolds
    <2>2. handed.by < activity.id /\ workers'[handed.by] = workers[handed.by]
        BY <1>0, <1>1, <2>1
    <2>3. Readable(cacheFile)' /\ Readable(handed.file)'
        BY <2>1, <2>2 DEF Readable, Spoilt
    <2> QED BY <2>1, <2>2, <2>3 DEF HandOverHolds
  <1> QED BY <1>2, <1>3, <1>4, <1>6, <1>7 DEF UpdateInv

(* The activity whose worker is at work has handed nothing over.           *)
LEMMA NotHandedYet ==
    ASSUME UpdateInv, workers[activity.id].stage # "none" \/ activity.banner = "prompt"
    PROVE  handed.by # activity.id
  <1>1. activity.id # 0
      BY ShellUpdateAssumption DEF UpdateInv, UpdateTypes
  <1> QED BY <1>1 DEF UpdateInv, HandOverHolds

(* A worker that gives up: the file goes, and so does the worker.          *)
LEMMA WorkerGivesUp ==
    ASSUME UpdateInv, handed' = handed, NEW n \in 1 .. MaxActivities, workers[n].stage # "none",
           NEW banner, banner # "prompt", Deleted(n, banner)
    PROVE  UpdateInv'
  <1>1. /\ cacheFile' = NoFile /\ workers' = [workers EXCEPT ![n] = NoWorker]
        /\ Posted(n, banner, FALSE)
      BY DEF Deleted
  <1>2. /\ DOMAIN NoWorker = {"stage", "manifest", "cancelled", "digest"} /\ NoWorker.cancelled \in BOOLEAN
        /\ NoWorker.stage = "none"
      BY DEF NoWorker
  <1>3. DOMAIN cacheFile' = {"writers", "bytes"} /\ NotWhole'
      BY <1>1 DEF NoFile, NotWhole
  <1>4. CASE n = activity.id
    <2>1. activity' = [activity EXCEPT !.downloading = FALSE, !.verified = FALSE, !.banner = banner]
        BY <1>1, <1>4 DEF Posted
    <2>2. /\ activity'.id = activity.id /\ activity'.offered = activity.offered
          /\ DOMAIN activity' = {"id", "offered", "banner", "downloading", "verified"}
          /\ activity'.banner # "prompt" /\ activity'.downloading = FALSE /\ activity'.verified = FALSE
        BY <2>1 DEF UpdateInv, UpdateTypes
    <2>3. activity.offered # NoManifest /\ handed.by # activity.id
        BY <1>4, NotHandedYet DEF UpdateInv, OneOffer
    <2> QED BY <1>1, <1>2, <1>3, <1>4, <2>2, <2>3, OwnWorkerStep
  <1>5. CASE n # activity.id
    <2>1. activity' = activity /\ n < activity.id
        BY <1>1, <1>5 DEF Posted, UpdateInv, UpdateTypes, OthersAreTold
    <2> QED BY <1>1, <1>2, <1>5, <2>1, OldWorkerStep
  <1> QED BY <1>4, <1>5

LEMMA ServedInvNext == ServedInv /\ [ShellUpdateNext]_updateVars => ServedInv'
  BY DEF ServedInv, ShellUpdateNext, updateVars, PublishApk, PublishManifest, ThrottleExpires, check,
         dismissVersion, hide, startDownload, cancelDownload, launchInstaller, installerReads,
         controllerDestroyed, downloadPrepare, downloadConnect, downloadStream, downloadVerify, WorkerKeeps

LEMMA UpdateInvNext == ServedInv /\ UpdateInv /\ [ShellUpdateNext]_updateVars => UpdateInv'
  <1> SUFFICES ASSUME ServedInv, UpdateInv, [ShellUpdateNext]_updateVars PROVE UpdateInv'
      OBVIOUS
  <1> DEFINE a == activity.id
             Same == DOMAIN activity' = {"id", "offered", "banner", "downloading", "verified"}
  <1>a. /\ a \in 1 .. MaxActivities /\ DOMAIN activity = {"id", "offered", "banner", "downloading", "verified"}
        /\ DOMAIN workers = 1 .. MaxActivities
        /\ \A n \in 1 .. MaxActivities : /\ DOMAIN workers[n] = {"stage", "manifest", "cancelled", "digest"}
                                         /\ workers[n].cancelled \in BOOLEAN
      BY DEF UpdateInv, UpdateTypes
  <1>b. /\ handed' = handed => HandedInv'
        /\ UNCHANGED <<handed, workers, cacheFile>> /\ activity'.id = a /\ activity'.banner # "prompt"
           /\ activity'.offered = activity.offered => HandOverHolds'
      BY DEF UpdateInv, HandedInv, HandOverHolds, Readable, Spoilt
  <1>1. CASE UNCHANGED <<activity, workers, cacheFile, handed>>
      BY <1>1 DEF UpdateInv, UpdateTypes, OthersAreTold, OneOffer, FileFollows, NotWhole,
                  TruncatedBefore, HandedInv, HandOverHolds, Readable, Spoilt
  <1>2. CASE PublishApk \/ PublishManifest \/ ThrottleExpires \/ UNCHANGED updateVars
      BY <1>1, <1>2 DEF PublishApk, PublishManifest, ThrottleExpires, updateVars
  <1>3. CASE check
    <2>0. UNCHANGED <<workers, cacheFile, handed>> /\ activity.offered = NoManifest
        BY <1>3 DEF check
    <2>1. CASE activity' = activity
        BY <1>1, <2>0, <2>1
    <2>2. CASE activity' = [activity EXCEPT !.offered = served.manifest, !.banner = "prompt"]
               /\ served.manifest # NoManifest
      <3>1. /\ activity'.id = activity.id /\ Same /\ activity'.offered = served.manifest
            /\ activity'.downloading = activity.downloading /\ activity'.verified = activity.verified
          BY <1>a, <2>2
      <3>2. HandOverHolds'
          BY <1>a, <2>0, <3>1 DEF UpdateInv, HandOverHolds, Readable, Spoilt
      <3> QED BY <1>b, <2>0, <2>2, <3>1, <3>2, ScreenKeepsUpdate
    <2> QED BY <1>3, <2>1, <2>2 DEF check, onManifest
  <1>4. CASE dismissVersion \/ hide
    <2>1. UNCHANGED <<workers, cacheFile, handed>> /\ activity' = [activity EXCEPT !.banner = "hidden"]
        BY <1>4 DEF dismissVersion, hide
    <2>2. /\ activity'.id = activity.id /\ Same /\ activity'.offered = activity.offered
          /\ activity'.banner # "prompt"
          /\ activity'.downloading = activity.downloading /\ activity'.verified = activity.verified
        BY <1>a, <2>1
    <2> QED BY <1>b, <2>1, <2>2, ScreenKeepsUpdate
  <1>5. CASE startDownload
    <2>1. /\ activity.banner = "prompt" /\ UNCHANGED <<cacheFile, handed>>
          /\ activity' = [activity EXCEPT !.downloading = TRUE, !.verified = FALSE, !.banner = "downloading"]
        BY <1>5 DEF startDownload
    <2>2. PICK w : /\ workers' = [workers EXCEPT ![activity.id] = w]
                   /\ w = [NoWorker EXCEPT !.stage = "prepare", !.manifest = activity.offered]
        BY <1>5 DEF startDownload
    <2>3. /\ activity'.id = activity.id /\ Same /\ activity'.offered = activity.offered
          /\ activity'.banner # "prompt" /\ activity'.downloading = TRUE /\ activity'.verified = FALSE
        BY <1>a, <2>1
    <2>4. /\ DOMAIN w = {"stage", "manifest", "cancelled", "digest"} /\ w.cancelled \in BOOLEAN
          /\ w.stage = "prepare" /\ w.manifest = activity.offered
        BY <2>2 DEF NoWorker
    <2>5. /\ DOMAIN cacheFile' = {"writers", "bytes"} /\ (cacheFile'.bytes = "none" => cacheFile' = NoFile)
          /\ activity.offered # NoManifest /\ handed.by # activity.id
        BY <2>1, NotHandedYet DEF UpdateInv, UpdateTypes, OneOffer
    <2> QED BY <2>1, <2>2, <2>3, <2>4, <2>5, OwnWorkerStep
  <1>6. CASE cancelDownload
    <2>1. /\ workers' = [workers EXCEPT ![activity.id].cancelled = TRUE]
          /\ UNCHANGED <<activity, cacheFile, handed>>
        BY <1>6 DEF cancelDownload
    <2>2. \A n \in 1 .. MaxActivities :
              /\ DOMAIN workers'[n] = {"stage", "manifest", "cancelled", "digest"}
              /\ workers'[n].cancelled \in BOOLEAN
              /\ workers'[n].stage = workers[n].stage /\ workers'[n].digest = workers[n].digest
              /\ workers'[n].manifest = workers[n].manifest
              /\ workers[n].cancelled = TRUE => workers'[n].cancelled = TRUE
        BY <1>a, <2>1
    <2>3. UpdateTypes'
        BY <2>1, <2>2 DEF UpdateInv, UpdateTypes
    <2>4. OthersAreTold'
        BY <2>1, <2>2 DEF UpdateInv, OthersAreTold
    <2>5. OneOffer' /\ FileFollows'
        BY <1>a, <2>1, <2>2 DEF UpdateInv, OneOffer, FileFollows, NotWhole, TruncatedBefore
    <2>6. HandOverHolds'
        BY <1>a, <2>1, <2>2 DEF UpdateInv, HandOverHolds, Readable, Spoilt
    <2> QED BY <1>b, <2>1, <2>3, <2>4, <2>5, <2>6 DEF UpdateInv
  <1>7. CASE launchInstaller
    <2>0. UNCHANGED <<workers, cacheFile>> /\ activity.verified
        BY <1>7 DEF launchInstaller
    <2>1. PICK banner : activity' = [activity EXCEPT !.banner = banner] /\ banner # "prompt"
        BY <1>7 DEF launchInstaller
    <2>2. /\ activity'.id = activity.id /\ Same /\ activity'.offered = activity.offered
          /\ activity'.banner # "prompt"
          /\ activity'.downloading = activity.downloading /\ activity'.verified = activity.verified
        BY <1>a, <2>1
    <2>3. CASE /\ cacheFile # NoFile
               /\ handed' = [by |-> a, manifest |-> activity.offered, file |-> NoFile]
      <3>1. /\ handed'.by = a /\ handed'.manifest = activity.offered /\ handed'.file = NoFile
            /\ DOMAIN handed' = {"by", "manifest", "file"} /\ a # 0
          BY <1>a, <2>3, ShellUpdateAssumption
      <3>2. cacheFile.bytes = activity.offered.sha \/ TruncatedBefore(a)
          BY <2>0, <2>3 DEF UpdateInv, FileFollows
      <3>3. Readable(cacheFile)' /\ Readable(handed.file)'
          BY <2>0, <3>1, <3>2 DEF Readable, Spoilt, TruncatedBefore
      <3>4. workers[a].stage = "none" /\ activity.offered # NoManifest
          BY <1>a, <2>0 DEF UpdateInv, UpdateTypes, OneOffer
      <3>5. HandOverHolds' /\ HandedInv'
          BY <1>a, <2>0, <2>2, <3>1, <3>3, <3>4 DEF HandOverHolds, HandedInv
      <3> QED BY <2>0, <2>2, <3>5, ScreenKeepsUpdate
    <2>4. CASE handed' = handed
        BY <1>b, <2>0, <2>2, <2>4, ScreenKeepsUpdate
    <2> QED BY <1>7, <2>3, <2>4 DEF launchInstaller
  <1>15. CASE installerReads
    <2>1. /\ UNCHANGED <<activity, workers, cacheFile>> /\ handed.by # 0
          /\ handed'.by = handed.by /\ handed'.manifest = handed.manifest /\ handed'.file = cacheFile
          /\ DOMAIN handed' = {"by", "manifest", "file"}
        BY <1>15 DEF installerReads, UpdateInv, HandedInv
    <2>2. Readable(cacheFile)' /\ Readable(handed.file)'
        BY <2>1 DEF UpdateInv, HandOverHolds, Readable, Spoilt
    <2>3. HandedInv' /\ HandOverHolds'
        BY <2>1, <2>2 DEF UpdateInv, HandedInv, HandOverHolds
    <2>4. UpdateTypes' /\ OthersAreTold' /\ OneOffer' /\ FileFollows'
        BY <2>1 DEF UpdateInv, UpdateTypes, OthersAreTold, OneOffer, FileFollows, NotWhole, TruncatedBefore
    <2> QED BY <2>3, <2>4 DEF UpdateInv
  <1>8. CASE controllerDestroyed
    <2>1. /\ a < MaxActivities /\ workers' = [workers EXCEPT ![a].cancelled = TRUE]
          /\ activity' = NewActivity(a + 1) /\ UNCHANGED <<cacheFile, handed>>
        BY <1>8 DEF controllerDestroyed
    <2>2. \A n \in 1 .. MaxActivities :
              /\ DOMAIN workers'[n] = {"stage", "manifest", "cancelled", "digest"}
              /\ workers'[n].cancelled \in BOOLEAN /\ workers'[n].stage = workers[n].stage
              /\ workers[n].cancelled = TRUE \/ n = a => workers'[n].cancelled = TRUE
        BY <1>a, <2>1
    <2>3. /\ activity'.id = a + 1 /\ Same /\ activity'.banner = "hidden"
          /\ activity'.downloading = FALSE /\ activity'.verified = FALSE
        BY <2>1 DEF NewActivity
    <2>4. a + 1 \in 1 .. MaxActivities /\ DOMAIN workers' = 1 .. MaxActivities
        BY <1>a, <2>1, ShellUpdateAssumption
    <2>5. workers'[a + 1].stage = "none"
        BY <1>a, <2>2, <2>4 DEF UpdateInv, OthersAreTold
    <2>6. UpdateTypes'
        BY <2>1, <2>2, <2>3, <2>4 DEF UpdateInv, UpdateTypes
    <2>7. OthersAreTold'
        BY <1>a, <2>2, <2>3, <2>4 DEF UpdateInv, OthersAreTold
    <2>8. OneOffer' /\ FileFollows'
        BY <2>3, <2>5 DEF OneOffer, FileFollows
    <2>9. HandOverHolds'
      <3> SUFFICES ASSUME handed.by # 0 PROVE HandOverHolds'
          BY <2>1 DEF HandOverHolds
      <3>1. /\ handed.by \in 1 .. a /\ workers[handed.by].stage = "none"
            /\ Readable(cacheFile) /\ Readable(handed.file)
          BY DEF UpdateInv, HandOverHolds
      <3>2. Readable(cacheFile)' /\ Readable(handed.file)'
          BY <2>1, <3>1 DEF Readable, Spoilt
      <3>3. handed.by \in 1 .. a + 1 /\ handed.by # a + 1 /\ workers'[handed.by].stage = "none"
          BY <1>a, <2>2, <3>1, ShellUpdateAssumption
      <3> QED BY <2>1, <2>3, <3>2, <3>3 DEF HandOverHolds
    <2> QED BY <1>b, <2>1, <2>6, <2>7, <2>8, <2>9 DEF UpdateInv
  <1>9. ASSUME NEW n \in 1 .. MaxActivities, workers[n].stage # "none" PROVE n <= a
      BY <1>9, <1>a DEF UpdateInv, OthersAreTold
  <1>10. ASSUME NEW n \in 1 .. MaxActivities, NEW w, workers' = [workers EXCEPT ![n] = w],
                UNCHANGED <<activity, handed>>, workers[n].stage # "none", w.stage # "none",
                DOMAIN w = {"stage", "manifest", "cancelled", "digest"}, w.cancelled = workers[n].cancelled,
                w.manifest = workers[n].manifest,
                DOMAIN cacheFile' = {"writers", "bytes"}, cacheFile'.bytes = "none" => cacheFile' = NoFile,
                \/ cacheFile' \in {cacheFile, NoFile} /\ n = a
                \/ cacheFile' = NoFile
                \/ n \in cacheFile'.writers /\ (n = a \/ cacheFile'.bytes = "partial"),
                w.stage \in {"connect", "stream"} => NotWhole',
                w.stage = "verify" => NotWhole' \/ cacheFile'.bytes \in {w.digest, "mixed"}
         PROVE  UpdateInv'
    <2>1. w.cancelled \in BOOLEAN
        BY <1>10, <1>a
    <2>2. CASE n = a
      <3>1. /\ activity.downloading = TRUE /\ activity.verified = FALSE
            /\ workers[a].manifest = activity.offered /\ activity.offered # NoManifest
            /\ activity.banner # "prompt" /\ handed.by # activity.id
          BY <1>10, <2>2, NotHandedYet DEF UpdateInv, OneOffer
      <3> QED BY <1>10, <1>a, <2>1, <2>2, <3>1, OwnWorkerStep
    <2>3. CASE n # a
      <3>1. n < a /\ workers[n].cancelled = TRUE
          BY <1>10, <1>9, <1>a, <2>3 DEF UpdateInv, OthersAreTold
      <3>2. cacheFile' = NoFile \/ (cacheFile'.bytes = "partial" /\ n \in cacheFile'.writers)
          BY <1>10, <2>3
      <3> QED BY <1>10, <2>1, <2>3, <3>1, <3>2, OldWorkerStep
    <2> QED BY <2>2, <2>3
  <1>11. ASSUME NEW n \in 1 .. MaxActivities, downloadPrepare(n) PROVE UpdateInv'
    <2>1. PICK w : workers' = [workers EXCEPT ![n] = w] /\ w = [workers[n] EXCEPT !.stage = "connect"]
        BY <1>11 DEF downloadPrepare
    <2>2. cacheFile' = NoFile /\ UNCHANGED <<activity, handed>> /\ workers[n].stage = "prepare"
        BY <1>11 DEF downloadPrepare, WorkerKeeps
    <2>3. /\ DOMAIN w = {"stage", "manifest", "cancelled", "digest"} /\ w.cancelled = workers[n].cancelled
          /\ w.stage = "connect" /\ w.manifest = workers[n].manifest
        BY <1>a, <2>1
    <2>4. NotWhole' /\ DOMAIN cacheFile' = {"writers", "bytes"}
        BY <2>2 DEF NotWhole, NoFile
    <2> HIDE DEF a
    <2> QED BY <1>10, <2>1, <2>2, <2>3, <2>4
  <1>12. ASSUME NEW n \in 1 .. MaxActivities, downloadConnect(n) PROVE UpdateInv'
    <2>1. CASE Deleted(n, "problem")
        BY <1>12, <2>1, WorkerGivesUp DEF downloadConnect, WorkerKeeps
    <2>2. CASE /\ cacheFile' = [writers |-> cacheFile.writers \cup {n}, bytes |-> "partial"]
               /\ workers' = [workers EXCEPT ![n].stage = "stream"] /\ UNCHANGED activity
      <3>1. PICK w : workers' = [workers EXCEPT ![n] = w] /\ w = [workers[n] EXCEPT !.stage = "stream"]
          BY <2>2
      <3>2. UNCHANGED <<activity, handed>> /\ workers[n].stage = "connect"
          BY <1>12, <2>2 DEF downloadConnect, WorkerKeeps
      <3>3. /\ DOMAIN w = {"stage", "manifest", "cancelled", "digest"} /\ w.cancelled = workers[n].cancelled
            /\ w.stage = "stream" /\ w.manifest = workers[n].manifest
          BY <1>a, <3>1
      <3>4. /\ NotWhole' /\ DOMAIN cacheFile' = {"writers", "bytes"} /\ cacheFile'.bytes = "partial"
            /\ n \in cacheFile'.writers /\ cacheFile'.bytes # "none"
          BY <2>2 DEF NotWhole
      <3> HIDE DEF a
      <3> QED BY <1>10, <3>1, <3>2, <3>3, <3>4
    <2> QED BY <1>12, <2>1, <2>2 DEF downloadConnect
  <1>13. ASSUME NEW n \in 1 .. MaxActivities, downloadStream(n) PROVE UpdateInv'
    <2>1. ASSUME NEW banner, banner \in {"hidden", "problem"}, Deleted(n, banner) PROVE UpdateInv'
        BY <1>13, <2>1, WorkerGivesUp DEF downloadStream, WorkerKeeps
    <2>2. CASE /\ ~workers[n].cancelled /\ cacheFile' = Written(n)
               /\ workers' = [workers EXCEPT ![n].stage = "verify", ![n].digest = served.apk]
               /\ UNCHANGED activity
      <3>1. PICK w : /\ workers' = [workers EXCEPT ![n] = w]
                     /\ w = [workers[n] EXCEPT !.stage = "verify", !.digest = served.apk]
          BY <1>a, <2>2
      <3>2. UNCHANGED <<activity, handed>> /\ workers[n].stage = "stream"
          BY <1>13, <2>2 DEF downloadStream, WorkerKeeps
      <3>3. /\ DOMAIN w = {"stage", "manifest", "cancelled", "digest"} /\ w.cancelled = workers[n].cancelled
            /\ w.stage = "verify" /\ w.manifest = workers[n].manifest /\ w.digest = served.apk
          BY <1>a, <3>1
      <3>4. n = a
        <4>1. workers[n].cancelled = FALSE
            BY <1>a, <2>2
        <4> QED BY <1>9, <1>a, <3>2, <4>1 DEF UpdateInv, OthersAreTold
      <3>5. NotWhole /\ DOMAIN cacheFile = {"writers", "bytes"}
          BY <3>2, <3>4 DEF UpdateInv, UpdateTypes, FileFollows
      <3>6. CASE n \notin cacheFile.writers
        <4>1. cacheFile' = cacheFile
            BY <2>2, <3>6 DEF Written
        <4>2. NotWhole' /\ (cacheFile'.bytes = "none" => cacheFile' = NoFile)
            BY <3>5, <4>1 DEF NotWhole, UpdateInv, UpdateTypes
        <4> HIDE DEF a
        <4> QED BY <1>10, <3>1, <3>2, <3>3, <3>4, <3>5, <4>1, <4>2
      <3>7. CASE n \in cacheFile.writers
        <4>1. PICK b : cacheFile' = [cacheFile EXCEPT !.bytes = b] /\ b \in {served.apk, "mixed"}
            BY <2>2, <3>7 DEF Written
        <4>2. /\ cacheFile'.bytes = b /\ DOMAIN cacheFile' = {"writers", "bytes"}
              /\ n \in cacheFile'.writers
            BY <3>5, <3>7, <4>1
        <4>3. b # "none"
            BY <4>1, ShellUpdateAssumption DEF ServedInv
        <4> HIDE DEF a
        <4> QED BY <1>10, <3>1, <3>2, <3>3, <3>4, <4>1, <4>2, <4>3
      <3> QED BY <3>6, <3>7
    <2> QED BY <1>13, <2>1, <2>2 DEF downloadStream
  <1>14. ASSUME NEW n \in 1 .. MaxActivities, downloadVerify(n) PROVE UpdateInv'
    <2>0. handed' = handed /\ workers[n].stage = "verify"
        BY <1>14 DEF downloadVerify, WorkerKeeps
    <2>1. CASE Deleted(n, "refused")
        BY <2>0, <2>1, WorkerGivesUp
    <2>2. CASE /\ digestMatches(n) /\ verifyApkIdentity(n) /\ workers' = [workers EXCEPT ![n] = NoWorker]
               /\ Posted(n, "ready", TRUE) /\ UNCHANGED cacheFile
      <3>1. /\ DOMAIN NoWorker = {"stage", "manifest", "cancelled", "digest"} /\ NoWorker.cancelled \in BOOLEAN
            /\ NoWorker.stage = "none"
          BY DEF NoWorker
      <3>2. CASE n = a
        <4>1. activity' = [activity EXCEPT !.downloading = FALSE, !.verified = TRUE, !.banner = "ready"]
            BY <2>2, <3>2 DEF Posted
        <4>2. /\ activity'.id = activity.id /\ activity'.offered = activity.offered /\ Same
              /\ activity'.banner # "prompt" /\ activity'.downloading = FALSE /\ activity'.verified = TRUE
            BY <1>a, <4>1
        <4>3. /\ activity.offered # NoManifest /\ workers[n].manifest = activity.offered
              /\ handed.by # activity.id
            BY <2>0, <3>2, NotHandedYet DEF UpdateInv, OneOffer
        <4>4. NotWhole \/ cacheFile.bytes \in {workers[n].digest, "mixed"}
            BY <2>0, <3>2 DEF UpdateInv, FileFollows
        <4>5. cacheFile.bytes \in Apks /\ cacheFile.bytes # "mixed"
            BY <2>2, ShellUpdateAssumption DEF verifyApkIdentity
        <4>6. cacheFile'.bytes = activity.offered.sha
            BY <2>2, <4>3, <4>4, <4>5, ShellUpdateAssumption DEF digestMatches, NotWhole
        <4>7. DOMAIN cacheFile' = {"writers", "bytes"} /\ (cacheFile'.bytes = "none" => cacheFile' = NoFile)
            BY <2>2 DEF UpdateInv, UpdateTypes
        <4> QED BY <2>0, <2>2, <3>1, <3>2, <4>2, <4>3, <4>6, <4>7, OwnWorkerStep
      <3>3. CASE n # a
        <4>1. activity' = activity /\ n < a
            BY <1>9, <1>a, <2>0, <2>2, <3>3 DEF Posted
        <4> QED BY <2>0, <2>2, <3>1, <3>3, <4>1, OldWorkerStep
      <3> QED BY <3>2, <3>3
    <2> QED BY <1>14, <2>1, <2>2 DEF downloadVerify
  <1> QED BY <1>2, <1>3, <1>4, <1>5, <1>6, <1>7, <1>8, <1>11, <1>12, <1>13, <1>14, <1>15
         DEF ShellUpdateNext

(* The installer reads the APK the offered manifest names, unless a worker *)
(* of another activity opened the one cache file, however publishing,      *)
(* downloads and destroyed activities overlap (UpdateService.download,     *)
(* launchInstaller).                                                       *)
THEOREM ApkIsSpoiltOneWay == ShellUpdateSpec => []OnlyAnotherDownloadSpoilsTheApk
  <1>1. UpdateInv => OnlyAnotherDownloadSpoilsTheApk
      BY DEF UpdateInv, HandedInv, HandOverHolds, Readable, OnlyAnotherDownloadSpoilsTheApk
  <1>2. ShellUpdateInit => ServedInv
      BY DEF ShellUpdateInit, ServedInv
  <1> QED BY <1>1, <1>2, ServedInvNext, UpdateInvInit, UpdateInvNext, PTL DEF ShellUpdateSpec

-----------------------------------------------------------------------------
(* AppUpdate.                                                              *)

(* The counter counts the release functions that are still to be called,   *)
(* and whoever is in the middle of something holds one of them.            *)
TabFields == {"build", "controlled", "criticalSections", "held", "spent", "updateDeferred",
              "reloadIssued", "dismissed", "told"}

Guarded(t) ==
    /\ DOMAIN t = TabFields
    /\ IsFiniteSet(t.held) /\ t.criticalSections = Cardinality(t.held)
    /\ t.held \cap t.spent = {}

WorkIsHeld == Guarded(tab) /\ underWay \subseteq tab.held

(* A page that starts to reload, whichever way it was asked to, had no     *)
(* release function left to call.                                          *)
ReloadsIdle(s, t) ==
    /\ t.held = s.held /\ t.spent = s.spent /\ t.criticalSections = s.criticalSections
    /\ DOMAIN t = TabFields
    /\ t.reloadIssued = s.reloadIssued \/ s.criticalSections = 0

LEMMA ApplyReloadsIdle ==
    ASSUME NEW t, Guarded(t)
    PROVE  ReloadsIdle(t, applyUpdate(t)) /\ ReloadsIdle(t, applyUpdateNow(t))
           /\ ReloadsIdle(t, retryDeferredUpdate(t)) /\ ReloadsIdle(t, Retried(t))
  <1>0. t.criticalSections \in Nat /\ DOMAIN t = TabFields
      BY FS_CardinalityType DEF Guarded
  <1>1. ReloadsIdle(t, t)
      BY <1>0 DEF ReloadsIdle
  <1>2. ReloadsIdle(t, [t EXCEPT !.updateDeferred = TRUE])
      BY <1>0 DEF ReloadsIdle, TabFields
  <1>3. ASSUME t.criticalSections = 0 PROVE ReloadsIdle(t, [t EXCEPT !.reloadIssued = TRUE])
      BY <1>0, <1>3 DEF ReloadsIdle, TabFields
  <1>4. ~(t.criticalSections > 0) => t.criticalSections = 0
      BY <1>0
  <1>5. ReloadsIdle(t, applyUpdate(t))
      BY <1>1, <1>2, <1>3, <1>4 DEF applyUpdate
  <1>6. ReloadsIdle(t, applyUpdateNow(t))
      BY <1>1, <1>2, <1>3, <1>4 DEF applyUpdateNow
  <1> QED BY <1>1, <1>5, <1>6 DEF retryDeferredUpdate, Retried

(* Told or controlled, a page holds what it held.                          *)
LEMMA FlagsKeepHeld ==
    ASSUME NEW t, Guarded(t)
    PROVE  /\ \A b : ReloadsIdle(t, [t EXCEPT !.told = b]) /\ [t EXCEPT !.told = b].reloadIssued = t.reloadIssued
           /\ \A b : ReloadsIdle(t, [t EXCEPT !.controlled = b])
           /\ \A b : ReloadsIdle(t, [t EXCEPT !.dismissed = b])
  BY DEF Guarded, ReloadsIdle, TabFields

LEMMA IdleKeepsGuarded ==
    ASSUME NEW s, NEW t, Guarded(s), ReloadsIdle(s, t) PROVE Guarded(t)
  BY DEF Guarded, ReloadsIdle

LEMMA IdleTwice ==
    ASSUME NEW s, NEW t, NEW u, ReloadsIdle(s, t), ReloadsIdle(t, u) PROVE ReloadsIdle(s, u)
  BY DEF ReloadsIdle

SparesWork == tab'.reloadIssued /\ ~tab.reloadIssued => underWay' = {}

(* A step that leaves the work alone and moves the page this way.          *)
LEMMA IdleSparesWork ==
    ASSUME WorkIsHeld, ReloadsIdle(tab, tab'), underWay' = underWay
    PROVE  WorkIsHeld' /\ SparesWork
  <1>1. WorkIsHeld'
      BY IdleKeepsGuarded DEF WorkIsHeld, ReloadsIdle
  <1>2. tab.criticalSections = 0 => tab.held = {}
      BY FS_EmptySet DEF WorkIsHeld, Guarded
  <1>3. SparesWork
      BY <1>2 DEF SparesWork, WorkIsHeld, ReloadsIdle
  <1> QED BY <1>1, <1>3

LEMMA WorkIsHeldNext == WorkIsHeld /\ [AppNext]_appVars => WorkIsHeld' /\ SparesWork
  <1> SUFFICES ASSUME WorkIsHeld, [AppNext]_appVars PROVE WorkIsHeld' /\ SparesWork
      OBVIOUS
  <1>a. Guarded(tab) /\ DOMAIN tab = TabFields
      BY DEF WorkIsHeld, Guarded
  <1>b. ReloadsIdle(tab, tab)
      BY <1>a DEF ReloadsIdle
  <1>1. ASSUME NEW w \in Works, beginCriticalWork(w) PROVE WorkIsHeld' /\ SparesWork
    <2>1. /\ tab' = [tab EXCEPT !.criticalSections = @ + 1, !.held = @ \cup {w}, !.spent = @ \ {w}]
          /\ underWay' = underWay \cup {w} /\ w \notin tab.held
        BY <1>1 DEF beginCriticalWork
    <2>2. /\ tab'.criticalSections = tab.criticalSections + 1 /\ tab'.held = tab.held \cup {w}
          /\ tab'.spent = tab.spent \ {w} /\ DOMAIN tab' = TabFields
          /\ tab'.reloadIssued = tab.reloadIssued
        BY <1>a, <2>1 DEF TabFields
    <2>3. IsFiniteSet(tab'.held) /\ Cardinality(tab'.held) = Cardinality(tab.held) + 1
        BY <1>a, <2>1, <2>2, FS_AddElement DEF Guarded
    <2> QED BY <1>a, <2>1, <2>2, <2>3 DEF WorkIsHeld, Guarded, SparesWork
  <1>2. ASSUME NEW w \in Works, release(w) PROVE WorkIsHeld' /\ SparesWork
    <2>1. PICK t : t = Released(w)
        OBVIOUS
    <2>2. tab' = Retried(t) /\ underWay' = underWay \ {w} /\ w \in tab.held \cup tab.spent
        BY <1>2, <2>1 DEF release, Becomes
    <2>3. Guarded(t) /\ underWay' \subseteq t.held /\ t.reloadIssued = tab.reloadIssued
      <3>1. CASE w \in tab.spent
        <4>1. t = tab /\ w \notin tab.held
            BY <1>a, <2>1, <3>1 DEF Released, Guarded
        <4> QED BY <1>a, <2>2, <4>1 DEF WorkIsHeld
      <3>2. CASE w \notin tab.spent
        <4>1. t = [tab EXCEPT !.criticalSections = @ - 1, !.held = @ \ {w}, !.spent = @ \cup {w}]
            BY <2>1, <3>2 DEF Released
        <4>2. /\ t.criticalSections = tab.criticalSections - 1 /\ t.held = tab.held \ {w}
              /\ t.spent = tab.spent \cup {w} /\ DOMAIN t = TabFields /\ t.reloadIssued = tab.reloadIssued
            BY <1>a, <4>1 DEF TabFields
        <4>3. IsFiniteSet(t.held) /\ Cardinality(t.held) = Cardinality(tab.held) - 1
            BY <1>a, <2>2, <3>2, <4>2, FS_RemoveElement DEF Guarded
        <4> QED BY <1>a, <2>2, <4>2, <4>3 DEF WorkIsHeld, Guarded
      <3> QED BY <3>1, <3>2
    <2>4. ReloadsIdle(t, tab')
        BY <2>2, <2>3, ApplyReloadsIdle
    <2>5. Guarded(tab') /\ tab'.held = t.held
        BY <2>3, <2>4, IdleKeepsGuarded DEF ReloadsIdle
    <2>6. WorkIsHeld'
        BY <2>3, <2>5 DEF WorkIsHeld
    <2>7. t.criticalSections = 0 => t.held = {}
        BY <2>3, FS_EmptySet DEF Guarded
    <2>8. SparesWork
        BY <2>3, <2>4, <2>7 DEF SparesWork, ReloadsIdle
    <2> QED BY <2>6, <2>8
  <1>3. CASE workerActivates
    <2>1. tab' = controllerChange /\ underWay' = underWay
        BY <1>3 DEF workerActivates, Becomes
    <2>2. PICK t : t = [tab EXCEPT !.told = TRUE]
        OBVIOUS
    <2>3. Guarded(t) /\ ReloadsIdle(tab, t)
        BY <1>a, <2>2, FlagsKeepHeld, IdleKeepsGuarded
    <2>4. ReloadsIdle(tab, applyUpdate(t))
        BY <2>3, ApplyReloadsIdle, IdleTwice
    <2>5. ReloadsIdle(tab, tab')
        BY <1>a, <2>1, <2>2, <2>4, FlagsKeepHeld DEF controllerChange
    <2> QED BY <2>1, <2>5, IdleSparesWork
  <1>4. CASE checkForUpdate
    <2>1. PICK s : s = retryDeferredUpdate(tab)
        OBVIOUS
    <2>2. PICK t : t = [s EXCEPT !.told = TRUE]
        OBVIOUS
    <2>3. (tab' = applyUpdate(t) \/ tab' = s) /\ underWay' = underWay
        BY <1>4, <2>1, <2>2 DEF checkForUpdate, Becomes
    <2>4. ReloadsIdle(tab, s) /\ Guarded(s)
        BY <1>a, <2>1, ApplyReloadsIdle, IdleKeepsGuarded
    <2>5. Guarded(t) /\ ReloadsIdle(s, t)
        BY <2>2, <2>4, FlagsKeepHeld, IdleKeepsGuarded
    <2>6. ReloadsIdle(tab, applyUpdate(t))
        BY <2>4, <2>5, ApplyReloadsIdle, IdleTwice
    <2>7. ReloadsIdle(tab, tab')
        BY <2>3, <2>4, <2>6
    <2> QED BY <2>3, <2>7, IdleSparesWork
  <1>5. CASE reloadNow
    <2>1. tab' = applyUpdateNow(tab) /\ underWay' = underWay
        BY <1>5 DEF reloadNow, Becomes
    <2> QED BY <1>a, <2>1, ApplyReloadsIdle, IdleSparesWork
  <1>6. CASE dismissBanner
    <2>1. tab' = [tab EXCEPT !.dismissed = TRUE] /\ underWay' = underWay
        BY <1>6 DEF dismissBanner
    <2> QED BY <1>a, <2>1, FlagsKeepHeld, IdleSparesWork
  <1>7. CASE navigation
    <2>1. \E build, controlled : tab' = NewTab(build, controlled)
        BY <1>7 DEF navigation
    <2>2. Guarded(tab') /\ underWay' = {}
        BY <1>7, <2>1, FS_EmptySet DEF navigation, NewTab, Guarded, TabFields
    <2> QED BY <2>2 DEF WorkIsHeld, SparesWork
  <1>8. CASE tab' = tab /\ underWay' = underWay
      BY <1>8, <1>b, IdleSparesWork
  <1>9. CASE workerInstalls \/ Deploy \/ WindowPasses \/ Connectivity \/ UNCHANGED appVars
      BY <1>8, <1>9 DEF workerInstalls, Deploy, WindowPasses, Connectivity, appVars
  <1> QED BY <1>1, <1>2, <1>3, <1>4, <1>5, <1>6, <1>7, <1>9 DEF AppNext

(* No reload is issued while anybody is in the middle of critical work,    *)
(* however often one release function is called and whatever asks for the  *)
(* reload (beginCriticalWork, applyUpdate, applyUpdateNow).                *)
THEOREM ReloadsSpareWork == AppSpec => ReloadSparesWork
  <1>1. AppInit => WorkIsHeld
    <2>1. Guarded(NewTab(1, FALSE))
        BY FS_EmptySet DEF NewTab, Guarded, TabFields
    <2> QED BY <2>1 DEF AppInit, WorkIsHeld
  <1>2. WorkIsHeld /\ [AppNext]_appVars => [tab'.reloadIssued /\ ~tab.reloadIssued => underWay' = {}]_appVars
      BY WorkIsHeldNext DEF SparesWork
  <1> QED BY <1>1, <1>2, WorkIsHeldNext, PTL DEF AppSpec, ReloadSparesWork
=============================================================================
