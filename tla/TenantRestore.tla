--------------------------- MODULE TenantRestore ---------------------------
(***************************************************************************)
(* The TenantRestore controller: a plan is made once; then one app at a    *)
(* time is held back at the edge, handed its secrets, paused, loaded by    *)
(* Jobs, given its post-restore commands and rolled; then what is the      *)
(* tenant's own; and only then are the apps let through again.             *)
(*                                                                         *)
(* As in TenantExport, an action is the part of a pass of Reconcile        *)
(* between two writes of the status, and `ok' is FALSE where the write did *)
(* not land after the side effects before it did.                          *)
(***************************************************************************)
EXTENDS AppPause, FiniteSets

CONSTANTS
    Restores,           \* names of TenantRestore objects of one tenant
    Units,              \* artefacts of one app, and of the tenant itself
    TenantWide,         \* backupTenantComponent, "gentian-tenant"
    Stamp,              \* [Restores -> Nat] creationTimestamp, whole seconds
    NameRank,           \* [Restores -> Nat] order of the restores' names
    AppRank,            \* [Apps -> Nat] order of the manifest's apps
    Bundles,            \* bundles in the object store
    Bundle,             \* [Restores -> Bundles] exportRef or spec.bundle
    Uploaded,           \* bundles that were uploaded to be restored
    BundleApps,         \* apps the bundles hold
    BundleRetained,     \* those held as an uninstalled app's
    Requested,          \* [Restores -> SUBSET Apps] spec.apps, {} for all
    WithKey,            \* restores whose spec names the key of their bundle
    WithSecrets,        \* apps whose bundle holds their own secrets
    WithCommands,       \* apps whose profile has post-restore commands
    FirstApps,          \* apps installed at the start
    Routed, Published,  \* see RestoreHold
    exportMaxAttempts   \* 2 in the code

Phases == {"Pending", "Running", "Ready", "Failed"}
JobStates == {"none", "running", "complete", "failed", "stuck", "foreign"}
FaultKinds ==
    {"lost", "hook", "lateHook", "resumeHook", "pause", "enumerate",
     "unusable", "omit", "secrets", "commands", "podTimeout", "holdTimeout",
     "rollout", "rights", "tidy", "foreign", "uninstall", "delete", "tenant",
     "export", "wake", "orphan"}

Slots == Apps \cup {TenantWide}
NoApp == TenantWide
Contents == Bundles \cup {"old", "torn"}
PodStates == {"fresh", "stale", "rolling", "starting", "none"}

ASSUME RestoreOrder ==
    /\ Stamp \in [Restores -> Nat]
    /\ NameRank \in [Restores -> Nat]
    /\ \A r, q \in Restores : NameRank[r] = NameRank[q] => r = q
    /\ AppRank \in [Apps -> Nat]
    /\ \A a, b \in Apps : AppRank[a] = AppRank[b] => a = b

ASSUME RestoreConfig ==
    /\ TenantWide \notin Apps
    /\ IsFiniteSet(Units)
    /\ Bundle \in [Restores -> Bundles]
    /\ {"old", "torn"} \cap Bundles = {}
    /\ Uploaded \subseteq Bundles
    /\ BundleRetained \subseteq BundleApps
    /\ BundleApps \subseteq Apps
    /\ Requested \in [Restores -> SUBSET Apps]
    /\ QuiesceMode \in [Apps -> Modes]
    /\ Replicas \in [Apps -> Nat \ {0}]
    /\ WithKey \subseteq Restores
    /\ WithSecrets \subseteq Apps
    /\ WithCommands \subseteq Apps
    /\ FirstApps \subseteq Apps
    /\ exportMaxAttempts \in Nat
    /\ Faults \subseteq FaultKinds

VARIABLES
    obj,        \* where each TenantRestore object is in its life
    finalizer,  \* restores that hold restoreFinalizer
    status,     \* the stored status of each restore
    job,        \* the Jobs of each restore, by slot and unit
    orphan,     \* pods that outlive the Job they were of
    key,        \* the Secret with each restore's key, in the tenant's namespace
    staged,     \* restores with key material staged beside their Jobs
    bundles,    \* bundles in the object store
    data,       \* what each store of each slot holds
    vault,      \* the values of an app's secrets in the vault
    handed,     \* the values of its secrets an app was started with
    work,       \* the workloads of each app
    pods,       \* its pods, as against the data they were started on
    installed,  \* apps installed now
    exporting,  \* an export that has started holds the tenant
    route, pass, queue  \* see RestoreHold

vars == <<obj, finalizer, status, job, orphan, key, staged, bundles, data,
          vault, handed, work, pods, installed, exporting, route, pass, queue>>
edge == <<route, pass, queue>>
appState == <<data, vault, handed, work, pods>>

----------------------------------------------------------------------------
(* The status of a restore. *)

NewEntry ==
    [phase |-> "Pending", retained |-> FALSE, secrets |-> "",
     replaced |-> FALSE, started |-> FALSE, ended |-> FALSE, mode |-> "",
     rollout |-> FALSE, attempts |-> 0, done |-> {}]
NewStatus ==
    [phase |-> "", started |-> FALSE, plan |-> {}, omitted |-> {},
     heldBack |-> {}, quiesced |-> {}, complete |-> FALSE,
     entry |-> [x \in Slots |-> NewEntry]]

setEntry(s, x, n) == [s EXCEPT !.entry = [@ EXCEPT ![x] = n]]
markQuiesced(s, a) == [s EXCEPT !.quiesced = @ \cup {a}]
unmarkQuiesced(s, Q) == [s EXCEPT !.quiesced = @ \ Q]

IsTerminal(s) == s.phase \in {"Ready", "Failed"}
Exists(r) == obj[r] \in {"live", "deleting"}

HoldsBack(r, a) ==
    obj[r] = "live" /\ ~IsTerminal(status[r]) /\ a \in status[r].heldBack
holding == {a \in Apps : \E r \in Restores : HoldsBack(r, a)}
Edge == INSTANCE RestoreHold

First(S) == CHOOSE a \in S : \A b \in S : AppRank[a] <= AppRank[b]
nextPendingApp(r) ==
    LET pending == {a \in status[r].plan : status[r].entry[a].phase # "Ready"}
    IN  IF pending = {} THEN NoApp ELSE First(pending)

Older(q, r) ==
    \/ Stamp[q] < Stamp[r]
    \/ Stamp[q] = Stamp[r] /\ NameRank[q] < NameRank[r]
\* Wrong: only exports are waited for.
tenantExporting(r) == exporting
tenantBusy(r) ==
    \/ exporting
    \/ \E q \in Restores :
          q # r /\ Exists(q) /\ ~IsTerminal(status[q]) /\ Older(q, r)

Writes == IF "lost" \in Faults THEN BOOLEAN ELSE {TRUE}
persist(r, s, ok) == status' = IF ok THEN [status EXCEPT ![r] = s] ELSE status

----------------------------------------------------------------------------
(* Jobs, workloads and key material. *)

\* ensureRestoreJob over units U: the record of what is done decides before
\* the Job is looked at.  (Wrong: a pod that never starts is not counted.)
FailedOnly(en, j, U) == {u \in U \ en.done : j[u] = "failed"}
Unsuccessful(en, j, U) ==
    {u \in U \ en.done : j[u] \in {"failed", "stuck", "foreign"}}
\* Wrong: a unit whose Job is there is done.
restoreByExistence(en, j, U) ==
    [en EXCEPT !.done = @ \cup {u \in U : j[u] \in {"complete", "running"}}]
ensureEntry(en, j, U) ==
    [en EXCEPT !.done = @ \cup {u \in U : j[u] = "complete"},
               !.attempts = @ + Cardinality(Unsuccessful(en, j, U))]
ensureJobs(en, j, U) ==
    [u \in Units |->
        CASE u \in U \ en.done /\ j[u] = "none" -> "running"
          [] u \in U \ en.done /\ j[u] \in {"failed", "stuck"} -> "none"
          [] OTHER -> j[u]]

\* Deleted in the background: a pod that runs goes on until its grace period
\* is over.
Orphaned(r, js) ==
    IF "orphan" \in Faults
    THEN orphan \cup {t \in {r} \X Slots \X Units : js[t[2]][t[3]] = "running"}
    ELSE orphan
stopRunningRestoreJobs(js) ==
    [x \in Slots |-> [u \in Units |->
        IF js[x][u] \in {"running", "stuck"} THEN "none" ELSE js[x][u]]]
deleteRestoreJobs(js) ==
    [x \in Slots |-> [u \in Units |->
        IF js[x][u] = "foreign" THEN "foreign" ELSE "none"]]

\* Pods go and come with the replicas; the ones that come are new.
podsOf(w, p) ==
    CASE w.replicas = 0 -> "none"
      [] w.replicas > 0 /\ p = "none" -> "starting"
      [] OTHER -> p
\* Pods that run, once the data under them has been replaced.
Overtaken(p) == IF p = "none" THEN p ELSE "stale"
setWork(W) ==
    /\ work' = W
    /\ pods' = [a \in Apps |-> podsOf(W[a], pods[a])]

\* The key of a restore is deleted with it only once the restore controls it.
discardKey(k) == IF k = "owned" THEN "gone" ELSE k
discardStagedRestoreSecrets(r) ==
    /\ key' = [key EXCEPT ![r] = discardKey(@)]
    /\ staged' = staged \ {r}

----------------------------------------------------------------------------
(* How a pass ends a restore. *)

failed(s) == [s EXCEPT !.phase = "Failed", !.heldBack = {}, !.complete = FALSE]

\* Best effort; the pass over the ended restore tries again.
fail(r, s, js, ok) ==
    /\ \/ /\ job' = [job EXCEPT ![r] = stopRunningRestoreJobs(js)]
          /\ orphan' = Orphaned(r, js)
       \/ /\ "tidy" \in Faults
          /\ job' = [job EXCEPT ![r] = js]
          /\ UNCHANGED orphan
    /\ \/ discardStagedRestoreSecrets(r)
       \/ "tidy" \in Faults /\ UNCHANGED <<key, staged>>
    /\ persist(r, failed(s), ok)

\* Wrong: the app is struck off the record and left as it is.
failAppPaused(r, a, s, js, ok) ==
    /\ fail(r, setEntry(unmarkQuiesced(s, {a}), a,
                        [s.entry[a] EXCEPT !.phase = "Failed"]), js, ok)
    /\ UNCHANGED <<work, pods>>
failApp(r, a, s, js, ok) ==
    /\ \E hook \in PostHook(work[a]) :
          setWork([work EXCEPT ![a] =
                       unquiesceApp(@, s.entry[a].mode, hook)])
    /\ fail(r, setEntry(unmarkQuiesced(s, {a}), a,
                        [s.entry[a] EXCEPT
                            !.ended = @ \/ s.entry[a].started,
                            !.phase = "Failed"]), js, ok)

----------------------------------------------------------------------------
(* Passes over a restore that has ended, and the start of one that has not. *)

AddFinalizer(r) ==
    /\ obj[r] = "live" /\ r \notin finalizer /\ ~IsTerminal(status[r])
    /\ finalizer' = finalizer \cup {r}
    /\ UNCHANGED <<obj, status, job, orphan, key, staged, bundles, appState,
                   installed, exporting>>

\* The apps Q resumed by the mode on record, and struck off it.
resume(r, Q, ok) ==
    /\ Q # {}
    /\ \E hook \in [Q -> {"ok", "error"}] :
        /\ \A a \in Q : hook[a] \in PostHook(work[a])
        /\ setWork([a \in Apps |->
               IF a \in Q
               THEN unquiesceApp(work[a], status[r].entry[a].mode, hook[a])
               ELSE work[a]])
    /\ persist(r, unmarkQuiesced(status[r], Q), ok)

resumeAll(r, ok) == resume(r, status[r].quiesced, ok)

ResumeEnded(r, ok) ==
    /\ obj[r] = "live" /\ IsTerminal(status[r])
    /\ resumeAll(r, ok)
    /\ UNCHANGED <<obj, finalizer, job, orphan, key, staged, bundles, data, vault,
                   handed, installed, exporting>>

\* A bundle uploaded for a restore goes when the restore has run to its end;
\* one that was refused before it began leaves it.
removeImportedBundle(r) ==
    bundles' = IF status[r].started THEN bundles \ ({Bundle[r]} \cap Uploaded)
               ELSE bundles
\* Wrong: an ended restore is tidied up once.
TidyEndedOnce(r) ==
    /\ obj[r] = "live" /\ IsTerminal(status[r]) /\ status[r].quiesced = {}
    /\ r \in finalizer
    /\ job' = [job EXCEPT ![r] = stopRunningRestoreJobs(@)]
    /\ orphan' = Orphaned(r, job[r])
    /\ discardStagedRestoreSecrets(r)
    /\ removeImportedBundle(r)
    /\ finalizer' = finalizer \ {r}
    /\ UNCHANGED <<obj, status, appState, installed, exporting>>
TidyEnded(r) ==
    /\ obj[r] = "live" /\ IsTerminal(status[r]) /\ status[r].quiesced = {}
    /\ job' = [job EXCEPT ![r] = stopRunningRestoreJobs(@)]
    /\ orphan' = Orphaned(r, job[r])
    /\ discardStagedRestoreSecrets(r)
    /\ removeImportedBundle(r)
    /\ finalizer' = finalizer \ {r}
    /\ UNCHANGED <<obj, status, appState, installed, exporting>>

Running(r) == obj[r] = "live" /\ r \in finalizer /\ ~IsTerminal(status[r])

\* The Tenant is gone, or the confirmation does not name it.
FailPreflight(r, ok) ==
    /\ Running(r) /\ "tenant" \in Faults
    /\ fail(r, status[r], job[r], ok)
    /\ UNCHANGED <<obj, finalizer, bundles, appState, installed, exporting>>

Busy(r, ok) ==
    /\ Running(r) /\ tenantBusy(r)
    /\ persist(r, [status[r] EXCEPT !.phase = "Pending"], ok)
    /\ UNCHANGED <<obj, finalizer, job, orphan, key, staged, bundles, appState,
                   installed, exporting>>

\* The bundle and the key are resolved on every pass.
Resolved(r) == key[r] # "gone"
FailUnusable(r, ok) ==
    /\ Running(r) /\ ~tenantBusy(r)
    /\ ~Resolved(r) \/ "unusable" \in Faults
    /\ fail(r, status[r], job[r], ok)
    /\ UNCHANGED <<obj, finalizer, bundles, appState, installed, exporting>>

Works(r) == Running(r) /\ ~tenantBusy(r) /\ Resolved(r)
stageDecryptionSecret(r) ==
    staged' = staged \cup ({r} \cap WithKey) /\ UNCHANGED key

----------------------------------------------------------------------------
(* The plan. *)

Asked(r) == IF Requested[r] = {} THEN BundleApps
            ELSE Requested[r] \cap BundleApps
isRetained(a) == a \in BundleRetained \ installed
\* What cannot be put back: an app that is not installed here, and what the
\* rules on versions, domains and claims leave out.
Unplannable(r) == {a \in Asked(r) : a \notin installed /\ ~isRetained(a)}
Omissions(r) ==
    IF "omit" \in Faults
    THEN {O \in SUBSET Asked(r) : Unplannable(r) \subseteq O}
    ELSE {Unplannable(r)}
refused(r, O) ==
    \/ Bundle[r] \notin bundles
    \/ Requested[r] # {} /\ (O # {} \/ ~(Requested[r] \subseteq BundleApps))
    \/ Asked(r) = O

recordPlan(r, O) ==
    [status[r] EXCEPT
        !.plan = Asked(r) \ O, !.omitted = O, !.started = TRUE,
        !.phase = "Running",
        !.entry = [x \in Slots |->
            IF x \in Apps /\ x \in Asked(r) \ O /\ isRetained(x)
            THEN [NewEntry EXCEPT !.retained = TRUE] ELSE NewEntry]]

Plan(r, ok) ==
    /\ Works(r) /\ ~status[r].started
    /\ \E O \in Omissions(r) :
          \/ /\ refused(r, O)
             /\ fail(r, status[r], job[r], ok)
          \/ /\ ~refused(r, O)
             /\ persist(r, recordPlan(r, O), ok)
             /\ stageDecryptionSecret(r)
             /\ UNCHANGED <<job, orphan>>
    /\ UNCHANGED <<obj, finalizer, bundles, appState, installed, exporting>>

\* Wrong: the app being restored is resumed with the others.
StaleOrCurrent(r) == status[r].quiesced
Stale(r) == status[r].quiesced \ {nextPendingApp(r)}
resumeStale(r, ok) ==
    /\ Works(r) /\ status[r].started
    /\ resume(r, Stale(r), ok)
    /\ stageDecryptionSecret(r)
    /\ UNCHANGED <<obj, finalizer, job, orphan, bundles, data, vault, handed,
                   installed, exporting>>

At(r, a) ==
    /\ Works(r) /\ status[r].started /\ Stale(r) = {}
    /\ nextPendingApp(r) = a

----------------------------------------------------------------------------
(* restoreApp: an installed app. *)

\* What of an app stays as it is, and what every step over one leaves alone.
Steady == <<obj, finalizer, bundles, installed, exporting>>

\* resolveProfile errs for an app no longer in Tenant.spec.apps, and the pass
\* with it; an app planned as retained goes another way.
AtInstalled(r, a) ==
    At(r, a) /\ a \in installed /\ ~status[r].entry[a].retained
Entry(r, a) == status[r].entry[a]

\* The app is named first, and then looked for at the edge, on every pass
\* until it is paused.
\* (Wrong: an app that is named counts as held.)
heldByName(r, a) == a \in status[r].heldBack
held(r, a) == a \in status[r].heldBack /\ Edge!restoreHoldInPlace(a)

holdBack(r, a, ok) ==
    /\ At(r, a) /\ a \in Apps /\ ~Entry(r, a).started
    /\ Entry(r, a).retained \/ a \in installed
    /\ \/ /\ a \notin status[r].heldBack
          /\ persist(r, [status[r] EXCEPT !.heldBack = @ \cup {a}], ok)
          /\ stageDecryptionSecret(r)
          /\ UNCHANGED <<job, orphan, work, pods>>
       \/ /\ "holdTimeout" \in Faults
          /\ a \in status[r].heldBack /\ ~held(r, a)
          /\ failApp(r, a, status[r], job[r], ok)
    /\ UNCHANGED <<Steady, data, vault, handed>>

\* Secrets the app is to be handed: those the vault lacks, and those the app
\* lacks although the vault has them, from a restore that ended in between.
\* (Wrong: the vault alone is asked.)
vaultLacks(r, a) == vault[a] # Bundle[r]
appLacks(r, a) == vault[a] # Bundle[r] \/ handed[a] # Bundle[r]

\* restoreAppSecrets: what will change is written down before anything does,
\* then the vault is written, then the app is waited for.
PlanSecrets(r, a, ok) ==
    /\ AtInstalled(r, a) /\ held(r, a) /\ ~Entry(r, a).started
    /\ a \in WithSecrets
    /\ \/ /\ Entry(r, a).secrets = ""
          /\ persist(r, setEntry(status[r], a, [Entry(r, a) EXCEPT
                 !.secrets = "planned", !.replaced = appLacks(r, a)]), ok)
          /\ stageDecryptionSecret(r)
          /\ UNCHANGED <<job, orphan, work, pods>>
       \/ /\ Entry(r, a).secrets \in {"", "planned"} /\ "secrets" \in Faults
          /\ failApp(r, a, status[r], job[r], ok)
    /\ UNCHANGED <<Steady, data, vault, handed>>

ApplySecrets(r, a, ok) ==
    /\ AtInstalled(r, a) /\ held(r, a) /\ ~Entry(r, a).started
    /\ Entry(r, a).secrets = "planned"
    /\ vault' = [vault EXCEPT ![a] = IF Entry(r, a).replaced THEN Bundle[r]
                                     ELSE @]
    /\ persist(r, setEntry(status[r], a, [Entry(r, a) EXCEPT
           !.secrets = IF @ # "" /\ ~Entry(r, a).replaced THEN "delivered"
                       ELSE "applied"]), ok)
    /\ stageDecryptionSecret(r)
    /\ UNCHANGED <<Steady, job, orphan, data, handed, work, pods>>

AwaitSecrets(r, a, ok) ==
    /\ AtInstalled(r, a) /\ held(r, a) /\ ~Entry(r, a).started
    /\ Entry(r, a).secrets = "applied"
    /\ \/ /\ handed[a] = Bundle[r]
          /\ persist(r, setEntry(status[r], a,
                 [Entry(r, a) EXCEPT !.secrets = "delivered"]), ok)
          /\ stageDecryptionSecret(r)
          /\ UNCHANGED <<job, orphan, work, pods>>
       \/ /\ handed[a] # Bundle[r] /\ "secrets" \in Faults
          /\ failApp(r, a, status[r], job[r], ok)
    /\ UNCHANGED <<Steady, data, vault, handed>>

SecretsDelivered(r, a) ==
    a \in WithSecrets => Entry(r, a).secrets = "delivered"

\* The pause, recorded after it is made.  The authorization store is put back
\* before it and can fail the app too.
PauseApp(r, a, ok) ==
    /\ AtInstalled(r, a) /\ held(r, a) /\ SecretsDelivered(r, a)
    /\ ~Entry(r, a).started
    /\ \/ /\ \E hook \in PreHook(work[a]) :
              /\ setWork([work EXCEPT ![a] = quiesceApp(a, @, hook)])
              /\ persist(r, setEntry(markQuiesced(status[r], a), a,
                     [Entry(r, a) EXCEPT !.started = TRUE,
                                         !.mode = quiesceMode(a, hook),
                                         !.phase = "Running"]), ok)
          /\ stageDecryptionSecret(r)
          /\ UNCHANGED <<job, orphan>>
       \/ /\ "pause" \in Faults
          /\ failApp(r, a, status[r], job[r], ok)
    /\ UNCHANGED <<Steady, data, vault, handed>>

\* Jobs while a unit is outstanding: wait, or give up.
RestoreWaits(r, a, ok) ==
    LET en == ensureEntry(Entry(r, a), job[r][a], Units)
        js == [job[r] EXCEPT ![a] = ensureJobs(Entry(r, a), @, Units)]
        s  == setEntry(status[r], a, en)
    IN  /\ AtInstalled(r, a) /\ Entry(r, a).started
        /\ \/ /\ ~(Units \subseteq en.done)
              /\ IF en.attempts > exportMaxAttempts
                 THEN failApp(r, a, s, js, ok)
                 ELSE /\ job' = [job EXCEPT ![r] = js]
                      /\ UNCHANGED orphan
                      /\ persist(r, s, ok)
                      /\ stageDecryptionSecret(r)
                      /\ UNCHANGED <<work, pods>>
           \/ /\ "enumerate" \in Faults
              /\ failApp(r, a, status[r], job[r], ok)
        /\ UNCHANGED <<Steady, data, vault, handed>>

\* The data is in place.  A command needs a pod: an app that was scaled down
\* is started before its commands, and so is one whose maintenance command
\* could not run and whose resume command is owed.
resumeCommandOwed(a, mode) ==
    mode = "scaleDown" /\ QuiesceMode[a] = "command"
needsPod(a, mode) ==
    mode = "scaleDown" /\ (a \in WithCommands \/ resumeCommandOwed(a, mode))
\* (Wrong: an app that stayed up in maintenance is not rolled.)
rollsForCommands(a, en) == a \in WithCommands
mustRoll(a, en) ==
    \/ en.mode # "scaleDown" \/ en.replaced
    \/ a \in WithCommands \/ resumeCommandOwed(a, en.mode)

Loaded(r, a) ==
    /\ AtInstalled(r, a) /\ Entry(r, a).started /\ ~Entry(r, a).rollout
    /\ Units \subseteq ensureEntry(Entry(r, a), job[r][a], Units).done
Ensured(r, a) == ensureEntry(Entry(r, a), job[r][a], Units)

ResumeForCommands(r, a, ok) ==
    /\ Loaded(r, a) /\ needsPod(a, Entry(r, a).mode) /\ ~Entry(r, a).ended
    /\ \E hook \in PostHook(work[a]) : setWork([work EXCEPT ![a] =
           unquiesceApp(@, Entry(r, a).mode, hook)])
    /\ persist(r, setEntry(unmarkQuiesced(status[r], {a}), a,
           [Ensured(r, a) EXCEPT !.ended = TRUE]), ok)
    /\ stageDecryptionSecret(r)
    /\ UNCHANGED <<Steady, job, orphan, data, vault, handed>>

runningPodForApp(a) == work[a].replicas > 0 /\ pods[a] # "starting"
PodTimeout(r, a, ok) ==
    /\ Loaded(r, a) /\ needsPod(a, Entry(r, a).mode) /\ Entry(r, a).ended
    /\ "podTimeout" \in Faults /\ ~runningPodForApp(a)
    /\ failApp(r, a, status[r], job[r], ok)
    /\ UNCHANGED <<Steady, data, vault, handed>>

\* runRestoreHooks, the owed resume command, the resume and the roll, in one
\* stretch with no write between them.  A command rewrites what the running
\* pods were started on.
Commands(r, a, ok) ==
    LET en == Ensured(r, a)
        w1 == IF resumeCommandOwed(a, en.mode)
              THEN [work[a] EXCEPT !.maint = FALSE] ELSE work[a]
        started(w) ==
            CASE mustRoll(a, en) /\ w.replicas > 0 -> "rolling"
              [] ~mustRoll(a, en) /\ a \in WithCommands -> Overtaken(pods[a])
              [] OTHER -> podsOf(w, pods[a])
    IN  /\ Loaded(r, a)
        /\ needsPod(a, en.mode) => en.ended /\ runningPodForApp(a)
        /\ \/ /\ \E hook \in PostHook(w1) :
                  LET w == IF en.ended THEN w1 ELSE unquiesceApp(w1, en.mode, hook)
                  IN  /\ work' = [work EXCEPT ![a] = w]
                      /\ pods' = [pods EXCEPT ![a] = started(w)]
              /\ persist(r, setEntry(unmarkQuiesced(status[r], {a}), a,
                     [en EXCEPT !.ended = TRUE, !.rollout = TRUE]), ok)
              /\ stageDecryptionSecret(r)
              /\ UNCHANGED <<job, orphan>>
           \/ /\ "commands" \in Faults
              /\ a \in WithCommands \/ resumeCommandOwed(a, en.mode)
              /\ failApp(r, a, setEntry(status[r], a, en), job[r], ok)
        /\ UNCHANGED <<Steady, data, vault, handed>>

\* Done when the pods that serve are the ones started on the restored data;
\* past restoreRolloutTimeout it is done with a note.
appRolloutPending(a) == pods[a] \in {"rolling", "starting"}
awaitRollout(r, a, ok) ==
    /\ AtInstalled(r, a) /\ Entry(r, a).rollout
    /\ ~appRolloutPending(a) \/ "rollout" \in Faults
    /\ persist(r, setEntry(status[r], a,
           [Entry(r, a) EXCEPT !.phase = "Ready"]), ok)
    /\ stageDecryptionSecret(r)
    /\ UNCHANGED <<Steady, job, orphan, appState>>

----------------------------------------------------------------------------
(* An uninstalled app's data, and what is the tenant's own. *)

\* restoreRetained: held back like the others, with no pause; the vault is
\* written for its next install.
RestoreRetained(r, a, ok) ==
    LET en == [ensureEntry(Entry(r, a), job[r][a], Units) EXCEPT
                   !.phase = "Running", !.secrets = "delivered"]
        js == [job[r] EXCEPT ![a] = ensureJobs(Entry(r, a), @, Units)]
        gaveUp(n, k) == fail(r, setEntry(status[r], a,
                                 [n EXCEPT !.phase = "Failed"]), k, ok)
    IN  /\ At(r, a) /\ Entry(r, a).retained /\ held(r, a)
        /\ \/ /\ vault' = [vault EXCEPT ![a] = IF a \in WithSecrets
                                               THEN Bundle[r] ELSE @]
              /\ IF en.attempts > exportMaxAttempts /\ ~(Units \subseteq en.done)
                 THEN gaveUp(en, js)
                 ELSE /\ job' = [job EXCEPT ![r] = js]
                      /\ UNCHANGED orphan
                      /\ persist(r, setEntry(status[r], a,
                             IF Units \subseteq en.done
                             THEN [en EXCEPT !.phase = "Ready"] ELSE en), ok)
                      /\ stageDecryptionSecret(r)
           \/ /\ "enumerate" \in Faults
              /\ gaveUp(Entry(r, a), job[r])
              /\ UNCHANGED vault
        /\ UNCHANGED <<Steady, data, handed, work, pods>>

\* restoreTenantWide: the realm last.  A failure is counted; too many fail
\* the restore, with every app of it resumed by then.
RestoreTenantWide(r, ok) ==
    LET old == status[r].entry[TenantWide]
        en  == ensureEntry(old, job[r][TenantWide], Units)
        js  == [job[r] EXCEPT ![TenantWide] = ensureJobs(old, @, Units)]
        counted(n, k) ==
            IF n.attempts > exportMaxAttempts
            THEN fail(r, setEntry(status[r], TenantWide,
                                  [n EXCEPT !.phase = "Failed"]), k, ok)
            ELSE /\ job' = [job EXCEPT ![r] = k]
                 /\ UNCHANGED orphan
                 /\ persist(r, setEntry(status[r], TenantWide, n), ok)
                 /\ stageDecryptionSecret(r)
    IN  /\ At(r, NoApp)
        /\ \/ ~(Units \subseteq en.done) /\ counted(en, js)
           \/ /\ "enumerate" \in Faults
              /\ counted([old EXCEPT !.attempts = @ + 1], job[r])
           \/ /\ "rights" \in Faults /\ Units \subseteq en.done
              /\ counted([en EXCEPT !.attempts = @ + 1], job[r])
        /\ UNCHANGED <<Steady, appState>>

tenantWideDone(r) ==
    /\ At(r, NoApp)
    /\ Units \subseteq ensureEntry(status[r].entry[TenantWide],
                                   job[r][TenantWide], Units).done
\* The end: what was staged goes, then the edge lets the apps through.
Finish(r, ok) ==
    /\ tenantWideDone(r)
    /\ \/ job' = [job EXCEPT ![r] = stopRunningRestoreJobs(@)]
       \/ "tidy" \in Faults /\ UNCHANGED job
    /\ UNCHANGED orphan
    /\ \/ discardStagedRestoreSecrets(r)
       \/ "tidy" \in Faults /\ UNCHANGED <<key, staged>>
    /\ persist(r, [setEntry(status[r], TenantWide,
                       [ensureEntry(status[r].entry[TenantWide],
                                    job[r][TenantWide], Units)
                        EXCEPT !.phase = "Ready"])
                   EXCEPT !.phase = "Ready", !.heldBack = {},
                          !.complete = status[r].omitted = {}], ok)
    /\ UNCHANGED <<Steady, appState>>

----------------------------------------------------------------------------
(* Passes over a restore that is being deleted. *)

\* The Jobs are stopped before an app is started, so that no unit writes into
\* a running one.
FinalizeResume(r, ok) ==
    /\ obj[r] = "deleting"
    /\ job' = [job EXCEPT ![r] = deleteRestoreJobs(@)]
    /\ orphan' = Orphaned(r, job[r])
    /\ \/ discardStagedRestoreSecrets(r)
       \/ "tidy" \in Faults /\ UNCHANGED <<key, staged>>
    /\ resumeAll(r, ok)
    /\ UNCHANGED <<Steady, data, vault, handed>>
Finalize(r) ==
    /\ obj[r] = "deleting" /\ status[r].quiesced = {}
    /\ job' = [job EXCEPT ![r] = deleteRestoreJobs(@)]
    /\ orphan' = Orphaned(r, job[r])
    /\ \/ discardStagedRestoreSecrets(r)
       \/ "tidy" \in Faults /\ UNCHANGED <<key, staged>>
    /\ finalizer' = finalizer \ {r}
    /\ obj' = [obj EXCEPT ![r] = "gone"]
    /\ UNCHANGED <<status, bundles, appState, installed, exporting>>

----------------------------------------------------------------------------
(* The world around the controller. *)

\* StartRestore makes the Secret with the key, then the restore, and makes
\* the restore the Secret's controller last.
CreateRestore(r) ==
    /\ obj[r] = "absent"
    /\ \A q \in Restores : obj[q] # "absent" => Stamp[q] <= Stamp[r]
    /\ obj' = [obj EXCEPT ![r] = "live"]
    /\ key' = [key EXCEPT ![r] = IF r \in WithKey THEN "loose" ELSE @]
    /\ UNCHANGED <<finalizer, status, job, orphan, staged, bundles, appState,
                   installed, exporting>>
OwnKey(r) ==
    /\ key[r] = "loose" /\ Exists(r)
    /\ key' = [key EXCEPT ![r] = "owned"]
    /\ UNCHANGED <<Steady, status, job, orphan, staged, appState>>

\* A Secret the restore controls is then the garbage collector's to remove.
DeleteRestore(r) ==
    /\ obj[r] = "live" /\ "delete" \in Faults
    /\ obj' = [obj EXCEPT ![r] = IF r \in finalizer THEN "deleting" ELSE "gone"]
    /\ UNCHANGED <<finalizer, status, job, orphan, key, staged, bundles,
                   appState, installed, exporting>>

\* A Job writes one store of one slot.  The data of an app that is paused by
\* a command may have been captured in maintenance, and puts it back there.
Load(r, x, u, content) ==
    /\ data' = [data EXCEPT ![x][u] = content]
    /\ IF x = TenantWide THEN UNCHANGED <<work, pods>>
       ELSE /\ \E m \in {work[x].maint,
                         work[x].maint \/ QuiesceMode[x] = "command"} :
                  work' = [work EXCEPT ![x].maint = m]
            /\ pods' = [pods EXCEPT ![x] = Overtaken(@)]
    /\ UNCHANGED <<Steady, status, key, staged, vault, handed>>

\* It fetches its artefact before it writes: one that has it is not disturbed by
\* a removal of the bundle, one that comes too late fails.  No property rests
\* on the second: that it could complete as well is more than the code does.
JobCompletes(r, x, u) ==
    /\ job[r][x][u] = "running"
    /\ job' = [job EXCEPT ![r][x][u] = "complete"]
    /\ Load(r, x, u, Bundle[r])
    /\ UNCHANGED orphan
\* A pod that never started wrote nothing; one that failed, a part.
JobFails(r, x, u) ==
    /\ job[r][x][u] = "running"
    /\ \/ /\ job' = [job EXCEPT ![r][x][u] = "stuck"]
          /\ UNCHANGED <<Steady, status, orphan, key, staged, appState>>
       \/ /\ job' = [job EXCEPT ![r][x][u] = "failed"]
          /\ Load(r, x, u, "torn")
          /\ UNCHANGED orphan
\* Another run's Job under the name, seen once the restore comes to it.
ForeignJob(r, x, u) ==
    /\ "foreign" \in Faults /\ job[r][x][u] = "none"
    /\ Running(r) /\ status[r].started /\ nextPendingApp(r) = x
    /\ job' = [job EXCEPT ![r][x][u] = "foreign"]
    /\ UNCHANGED <<Steady, status, orphan, key, staged, appState>>
OrphanEnds(r, x, u) ==
    /\ <<r, x, u>> \in orphan
    /\ orphan' = orphan \ {<<r, x, u>>}
    /\ Load(r, x, u, Bundle[r]) \/ UNCHANGED <<Steady, status, key, staged, appState>>
    /\ UNCHANGED job

PodsUp(a) ==
    /\ pods[a] \in {"starting", "rolling"}
    /\ pods' = [pods EXCEPT ![a] = "fresh"]
    /\ UNCHANGED <<Steady, status, job, orphan, key, staged, data, vault,
                   handed, work>>

\* The app's release is upgraded to the secrets the vault holds, and its
\* workloads with it.
Handed(a) ==
    /\ handed[a] # vault[a] /\ a \in installed
    /\ handed' = [handed EXCEPT ![a] = vault[a]]
    /\ work' = [work EXCEPT ![a].replicas = Replicas[a]]
    /\ pods' = [pods EXCEPT ![a] = "starting"]
    /\ UNCHANGED <<Steady, status, job, orphan, key, staged, data, vault>>

Uninstall(a) ==
    /\ "uninstall" \in Faults /\ a \in installed
    /\ installed' = installed \ {a}
    /\ work' = [work EXCEPT ![a] = Fresh(a)]
    /\ pods' = [pods EXCEPT ![a] = "fresh"]
    /\ UNCHANGED <<obj, finalizer, status, job, orphan, key, staged, bundles,
                   data, vault, handed, exporting>>

\* While a restore is yet to be made; TenantRuns has exports at any time.
ExportStarts ==
    /\ "export" \in Faults /\ ~exporting
    /\ \E r \in Restores : obj[r] = "absent"
    /\ exporting' = TRUE
    /\ UNCHANGED <<obj, finalizer, status, job, orphan, key, staged, bundles,
                   appState, installed>>
ExportEnds ==
    /\ exporting /\ exporting' = FALSE
    /\ UNCHANGED <<obj, finalizer, status, job, orphan, key, staged, bundles,
                   appState, installed>>

----------------------------------------------------------------------------

Init ==
    /\ obj = [r \in Restores |-> "absent"]
    /\ finalizer = {}
    /\ status = [r \in Restores |-> NewStatus]
    /\ job = [r \in Restores |-> [x \in Slots |-> [u \in Units |-> "none"]]]
    /\ orphan = {}
    /\ key = [r \in Restores |-> "none"]
    /\ staged = {}
    /\ bundles = Bundles
    /\ data = [x \in Slots |-> [u \in Units |-> "old"]]
    /\ vault = [a \in Apps |-> "old"]
    /\ handed = [a \in Apps |-> "old"]
    /\ work = [a \in Apps |-> Fresh(a)]
    /\ pods = [a \in Apps |-> "fresh"]
    /\ installed = FirstApps
    /\ exporting = FALSE
    /\ Edge!HoldInit

\* One pass over one restore, up to its next write of the status.
Reconcile(r, ok) ==
    \/ ResumeEnded(r, ok)
    \/ FailPreflight(r, ok)
    \/ Busy(r, ok)
    \/ FailUnusable(r, ok)
    \/ Plan(r, ok)
    \/ resumeStale(r, ok)
    \/ \E a \in Apps : \/ holdBack(r, a, ok)
                       \/ PlanSecrets(r, a, ok)
                       \/ ApplySecrets(r, a, ok)
                       \/ AwaitSecrets(r, a, ok)
                       \/ PauseApp(r, a, ok)
                       \/ RestoreWaits(r, a, ok)
                       \/ ResumeForCommands(r, a, ok)
                       \/ PodTimeout(r, a, ok)
                       \/ Commands(r, a, ok)
                       \/ awaitRollout(r, a, ok)
                       \/ RestoreRetained(r, a, ok)
    \/ RestoreTenantWide(r, ok)
    \/ Finish(r, ok)
    \/ FinalizeResume(r, ok)
ReconcileQuietly(r) == AddFinalizer(r) \/ TidyEnded(r) \/ Finalize(r)

JobEnds(r, x, u) ==
    JobCompletes(r, x, u) \/ JobFails(r, x, u)

Environment ==
    \/ \E r \in Restores : CreateRestore(r) \/ OwnKey(r) \/ DeleteRestore(r)
    \/ \E r \in Restores, x \in Slots, u \in Units :
          JobEnds(r, x, u) \/ ForeignJob(r, x, u) \/ OrphanEnds(r, x, u)
    \/ \E a \in Apps : PodsUp(a) \/ Handed(a) \/ Uninstall(a)
    \/ ExportStarts \/ ExportEnds

\* What a step that is not the component reconciler's means for the edge.
Watched(A) == A /\ Edge!restoreHoldChanged /\ UNCHANGED <<route, pass>>
NotEdge == <<obj, finalizer, status, job, orphan, key, staged, bundles, data,
             vault, handed, work, pods, installed, exporting>>

RestoreNext ==
    \/ \E r \in Restores, ok \in Writes : Reconcile(r, ok)
    \/ \E r \in Restores : ReconcileQuietly(r)
    \/ Environment
EdgeNext ==
    \E a \in Apps : \/ Edge!ComponentPass(a)
                    \/ "wake" \in Faults /\ Edge!OtherEvent(a)

Next ==
    \/ Watched(RestoreNext)
    \/ EdgeNext /\ UNCHANGED NotEdge

Spec == Init /\ [][Next]_vars

\* A restore stays in the work queue until a pass over it changes nothing, as
\* does a component; Jobs, rollouts and exports end; the tenant reconciler hands an
\* app what the vault holds.  A write that is lost is retried, and is not lost
\* for ever.
FairSpec ==
    /\ Spec
    /\ \A r \in Restores :
        /\ WF_vars(Watched(\E ok \in Writes : Reconcile(r, ok)))
        /\ WF_vars(Watched(ReconcileQuietly(r)))
        /\ WF_vars(Watched(OwnKey(r)))
        /\ \A x \in Slots, u \in Units : WF_vars(Watched(JobEnds(r, x, u)))
    /\ \A a \in Apps :
        /\ WF_vars(Watched(PodsUp(a)))
        /\ WF_vars(Watched(Handed(a)))
        /\ WF_vars(Edge!ComponentPass(a) /\ UNCHANGED NotEdge)
    /\ WF_vars(Watched(ExportEnds))

----------------------------------------------------------------------------
(* Properties. *)

Entries ==
    [phase : Phases, retained : BOOLEAN,
     secrets : {"", "planned", "applied", "delivered"}, replaced : BOOLEAN,
     started : BOOLEAN, ended : BOOLEAN, mode : Modes \cup {""},
     rollout : BOOLEAN, attempts : Nat, done : SUBSET Units]
Statuses ==
    [phase : Phases \cup {""}, started : BOOLEAN, plan : SUBSET Apps,
     omitted : SUBSET Apps, heldBack : SUBSET Apps, quiesced : SUBSET Apps,
     complete : BOOLEAN, entry : [Slots -> Entries]]
WorkTypes == [replicas : Nat, memo : Nat \cup {NoMemo}, maint : BOOLEAN]

\* Every variable has its type: the shape of TenantRestoreStatus, of the Jobs,
\* of the stores and of the workloads.
TypeOK ==
    /\ obj \in [Restores -> {"absent", "live", "deleting", "gone"}]
    /\ finalizer \subseteq Restores
    /\ status \in [Restores -> Statuses]
    /\ job \in [Restores -> [Slots -> [Units -> JobStates]]]
    /\ orphan \subseteq Restores \X Slots \X Units
    /\ key \in [Restores -> {"none", "loose", "owned", "gone"}]
    /\ staged \subseteq Restores
    /\ bundles \subseteq Bundles
    /\ data \in [Slots -> [Units -> Contents]]
    /\ vault \in [Apps -> Bundles \cup {"old"}]
    /\ handed \in [Apps -> Bundles \cup {"old"}]
    /\ work \in [Apps -> WorkTypes]
    /\ pods \in [Apps -> PodStates]
    /\ installed \subseteq Apps
    /\ exporting \in BOOLEAN
    /\ route \in [Apps -> Edge!RouteStates]
    /\ pass \in [Apps -> Edge!Passes]
    /\ queue \subseteq Apps

Up(a) == work[a].replicas > 0 /\ ~work[a].maint

\* tenantBusy lets one restore at a time past its plan: two of them would load
\* the same stores, and each would resume what the other paused.
OneRestoreAtATime ==
    \A r, q \in Restores :
        /\ obj[r] = "live" /\ status[r].phase = "Running"
        /\ obj[q] = "live" /\ status[q].phase = "Running"
        => r = q

\* No unit of restoreApp loads an app that can write.
LoadUnderPause ==
    \A r \in Restores, a \in installed, u \in Units :
        /\ job[r][a][u] = "running" /\ Running(r) /\ ~Entry(r, a).retained
        /\ QuiesceMode[a] # "none"
        => Frozen(work[a])

\* From before the restore touches an app until the restore has ended, every
\* route of the app answers 503.
Touched(r, a) ==
    Entry(r, a).secrets \in {"applied", "delivered"} \/ Entry(r, a).started
HeldWhileTouched ==
    \A r \in Restores, a \in Apps :
        Running(r) /\ Touched(r, a) => route[a] # "open"

\* An app is paused for loading only once it runs with the secrets its data
\* was written with: handing them over later would start it again under the
\* Jobs.
SecretsBeforeData ==
    \A r \in Restores, a \in WithSecrets \cap installed :
        /\ Running(r) /\ Entry(r, a).started
        /\ ~Entry(r, a).retained
        => handed[a] = Bundle[r]

\* An app whose entry says Ready is up, out of maintenance and served by pods
\* started on what was put back.
ReadyServesRestored ==
    \A r \in Restores, a \in installed :
        Running(r) /\ Entry(r, a).phase = "Ready" =>
            Up(a) /\ pods[a] # "stale"

\* "Ready means everything the restore named was put back": the stores of the
\* apps it planned and of the tenant hold what the bundle held.
ReadyIsRestored ==
    \A r \in Restores :
        (/\ obj[r] = "live" /\ status[r].phase = "Ready"
         /\ \A q \in Restores : Older(r, q) => ~status[q].started)
        => \A x \in status[r].plan \cup {TenantWide}, u \in Units :
               data[x][u] = Bundle[r]

\* Bounded attempts and timeouts let every restore end, the waiting ones too.
EveryRestoreEnds ==
    \A r \in Restores :
        obj[r] = "live" ~> obj[r] # "live" \/ IsTerminal(status[r])

\* An app a restore paused runs again.
AppsComeBack == \A a \in Apps : ~Up(a) ~> Up(a)

\* An app held at the edge is let through again, whether its restore ended,
\* failed or was deleted.
RoutesReleased == \A a \in Apps : route[a] = "held" ~> route[a] # "held"

\* A key made for a restore does not outlive it in the cluster, even when the
\* restore became the Secret's controller only after it had ended.
KeyDiscarded ==
    \A r \in WithKey :
        IsTerminal(status[r])
            ~> (r \notin staged /\ key[r] = "gone") \/ obj[r] # "live"

=============================================================================
