---------------------------- MODULE TenantExport ----------------------------
(***************************************************************************)
(* The TenantExport controller: one app at a time is paused, captured by   *)
(* Jobs into a bundle and resumed; then what is the tenant's own; the      *)
(* manifest last.                                                          *)
(*                                                                         *)
(* One action is one pass of Reconcile, or the part of one between two     *)
(* writes of the status: at such a write the in-memory export and the      *)
(* stored one agree, so a pass that stops there and one that goes on are   *)
(* the same.  Every pass that writes the status takes `ok': FALSE is the   *)
(* write that did not land (the operator stopped, or the API server        *)
(* answered Conflict) after the side effects before it did.                *)
(***************************************************************************)
EXTENDS AppPause, FiniteSets

CONSTANTS
    Exports,            \* names of TenantExport objects of one tenant
    Units,              \* artefacts of one app, and of the tenant itself
    TenantWide,         \* backupTenantComponent, "gentian-tenant"
    Manifest,           \* the unit that writes manifest.json
    Stamp,              \* [Exports -> Nat] creationTimestamp, whole seconds
    NameRank,           \* [Exports -> Nat] order of the exports' names
    AppRank,            \* [Apps -> Nat] order of the apps' names
    ClaimOnly,          \* apps with an App claim and not in Tenant.spec.apps
    Requested,          \* [Exports -> SUBSET Apps] spec.apps, {} for all
    NeedsSource,        \* exports protected by a requester's own Secret
    FirstApps,          \* apps installed at the start
    exportMaxAttempts   \* 2 in the code

Phases == {"Pending", "Running", "Ready", "Failed"}
JobStates == {"none", "running", "complete", "failed", "stuck", "foreign"}
FaultKinds ==
    {"lost", "hook", "lateHook", "resumeHook", "pause", "enumerate",
     "destination", "secrets", "rights", "source", "tidy", "cleanup",
     "foreign", "install", "uninstall", "delete", "teardown", "orphan", "ttl"}

Slots == Apps \cup {TenantWide}
AllUnits == Units \cup {Manifest}
NoApp == TenantWide

ASSUME OrderAssumption ==
    /\ Stamp \in [Exports -> Nat]
    /\ NameRank \in [Exports -> Nat]
    /\ \A e, f \in Exports : NameRank[e] = NameRank[f] => e = f
    /\ AppRank \in [Apps -> Nat]
    /\ \A a, b \in Apps : AppRank[a] = AppRank[b] => a = b

ASSUME ConfigAssumption ==
    /\ TenantWide \notin Apps
    /\ Manifest \notin Units
    /\ IsFiniteSet(Units)
    /\ Requested \in [Exports -> SUBSET Apps]
    /\ QuiesceMode \in [Apps -> Modes]
    /\ Replicas \in [Apps -> Nat \ {0}]
    /\ NeedsSource \subseteq Exports
    /\ FirstApps \subseteq Apps
    /\ ClaimOnly \subseteq Apps
    /\ exportMaxAttempts \in Nat
    /\ Faults \subseteq FaultKinds

VARIABLES
    obj,        \* where each TenantExport object is in its life
    finalizer,  \* exports that hold exportFinalizer
    status,     \* the stored status of each export
    job,        \* the Jobs of each export, by slot and unit
    orphan,     \* uploads whose Job was deleted while their pod ran
    cleanup,    \* the bundle-cleanup Job of each export
    source,     \* exports whose requester's Secret is in the namespace
    staged,     \* exports with Secrets staged beside their Jobs
    store,      \* what the object store holds of each bundle
    listed,     \* the apps whose artefacts each bundle's manifest lists
    work,       \* the workloads of each app
    installed,  \* apps installed now
    retained,   \* apps uninstalled with their data kept
    tenant      \* the Tenant and its namespace

vars == <<obj, finalizer, status, job, orphan, cleanup, source, staged,
          store, listed, work, installed, retained, tenant>>

----------------------------------------------------------------------------
(* The workloads of an app. *)

Up(a) == work[a].replicas = Replicas[a] /\ ~work[a].maint

----------------------------------------------------------------------------
(* The status of an export. *)

NewEntry ==
    [phase |-> "Pending", started |-> FALSE, ended |-> FALSE, mode |-> "",
     retained |-> FALSE, attempts |-> 0, done |-> {}]
NewStatus ==
    [phase |-> "", bundle |-> FALSE, quiesced |-> {},
     entry |-> [x \in Slots |-> NewEntry]]

\* The status s with the entry of slot x replaced, and with a phase.
setEntry(s, x, n) == [s EXCEPT !.entry = [@ EXCEPT ![x] = n]]
setPhase(s, ph) == [s EXCEPT !.phase = ph]
markQuiesced(s, a) == [s EXCEPT !.quiesced = @ \cup {a}]
unmarkQuiesced(s, Q) == [s EXCEPT !.quiesced = @ \ Q]

IsTerminal(s) == s.phase \in {"Ready", "Failed"}
Exists(e) == obj[e] \in {"live", "deleting"}

Asked(e, a) == Requested[e] = {} \/ a \in Requested[e]
exportAppSet(e) == {a \in installed : Asked(e, a)}
\* Wrong: what the export began and the tenant no longer holds drops out.
retainedNow(e) == {a \in retained : Asked(e, a)}
retainedSet(e) ==
    {a \in retained : Asked(e, a)}
        \cup {a \in Apps : status[e].entry[a].retained}

First(S) == CHOOSE a \in S : \A b \in S : AppRank[a] <= AppRank[b]
nextPendingApp(e) ==
    LET pending(S) == {a \in S : status[e].entry[a].phase # "Ready"}
    IN  IF pending(exportAppSet(e)) # {} THEN First(pending(exportAppSet(e)))
        ELSE IF pending(retainedSet(e)) # {} THEN First(pending(retainedSet(e)))
        ELSE NoApp

Older(f, e) ==
    \/ Stamp[f] < Stamp[e]
    \/ Stamp[f] = Stamp[e] /\ NameRank[f] < NameRank[e]
\* Wrong: an export on its way out does not count.
blockedByALiveExport(e) ==
    \E f \in Exports :
        f # e /\ obj[f] = "live" /\ ~IsTerminal(status[f]) /\ Older(f, e)
blockedByAnotherExport(e) ==
    \E f \in Exports :
        f # e /\ Exists(f) /\ ~IsTerminal(status[f]) /\ Older(f, e)

Writes == IF "lost" \in Faults THEN BOOLEAN ELSE {TRUE}
persist(e, s, ok) == status' = IF ok THEN [status EXCEPT ![e] = s] ELSE status

----------------------------------------------------------------------------
(* Capture Jobs. *)

\* Wrong: a pod that does not start is not counted; a Job that is there is
\* taken for one that is done.
FailedOnly(en, j, U) == {u \in U \ en.done : j[u] \in {"failed", "foreign"}}
ensureByExistence(en, j, U) ==
    [en EXCEPT !.done = @ \cup {u \in U : j[u] \in {"complete", "running"}}]

\* What one pass of ensureCaptureJob over units U does to the slot's entry
\* and to its Jobs.  The record in done decides before the Job is looked at.
Unsuccessful(en, j, U) ==
    {u \in U \ en.done : j[u] \in {"failed", "stuck", "foreign"}}
ensureEntry(en, j, U) ==
    [en EXCEPT !.done = @ \cup {u \in U : j[u] = "complete"},
               !.attempts = @ + Cardinality(Unsuccessful(en, j, U))]
ensureJobs(en, j, U) ==
    [u \in AllUnits |->
        CASE u \in U \ en.done /\ j[u] = "none" -> "running"
          [] u \in U \ en.done /\ j[u] \in {"failed", "stuck"} -> "none"
          [] OTHER -> j[u]]

\* The Jobs of a run that have not ended, and those the deletion of a running
\* Job leaves: a pod on its way out may still finish what it uploads.
\* (Wrong: only a Job that succeeded has ended.)
Succeeded == {"complete"}
Ended == {"complete", "failed"}
RunningOf(js) == {p \in Slots \X AllUnits : js[p[1]][p[2]] = "running"}
stopRunningExportJobs(js) ==
    [x \in Slots |-> [u \in AllUnits |->
        IF js[x][u] \in {"running", "stuck"} THEN "none" ELSE js[x][u]]]
\* Wrong: the capture Jobs of a deleted export go on.
deleteNoJobs(js) == js
deleteExportJobs(js) ==
    [x \in Slots |-> [u \in AllUnits |->
        IF js[x][u] = "foreign" THEN "foreign" ELSE "none"]]
Orphaned(e, js) ==
    IF "orphan" \in Faults THEN orphan[e] \cup RunningOf(js) ELSE orphan[e]

----------------------------------------------------------------------------
(* Secrets: a requester's own, and the copies beside the Jobs. *)

stagePassphrase(e) == staged' = staged \cup ({e} \cap NeedsSource)
stageFor(e) == staged' = staged \cup {e}
\* The requester's original goes with the copies.
discardPassphrase(e) == source' = source \ {e} /\ staged' = staged \ {e}

----------------------------------------------------------------------------
(* How a pass ends an export. *)

\* Tidying up on the way out is best effort; it is tried again on every pass
\* over the ended export.
fail(e, s, js, ok) ==
    /\ \/ /\ job' = [job EXCEPT ![e] = stopRunningExportJobs(js)]
          /\ orphan' = [orphan EXCEPT ![e] = Orphaned(e, js)]
       \/ /\ "tidy" \in Faults
          /\ job' = [job EXCEPT ![e] = js]
          /\ UNCHANGED orphan
    /\ \/ discardPassphrase(e)
       \/ "tidy" \in Faults /\ UNCHANGED <<source, staged>>
    /\ persist(e, setPhase(s, "Failed"), ok)

\* failApp resumes the app before it records the failure.
failApp(e, a, s, js, ok) ==
    /\ \E hook \in PostHook(work[a]) :
           work' = [work EXCEPT ![a] = unquiesceApp(@, s.entry[a].mode, hook)]
    /\ fail(e, setEntry(unmarkQuiesced(s, {a}), a,
                        [s.entry[a] EXCEPT !.ended = s.entry[a].started,
                                           !.phase = "Failed"]), js, ok)

----------------------------------------------------------------------------
(* Passes over an export that is not being deleted. *)

\* The first pass puts the finalizer on, before anything is paused.
AddFinalizer(e) ==
    /\ obj[e] = "live" /\ e \notin finalizer
    /\ finalizer' = finalizer \cup {e}
    /\ UNCHANGED <<obj, status, job, orphan, cleanup, source, staged, store,
                   listed, work, installed, retained, tenant>>

\* Wrong: the record of what is paused is dropped before it is acted on.
forgetAll(e, ok) ==
    /\ status[e].quiesced # {}
    /\ persist(e, unmarkQuiesced(status[e], status[e].quiesced), ok)
    /\ UNCHANGED work

\* resumeAll: every app the status says is paused, then one write.
resumeAll(e, ok) ==
    /\ status[e].quiesced # {}
    /\ \E hook \in [status[e].quiesced -> {"ok", "error"}] :
        /\ \A a \in status[e].quiesced : hook[a] \in PostHook(work[a])
        /\ work' = [a \in Apps |->
               IF a \in status[e].quiesced
               THEN unquiesceApp(work[a], status[e].entry[a].mode, hook[a])
               ELSE work[a]]
    /\ persist(e, unmarkQuiesced(status[e], status[e].quiesced), ok)

ResumeEnded(e, ok) ==
    /\ obj[e] = "live" /\ e \in finalizer /\ IsTerminal(status[e])
    /\ resumeAll(e, ok)
    /\ UNCHANGED <<obj, finalizer, job, orphan, cleanup, source, staged,
                   store, listed, installed, retained, tenant>>

\* Wrong: an ended export is left to what fail did, or did not.
TidyNothing(e) ==
    /\ obj[e] = "live" /\ e \in finalizer /\ IsTerminal(status[e])
    /\ status[e].quiesced = {}
    /\ UNCHANGED vars

\* The rest of a pass over an ended export; nothing to write.
TidyEnded(e) ==
    /\ obj[e] = "live" /\ e \in finalizer /\ IsTerminal(status[e])
    /\ status[e].quiesced = {}
    /\ job' = [job EXCEPT ![e] = stopRunningExportJobs(@)]
    /\ orphan' = [orphan EXCEPT ![e] = Orphaned(e, job[e])]
    /\ discardPassphrase(e)
    /\ UNCHANGED <<obj, finalizer, status, cleanup, store, listed, work,
                   installed, retained, tenant>>

\* Wrong: an ended export is worked on like any other.
RunningOrEnded(e) == obj[e] = "live" /\ e \in finalizer
Running(e) == obj[e] = "live" /\ e \in finalizer /\ ~IsTerminal(status[e])

FailNoTenant(e, ok) ==
    /\ Running(e) /\ tenant = "gone"
    /\ fail(e, status[e], job[e], ok)
    /\ UNCHANGED <<obj, finalizer, cleanup, store, listed, work, installed,
                   retained, tenant>>

Busy(e, ok) ==
    /\ Running(e) /\ tenant # "gone" /\ blockedByAnotherExport(e)
    /\ persist(e, setPhase(status[e], "Pending"), ok)
    /\ UNCHANGED <<obj, finalizer, job, orphan, cleanup, source, staged,
                   store, listed, work, installed, retained, tenant>>

Holds(e) == Running(e) /\ tenant # "gone" /\ ~blockedByAnotherExport(e)

\* The destination is resolved once, when the bundle is assigned.
AssignBundle(e, ok) ==
    /\ Holds(e) /\ ~status[e].bundle
    /\ \/ /\ persist(e, [status[e] EXCEPT !.bundle = TRUE,
                                          !.phase = "Running"], ok)
          /\ UNCHANGED <<job, orphan, source, staged>>
       \/ "destination" \in Faults /\ fail(e, status[e], job[e], ok)
    /\ UNCHANGED <<obj, finalizer, cleanup, store, listed, work, installed,
                   retained, tenant>>

\* resolveEncryption and stageDestinationCredential read the requester's
\* Secret on every pass and fail the export where it is not to be had.
SecretAtHand(e) == e \in NeedsSource => e \in source
FailNoSecret(e, ok) ==
    /\ Holds(e) /\ status[e].bundle /\ ~SecretAtHand(e)
    /\ fail(e, status[e], job[e], ok)
    /\ UNCHANGED <<obj, finalizer, cleanup, store, listed, work, installed,
                   retained, tenant>>

\* What is left of a pass past the encryption: the app it is at, and the
\* apps still marked paused that are not that one.
\* (Wrong: the app being captured is resumed with the others.)
StaleOrCurrent(e) == status[e].quiesced
Captures(e) == Holds(e) /\ status[e].bundle /\ SecretAtHand(e)
Stale(e) == status[e].quiesced \ {nextPendingApp(e)}

resumeStale(e, ok) ==
    /\ Captures(e) /\ Stale(e) # {}
    /\ \E hook \in [Stale(e) -> {"ok", "error"}] :
        /\ \A a \in Stale(e) : hook[a] \in PostHook(work[a])
        /\ work' = [a \in Apps |->
               IF a \in Stale(e)
               THEN unquiesceApp(work[a], status[e].entry[a].mode, hook[a])
               ELSE work[a]]
    /\ stagePassphrase(e)
    /\ persist(e, unmarkQuiesced(status[e], Stale(e)), ok)
    /\ UNCHANGED <<obj, finalizer, job, orphan, cleanup, source, store,
                   listed, installed, retained, tenant>>

At(e, a) == Captures(e) /\ Stale(e) = {} /\ nextPendingApp(e) = a

\* resolveProfile goes by Tenant.spec.apps; where it answers an error the pass
\* returns it, with nothing done.
AtInstalled(e, a) ==
    At(e, a) /\ a \in Apps \ (retainedSet(e) \cup ClaimOnly)

\* captureApp, first half: the app is paused, and then the pause recorded.
PauseApp(e, a, ok) ==
    /\ AtInstalled(e, a)
    /\ ~status[e].entry[a].started
    /\ \/ /\ \E hook \in PreHook(work[a]) :
              /\ work' = [work EXCEPT ![a] = quiesceApp(a, @, hook)]
              /\ persist(e, setEntry(markQuiesced(status[e], a), a,
                     [status[e].entry[a] EXCEPT
                         !.started = TRUE,
                         !.mode = quiesceMode(a, hook),
                         !.phase = "Running"]), ok)
          /\ stagePassphrase(e)
          /\ UNCHANGED <<job, orphan, source>>
       \/ /\ "pause" \in Faults /\ QuiesceMode[a] # "none"
          /\ failApp(e, a, status[e], job[e], ok)
    /\ UNCHANGED <<obj, finalizer, cleanup, store, listed, installed,
                   retained, tenant>>

\* captureApp, second half, while a unit is outstanding: wait, or give up.
CaptureWaits(e, a, ok) ==
    LET en == ensureEntry(status[e].entry[a], job[e][a], Units)
        js == [job[e] EXCEPT ![a] =
                  ensureJobs(status[e].entry[a], @, Units)]
        s  == setEntry(status[e], a, en)
    IN  /\ AtInstalled(e, a)
        /\ status[e].entry[a].started
        /\ ~(Units \subseteq en.done)
        /\ IF en.attempts > exportMaxAttempts
           THEN failApp(e, a, s, js, ok)
           ELSE /\ job' = [job EXCEPT ![e] = js]
                /\ stageFor(e)
                /\ persist(e, s, ok)
                /\ UNCHANGED <<orphan, source, work>>
        /\ UNCHANGED <<obj, finalizer, cleanup, store, listed, installed,
                       retained, tenant>>

\* The units cannot be enumerated, or the credentials not be staged.
CaptureCannot(e, a, ok) ==
    /\ AtInstalled(e, a)
    /\ status[e].entry[a].started /\ "enumerate" \in Faults
    /\ failApp(e, a, status[e], job[e], ok)
    /\ UNCHANGED <<obj, finalizer, cleanup, store, listed, installed,
                   retained, tenant>>

\* captureApp, every unit done: the app is resumed, and its secrets and its
\* authorization store are put into the bundle; a failure of those is counted
\* and the pass comes back, with the app running and still marked paused.
CaptureDone(e, a, ok) ==
    LET en  == ensureEntry(status[e].entry[a], job[e][a], Units)
        up  == [en EXCEPT !.ended = TRUE, !.phase = "Ready"]
        bad == [en EXCEPT !.ended = TRUE, !.phase = "Running",
                          !.attempts = @ + 1]
    IN  /\ AtInstalled(e, a)
        /\ status[e].entry[a].started
        /\ Units \subseteq en.done
        /\ \/ /\ \E hook \in PostHook(work[a]) : work' =
                     [work EXCEPT ![a] = unquiesceApp(@, en.mode, hook)]
              /\ \/ persist(e, setEntry(unmarkQuiesced(status[e], {a}), a, up), ok)
                 \/ /\ "secrets" \in Faults
                    /\ bad.attempts <= exportMaxAttempts
                    /\ persist(e, setEntry(status[e], a, bad), ok)
              /\ stageFor(e)
              /\ UNCHANGED <<job, orphan, source>>
           \/ /\ "secrets" \in Faults
              /\ bad.attempts > exportMaxAttempts
              /\ failApp(e, a, setEntry(status[e], a, bad), job[e], ok)
        /\ UNCHANGED <<obj, finalizer, cleanup, store, listed, installed,
                       retained, tenant>>

\* captureRetained: an uninstalled app's data, with no pause and no resume.
CaptureRetained(e, a, ok) ==
    LET en0 == [status[e].entry[a] EXCEPT !.retained = TRUE]
        en  == [ensureEntry(en0, job[e][a], Units) EXCEPT !.phase = "Running"]
        js  == [job[e] EXCEPT ![a] = ensureJobs(en0, @, Units)]
        bad == [en EXCEPT !.attempts = @ + 1]
        failed(n, k) ==
            fail(e, setEntry(status[e], a, [n EXCEPT !.phase = "Failed"]),
                 k, ok)
        goesOn(n) == /\ job' = [job EXCEPT ![e] = js]
                     /\ stageFor(e)
                     /\ persist(e, setEntry(status[e], a, n), ok)
                     /\ UNCHANGED <<orphan, source>>
    IN  /\ At(e, a) /\ a \in retainedSet(e)
        /\ \/ /\ a \notin retained \/ "enumerate" \in Faults
              /\ failed(en0, job[e])
           \/ /\ a \in retained /\ ~(Units \subseteq en.done)
              /\ IF en.attempts > exportMaxAttempts THEN failed(en, js)
                 ELSE goesOn(en)
           \/ /\ a \in retained /\ Units \subseteq en.done
              /\ goesOn([en EXCEPT !.phase = "Ready"])
           \/ /\ a \in retained /\ Units \subseteq en.done
              /\ "secrets" \in Faults
              /\ IF bad.attempts > exportMaxAttempts THEN failed(bad, js)
                 ELSE goesOn(bad)
        /\ UNCHANGED <<obj, finalizer, cleanup, store, listed, work,
                       installed, retained, tenant>>

\* What a pass over the tenant's own captures does with the entry n and the
\* Jobs js it ends with: give up once too many have failed, or come back.
tenantWideExhausted(e, n, js, ok) ==
    IF n.attempts > exportMaxAttempts
    THEN fail(e, setEntry(status[e], TenantWide,
                          [n EXCEPT !.phase = "Failed"]), js, ok)
    ELSE /\ job' = [job EXCEPT ![e] = js]
         /\ stageFor(e)
         /\ persist(e, setEntry(status[e], TenantWide, n), ok)
         /\ UNCHANGED <<orphan, source>>

\* captureTenantWide while a unit of the tenant's own is outstanding, or
\* cannot be enumerated or staged.
CaptureTenantWide(e, ok) ==
    LET old == status[e].entry[TenantWide]
        en  == ensureEntry(old, job[e][TenantWide], Units)
        js  == [job[e] EXCEPT ![TenantWide] = ensureJobs(old, @, Units)]
    IN  /\ At(e, NoApp)
        /\ \/ ~(Units \subseteq en.done) /\ tenantWideExhausted(e, en, js, ok)
           \/ /\ "enumerate" \in Faults
              /\ tenantWideExhausted(e, [old EXCEPT !.attempts = @ + 1],
                                     job[e], ok)
        /\ UNCHANGED <<obj, finalizer, cleanup, store, listed, work,
                       installed, retained, tenant>>

\* complete: everything is captured, and the manifest is written by a Job of
\* its own.  What it lists is fixed when that Job is made: the artefacts of the
\* entries, which are recorded together with the phase Ready.
buildManifest(e) == {a \in Apps : status[e].entry[a].phase = "Ready"}
Complete(e, ok) ==
    LET tw == [ensureEntry(status[e].entry[TenantWide],
                           job[e][TenantWide], Units) EXCEPT !.phase = "Ready"]
        en == ensureEntry(tw, job[e][TenantWide], {Manifest})
        js == [job[e] EXCEPT ![TenantWide] = ensureJobs(tw, @, {Manifest})]
    IN  /\ At(e, NoApp) /\ Units \subseteq tw.done
        /\ \/ /\ "rights" \in Faults
              /\ tenantWideExhausted(e, [tw EXCEPT !.attempts = @ + 1],
                                     job[e], ok)
              /\ UNCHANGED listed
           \/ /\ Manifest \notin en.done
              /\ tenantWideExhausted(e, en, js, ok)
              /\ listed' = [listed EXCEPT ![e] =
                     IF job[e][TenantWide][Manifest] = "none"
                     THEN buildManifest(e)
                     ELSE @]
           \/ /\ Manifest \in en.done
              /\ job' = [job EXCEPT ![e] = stopRunningExportJobs(@)]
              /\ orphan' = [orphan EXCEPT ![e] = Orphaned(e, job[e])]
              /\ discardPassphrase(e)
              /\ persist(e, setPhase(setEntry(status[e], TenantWide, en),
                                     "Ready"), ok)
              /\ UNCHANGED listed
        /\ UNCHANGED <<obj, finalizer, cleanup, store, work, installed,
                       retained, tenant>>

----------------------------------------------------------------------------
(* Passes over an export that is being deleted. *)

FinalizeResume(e, ok) ==
    /\ obj[e] = "deleting" /\ e \in finalizer
    /\ resumeAll(e, ok)
    /\ UNCHANGED <<obj, finalizer, job, orphan, cleanup, source, staged,
                   store, listed, installed, retained, tenant>>

\* Wrong: only a tenant that is gone counts, not one that is going.
tenantGone == tenant = "gone"
\* tenantTeardown: a bundle outlives the tenant it is of.
tenantTeardown == tenant # "present"

\* The rest of finalize.  The staged Secrets and the capture Jobs go first,
\* and the finalizer when the bundle stays, never was, or has been cleaned up.
ensureBundleDeleted(c) == IF c \in Ended THEN "none" ELSE "running"
Finalize(e) ==
    LET kept == tenantTeardown \/ ~status[e].bundle
        released == kept \/ cleanup[e] \in Ended
    IN  /\ obj[e] = "deleting" /\ e \in finalizer /\ status[e].quiesced = {}
        /\ \/ discardPassphrase(e)
           \/ "tidy" \in Faults /\ UNCHANGED <<source, staged>>
        /\ job' = [job EXCEPT ![e] = deleteExportJobs(@)]
        /\ orphan' = [orphan EXCEPT ![e] = Orphaned(e, job[e])]
        /\ cleanup' = [cleanup EXCEPT ![e] =
               IF kept THEN @ ELSE ensureBundleDeleted(@)]
        /\ finalizer' = IF released THEN finalizer \ {e} ELSE finalizer
        /\ obj' = IF released THEN [obj EXCEPT ![e] = "gone"] ELSE obj
        /\ UNCHANGED <<status, store, listed, work, installed, retained,
                       tenant>>

----------------------------------------------------------------------------
(* The world around the controller. *)

Others == <<finalizer, status, cleanup, source, staged, listed, work,
            installed, retained, tenant>>

\* Creation stamps never go back; two exports of one second may be made in
\* either order of their names.
CreateExport(e) ==
    /\ obj[e] = "absent"
    /\ \A f \in Exports : obj[f] # "absent" => Stamp[f] <= Stamp[e]
    /\ obj' = [obj EXCEPT ![e] = "live"]
    /\ source' = source \cup ({e} \cap NeedsSource)
    /\ UNCHANGED <<finalizer, status, job, orphan, cleanup, staged, store,
                   listed, work, installed, retained, tenant>>

\* By its administrator, or with the namespace.
DeleteExport(e) ==
    /\ obj[e] = "live"
    /\ "delete" \in Faults \/ tenant = "terminating"
    /\ obj' = [obj EXCEPT ![e] = IF e \in finalizer THEN "deleting" ELSE "gone"]
    /\ UNCHANGED <<finalizer, status, job, orphan, cleanup, source, staged,
                   store, listed, work, installed, retained, tenant>>

Upload(e, x, u) == store' = [store EXCEPT ![e] = @ \cup {<<x, u>>}]

JobCompletes(e, x, u) ==
    /\ job[e][x][u] = "running"
    /\ job' = [job EXCEPT ![e][x][u] = "complete"]
    /\ Upload(e, x, u)
    /\ UNCHANGED <<obj, orphan, Others>>
JobFails(e, x, u) ==
    /\ job[e][x][u] = "running"
    /\ \E how \in {"failed", "stuck"} : job' = [job EXCEPT ![e][x][u] = how]
    /\ UNCHANGED <<obj, orphan, store, Others>>
JobCollected(e, x, u) ==
    /\ "ttl" \in Faults /\ job[e][x][u] \in Ended
    /\ job' = [job EXCEPT ![e][x][u] = "none"]
    /\ UNCHANGED <<obj, orphan, store, Others>>
ForeignJob(e, x, u) ==
    /\ "foreign" \in Faults /\ obj[e] = "live" /\ job[e][x][u] = "none"
    /\ u = Manifest => x = TenantWide
    /\ job' = [job EXCEPT ![e][x][u] = "foreign"]
    /\ UNCHANGED <<obj, orphan, store, Others>>
OrphanEnds(e, x, u) ==
    /\ <<x, u>> \in orphan[e]
    /\ orphan' = [orphan EXCEPT ![e] = @ \ {<<x, u>>}]
    /\ Upload(e, x, u) \/ UNCHANGED store
    /\ UNCHANGED <<obj, job, Others>>
CleanupEnds(e) ==
    /\ cleanup[e] = "running"
    /\ \/ /\ cleanup' = [cleanup EXCEPT ![e] = "complete"]
          /\ store' = [store EXCEPT ![e] = {}]
       \/ /\ "cleanup" \in Faults
          /\ cleanup' = [cleanup EXCEPT ![e] = "failed"]
          /\ UNCHANGED store
    /\ UNCHANGED <<obj, finalizer, status, job, orphan, source, staged,
                   listed, work, installed, retained, tenant>>

SourceLost(e) ==
    /\ "source" \in Faults /\ e \in source
    /\ source' = source \ {e}
    /\ UNCHANGED <<obj, finalizer, status, job, orphan, cleanup, staged,
                   store, listed, work, installed, retained, tenant>>

\* An app comes, goes with its data kept, and has that data purged.
AppChanges(a) ==
    /\ \/ /\ "install" \in Faults /\ a \notin installed
          /\ installed' = installed \cup {a}
          /\ retained' = retained \ {a}
       \/ /\ "uninstall" \in Faults /\ a \in installed
          /\ installed' = installed \ {a}
          /\ retained' = retained \cup {a}
       \/ /\ "uninstall" \in Faults /\ a \in retained
          /\ retained' = retained \ {a}
          /\ UNCHANGED installed
    /\ work' = [work EXCEPT ![a] = Fresh(a)]
    /\ UNCHANGED <<obj, finalizer, status, job, orphan, cleanup, source,
                   staged, store, listed, tenant>>

TearDown ==
    /\ "teardown" \in Faults /\ tenant = "present"
    /\ tenant' = "terminating"
    /\ UNCHANGED <<obj, finalizer, status, job, orphan, cleanup, source,
                   staged, store, listed, work, installed, retained>>

----------------------------------------------------------------------------

Init ==
    /\ obj = [e \in Exports |-> "absent"]
    /\ finalizer = {}
    /\ status = [e \in Exports |-> NewStatus]
    /\ job = [e \in Exports |-> [x \in Slots |-> [u \in AllUnits |-> "none"]]]
    /\ orphan = [e \in Exports |-> {}]
    /\ cleanup = [e \in Exports |-> "none"]
    /\ source = {}
    /\ staged = {}
    /\ store = [e \in Exports |-> {}]
    /\ listed = [e \in Exports |-> {}]
    /\ work = [a \in Apps |-> Fresh(a)]
    /\ installed = FirstApps
    /\ retained = {}
    \* an export may be made in a namespace that has no Tenant
    /\ tenant \in IF "teardown" \in Faults THEN {"present", "gone"}
                  ELSE {"present"}

\* One pass over one export, up to its next write of the status.
Reconcile(e, ok) ==
    \/ ResumeEnded(e, ok)
    \/ FailNoTenant(e, ok)
    \/ Busy(e, ok)
    \/ AssignBundle(e, ok)
    \/ FailNoSecret(e, ok)
    \/ resumeStale(e, ok)
    \/ \E a \in Apps : \/ PauseApp(e, a, ok)
                       \/ CaptureWaits(e, a, ok)
                       \/ CaptureCannot(e, a, ok)
                       \/ CaptureDone(e, a, ok)
                       \/ CaptureRetained(e, a, ok)
    \/ CaptureTenantWide(e, ok)
    \/ Complete(e, ok)
    \/ FinalizeResume(e, ok)

\* Passes that end with no status to write.
ReconcileQuietly(e) == AddFinalizer(e) \/ TidyEnded(e) \/ Finalize(e)

Environment ==
    \/ \E e \in Exports : \/ CreateExport(e)
                          \/ DeleteExport(e)
                          \/ SourceLost(e)
                          \/ CleanupEnds(e)
    \/ \E e \in Exports, x \in Slots, u \in AllUnits :
          \/ JobCompletes(e, x, u)
          \/ JobFails(e, x, u)
          \/ JobCollected(e, x, u)
          \/ ForeignJob(e, x, u)
          \/ OrphanEnds(e, x, u)
    \/ \E a \in Apps : AppChanges(a)
    \/ TearDown

Next ==
    \/ \E e \in Exports, ok \in Writes : Reconcile(e, ok)
    \/ \E e \in Exports : ReconcileQuietly(e)
    \/ Environment

Spec == Init /\ [][Next]_vars

\* Every export is in the work queue until a pass over it changes nothing:
\* each pass that waits asks to be called again, and one that errs is retried.
\* Jobs end: a pod that does not start has a deadline, one that fails a backoff
\* limit; that a container which started comes to an end is assumed of it
\* (newJob sets no activeDeadlineSeconds).
FairSpec ==
    /\ Spec
    /\ \A e \in Exports :
        /\ WF_vars(\E ok \in Writes : Reconcile(e, ok))
        /\ WF_vars(ReconcileQuietly(e))
        /\ WF_vars(CleanupEnds(e))
        /\ \A x \in Slots, u \in AllUnits :
               WF_vars(JobCompletes(e, x, u) \/ JobFails(e, x, u))

----------------------------------------------------------------------------
(* Properties. *)

Entries ==
    [phase : Phases, started : BOOLEAN, ended : BOOLEAN,
     mode : Modes \cup {""}, retained : BOOLEAN, attempts : Nat,
     done : SUBSET AllUnits]
Statuses ==
    [phase : Phases \cup {""}, bundle : BOOLEAN, quiesced : SUBSET Apps,
     entry : [Slots -> Entries]]
Works == [replicas : Nat, memo : Nat \cup {NoMemo}, maint : BOOLEAN]

\* Every variable has its type: the shape of TenantExportStatus, of the Jobs
\* and of the workloads.
TypeOK ==
    /\ obj \in [Exports -> {"absent", "live", "deleting", "gone"}]
    /\ finalizer \subseteq Exports
    /\ status \in [Exports -> Statuses]
    /\ job \in [Exports -> [Slots -> [AllUnits -> JobStates]]]
    /\ orphan \in [Exports -> SUBSET (Slots \X AllUnits)]
    /\ cleanup \in [Exports -> JobStates]
    /\ source \subseteq Exports
    /\ staged \subseteq Exports
    /\ store \in [Exports -> SUBSET (Slots \X AllUnits)]
    /\ listed \in [Exports -> SUBSET Apps]
    /\ work \in [Apps -> Works]
    /\ installed \subseteq Apps
    /\ retained \subseteq Apps
    /\ tenant \in {"present", "terminating", "gone"}

\* blockedByAnotherExport lets one export at a time hold the tenant: two
\* captures would pause the same app twice and race each other's resume.
Holding(e) == Exists(e) /\ status[e].bundle /\ ~IsTerminal(status[e])
OneExportAtATime ==
    \A e, f \in Exports : Holding(e) /\ Holding(f) => e = f

\* scaleOne never loses how many replicas an app had: a workload that is not
\* at its own count carries the memo of that count.
MemoSound ==
    \A a \in Apps :
        /\ work[a].memo \in {NoMemo, Replicas[a]}
        /\ work[a].memo = NoMemo => work[a].replicas = Replicas[a]

\* The promise of the pause: no Job of captureApp copies an app that can
\* write.
CaptureUnderPause ==
    \A e \in Exports, a \in installed, u \in Units :
        /\ job[e][a][u] = "running" /\ Running(e)
        /\ QuiesceMode[a] # "none"
        => Frozen(work[a])

\* An app that does not run is one an export in being says it paused, so that
\* resumeAll or resumeStale will put it back.
PausedIsRecorded ==
    \A a \in installed :
        ~Up(a) => \E e \in Exports : Exists(e) /\ a \in status[e].quiesced

\* completedUnits, which decides whether a Job is run again, never claims an
\* artefact the object store does not have.
RecordIsBacked ==
    \A e \in Exports, x \in Slots :
        Exists(e) /\ obj[e] = "live" =>
            {<<x, u>> : u \in status[e].entry[x].done} \subseteq store[e]

\* The manifest is written last: where there is one, everything it lists is
\* in the bundle, and so is what is the tenant's own.
ManifestLast ==
    \A e \in Exports :
        obj[e] = "live" /\ <<TenantWide, Manifest>> \in store[e] =>
            (listed[e] \cup {TenantWide}) \X Units \subseteq store[e]

\* "Ready means every requested app was captured and the bundle is complete":
\* the manifest of a Ready export is there and lists every app it captured.
ReadyIsComplete ==
    \A e \in Exports :
        status[e].phase = "Ready" /\ obj[e] = "live" =>
            /\ <<TenantWide, Manifest>> \in store[e]
            /\ \A a \in Apps : status[e].entry[a].phase = "Ready"
                                   => a \in listed[e]

\* retainedSet keeps what the export has begun: the data of an uninstalled
\* app destroyed while the export runs fails it, and never drops out of a
\* bundle that is then called complete.
BegunIsCaptured ==
    \A e \in Exports, a \in Apps :
        status[e].phase = "Ready" /\ status[e].entry[a].retained =>
            a \in listed[e]

\* The finalizer holds an export until its bundle is gone from the object
\* store; only the teardown of the tenant keeps bundles.
DeletedBundleIsGone ==
    \A e \in Exports :
        obj[e] = "gone" /\ status[e].bundle /\ ~tenantTeardown =>
            store[e] = {}

\* A backup outlives its tenant: the bundle of an export that nobody deleted
\* before the tenant began to go is never cleaned up.
BackupOutlivesTenant ==
    \A e \in Exports :
        [](/\ tenant = "terminating" /\ obj[e] = "live"
           /\ <<TenantWide, Manifest>> \in store[e]
           => [](<<TenantWide, Manifest>> \in store[e]))

\* An export that ended stays ended and keeps its bundle's address; the
\* address is assigned once.
EndIsFinal ==
    [][\A e \in Exports :
          /\ IsTerminal(status[e]) => status'[e].phase = status[e].phase
          /\ status[e].bundle => status'[e].bundle]_vars

\* Bounded attempts, a deadline for pods that do not start and the order of
\* the queue let every export end, the waiting ones too.
EveryExportEnds ==
    \A e \in Exports :
        obj[e] = "live" ~> obj[e] # "live" \/ IsTerminal(status[e])

\* An app that was paused runs again.
AppsComeBack == \A a \in Apps : ~Up(a) ~> Up(a)

\* A deleted export goes.
DeletionEnds == \A e \in Exports : obj[e] = "deleting" ~> obj[e] = "gone"

\* What was staged for an export that ended is discarded, however often the
\* discarding failed on the way out.
SecretsDiscarded ==
    \A e \in Exports :
        (e \in staged \cup source) /\ IsTerminal(status[e])
            ~> e \notin staged \cup source \/ obj[e] # "live"

=============================================================================
