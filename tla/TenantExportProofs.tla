------------------------- MODULE TenantExportProofs -------------------------
(***************************************************************************)
(* Theorems about TenantExport, for every set of exports, apps and units   *)
(* and whichever faults happen.                                            *)
(***************************************************************************)
EXTENDS TenantExport, FiniteSetTheorems, TLAPS

JobsOfRun == [Slots -> [AllUnits -> JobStates]]

----------------------------------------------------------------------------
(* Types of the operators the actions are built from. *)

\* Replacing one entry of a status leaves a status.
LEMMA SetEntryType ==
    ASSUME NEW s \in Statuses, NEW x \in Slots, NEW n \in Entries
    PROVE  setEntry(s, x, n) \in Statuses
BY DEF setEntry, Statuses

\* Setting the phase of a status leaves a status.
LEMMA SetPhaseType ==
    ASSUME NEW s \in Statuses, NEW ph \in Phases
    PROVE  setPhase(s, ph) \in Statuses
BY DEF setPhase, Statuses

\* Marking an app paused, and unmarking apps, leaves a status.
LEMMA QuiescedType ==
    ASSUME NEW s \in Statuses
    PROVE  /\ \A a \in Apps : markQuiesced(s, a) \in Statuses
           /\ \A Q : unmarkQuiesced(s, Q) \in Statuses
BY DEF markQuiesced, unmarkQuiesced, Statuses

\* The units of a slot that did not succeed can be counted.
LEMMA UnsuccessfulCount ==
    ASSUME NEW en, NEW j, NEW U \in SUBSET AllUnits
    PROVE  Cardinality(Unsuccessful(en, j, U)) \in Nat
<1>1. IsFiniteSet(AllUnits)
  BY ConfigAssumption, FS_AddElement DEF AllUnits
<1>2. Unsuccessful(en, j, U) \subseteq AllUnits
  BY DEF Unsuccessful
<1>3. IsFiniteSet(Unsuccessful(en, j, U))
  BY <1>1, <1>2, FS_Subset
<1> QED
  BY <1>3, FS_CardinalityType

\* A pass over the units of a slot leaves an entry.
LEMMA EnsureEntryType ==
    ASSUME NEW en \in Entries, NEW j, NEW U \in SUBSET AllUnits
    PROVE  ensureEntry(en, j, U) \in Entries
<1>1. Cardinality(Unsuccessful(en, j, U)) \in Nat
  BY UnsuccessfulCount
<1>2. en.done \cup {u \in U : j[u] = "complete"} \in SUBSET AllUnits
  BY DEF Entries
<1>3. en.attempts + Cardinality(Unsuccessful(en, j, U)) \in Nat
  <2>1. en.attempts \in Nat
    BY DEF Entries
  <2>2. \A m, n \in Nat : m + n \in Nat
    OBVIOUS
  <2> QED
    BY <1>1, <2>1, <2>2
<1> QED
  BY <1>2, <1>3 DEF ensureEntry, Entries

\* ... and Jobs.
LEMMA EnsureJobsType ==
    ASSUME NEW en, NEW j \in [AllUnits -> JobStates], NEW U
    PROVE  ensureJobs(en, j, U) \in [AllUnits -> JobStates]
BY DEF ensureJobs, JobStates

\* Stopping and deleting the Jobs of a run leaves Jobs.
LEMMA StopJobsType ==
    ASSUME NEW js \in JobsOfRun
    PROVE  /\ stopRunningExportJobs(js) \in JobsOfRun
           /\ deleteExportJobs(js) \in JobsOfRun
           /\ RunningOf(js) \subseteq Slots \X AllUnits
BY DEF stopRunningExportJobs, deleteExportJobs, RunningOf, JobsOfRun, JobStates

\* The mode a pause reports is one of the three.
LEMMA QuiesceModeType ==
    ASSUME NEW a \in Apps, NEW hook
    PROVE  quiesceMode(a, hook) \in Modes
BY DEF quiesceMode, Modes

\* Pausing and resuming leaves a workload.
LEMMA WorkType ==
    ASSUME NEW a \in Apps, NEW w \in Works, NEW hook, NEW mode
    PROVE  /\ Fresh(a) \in Works
           /\ quiesceApp(a, w, hook) \in Works
           /\ unquiesceApp(w, mode, hook) \in Works
<1>1. Fresh(a) \in Works
  BY ConfigAssumption DEF Fresh, Works, NoMemo
<1>2. \A v \in Works : ScaleToZero(v) \in Works /\ ScaleBack(v) \in Works
  BY DEF ScaleToZero, ScaleBack, Works
<1>3. quiesceApp(a, w, hook) \in Works
  <2>1. [w EXCEPT !.maint = @ \/ (QuiesceMode[a] = "command"
                                    /\ hook \in {"ok", "late"})] \in Works
    BY DEF Works
  <2> QED
    BY <1>2, <2>1 DEF quiesceApp
<1>4. [w EXCEPT !.maint = FALSE] \in Works
  BY DEF Works
<1> QED
  BY <1>1, <1>2, <1>3, <1>4 DEF unquiesceApp

\* A write of the status, landed or lost, leaves statuses.
LEMMA PersistType ==
    ASSUME TypeOK, NEW e \in Exports, NEW s \in Statuses, NEW ok,
           persist(e, s, ok)
    PROVE  status' \in [Exports -> Statuses]
BY DEF TypeOK, persist

\* What is known of an export's parts when every variable has its type.
LEMMA PartTypes ==
    ASSUME TypeOK, NEW e \in Exports
    PROVE  /\ status[e] \in Statuses
           /\ job[e] \in JobsOfRun
           /\ orphan[e] \in SUBSET (Slots \X AllUnits)
           /\ \A x \in Slots : status[e].entry[x] \in Entries
           /\ \A x \in Slots : job[e][x] \in [AllUnits -> JobStates]
           /\ \A a \in Apps : work[a] \in Works /\ a \in Slots
           /\ TenantWide \in Slots
           /\ Units \in SUBSET AllUnits /\ {Manifest} \in SUBSET AllUnits
<1>1. status[e] \in Statuses /\ job[e] \in JobsOfRun
      /\ orphan[e] \in SUBSET (Slots \X AllUnits)
  BY DEF TypeOK, JobsOfRun
<1>2. \A x \in Slots : status[e].entry[x] \in Entries
  BY <1>1 DEF Statuses
<1>3. \A x \in Slots : job[e][x] \in [AllUnits -> JobStates]
  BY <1>1 DEF JobsOfRun
<1> QED
  BY <1>1, <1>2, <1>3 DEF TypeOK, Slots, AllUnits

\* Replacing the Jobs of one slot leaves the Jobs of a run.
LEMMA SlotJobsType ==
    ASSUME NEW js \in JobsOfRun, NEW x \in Slots,
           NEW j \in [AllUnits -> JobStates]
    PROVE  [js EXCEPT ![x] = j] \in JobsOfRun
BY DEF JobsOfRun

\* The variables a pass that gives up changes keep their types.
FailTypes ==
    /\ status' \in [Exports -> Statuses]
    /\ job' \in [Exports -> JobsOfRun]
    /\ orphan' \in [Exports -> SUBSET (Slots \X AllUnits)]
    /\ source' \subseteq Exports
    /\ staged' \subseteq Exports

\* fail keeps types, whatever status it is given.
LEMMA FailType ==
    ASSUME TypeOK, NEW e \in Exports, NEW s \in Statuses,
           NEW js \in JobsOfRun, NEW ok, fail(e, s, js, ok)
    PROVE  FailTypes
<1>1. status' \in [Exports -> Statuses]
  BY SetPhaseType, PersistType DEF fail, Phases
<1>2. Orphaned(e, js) \in SUBSET (Slots \X AllUnits)
  BY PartTypes, StopJobsType DEF Orphaned
<1>3. stopRunningExportJobs(js) \in JobsOfRun
  BY StopJobsType
<1>4. job' \in [Exports -> JobsOfRun]
  BY <1>3 DEF fail, TypeOK, JobsOfRun
<1>5. orphan' \in [Exports -> SUBSET (Slots \X AllUnits)]
  BY <1>2 DEF fail, TypeOK
<1>6. source' \subseteq Exports /\ staged' \subseteq Exports
  BY DEF fail, discardPassphrase, TypeOK
<1> QED
  BY <1>1, <1>4, <1>5, <1>6 DEF FailTypes

\* failApp keeps types and leaves workloads.
LEMMA FailAppType ==
    ASSUME TypeOK, NEW e \in Exports, NEW a \in Apps, NEW s \in Statuses,
           NEW js \in JobsOfRun, NEW ok, failApp(e, a, s, js, ok)
    PROVE  FailTypes /\ work' \in [Apps -> Works]
<1> DEFINE n == [s.entry[a] EXCEPT !.ended = s.entry[a].started,
                                   !.phase = "Failed"]
<1>1. s.entry[a] \in Entries /\ a \in Slots
  BY DEF Statuses, Slots
<1>2. n \in Entries
  BY <1>1 DEF Entries, Phases
<1>3. setEntry(unmarkQuiesced(s, {a}), a, n) \in Statuses
  BY <1>1, <1>2, QuiescedType, SetEntryType
<1>4. fail(e, setEntry(unmarkQuiesced(s, {a}), a, n), js, ok)
  BY DEF failApp
<1>5. FailTypes
  BY <1>3, <1>4, FailType
<1>6. PICK hook \in PostHook(work[a]) :
          work' = [work EXCEPT ![a] = unquiesceApp(work[a], s.entry[a].mode, hook)]
  BY DEF failApp
<1>7. work[a] \in Works
  BY DEF TypeOK
<1>8. unquiesceApp(work[a], s.entry[a].mode, hook) \in Works
  BY <1>7, WorkType
<1>9. work' \in [Apps -> Works]
  BY <1>6, <1>8 DEF TypeOK
<1> QED
  BY <1>5, <1>9

\* A pass over the tenant's own captures keeps types.
LEMMA TenantWideType ==
    ASSUME TypeOK, NEW e \in Exports, NEW n \in Entries,
           NEW js \in JobsOfRun, NEW ok, tenantWideExhausted(e, n, js, ok)
    PROVE  FailTypes
<1>1. status[e] \in Statuses /\ TenantWide \in Slots
  BY PartTypes
<1>2. CASE n.attempts > exportMaxAttempts
  <2>1. [n EXCEPT !.phase = "Failed"] \in Entries
    BY DEF Entries, Phases
  <2>2. setEntry(status[e], TenantWide, [n EXCEPT !.phase = "Failed"])
            \in Statuses
    BY <1>1, <2>1, SetEntryType
  <2> QED
    BY <1>2, <2>2, FailType DEF tenantWideExhausted
<1>3. CASE ~(n.attempts > exportMaxAttempts)
  <2>1. setEntry(status[e], TenantWide, n) \in Statuses
    BY <1>1, SetEntryType
  <2>2. persist(e, setEntry(status[e], TenantWide, n), ok)
    BY <1>3 DEF tenantWideExhausted
  <2>3. status' \in [Exports -> Statuses]
    BY <2>1, <2>2, PersistType
  <2>4. job' \in [Exports -> JobsOfRun]
    BY <1>3 DEF tenantWideExhausted, TypeOK, JobsOfRun
  <2> QED
    BY <1>3, <2>3, <2>4 DEF tenantWideExhausted, stageFor, TypeOK, FailTypes
<1> QED
  BY <1>2, <1>3

\* Resuming a set of apps leaves workloads and a status.
LEMMA ResumeAllType ==
    ASSUME TypeOK, NEW e \in Exports, NEW ok, resumeAll(e, ok)
    PROVE  status' \in [Exports -> Statuses] /\ work' \in [Apps -> Works]
<1>1. status' \in [Exports -> Statuses]
  <2>1. unmarkQuiesced(status[e], status[e].quiesced) \in Statuses
    BY PartTypes, QuiescedType
  <2> QED
    BY <2>1, PersistType DEF resumeAll
<1>2. PICK hook \in [status[e].quiesced -> {"ok", "error"}] :
          work' = [a \in Apps |->
              IF a \in status[e].quiesced
              THEN unquiesceApp(work[a], status[e].entry[a].mode, hook[a])
              ELSE work[a]]
  BY DEF resumeAll
<1>3. \A a \in Apps : unquiesceApp(work[a], status[e].entry[a].mode, hook[a])
                          \in Works
  BY PartTypes, WorkType
<1> QED
  BY <1>1, <1>2, <1>3 DEF TypeOK

----------------------------------------------------------------------------
(* Type correctness: one lemma for each pass that changes much. *)

\* The passes over an ended or a deleted export, and the first ones.
LEMMA QuietTypes ==
    ASSUME TypeOK, NEW e \in Exports, ReconcileQuietly(e)
    PROVE  TypeOK'
<1>1. job[e] \in JobsOfRun
  BY PartTypes
<1>2. Orphaned(e, job[e]) \in SUBSET (Slots \X AllUnits)
  BY PartTypes, StopJobsType DEF Orphaned
<1>3. stopRunningExportJobs(job[e]) \in JobsOfRun
      /\ deleteExportJobs(job[e]) \in JobsOfRun
  BY <1>1, StopJobsType
<1>4. CASE AddFinalizer(e)
  BY <1>4 DEF AddFinalizer, TypeOK
<1>5. CASE TidyEnded(e)
  BY <1>2, <1>3, <1>5 DEF TidyEnded, discardPassphrase, TypeOK, JobsOfRun
<1>6. CASE Finalize(e)
  <2>1. job' \in [Exports -> JobsOfRun]
    BY <1>3, <1>6 DEF Finalize, TypeOK, JobsOfRun
  <2>2. orphan' \in [Exports -> SUBSET (Slots \X AllUnits)]
    BY <1>2, <1>6 DEF Finalize, TypeOK
  <2>3. cleanup' \in [Exports -> JobStates]
    BY <1>6 DEF Finalize, ensureBundleDeleted, TypeOK, JobStates, Ended
  <2>4. finalizer' \subseteq Exports
        /\ obj' \in [Exports -> {"absent", "live", "deleting", "gone"}]
        /\ source' \subseteq Exports /\ staged' \subseteq Exports
    BY <1>6 DEF Finalize, discardPassphrase, TypeOK
  <2> QED
    BY <1>6, <2>1, <2>2, <2>3, <2>4 DEF Finalize, TypeOK, JobsOfRun
<1> QED
  BY <1>4, <1>5, <1>6 DEF ReconcileQuietly

\* A pass that changes only what a failure may change, with the rest as it
\* was, keeps every type.
LEMMA FailTypesSuffice ==
    ASSUME TypeOK, FailTypes, work' \in [Apps -> Works],
           listed' \in [Exports -> SUBSET Apps],
           UNCHANGED <<obj, finalizer, cleanup, store, installed, retained,
                       tenant>>
    PROVE  TypeOK'
BY DEF TypeOK, FailTypes, JobsOfRun

\* Where nothing but the status is written, that is enough.
LEMMA UnchangedTypes ==
    ASSUME TypeOK
    PROVE  /\ UNCHANGED work => work' \in [Apps -> Works]
           /\ UNCHANGED listed => listed' \in [Exports -> SUBSET Apps]
           /\ UNCHANGED job => job' \in [Exports -> JobsOfRun]
           /\ UNCHANGED orphan =>
                  orphan' \in [Exports -> SUBSET (Slots \X AllUnits)]
           /\ UNCHANGED source => source' \subseteq Exports
           /\ UNCHANGED staged => staged' \subseteq Exports
BY DEF TypeOK, JobsOfRun

\* The passes before an app is captured, and those that resume.
LEMMA EarlyTypes ==
    ASSUME TypeOK, NEW e \in Exports, NEW ok,
           \/ ResumeEnded(e, ok) \/ FinalizeResume(e, ok)
           \/ FailNoTenant(e, ok) \/ Busy(e, ok) \/ AssignBundle(e, ok)
           \/ FailNoSecret(e, ok) \/ resumeStale(e, ok)
    PROVE  TypeOK'
<1>1. status[e] \in Statuses /\ job[e] \in JobsOfRun
  BY PartTypes
<1>2. CASE ResumeEnded(e, ok) \/ FinalizeResume(e, ok)
  BY <1>2, ResumeAllType, UnchangedTypes, FailTypesSuffice
     DEF ResumeEnded, FinalizeResume, FailTypes
<1>3. CASE FailNoTenant(e, ok) \/ FailNoSecret(e, ok)
  BY <1>1, <1>3, FailType, UnchangedTypes, FailTypesSuffice
     DEF FailNoTenant, FailNoSecret
<1>4. CASE Busy(e, ok)
  <2>1. setPhase(status[e], "Pending") \in Statuses
    BY <1>1, SetPhaseType DEF Phases
  <2> QED
    BY <1>4, <2>1, PersistType, UnchangedTypes, FailTypesSuffice
       DEF Busy, FailTypes
<1>5. CASE AssignBundle(e, ok)
  <2>1. [status[e] EXCEPT !.bundle = TRUE, !.phase = "Running"] \in Statuses
    BY <1>1 DEF Statuses, Phases
  <2>2. FailTypes
    BY <1>1, <1>5, <2>1, PersistType, FailType, UnchangedTypes
       DEF AssignBundle, FailTypes
  <2> QED
    BY <1>5, <2>2, UnchangedTypes, FailTypesSuffice DEF AssignBundle
<1>6. CASE resumeStale(e, ok)
  <2>1. status' \in [Exports -> Statuses]
    <3>1. unmarkQuiesced(status[e], Stale(e)) \in Statuses
      BY <1>1, QuiescedType
    <3> QED
      BY <1>6, <3>1, PersistType DEF resumeStale
  <2>2. PICK hook \in [Stale(e) -> {"ok", "error"}] :
            work' = [a \in Apps |->
                IF a \in Stale(e)
                THEN unquiesceApp(work[a], status[e].entry[a].mode, hook[a])
                ELSE work[a]]
    BY <1>6 DEF resumeStale
  <2>3. \A a \in Apps : unquiesceApp(work[a], status[e].entry[a].mode,
                                     hook[a]) \in Works
    BY PartTypes, WorkType
  <2>4. work' \in [Apps -> Works]
    BY <2>2, <2>3 DEF TypeOK
  <2>5. staged' \subseteq Exports
    BY <1>6, ConfigAssumption DEF resumeStale, stagePassphrase, TypeOK
  <2> QED
    BY <1>6, <2>1, <2>4, <2>5, UnchangedTypes, FailTypesSuffice
       DEF resumeStale, FailTypes
<1> QED
  BY <1>2, <1>3, <1>4, <1>5, <1>6

\* The entries a pass ends with when its units are done.
LEMMA EntryUpdates ==
    ASSUME NEW n \in Entries
    PROVE  /\ [n EXCEPT !.ended = TRUE, !.phase = "Ready"] \in Entries
           /\ [n EXCEPT !.ended = TRUE, !.phase = "Running",
                        !.attempts = @ + 1] \in Entries
           /\ [n EXCEPT !.attempts = @ + 1] \in Entries
           /\ \A ph \in Phases : [n EXCEPT !.phase = ph] \in Entries
           /\ [n EXCEPT !.retained = TRUE] \in Entries
<1>1. n.attempts + 1 \in Nat
  <2>1. n.attempts \in Nat
    BY DEF Entries
  <2> QED
    BY <2>1
<1> QED
  BY <1>1 DEF Entries, Phases

\* captureApp: the pause, the captures and the resume.
LEMMA CaptureTypes ==
    ASSUME TypeOK, NEW e \in Exports, NEW a \in Apps, NEW ok,
           \/ PauseApp(e, a, ok) \/ CaptureWaits(e, a, ok)
           \/ CaptureCannot(e, a, ok) \/ CaptureDone(e, a, ok)
    PROVE  TypeOK'
<1> DEFINE en == ensureEntry(status[e].entry[a], job[e][a], Units)
           js == [job[e] EXCEPT ![a] =
                     ensureJobs(status[e].entry[a], job[e][a], Units)]
<1>1. /\ status[e] \in Statuses /\ job[e] \in JobsOfRun
      /\ status[e].entry[a] \in Entries
      /\ a \in Slots /\ work[a] \in Works
  BY PartTypes
<1>2. en \in Entries
  BY <1>1, PartTypes, EnsureEntryType
<1>3. js \in JobsOfRun
  BY <1>1, PartTypes, EnsureJobsType, SlotJobsType
<1>4. CASE PauseApp(e, a, ok)
  <2>1. CASE failApp(e, a, status[e], job[e], ok)
    BY <1>1, <1>4, <2>1, FailAppType, UnchangedTypes, FailTypesSuffice
       DEF PauseApp
  <2>2. CASE ~failApp(e, a, status[e], job[e], ok)
    <3>1. PICK hook \in PreHook(work[a]) :
              /\ work' = [work EXCEPT ![a] = quiesceApp(a, work[a], hook)]
              /\ persist(e, setEntry(markQuiesced(status[e], a), a,
                     [status[e].entry[a] EXCEPT
                         !.started = TRUE,
                         !.mode = quiesceMode(a, hook),
                         !.phase = "Running"]), ok)
      BY <1>4, <2>2 DEF PauseApp
    <3>2. [status[e].entry[a] EXCEPT !.started = TRUE,
                                     !.mode = quiesceMode(a, hook),
                                     !.phase = "Running"] \in Entries
      BY <1>1, QuiesceModeType DEF Entries, Phases
    <3>3. status' \in [Exports -> Statuses]
      BY <1>1, <3>1, <3>2, QuiescedType, SetEntryType, PersistType
    <3>4. work' \in [Apps -> Works]
      BY <1>1, <3>1, WorkType DEF TypeOK
    <3>5. staged' \subseteq Exports /\ UNCHANGED <<job, orphan, source>>
      BY <1>4, <2>2, ConfigAssumption DEF PauseApp, stagePassphrase, TypeOK
    <3> QED
      BY <1>4, <3>3, <3>4, <3>5, UnchangedTypes, FailTypesSuffice
         DEF PauseApp, FailTypes
  <2> QED
    BY <2>1, <2>2
<1>5. CASE CaptureWaits(e, a, ok)
  <2>1. setEntry(status[e], a, en) \in Statuses
    BY <1>1, <1>2, SetEntryType
  <2>2. CASE en.attempts > exportMaxAttempts
    <3>1. failApp(e, a, setEntry(status[e], a, en), js, ok)
      BY <1>5, <2>2 DEF CaptureWaits
    <3> QED
      BY <1>3, <1>5, <2>1, <3>1, FailAppType, UnchangedTypes,
         FailTypesSuffice DEF CaptureWaits
  <2>3. CASE ~(en.attempts > exportMaxAttempts)
    <3>1. /\ job' = [job EXCEPT ![e] = js]
          /\ staged' = staged \cup {e}
          /\ persist(e, setEntry(status[e], a, en), ok)
          /\ UNCHANGED <<orphan, source, work>>
      BY <1>5, <2>3 DEF CaptureWaits, stageFor
    <3>2. job' \in [Exports -> JobsOfRun] /\ staged' \subseteq Exports
      BY <1>3, <3>1 DEF TypeOK, JobsOfRun
    <3>3. status' \in [Exports -> Statuses]
      BY <2>1, <3>1, PersistType
    <3> QED
      BY <1>5, <3>1, <3>2, <3>3, UnchangedTypes, FailTypesSuffice
         DEF CaptureWaits, FailTypes
  <2> QED
    BY <2>2, <2>3
<1>6. CASE CaptureCannot(e, a, ok)
  BY <1>1, <1>6, FailAppType, UnchangedTypes, FailTypesSuffice
     DEF CaptureCannot
<1>7. CASE CaptureDone(e, a, ok)
  <2> DEFINE up  == [en EXCEPT !.ended = TRUE, !.phase = "Ready"]
             bad == [en EXCEPT !.ended = TRUE, !.phase = "Running",
                               !.attempts = @ + 1]
  <2>1. up \in Entries /\ bad \in Entries
    <3> HIDE DEF en
    <3> QED
      BY <1>2, EntryUpdates
  <2>2. setEntry(status[e], a, bad) \in Statuses
    BY <1>1, <2>1, SetEntryType
  <2>3. setEntry(unmarkQuiesced(status[e], {a}), a, up) \in Statuses
    BY <1>1, <2>1, SetEntryType, QuiescedType
  <2>4. CASE failApp(e, a, setEntry(status[e], a, bad), job[e], ok)
    BY <1>1, <1>7, <2>2, <2>4, FailAppType, UnchangedTypes, FailTypesSuffice
       DEF CaptureDone
  <2>5. CASE ~failApp(e, a, setEntry(status[e], a, bad), job[e], ok)
    <3>1. /\ \E hook \in PostHook(work[a]) :
                 work' = [work EXCEPT ![a] =
                             unquiesceApp(work[a], en.mode, hook)]
          /\ \/ persist(e, setEntry(unmarkQuiesced(status[e], {a}), a, up), ok)
             \/ persist(e, setEntry(status[e], a, bad), ok)
          /\ staged' = staged \cup {e}
          /\ UNCHANGED <<job, orphan, source>>
      BY <1>7, <2>5 DEF CaptureDone, stageFor
    <3>2. work' \in [Apps -> Works]
      BY <1>1, <3>1, WorkType DEF TypeOK
    <3>3. status' \in [Exports -> Statuses]
      BY <2>2, <2>3, <3>1, PersistType
    <3>4. staged' \subseteq Exports
      BY <3>1 DEF TypeOK
    <3> QED
      BY <1>7, <3>1, <3>2, <3>3, <3>4, UnchangedTypes, FailTypesSuffice
         DEF CaptureDone, FailTypes
  <2> QED
    BY <2>4, <2>5
<1> QED
  BY <1>4, <1>5, <1>6, <1>7

\* captureRetained: the data of an uninstalled app.
LEMMA RetainedTypes ==
    ASSUME TypeOK, NEW e \in Exports, NEW a \in Apps, NEW ok,
           CaptureRetained(e, a, ok)
    PROVE  TypeOK'
<1> DEFINE en0 == [status[e].entry[a] EXCEPT !.retained = TRUE]
           en  == [ensureEntry(en0, job[e][a], Units) EXCEPT !.phase = "Running"]
           js  == [job[e] EXCEPT ![a] = ensureJobs(en0, job[e][a], Units)]
           bad == [en EXCEPT !.attempts = @ + 1]
           failed(n, k) ==
               fail(e, setEntry(status[e], a, [n EXCEPT !.phase = "Failed"]),
                    k, ok)
           goesOn(n) == /\ job' = [job EXCEPT ![e] = js]
                        /\ staged' = staged \cup {e}
                        /\ persist(e, setEntry(status[e], a, n), ok)
                        /\ UNCHANGED <<orphan, source>>
<1>1. /\ status[e] \in Statuses /\ job[e] \in JobsOfRun
      /\ status[e].entry[a] \in Entries
      /\ job[e][a] \in [AllUnits -> JobStates]
      /\ a \in Slots /\ Units \in SUBSET AllUnits
  BY PartTypes
<1>2. en0 \in Entries
  BY <1>1, EntryUpdates
<1>3. js \in JobsOfRun
  BY <1>1, EnsureJobsType, SlotJobsType
<1>4. en \in Entries
  <2>1. ensureEntry(en0, job[e][a], Units) \in Entries
    BY <1>1, <1>2, EnsureEntryType
  <2>2. "Running" \in Phases
    BY DEF Phases
  <2> QED
    BY <2>1, <2>2, EntryUpdates
<1> HIDE DEF en0, en, js
<1>5. bad \in Entries
  BY <1>4, EntryUpdates
<1>6. \A n \in Entries : [n EXCEPT !.phase = "Failed"] \in Entries
                         /\ [n EXCEPT !.phase = "Ready"] \in Entries
  BY EntryUpdates DEF Phases
<1>7. \A n \in Entries, k \in JobsOfRun : failed(n, k) => FailTypes
  BY <1>1, <1>6, SetEntryType, FailType
<1>8. \A n \in Entries : goesOn(n) => FailTypes
  <2> SUFFICES ASSUME NEW n \in Entries, goesOn(n) PROVE FailTypes
    OBVIOUS
  <2>1. job' \in [Exports -> JobsOfRun]
    BY <1>3 DEF TypeOK, JobsOfRun
  <2>2. staged' \subseteq Exports
    BY DEF TypeOK
  <2>3. status' \in [Exports -> Statuses]
    BY <1>1, SetEntryType, PersistType
  <2> QED
    BY <2>1, <2>2, <2>3, UnchangedTypes DEF FailTypes
<1>9. \/ failed(en0, job[e]) \/ failed(en, js) \/ failed(bad, js)
      \/ goesOn(en) \/ goesOn([en EXCEPT !.phase = "Ready"]) \/ goesOn(bad)
  BY DEF CaptureRetained, stageFor, en0, en, js
<1>10. FailTypes
  BY <1>1, <1>2, <1>3, <1>4, <1>5, <1>6, <1>7, <1>8, <1>9
<1> QED
  BY <1>10, UnchangedTypes, FailTypesSuffice DEF CaptureRetained

\* captureTenantWide: what is the tenant's own.
LEMMA TenantWideTypes ==
    ASSUME TypeOK, NEW e \in Exports, NEW ok, CaptureTenantWide(e, ok)
    PROVE  TypeOK'
<1> DEFINE old == status[e].entry[TenantWide]
           en  == ensureEntry(old, job[e][TenantWide], Units)
           js  == [job[e] EXCEPT ![TenantWide] =
                      ensureJobs(old, job[e][TenantWide], Units)]
<1>1. /\ old \in Entries /\ job[e] \in JobsOfRun
      /\ job[e][TenantWide] \in [AllUnits -> JobStates]
      /\ TenantWide \in Slots /\ Units \in SUBSET AllUnits
  BY PartTypes
<1>2. en \in Entries /\ [old EXCEPT !.attempts = @ + 1] \in Entries
  BY <1>1, EnsureEntryType, EntryUpdates
<1>3. js \in JobsOfRun
  BY <1>1, EnsureJobsType, SlotJobsType
<1>4. \/ tenantWideExhausted(e, en, js, ok)
      \/ tenantWideExhausted(e, [old EXCEPT !.attempts = @ + 1], job[e], ok)
  BY DEF CaptureTenantWide
<1>5. FailTypes
  BY <1>1, <1>2, <1>3, <1>4, TenantWideType
<1> QED
  BY <1>5, UnchangedTypes, FailTypesSuffice DEF CaptureTenantWide

\* complete: the manifest and the end.
LEMMA CompleteTypes ==
    ASSUME TypeOK, NEW e \in Exports, NEW ok, Complete(e, ok)
    PROVE  TypeOK'
<1> DEFINE tw == [ensureEntry(status[e].entry[TenantWide],
                              job[e][TenantWide], Units) EXCEPT !.phase = "Ready"]
           en == ensureEntry(tw, job[e][TenantWide], {Manifest})
           js == [job[e] EXCEPT ![TenantWide] =
                     ensureJobs(tw, job[e][TenantWide], {Manifest})]
           last == setPhase(setEntry(status[e], TenantWide, en), "Ready")
<1>1. /\ status[e] \in Statuses /\ job[e] \in JobsOfRun
      /\ status[e].entry[TenantWide] \in Entries
      /\ job[e][TenantWide] \in [AllUnits -> JobStates]
      /\ TenantWide \in Slots
      /\ Units \in SUBSET AllUnits /\ {Manifest} \in SUBSET AllUnits
  BY PartTypes
<1>2. tw \in Entries
  <2>1. ensureEntry(status[e].entry[TenantWide], job[e][TenantWide], Units)
            \in Entries
    BY <1>1, EnsureEntryType
  <2>2. "Ready" \in Phases
    BY DEF Phases
  <2> QED
    BY <2>1, <2>2, EntryUpdates
<1>3. js \in JobsOfRun
  BY <1>1, EnsureJobsType, SlotJobsType
<1>4. en \in Entries
  BY <1>1, <1>2, EnsureEntryType
<1>5. last \in Statuses
  BY <1>1, <1>4, SetEntryType, SetPhaseType DEF Phases
<1>6. [tw EXCEPT !.attempts = @ + 1] \in Entries
  BY <1>2, EntryUpdates
<1>7. \/ /\ \/ tenantWideExhausted(e, [tw EXCEPT !.attempts = @ + 1], job[e], ok)
            \/ tenantWideExhausted(e, en, js, ok)
      \/ /\ job' = [job EXCEPT ![e] = stopRunningExportJobs(job[e])]
         /\ orphan' = [orphan EXCEPT ![e] = Orphaned(e, job[e])]
         /\ source' = source \ {e}
         /\ staged' = staged \ {e}
         /\ persist(e, last, ok)
  BY DEF Complete, discardPassphrase
<1> HIDE DEF tw, en, js, last
<1>8. FailTypes
  <2>1. CASE \/ tenantWideExhausted(e, [tw EXCEPT !.attempts = @ + 1], job[e], ok)
             \/ tenantWideExhausted(e, en, js, ok)
    BY <1>1, <1>3, <1>4, <1>6, <2>1, TenantWideType
  <2>2. CASE /\ job' = [job EXCEPT ![e] = stopRunningExportJobs(job[e])]
             /\ orphan' = [orphan EXCEPT ![e] = Orphaned(e, job[e])]
             /\ source' = source \ {e}
             /\ staged' = staged \ {e}
             /\ persist(e, last, ok)
    <3>1. Orphaned(e, job[e]) \in SUBSET (Slots \X AllUnits)
      BY PartTypes, StopJobsType DEF Orphaned
    <3>2. stopRunningExportJobs(job[e]) \in JobsOfRun
      BY <1>1, StopJobsType
    <3>3. status' \in [Exports -> Statuses]
      BY <1>5, <2>2, PersistType
    <3> QED
      BY <2>2, <3>1, <3>2, <3>3 DEF FailTypes, TypeOK, JobsOfRun
  <2> QED
    BY <1>7, <2>1, <2>2
<1>9. listed' \in [Exports -> SUBSET Apps]
  <2>1. buildManifest(e) \in SUBSET Apps
    BY DEF buildManifest
  <2> QED
    BY <2>1 DEF Complete, TypeOK
<1> QED
  BY <1>8, <1>9, UnchangedTypes, FailTypesSuffice DEF Complete

\* Steps of the Jobs, of the cleanup, of users and of the tenant.
LEMMA EnvironmentTypes ==
    ASSUME TypeOK, Environment
    PROVE  TypeOK'
<1>1. ASSUME NEW e \in Exports,
             \/ CreateExport(e) \/ DeleteExport(e) \/ SourceLost(e)
             \/ CleanupEnds(e)
      PROVE  TypeOK'
  <2>1. CASE CreateExport(e)
    BY <2>1 DEF CreateExport, TypeOK
  <2>2. CASE DeleteExport(e)
    BY <2>2 DEF DeleteExport, TypeOK
  <2>3. CASE SourceLost(e)
    BY <2>3 DEF SourceLost, TypeOK
  <2>4. CASE CleanupEnds(e)
    <3>1. cleanup' \in [Exports -> JobStates]
      BY <2>4 DEF CleanupEnds, TypeOK, JobStates
    <3>2. store' \in [Exports -> SUBSET (Slots \X AllUnits)]
      BY <2>4 DEF CleanupEnds, TypeOK
    <3> QED
      BY <2>4, <3>1, <3>2 DEF CleanupEnds, TypeOK
  <2> QED
    BY <1>1, <2>1, <2>2, <2>3, <2>4
<1>2. ASSUME NEW e \in Exports, NEW x \in Slots, NEW u \in AllUnits,
             \/ JobCompletes(e, x, u) \/ JobFails(e, x, u)
             \/ JobCollected(e, x, u) \/ ForeignJob(e, x, u)
             \/ OrphanEnds(e, x, u)
      PROVE  TypeOK'
  <2>1. \A j \in JobStates :
            [job EXCEPT ![e][x][u] = j]
                \in [Exports -> [Slots -> [AllUnits -> JobStates]]]
    BY DEF TypeOK
  <2>2. [store EXCEPT ![e] = @ \cup {<<x, u>>}]
            \in [Exports -> SUBSET (Slots \X AllUnits)]
    BY DEF TypeOK
  <2>3. CASE OrphanEnds(e, x, u)
    <3>1. orphan' \in [Exports -> SUBSET (Slots \X AllUnits)]
      BY <2>3 DEF OrphanEnds, TypeOK
    <3>2. store' \in [Exports -> SUBSET (Slots \X AllUnits)]
      BY <2>2, <2>3 DEF OrphanEnds, Upload, TypeOK
    <3> QED
      BY <2>3, <3>1, <3>2 DEF OrphanEnds, Others, TypeOK
  <2>4. CASE JobCompletes(e, x, u)
    <3>1. job' \in [Exports -> [Slots -> [AllUnits -> JobStates]]]
      BY <2>1, <2>4 DEF JobCompletes, JobStates
    <3>2. store' \in [Exports -> SUBSET (Slots \X AllUnits)]
      BY <2>2, <2>4 DEF JobCompletes, Upload
    <3> QED
      BY <2>4, <3>1, <3>2 DEF JobCompletes, Others, TypeOK
  <2>5. CASE JobFails(e, x, u) \/ JobCollected(e, x, u) \/ ForeignJob(e, x, u)
    <3>1. job' \in [Exports -> [Slots -> [AllUnits -> JobStates]]]
      BY <2>1, <2>5 DEF JobFails, JobCollected, ForeignJob, JobStates
    <3> QED
      BY <2>5, <3>1 DEF JobFails, JobCollected, ForeignJob, Others, TypeOK
  <2> QED
    BY <1>2, <2>3, <2>4, <2>5
<1>3. ASSUME NEW a \in Apps, AppChanges(a) PROVE TypeOK'
  <2>1. Fresh(a) \in Works
    BY ConfigAssumption DEF Fresh, Works, NoMemo
  <2>2. work' \in [Apps -> Works]
    BY <1>3, <2>1 DEF AppChanges, TypeOK
  <2>3. installed' \subseteq Apps /\ retained' \subseteq Apps
    BY <1>3 DEF AppChanges, TypeOK
  <2> QED
    BY <1>3, <2>2, <2>3 DEF AppChanges, TypeOK
<1>4. CASE TearDown
  BY <1>4 DEF TearDown, TypeOK
<1> QED
  BY <1>1, <1>2, <1>3, <1>4 DEF Environment

\* The initial state has its types.
LEMMA InitTypes == Init => TypeOK
<1> SUFFICES ASSUME Init PROVE TypeOK
  OBVIOUS
<1>1. NewEntry \in Entries
  BY DEF NewEntry, Entries, Phases
<1>2. NewStatus \in Statuses
  BY <1>1 DEF NewStatus, Statuses
<1>3. status \in [Exports -> Statuses]
  BY <1>2 DEF Init
<1>4. \A a \in Apps : Fresh(a) \in Works
  BY ConfigAssumption DEF Fresh, Works, NoMemo
<1>5. work \in [Apps -> Works]
  BY <1>4 DEF Init
<1>6. job \in [Exports -> [Slots -> [AllUnits -> JobStates]]]
  BY DEF Init, JobStates
<1>7. tenant \in {"present", "terminating", "gone"}
  BY DEF Init
<1> QED
  BY <1>3, <1>5, <1>6, <1>7, ConfigAssumption DEF Init, TypeOK, JobStates

\* Every step keeps the types.
LEMMA NextTypes == TypeOK /\ [Next]_vars => TypeOK'
<1> SUFFICES ASSUME TypeOK, [Next]_vars PROVE TypeOK'
  OBVIOUS
<1>1. ASSUME NEW e \in Exports, NEW ok \in Writes, Reconcile(e, ok)
      PROVE  TypeOK'
  BY <1>1, EarlyTypes, CaptureTypes, RetainedTypes, TenantWideTypes,
     CompleteTypes DEF Reconcile
<1>2. CASE UNCHANGED vars
  BY <1>2 DEF vars, TypeOK
<1> QED
  BY <1>1, <1>2, QuietTypes, EnvironmentTypes DEF Next

\* Whatever fails, and in whichever order: the stored status, the Jobs and
\* the workloads keep the shape the controller relies on; no resume scales a
\* workload to less than zero.
THEOREM TypeCorrect == Spec => []TypeOK
BY InitTypes, NextTypes, PTL DEF Spec

----------------------------------------------------------------------------
(* The memo of a paused workload. *)

\* What a step may do to the workloads of app a.
Rescaled(a, w, v) ==
    \/ v = w
    \/ v = Fresh(a)
    \/ \E hook : v = quiesceApp(a, w, hook)
    \/ \E mode, hook : v = unquiesceApp(w, mode, hook)

\* Nothing but a pause, a resume and a new install touches a workload.
LEMMA WorkSteps ==
    ASSUME TypeOK, [Next]_vars, NEW b \in Apps
    PROVE  Rescaled(b, work[b], work'[b])
<1> DEFINE Goal == Rescaled(b, work[b], work'[b])
<1>1. ASSUME UNCHANGED work PROVE Goal
  BY <1>1 DEF Rescaled
<1>2. ASSUME NEW e \in Exports, NEW a \in Apps, NEW s, NEW js, NEW ok,
             failApp(e, a, s, js, ok)
      PROVE  Goal
  BY <1>2 DEF failApp, Rescaled, TypeOK
<1>3. ASSUME NEW e \in Exports, NEW ok, resumeAll(e, ok)
      PROVE  Goal
  <2>1. PICK hook \in [status[e].quiesced -> {"ok", "error"}] :
            work' = [a \in Apps |->
                IF a \in status[e].quiesced
                THEN unquiesceApp(work[a], status[e].entry[a].mode, hook[a])
                ELSE work[a]]
    BY <1>3 DEF resumeAll
  <2> QED
    BY <2>1 DEF Rescaled
<1>4. ASSUME NEW e \in Exports, NEW ok, resumeStale(e, ok)
      PROVE  Goal
  <2>1. PICK hook \in [Stale(e) -> {"ok", "error"}] :
            work' = [a \in Apps |->
                IF a \in Stale(e)
                THEN unquiesceApp(work[a], status[e].entry[a].mode, hook[a])
                ELSE work[a]]
    BY <1>4 DEF resumeStale
  <2> QED
    BY <2>1 DEF Rescaled
<1>5. ASSUME NEW e \in Exports, NEW a \in Apps, NEW ok,
             \/ PauseApp(e, a, ok) \/ CaptureWaits(e, a, ok)
             \/ CaptureCannot(e, a, ok) \/ CaptureDone(e, a, ok)
      PROVE  Goal
  <2>1. CASE PauseApp(e, a, ok)
    <3>1. \/ \E s, js : failApp(e, a, s, js, ok)
          \/ \E hook : work' = [work EXCEPT ![a] = quiesceApp(a, work[a], hook)]
      BY <2>1 DEF PauseApp
    <3> QED
      BY <1>2, <3>1 DEF Rescaled, TypeOK
  <2>2. CASE CaptureWaits(e, a, ok)
    <3>1. \/ \E s, js : failApp(e, a, s, js, ok)
          \/ UNCHANGED work
      BY <2>2 DEF CaptureWaits
    <3> QED
      BY <1>1, <1>2, <3>1
  <2>3. CASE CaptureCannot(e, a, ok)
    BY <1>2, <2>3 DEF CaptureCannot
  <2>4. CASE CaptureDone(e, a, ok)
    <3>1. \/ \E s, js : failApp(e, a, s, js, ok)
          \/ \E mode, hook :
                 work' = [work EXCEPT ![a] = unquiesceApp(work[a], mode, hook)]
      BY <2>4 DEF CaptureDone
    <3> QED
      BY <1>2, <3>1 DEF Rescaled, TypeOK
  <2> QED
    BY <1>5, <2>1, <2>2, <2>3, <2>4
<1>6. ASSUME NEW e \in Exports, NEW ok, Reconcile(e, ok)
      PROVE  Goal
  <2>1. CASE ResumeEnded(e, ok) \/ FinalizeResume(e, ok)
    BY <1>3, <2>1 DEF ResumeEnded, FinalizeResume
  <2>2. CASE \/ FailNoTenant(e, ok) \/ Busy(e, ok) \/ AssignBundle(e, ok)
             \/ FailNoSecret(e, ok) \/ CaptureTenantWide(e, ok)
             \/ Complete(e, ok)
             \/ \E a \in Apps : CaptureRetained(e, a, ok)
    BY <1>1, <2>2 DEF FailNoTenant, Busy, AssignBundle, FailNoSecret,
                      CaptureTenantWide, Complete, CaptureRetained
  <2> QED
    BY <1>4, <1>5, <1>6, <2>1, <2>2 DEF Reconcile
<1>7. ASSUME NEW e \in Exports, ReconcileQuietly(e) PROVE Goal
  BY <1>1, <1>7 DEF ReconcileQuietly, AddFinalizer, TidyEnded, Finalize
<1>8. ASSUME Environment PROVE Goal
  <2>1. CASE \E a \in Apps : AppChanges(a)
    <3>1. PICK a \in Apps : work' = [work EXCEPT ![a] = Fresh(a)]
      BY <2>1 DEF AppChanges
    <3> QED
      BY <3>1 DEF Rescaled, TypeOK
  <2>2. CASE ~\E a \in Apps : AppChanges(a)
    <3>1. ASSUME NEW e \in Exports,
                 \/ CreateExport(e) \/ DeleteExport(e) \/ SourceLost(e)
                 \/ CleanupEnds(e)
          PROVE  UNCHANGED work
      BY <3>1 DEF CreateExport, DeleteExport, SourceLost, CleanupEnds
    <3>2. ASSUME NEW e \in Exports, NEW x \in Slots, NEW u \in AllUnits,
                 \/ JobCompletes(e, x, u) \/ JobFails(e, x, u)
                 \/ JobCollected(e, x, u) \/ ForeignJob(e, x, u)
                 \/ OrphanEnds(e, x, u)
          PROVE  UNCHANGED work
      BY <3>2 DEF JobCompletes, JobFails, JobCollected, ForeignJob,
                  OrphanEnds, Others
    <3>3. ASSUME TearDown PROVE UNCHANGED work
      BY <3>3 DEF TearDown
    <3> QED
      BY <1>1, <1>8, <2>2, <3>1, <3>2, <3>3 DEF Environment
  <2> QED
    BY <2>1, <2>2
<1> QED
  BY <1>1, <1>6, <1>7, <1>8 DEF Next, vars

\* MemoSound, for one workload.
MemoOf(a, w) ==
    /\ w.memo \in {NoMemo, Replicas[a]}
    /\ w.memo = NoMemo => w.replicas = Replicas[a]

\* A pause keeps the first count it saw, a resume puts exactly that one back.
LEMMA RescaledMemo ==
    ASSUME NEW a \in Apps, NEW w \in Works, NEW v, MemoOf(a, w),
           Rescaled(a, w, v)
    PROVE  MemoOf(a, v)
<1>1. Replicas[a] \in Nat
  BY ConfigAssumption
<1>2. ASSUME NEW x \in Works, MemoOf(a, x)
      PROVE  MemoOf(a, ScaleToZero(x)) /\ MemoOf(a, ScaleBack(x))
  BY <1>1, <1>2 DEF MemoOf, ScaleToZero, ScaleBack, Works, NoMemo
<1>3. \A m \in BOOLEAN : [w EXCEPT !.maint = m] \in Works
                         /\ MemoOf(a, [w EXCEPT !.maint = m])
  BY DEF MemoOf, Works
<1>4. CASE v = Fresh(a)
  BY <1>4 DEF Fresh, MemoOf
<1>5. CASE \E hook : v = quiesceApp(a, w, hook)
  BY <1>2, <1>3, <1>5 DEF quiesceApp
<1>6. CASE \E mode, hook : v = unquiesceApp(w, mode, hook)
  BY <1>2, <1>3, <1>6 DEF unquiesceApp
<1> QED
  BY <1>4, <1>5, <1>6 DEF Rescaled

\* scaleOne never forgets how many replicas an app had: whatever is lost,
\* fails or is retried, an app that is not at its own count carries the memo
\* of that count, and a resume brings it back to it.
THEOREM MemoCorrect == Spec => []MemoSound
<1>1. Init => MemoSound
  <2> SUFFICES ASSUME Init, NEW a \in Apps
               PROVE  /\ work[a].memo \in {NoMemo, Replicas[a]}
                      /\ work[a].memo = NoMemo =>
                             work[a].replicas = Replicas[a]
    BY DEF MemoSound
  <2>1. work[a] = Fresh(a)
    BY DEF Init
  <2> QED
    BY <2>1 DEF Fresh
<1>2. TypeOK /\ MemoSound /\ [Next]_vars => MemoSound'
  <2> SUFFICES ASSUME TypeOK, MemoSound, [Next]_vars, NEW a \in Apps
               PROVE  MemoOf(a, work'[a])
    BY DEF MemoSound, MemoOf
  <2>1. work[a] \in Works /\ MemoOf(a, work[a])
    BY DEF TypeOK, MemoSound, MemoOf
  <2> QED
    BY <2>1, WorkSteps, RescaledMemo
<1> QED
  BY <1>1, <1>2, TypeCorrect, PTL DEF Spec

----------------------------------------------------------------------------
(* How the status of an export may change. *)

\* t is a status made from s by changing entries and the record of what is
\* paused, and perhaps the phase.
Shape(s) ==
    \E p, b, q, n : s = [phase |-> p, bundle |-> b, quiesced |-> q, entry |-> n]
Edited(s, t) == Shape(s) /\ Shape(t) /\ t.bundle = s.bundle
Annotated(s, t) == Edited(s, t) /\ t.phase = s.phase

\* The operators on a status keep its bundle, and all but one its phase.
LEMMA Edits ==
    ASSUME NEW s, Shape(s)
    PROVE  /\ \A x, n : Annotated(s, setEntry(s, x, n))
           /\ \A a : Annotated(s, markQuiesced(s, a))
           /\ \A Q : Annotated(s, unmarkQuiesced(s, Q))
           /\ \A ph : Edited(s, setPhase(s, ph))
<1>1. PICK p, b, q, n :
          s = [phase |-> p, bundle |-> b, quiesced |-> q, entry |-> n]
  BY DEF Shape
<1>2. \A x, m : setEntry(s, x, m) =
          [phase |-> p, bundle |-> b, quiesced |-> q, entry |-> [n EXCEPT ![x] = m]]
  BY <1>1 DEF setEntry
<1>3. \A a : markQuiesced(s, a) =
          [phase |-> p, bundle |-> b, quiesced |-> q \cup {a}, entry |-> n]
  BY <1>1 DEF markQuiesced
<1>4. \A Q : unmarkQuiesced(s, Q) =
          [phase |-> p, bundle |-> b, quiesced |-> q \ Q, entry |-> n]
  BY <1>1 DEF unmarkQuiesced
<1>5. \A ph : setPhase(s, ph) =
          [phase |-> ph, bundle |-> b, quiesced |-> q, entry |-> n]
  BY <1>1 DEF setPhase
<1>6. ASSUME NEW ph, NEW qq, NEW nn
      PROVE  LET t == [phase |-> ph, bundle |-> b, quiesced |-> qq, entry |-> nn]
             IN  Edited(s, t) /\ (ph = p => Annotated(s, t))
  BY <1>1 DEF Annotated, Edited, Shape
<1>7. \A x, m : Annotated(s, setEntry(s, x, m))
  BY <1>2, <1>6
<1>8. \A a : Annotated(s, markQuiesced(s, a))
  BY <1>3, <1>6
<1>9. \A Q : Annotated(s, unmarkQuiesced(s, Q))
  BY <1>4, <1>6
<1>10. \A ph : Edited(s, setPhase(s, ph))
  BY <1>5, <1>6
<1> QED
  BY <1>7, <1>8, <1>9, <1>10

\* Edits compose.
LEMMA EditsCompose ==
    ASSUME NEW s, NEW t, NEW r
    PROVE  /\ Edited(s, t) /\ Edited(t, r) => Edited(s, r)
           /\ Annotated(s, t) /\ Annotated(t, r) => Annotated(s, r)
BY DEF Edited, Annotated

\* What a step does to the status of one export: one that ended stays so, the
\* bundle is assigned once, by an export that nobody blocks, and only objects
\* that exist are written.
Evolves(s, t) ==
    /\ IsTerminal(s) => t.phase = s.phase
    /\ s.bundle => t.bundle
StatusStep(e) ==
    /\ Evolves(status[e], status'[e])
    /\ status'[e].bundle =>
          status[e].bundle \/ (Exists(e) /\ ~blockedByAnotherExport(e))
StatusSteps == \A e \in Exports : StatusStep(e)

\* A stored status is well formed.
LEMMA StatusShape ==
    ASSUME TypeOK, NEW e \in Exports
    PROVE  Shape(status[e])
BY DEF TypeOK, Statuses, Shape

\* A write that did not happen, or did not change the status.
LEMMA NoStatusStep ==
    ASSUME UNCHANGED status
    PROVE  StatusSteps
BY DEF StatusSteps, StatusStep, Evolves

\* A write by an export that has not ended and keeps its bundle.
LEMMA RunningStep ==
    ASSUME TypeOK, NEW e \in Exports, Running(e), NEW t, NEW ok,
           Edited(status[e], t), persist(e, t, ok)
    PROVE  StatusSteps
<1>1. CASE UNCHANGED status
  BY <1>1, NoStatusStep
<1>2. CASE status' = [status EXCEPT ![e] = t]
  <2>1. status'[e] = t /\ \A f \in Exports \ {e} : status'[f] = status[f]
    BY <1>2 DEF TypeOK
  <2> QED
    BY <2>1 DEF StatusSteps, StatusStep, Evolves, Edited, Running
<1> QED
  BY <1>1, <1>2 DEF persist

\* A write that only unmarks apps.
LEMMA AnnotatingStep ==
    ASSUME TypeOK, NEW e \in Exports, NEW t, NEW ok,
           Annotated(status[e], t), persist(e, t, ok)
    PROVE  StatusSteps
<1>1. CASE UNCHANGED status
  BY <1>1, NoStatusStep
<1>2. CASE status' = [status EXCEPT ![e] = t]
  <2>1. status'[e] = t /\ \A f \in Exports \ {e} : status'[f] = status[f]
    BY <1>2 DEF TypeOK
  <2> QED
    BY <2>1 DEF StatusSteps, StatusStep, Evolves, Annotated, Edited
<1> QED
  BY <1>1, <1>2 DEF persist

\* The ways to give up, by an export that has not ended.
LEMMA FailSteps ==
    ASSUME TypeOK, NEW e \in Exports, Running(e), NEW t, NEW js, NEW ok,
           Edited(status[e], t)
    PROVE  /\ fail(e, t, js, ok) => StatusSteps
           /\ \A a : failApp(e, a, t, js, ok) => StatusSteps
<1>1. ASSUME NEW r, Edited(status[e], r), fail(e, r, js, ok)
      PROVE  StatusSteps
  <2>1. Edited(r, setPhase(r, "Failed"))
    BY <1>1, Edits DEF Edited
  <2>2. Edited(status[e], setPhase(r, "Failed"))
    BY <1>1, <2>1, EditsCompose
  <2> QED
    BY <1>1, <2>2, RunningStep DEF fail
<1>2. ASSUME NEW a, failApp(e, a, t, js, ok)
      PROVE  StatusSteps
  <2> DEFINE n == [t.entry[a] EXCEPT !.ended = t.entry[a].started,
                                     !.phase = "Failed"]
             r == setEntry(unmarkQuiesced(t, {a}), a, n)
  <2>1. Annotated(t, unmarkQuiesced(t, {a}))
    BY Edits DEF Edited
  <2>2. Annotated(unmarkQuiesced(t, {a}), r)
    BY <2>1, Edits DEF Annotated, Edited
  <2>3. Edited(status[e], r)
    BY <2>1, <2>2, EditsCompose DEF Annotated
  <2>4. fail(e, r, js, ok)
    BY <1>2 DEF failApp
  <2> HIDE DEF r
  <2> QED
    BY <1>1, <2>3, <2>4
<1> QED
  BY <1>1, <1>2

\* Every pass that captures belongs to an export that holds the tenant.
LEMMA Guards ==
    ASSUME NEW e \in Exports
    PROVE  /\ Holds(e) => Running(e) /\ Exists(e) /\ ~blockedByAnotherExport(e)
           /\ Captures(e) => Holds(e)
           /\ \A a : AtInstalled(e, a) \/ At(e, a) => Captures(e)
BY DEF Holds, Running, Exists, Captures, AtInstalled, At

\* The passes that come before a capture, or after it.
LEMMA EarlySteps ==
    ASSUME TypeOK, NEW e \in Exports, NEW ok,
           \/ ResumeEnded(e, ok) \/ FinalizeResume(e, ok)
           \/ FailNoTenant(e, ok) \/ Busy(e, ok) \/ AssignBundle(e, ok)
           \/ FailNoSecret(e, ok) \/ resumeStale(e, ok)
    PROVE  StatusSteps
<1>1. Shape(status[e]) /\ Edited(status[e], status[e])
  BY StatusShape DEF Edited
<1>2. CASE ResumeEnded(e, ok) \/ FinalizeResume(e, ok)
  BY <1>1, <1>2, Edits, AnnotatingStep
     DEF ResumeEnded, FinalizeResume, resumeAll
<1>3. CASE resumeStale(e, ok)
  BY <1>1, <1>3, Edits, AnnotatingStep DEF resumeStale
<1>4. CASE FailNoTenant(e, ok) \/ FailNoSecret(e, ok)
  BY <1>1, <1>4, Guards, FailSteps DEF FailNoTenant, FailNoSecret
<1>5. CASE Busy(e, ok)
  BY <1>1, <1>5, Edits, RunningStep DEF Busy
<1>6. CASE AssignBundle(e, ok)
  <2>1. CASE fail(e, status[e], job[e], ok)
    BY <1>1, <1>6, <2>1, Guards, FailSteps DEF AssignBundle
  <2>2. CASE UNCHANGED status
    BY <2>2, NoStatusStep
  <2>3. CASE status' = [status EXCEPT ![e] =
                 [status[e] EXCEPT !.bundle = TRUE, !.phase = "Running"]]
    <3>1. status'[e].bundle = TRUE
          /\ \A f \in Exports \ {e} : status'[f] = status[f]
      BY <2>3 DEF TypeOK, Statuses
    <3>2. ~IsTerminal(status[e]) /\ Exists(e) /\ ~blockedByAnotherExport(e)
      BY <1>6, Guards DEF AssignBundle, Running
    <3> QED
      BY <3>1, <3>2 DEF StatusSteps, StatusStep, Evolves
  <2> QED
    BY <1>6, <2>1, <2>2, <2>3 DEF AssignBundle, persist
<1> QED
  BY <1>2, <1>3, <1>4, <1>5, <1>6

\* The passes of captureApp and of captureRetained.
LEMMA CaptureSteps ==
    ASSUME TypeOK, NEW e \in Exports, NEW a \in Apps, NEW ok,
           \/ PauseApp(e, a, ok) \/ CaptureWaits(e, a, ok)
           \/ CaptureCannot(e, a, ok) \/ CaptureDone(e, a, ok)
           \/ CaptureRetained(e, a, ok)
    PROVE  StatusSteps
<1> DEFINE s == status[e]
<1>1. Shape(s) /\ Edited(s, s)
  BY StatusShape DEF Edited
<1>2. Running(e)
  BY Guards DEF PauseApp, CaptureWaits, CaptureCannot, CaptureDone,
                CaptureRetained
<1>3. ASSUME NEW n
      PROVE  /\ Edited(s, setEntry(s, a, n))
             /\ Edited(s, setEntry(markQuiesced(s, a), a, n))
             /\ Edited(s, setEntry(unmarkQuiesced(s, {a}), a, n))
  <2>1. /\ Annotated(s, markQuiesced(s, a))
        /\ Annotated(s, unmarkQuiesced(s, {a}))
        /\ Annotated(s, setEntry(s, a, n))
    BY <1>1, Edits
  <2>2. /\ Annotated(markQuiesced(s, a), setEntry(markQuiesced(s, a), a, n))
        /\ Annotated(unmarkQuiesced(s, {a}),
                     setEntry(unmarkQuiesced(s, {a}), a, n))
    BY <2>1, Edits DEF Annotated, Edited
  <2> QED
    BY <2>1, <2>2, EditsCompose DEF Annotated
<1>4. \/ \E js : failApp(e, a, s, js, ok)
      \/ \E n, js : failApp(e, a, setEntry(s, a, n), js, ok)
      \/ \E n, js : fail(e, setEntry(s, a, n), js, ok)
      \/ \E n : persist(e, setEntry(s, a, n), ok)
      \/ \E n : persist(e, setEntry(markQuiesced(s, a), a, n), ok)
      \/ \E n : persist(e, setEntry(unmarkQuiesced(s, {a}), a, n), ok)
  <2>1. CASE PauseApp(e, a, ok)
    BY <2>1 DEF PauseApp
  <2>2. CASE CaptureWaits(e, a, ok)
    BY <2>2 DEF CaptureWaits
  <2>3. CASE CaptureCannot(e, a, ok)
    BY <2>3 DEF CaptureCannot
  <2>4. CASE CaptureDone(e, a, ok)
    BY <2>4 DEF CaptureDone
  <2>5. CASE CaptureRetained(e, a, ok)
    BY <2>5 DEF CaptureRetained
  <2> QED
    BY <2>1, <2>2, <2>3, <2>4, <2>5
<1> HIDE DEF s
<1> QED
  BY <1>1, <1>2, <1>3, <1>4, FailSteps, RunningStep DEF s

\* The passes over what is the tenant's own.
LEMMA LateSteps ==
    ASSUME TypeOK, NEW e \in Exports, NEW ok,
           CaptureTenantWide(e, ok) \/ Complete(e, ok)
    PROVE  StatusSteps
<1> DEFINE s == status[e]
<1>1. Shape(s)
  BY StatusShape
<1>2. Running(e)
  BY Guards DEF CaptureTenantWide, Complete
<1>3. ASSUME NEW n
      PROVE  /\ Edited(s, setEntry(s, TenantWide, n))
             /\ Edited(s, setPhase(setEntry(s, TenantWide, n), "Ready"))
  <2>1. Edited(s, setEntry(s, TenantWide, n))
    BY <1>1, Edits DEF Annotated
  <2>2. Edited(setEntry(s, TenantWide, n),
               setPhase(setEntry(s, TenantWide, n), "Ready"))
    BY <2>1, Edits DEF Edited
  <2> QED
    BY <2>1, <2>2, EditsCompose
<1>4. \/ \E n, js : tenantWideExhausted(e, n, js, ok)
      \/ \E n : persist(e, setPhase(setEntry(s, TenantWide, n), "Ready"), ok)
  BY DEF CaptureTenantWide, Complete
<1>5. ASSUME NEW n, NEW js, tenantWideExhausted(e, n, js, ok)
      PROVE  \/ \E m : fail(e, setEntry(s, TenantWide, m), js, ok)
             \/ persist(e, setEntry(s, TenantWide, n), ok)
  BY <1>5 DEF tenantWideExhausted
<1> QED
  BY <1>2, <1>3, <1>4, <1>5, FailSteps, RunningStep

\* Every step changes statuses in these ways.
LEMMA StatusNext ==
    ASSUME TypeOK, [Next]_vars
    PROVE  StatusSteps
<1>1. ASSUME NEW e \in Exports, NEW ok, Reconcile(e, ok)
      PROVE  StatusSteps
  BY <1>1, EarlySteps, CaptureSteps, LateSteps DEF Reconcile
<1>2. ASSUME NEW e \in Exports, ReconcileQuietly(e)
      PROVE  UNCHANGED status
  BY <1>2 DEF ReconcileQuietly, AddFinalizer, TidyEnded, Finalize
<1>3. ASSUME Environment PROVE UNCHANGED status
  <2>1. ASSUME NEW e \in Exports,
               \/ CreateExport(e) \/ DeleteExport(e) \/ SourceLost(e)
               \/ CleanupEnds(e)
        PROVE  UNCHANGED status
    BY <2>1 DEF CreateExport, DeleteExport, SourceLost, CleanupEnds
  <2>2. ASSUME NEW e \in Exports, NEW x \in Slots, NEW u \in AllUnits,
               \/ JobCompletes(e, x, u) \/ JobFails(e, x, u)
               \/ JobCollected(e, x, u) \/ ForeignJob(e, x, u)
               \/ OrphanEnds(e, x, u)
        PROVE  UNCHANGED status
    BY <2>2 DEF JobCompletes, JobFails, JobCollected, ForeignJob,
                OrphanEnds, Others
  <2>3. ASSUME NEW a \in Apps, AppChanges(a) PROVE UNCHANGED status
    BY <2>3 DEF AppChanges
  <2>4. ASSUME TearDown PROVE UNCHANGED status
    BY <2>4 DEF TearDown
  <2> QED
    BY <1>3, <2>1, <2>2, <2>3, <2>4 DEF Environment
<1>4. ASSUME UNCHANGED vars PROVE UNCHANGED status
  BY <1>4 DEF vars
<1> QED
  BY <1>1, <1>2, <1>3, <1>4, NoStatusStep DEF Next

\* An export that is Ready or Failed stays so, whatever happens to it and
\* around it, and an assigned bundle keeps its address: no lost write, retry
\* or deletion takes either back.
THEOREM EndStays == Spec => EndIsFinal
<1>1. TypeOK /\ [Next]_vars =>
          [\A e \in Exports :
              /\ IsTerminal(status[e]) => status'[e].phase = status[e].phase
              /\ status[e].bundle => status'[e].bundle]_vars
  BY StatusNext DEF StatusSteps, StatusStep, Evolves
<1> QED
  BY <1>1, TypeCorrect, PTL DEF Spec, EndIsFinal

----------------------------------------------------------------------------
(* One export at a time. *)

\* No two exports are created in the same second.
DistinctStamps == \A e, f \in Exports : Stamp[e] = Stamp[f] => e = f

\* An export that is not there yet has no bundle.
AbsentIsNew == \A e \in Exports : obj[e] = "absent" => ~status[e].bundle
\* Whoever holds the tenant is the oldest of the exports that have not ended.
HolderIsOldest ==
    \A e, f \in Exports :
        Holding(f) /\ Older(e, f) /\ Exists(e) => IsTerminal(status[e])
ExclusionInv == AbsentIsNew /\ HolderIsOldest

\* Objects are made in the order of their stamps and never come back.
LEMMA ObjectSteps ==
    ASSUME TypeOK, [Next]_vars, NEW e \in Exports
    PROVE  /\ Exists(e)' => \/ Exists(e)
                            \/ /\ obj[e] = "absent"
                               /\ \A f \in Exports :
                                      obj[f] # "absent" => Stamp[f] <= Stamp[e]
           /\ obj'[e] = "absent" => obj[e] = "absent"
<1> DEFINE Goal == /\ Exists(e)' => \/ Exists(e)
                                    \/ /\ obj[e] = "absent"
                                       /\ \A f \in Exports :
                                              obj[f] # "absent" => Stamp[f] <= Stamp[e]
                   /\ obj'[e] = "absent" => obj[e] = "absent"
<1>1. ASSUME UNCHANGED obj PROVE Goal
  BY <1>1 DEF Exists
<1>2. ASSUME NEW c \in Exports, NEW ok, Reconcile(c, ok)
      PROVE  UNCHANGED obj
  BY <1>2 DEF Reconcile, ResumeEnded, FinalizeResume, FailNoTenant, Busy,
     AssignBundle, FailNoSecret, resumeStale, PauseApp, CaptureWaits,
     CaptureCannot, CaptureDone, CaptureRetained, CaptureTenantWide, Complete
<1>3. ASSUME NEW c \in Exports, ReconcileQuietly(c) PROVE Goal
  <2>1. CASE AddFinalizer(c) \/ TidyEnded(c)
    BY <1>1, <2>1 DEF AddFinalizer, TidyEnded
  <2>2. CASE Finalize(c)
    <3>1. /\ obj' = obj \/ obj' = [obj EXCEPT ![c] = "gone"]
      BY <2>2 DEF Finalize
    <3> QED
      BY <1>1, <3>1 DEF Exists, TypeOK
  <2> QED
    BY <1>3, <2>1, <2>2 DEF ReconcileQuietly
<1>4. ASSUME Environment PROVE Goal
  <2>1. ASSUME NEW c \in Exports, CreateExport(c) PROVE Goal
    BY <2>1 DEF CreateExport, Exists, TypeOK
  <2>2. ASSUME NEW c \in Exports, DeleteExport(c) PROVE Goal
    BY <2>2 DEF DeleteExport, Exists, TypeOK
  <2>3. ASSUME NEW c \in Exports, SourceLost(c) \/ CleanupEnds(c)
        PROVE  UNCHANGED obj
    BY <2>3 DEF SourceLost, CleanupEnds
  <2>4. ASSUME NEW c \in Exports, NEW x \in Slots, NEW u \in AllUnits,
               \/ JobCompletes(c, x, u) \/ JobFails(c, x, u)
               \/ JobCollected(c, x, u) \/ ForeignJob(c, x, u)
               \/ OrphanEnds(c, x, u)
        PROVE  UNCHANGED obj
    BY <2>4 DEF JobCompletes, JobFails, JobCollected, ForeignJob, OrphanEnds
  <2>5. ASSUME NEW a \in Apps, AppChanges(a) PROVE UNCHANGED obj
    BY <2>5 DEF AppChanges
  <2>6. ASSUME TearDown PROVE UNCHANGED obj
    BY <2>6 DEF TearDown
  <2> HIDE DEF Goal
  <2> QED
    BY <1>1, <1>4, <2>1, <2>2, <2>3, <2>4, <2>5, <2>6 DEF Environment
<1>5. ASSUME UNCHANGED vars PROVE UNCHANGED obj
  BY <1>5 DEF vars
<1> HIDE DEF Goal
<1>6. Goal
  BY <1>1, <1>2, <1>3, <1>4, <1>5 DEF Next
<1> QED
  BY <1>6 DEF Goal

\* With stamps apart, an export that comes later is not an older one.
LEMMA LaterIsNotOlder ==
    ASSUME DistinctStamps, NEW e \in Exports, NEW f \in Exports, e # f,
           Stamp[f] <= Stamp[e]
    PROVE  ~Older(e, f)
<1>1. Stamp[e] \in Nat /\ Stamp[f] \in Nat
  BY OrderAssumption
<1> QED
  BY <1>1 DEF Older, DistinctStamps

\* Nobody is older than itself, and of two exports one is the older.
LEMMA OlderIsTotal ==
    ASSUME NEW e \in Exports, NEW f \in Exports
    PROVE  /\ ~Older(e, e)
           /\ e # f => Older(e, f) \/ Older(f, e)
<1>1. /\ Stamp[e] \in Nat /\ Stamp[f] \in Nat
      /\ NameRank[e] \in Nat /\ NameRank[f] \in Nat
      /\ NameRank[e] = NameRank[f] => e = f
  BY OrderAssumption
<1> QED
  BY <1>1 DEF Older

\* Every step keeps the holder the oldest.
LEMMA ExclusionStep ==
    ASSUME DistinctStamps, TypeOK, ExclusionInv, [Next]_vars
    PROVE  ExclusionInv'
<1>1. \A e \in Exports : StatusStep(e)
  BY StatusNext DEF StatusSteps
<1>2. AbsentIsNew'
  BY <1>1, ObjectSteps DEF ExclusionInv, AbsentIsNew, StatusStep, Exists
<1>3. ASSUME NEW e \in Exports, NEW f \in Exports,
             Holding(f)', Older(e, f), Exists(e)'
      PROVE  IsTerminal(status'[e])
  <2>1. /\ Exists(f)' /\ status'[f].bundle /\ ~IsTerminal(status'[f])
    BY <1>3 DEF Holding
  <2>2. ~IsTerminal(status[f])
    BY <1>1, <2>1 DEF StatusStep, Evolves, IsTerminal
  <2>3. e # f
    BY <1>3, OlderIsTotal
  <2>4. Exists(f) /\ (status[f].bundle \/ ~blockedByAnotherExport(f))
    <3>1. CASE status[f].bundle
      BY <2>1, <3>1, ObjectSteps DEF ExclusionInv, AbsentIsNew
    <3>2. CASE ~status[f].bundle
      BY <1>1, <2>1, <3>2 DEF StatusStep
    <3> QED
      BY <3>1, <3>2
  <2>5. Exists(e)
    <3>1. obj[f] # "absent"
      BY <2>4 DEF Exists
    <3> QED
      BY <1>3, <2>3, <3>1, ObjectSteps, LaterIsNotOlder
  <2>6. IsTerminal(status[e])
    BY <1>3, <2>2, <2>3, <2>4, <2>5
       DEF ExclusionInv, HolderIsOldest, Holding, blockedByAnotherExport
  <2> QED
    BY <1>1, <2>6 DEF StatusStep, Evolves, IsTerminal
<1>4. HolderIsOldest'
  BY <1>3 DEF HolderIsOldest, Older
<1> QED
  BY <1>2, <1>4 DEF ExclusionInv

\* blockedByAnotherExport serialises the exports of a tenant, through lost
\* writes, deletions and failures, as long as no two of them carry the same
\* creation second: of two that do, the one with the earlier name overtakes
\* the other.
THEOREM Exclusion ==
    ASSUME DistinctStamps
    PROVE  Spec => []OneExportAtATime
<1>1. Init => ExclusionInv
  <2>1. Init => \A e \in Exports : obj[e] = "absent"
    BY DEF Init
  <2>2. Init => \A e \in Exports : ~status[e].bundle
    <3>1. NewStatus.bundle = FALSE
      BY DEF NewStatus
    <3>2. Init => \A e \in Exports : status[e] = NewStatus
      BY DEF Init
    <3> QED
      BY <3>1, <3>2
  <2> QED
    BY <2>1, <2>2 DEF ExclusionInv, AbsentIsNew, HolderIsOldest, Exists
<1>2. TypeOK /\ ExclusionInv /\ [Next]_vars => ExclusionInv'
  BY ExclusionStep
<1>3. ExclusionInv => OneExportAtATime
  BY OlderIsTotal DEF ExclusionInv, HolderIsOldest, OneExportAtATime, Holding
<1> QED
  BY <1>1, <1>2, <1>3, TypeCorrect, PTL DEF Spec
=============================================================================
