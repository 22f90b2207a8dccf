------------------------- MODULE TenantRestoreProofs -------------------------
(***************************************************************************)
(* Theorems about TenantRestore, for every set of restores, apps and units *)
(* and whichever faults happen; where a fault is excluded, a named         *)
(* hypothesis of the theorem says so.                                      *)
(***************************************************************************)
(* The first part is type correctness and the order of the restores.  The  *)
(* second gives every step one of a few forms (Stepped), and then goes     *)
(* from invariant to invariant: which restore holds the tenant (HoldInv),  *)
(* secrets (SecretsInv), data (DataInv), workloads (MemoInv), pauses       *)
(* (PauseInv) and what serves (ServeInv).                                  *)
(***************************************************************************)
EXTENDS TenantRestore, FiniteSetTheorems, WellFoundedInduction, TLAPS

JobsOfRun == [Slots -> [Units -> JobStates]]
Keys == {"none", "loose", "owned", "gone"}

\* TypeOK in the two parts that steps change: the restores with what they
\* work on, and the edge.
CoreOK ==
    /\ obj \in [Restores -> {"absent", "live", "deleting", "gone"}]
    /\ finalizer \subseteq Restores
    /\ status \in [Restores -> Statuses]
    /\ job \in [Restores -> JobsOfRun]
    /\ orphan \subseteq Restores \X Slots \X Units
    /\ key \in [Restores -> Keys]
    /\ staged \subseteq Restores
    /\ bundles \subseteq Bundles
    /\ data \in [Slots -> [Units -> Contents]]
    /\ vault \in [Apps -> Bundles \cup {"old"}]
    /\ handed \in [Apps -> Bundles \cup {"old"}]
    /\ work \in [Apps -> WorkTypes]
    /\ pods \in [Apps -> PodStates]
    /\ installed \subseteq Apps
    /\ exporting \in BOOLEAN
EdgeOK ==
    /\ route \in [Apps -> Edge!RouteStates]
    /\ pass \in [Apps -> Edge!Passes]
    /\ queue \subseteq Apps

LEMMA TypeParts == TypeOK <=> CoreOK /\ EdgeOK
BY DEF TypeOK, CoreOK, EdgeOK, JobsOfRun, Keys

----------------------------------------------------------------------------
(* Types of the operators the actions are built from. *)

\* Every non-empty set of naturals has a least element.
LEMMA LeastOf ==
    ASSUME NEW T, T \subseteq Nat, T # {}
    PROVE  \E m \in T : \A n \in T : m <= n
  <1> DEFINE R == OpToRel(<, Nat)
  <1>1. IsWellFoundedOn(R, Nat)
    BY NatLessThanWellFounded
  <1>2. PICK m \in T : \A n \in T : <<n, m>> \notin R
    <2> HIDE DEF R
    <2> QED
      BY <1>1, WFMin
  <1>3. \A n \in T : ~(n < m)
    BY <1>2 DEF OpToRel
  <1> HIDE DEF R
  <1> QED
    BY <1>3

\* The first of some apps is one of them, and none comes before it.
LEMMA FirstIsIn ==
    ASSUME NEW S, S \subseteq Apps, S # {}
    PROVE  First(S) \in S /\ \A b \in S : AppRank[First(S)] <= AppRank[b]
  <1>1. {AppRank[a] : a \in S} \subseteq Nat /\ {AppRank[a] : a \in S} # {}
    BY RestoreOrder
  <1>2. PICK m \in {AppRank[a] : a \in S} :
            \A n \in {AppRank[a] : a \in S} : m <= n
    BY <1>1, LeastOf
  <1>3. \E a \in S : \A b \in S : AppRank[a] <= AppRank[b]
    BY <1>2
  <1> QED
    BY <1>3 DEF First

\* Replacing one entry of a status leaves a status.
LEMMA SetEntryType ==
    ASSUME NEW s \in Statuses, NEW x \in Slots, NEW n \in Entries
    PROVE  setEntry(s, x, n) \in Statuses
BY DEF setEntry, Statuses

\* Marking an app paused, and unmarking apps, leaves a status.
LEMMA QuiescedType ==
    ASSUME NEW s \in Statuses
    PROVE  /\ \A a \in Apps : markQuiesced(s, a) \in Statuses
           /\ \A Q : unmarkQuiesced(s, Q) \in Statuses
BY DEF markQuiesced, unmarkQuiesced, Statuses

\* A pass over the units of a slot leaves an entry: the units that did not
\* succeed can be counted.
LEMMA EnsureEntryType ==
    ASSUME NEW en \in Entries, NEW j
    PROVE  ensureEntry(en, j, Units) \in Entries
  <1>1. IsFiniteSet(Unsuccessful(en, j, Units))
    BY RestoreConfig, FS_Subset DEF Unsuccessful
  <1>2. Cardinality(Unsuccessful(en, j, Units)) \in Nat
    BY <1>1, FS_CardinalityType
  <1>3. en.done \cup {u \in Units : j[u] = "complete"} \in SUBSET Units
    BY DEF Entries
  <1>4. en.attempts + Cardinality(Unsuccessful(en, j, Units)) \in Nat
    <2>1. en.attempts \in Nat
      BY DEF Entries
    <2>2. \A m, n \in Nat : m + n \in Nat
      OBVIOUS
    <2> QED
      BY <1>2, <2>1, <2>2
  <1> QED
    BY <1>3, <1>4 DEF ensureEntry, Entries

\* ... and Jobs.
LEMMA EnsureJobsType ==
    ASSUME NEW js \in JobsOfRun, NEW x \in Slots, NEW en
    PROVE  [js EXCEPT ![x] = ensureJobs(en, @, Units)] \in JobsOfRun
  <1>1. ensureJobs(en, js[x], Units) \in [Units -> JobStates]
    BY DEF ensureJobs, JobStates, JobsOfRun
  <1> QED
    BY <1>1 DEF JobsOfRun

\* Stopping and deleting the Jobs of a restore leaves Jobs, and pods of it.
LEMMA StopJobsType ==
    ASSUME CoreOK, NEW r \in Restores, NEW js \in JobsOfRun
    PROVE  /\ stopRunningRestoreJobs(js) \in JobsOfRun
           /\ deleteRestoreJobs(js) \in JobsOfRun
           /\ Orphaned(r, js) \subseteq Restores \X Slots \X Units
  <1>1. stopRunningRestoreJobs(js) \in JobsOfRun
    BY DEF stopRunningRestoreJobs, JobsOfRun, JobStates
  <1>2. deleteRestoreJobs(js) \in JobsOfRun
    BY DEF deleteRestoreJobs, JobsOfRun, JobStates
  <1>3. {t \in {r} \X Slots \X Units : js[t[2]][t[3]] = "running"}
            \subseteq Restores \X Slots \X Units
    OBVIOUS
  <1> QED
    BY <1>1, <1>2, <1>3 DEF Orphaned, CoreOK

\* Pausing and resuming leaves a workload, and the pods of one.
LEMMA WorkType ==
    ASSUME NEW a \in Apps, NEW w \in WorkTypes, NEW hook, NEW mode
    PROVE  /\ Fresh(a) \in WorkTypes
           /\ quiesceApp(a, w, hook) \in WorkTypes
           /\ unquiesceApp(w, mode, hook) \in WorkTypes
           /\ quiesceMode(a, hook) \in Modes
  <1>1. Fresh(a) \in WorkTypes
    BY RestoreConfig DEF Fresh, WorkTypes, NoMemo
  <1>2. \A v \in WorkTypes : ScaleToZero(v) \in WorkTypes
                             /\ ScaleBack(v) \in WorkTypes
    BY DEF ScaleToZero, ScaleBack, WorkTypes
  <1>3. [w EXCEPT !.maint = @ \/ (QuiesceMode[a] = "command"
                                    /\ hook \in {"ok", "late"})] \in WorkTypes
    BY DEF WorkTypes
  <1>4. quiesceApp(a, w, hook) \in WorkTypes
    BY <1>2, <1>3 DEF quiesceApp
  <1>5. [w EXCEPT !.maint = FALSE] \in WorkTypes
    BY DEF WorkTypes
  <1>6. quiesceMode(a, hook) \in Modes
    BY DEF quiesceMode, Modes
  <1> QED
    BY <1>1, <1>2, <1>4, <1>5, <1>6 DEF unquiesceApp

LEMMA PodsType ==
    ASSUME NEW w, NEW p \in PodStates
    PROVE  podsOf(w, p) \in PodStates /\ Overtaken(p) \in PodStates
BY DEF podsOf, Overtaken, PodStates

\* Workloads and pods keep their types.
AppTypes == work' \in [Apps -> WorkTypes] /\ pods' \in [Apps -> PodStates]

LEMMA SetWorkType ==
    ASSUME CoreOK, NEW W \in [Apps -> WorkTypes], setWork(W)
    PROVE  AppTypes
BY PodsType DEF setWork, AppTypes, CoreOK

\* What is known of a restore's parts when every variable has its type.
LEMMA PartTypes ==
    ASSUME CoreOK, NEW r \in Restores
    PROVE  /\ status[r] \in Statuses
           /\ job[r] \in JobsOfRun
           /\ \A x \in Slots : status[r].entry[x] \in Entries
           /\ \A a \in Apps : /\ work[a] \in WorkTypes /\ a \in Slots
                              /\ pods[a] \in PodStates
           /\ TenantWide \in Slots
           /\ Bundle[r] \in Bundles
  <1>1. status[r] \in Statuses /\ job[r] \in JobsOfRun
    BY DEF CoreOK
  <1>2. \A x \in Slots : status[r].entry[x] \in Entries
    BY <1>1 DEF Statuses
  <1> QED
    BY <1>1, <1>2, RestoreConfig DEF CoreOK, Slots

\* The entries a pass can leave.
LEMMA EntryUpdates ==
    ASSUME NEW n \in Entries
    PROVE  /\ [n EXCEPT !.attempts = @ + 1] \in Entries
           /\ \A ph \in Phases : [n EXCEPT !.phase = ph] \in Entries
           /\ [n EXCEPT !.phase = "Running", !.secrets = "delivered"] \in Entries
           /\ [n EXCEPT !.ended = TRUE] \in Entries
           /\ [n EXCEPT !.ended = TRUE, !.rollout = TRUE] \in Entries
           /\ [n EXCEPT !.ended = @ \/ n.started, !.phase = "Failed"] \in Entries
           /\ \A b \in BOOLEAN :
                 [n EXCEPT !.secrets = "planned", !.replaced = b] \in Entries
           /\ \A z \in {"applied", "delivered"} :
                 [n EXCEPT !.secrets = z] \in Entries
           /\ \A m \in Modes :
                 [n EXCEPT !.started = TRUE, !.mode = m, !.phase = "Running"]
                     \in Entries
  <1>1. n.attempts + 1 \in Nat
    <2>1. n.attempts \in Nat
      BY DEF Entries
    <2> QED
      BY <2>1
  <1>2. [n EXCEPT !.attempts = @ + 1] \in Entries
    BY <1>1 DEF Entries
  <1>3. (n.ended \/ n.started) \in BOOLEAN
    BY DEF Entries
  <1>4. [n EXCEPT !.ended = @ \/ n.started, !.phase = "Failed"] \in Entries
    BY <1>3 DEF Entries, Phases
  <1>5. /\ [n EXCEPT !.phase = "Running", !.secrets = "delivered"] \in Entries
        /\ [n EXCEPT !.ended = TRUE] \in Entries
        /\ [n EXCEPT !.ended = TRUE, !.rollout = TRUE] \in Entries
    BY DEF Entries, Phases
  <1>6. \A ph \in Phases : [n EXCEPT !.phase = ph] \in Entries
    BY DEF Entries
  <1>7. \A b \in BOOLEAN :
            [n EXCEPT !.secrets = "planned", !.replaced = b] \in Entries
    BY DEF Entries
  <1>8. \A z \in {"applied", "delivered"} : [n EXCEPT !.secrets = z] \in Entries
    BY DEF Entries
  <1>9. \A m \in Modes :
            [n EXCEPT !.started = TRUE, !.mode = m, !.phase = "Running"] \in Entries
    BY DEF Entries, Phases
  <1> QED
    BY <1>2, <1>4, <1>5, <1>6, <1>7, <1>8, <1>9

----------------------------------------------------------------------------
(* What a pass writes of its own restore. *)

\* The variables a pass changes of its own restore keep their types.
PassTypes ==
    /\ status' \in [Restores -> Statuses]
    /\ job' \in [Restores -> JobsOfRun]
    /\ orphan' \subseteq Restores \X Slots \X Units
    /\ key' \in [Restores -> Keys]
    /\ staged' \subseteq Restores

\* A write of the status, landed or lost, leaves statuses.
LEMMA PersistType ==
    ASSUME CoreOK, NEW r \in Restores, NEW s \in Statuses, NEW ok,
           persist(r, s, ok)
    PROVE  status' \in [Restores -> Statuses]
BY DEF CoreOK, persist

LEMMA DiscardType ==
    ASSUME CoreOK, NEW r \in Restores, discardStagedRestoreSecrets(r)
    PROVE  key' \in [Restores -> Keys] /\ staged' \subseteq Restores
BY DEF CoreOK, discardStagedRestoreSecrets, discardKey, Keys

\* A pass that writes a status, stages the key and leaves the Jobs.
LEMMA WriteTypes ==
    ASSUME CoreOK, NEW r \in Restores, NEW s \in Statuses, NEW ok,
           persist(r, s, ok), stageDecryptionSecret(r) \/ UNCHANGED <<key, staged>>,
           UNCHANGED orphan,
           UNCHANGED job \/ \E k \in JobsOfRun : job' = [job EXCEPT ![r] = k]
    PROVE  PassTypes
  <1>1. status' \in [Restores -> Statuses]
    BY PersistType
  <1>2. key' \in [Restores -> Keys] /\ staged' \subseteq Restores
    BY DEF CoreOK, stageDecryptionSecret
  <1>3. job' \in [Restores -> JobsOfRun]
    BY DEF CoreOK
  <1> QED
    BY <1>1, <1>2, <1>3 DEF CoreOK, PassTypes

\* fail keeps types, whatever status it is given.
LEMMA FailTypes ==
    ASSUME CoreOK, NEW r \in Restores, NEW s \in Statuses,
           NEW js \in JobsOfRun, NEW ok, fail(r, s, js, ok)
    PROVE  PassTypes
  <1>1. failed(s) \in Statuses
    BY DEF failed, Statuses, Phases
  <1>2. status' \in [Restores -> Statuses]
    BY <1>1, PersistType DEF fail
  <1>3. job' \in [Restores -> JobsOfRun]
    BY StopJobsType DEF fail, CoreOK
  <1>4. orphan' \subseteq Restores \X Slots \X Units
    BY StopJobsType DEF fail, CoreOK
  <1>5. key' \in [Restores -> Keys] /\ staged' \subseteq Restores
    BY DiscardType DEF fail, CoreOK
  <1> QED
    BY <1>2, <1>3, <1>4, <1>5 DEF PassTypes

\* failApp keeps types and leaves workloads.
LEMMA FailAppTypes ==
    ASSUME CoreOK, NEW r \in Restores, NEW a \in Apps, NEW s \in Statuses,
           NEW js \in JobsOfRun, NEW ok, failApp(r, a, s, js, ok)
    PROVE  PassTypes /\ AppTypes
  <1> DEFINE n == [s.entry[a] EXCEPT !.ended = @ \/ s.entry[a].started,
                                     !.phase = "Failed"]
  <1>1. s.entry[a] \in Entries /\ a \in Slots
    BY DEF Statuses, Slots
  <1>2. n \in Entries
    BY <1>1, EntryUpdates
  <1>3. fail(r, setEntry(unmarkQuiesced(s, {a}), a, n), js, ok)
    BY DEF failApp
  <1> HIDE DEF n
  <1>4. setEntry(unmarkQuiesced(s, {a}), a, n) \in Statuses
    BY <1>1, <1>2, QuiescedType, SetEntryType
  <1>5. PassTypes
    BY <1>3, <1>4, FailTypes
  <1>6. PICK hook \in PostHook(work[a]) :
            setWork([work EXCEPT ![a] = unquiesceApp(work[a], s.entry[a].mode, hook)])
    BY DEF failApp
  <1>7. unquiesceApp(work[a], s.entry[a].mode, hook) \in WorkTypes
    BY PartTypes, WorkType
  <1>8. [work EXCEPT ![a] = unquiesceApp(work[a], s.entry[a].mode, hook)]
            \in [Apps -> WorkTypes]
    BY <1>7 DEF CoreOK
  <1> QED
    BY <1>5, <1>6, <1>8, SetWorkType

\* Resuming a set of apps leaves workloads, pods and a status.
LEMMA ResumeTypes ==
    ASSUME CoreOK, NEW r \in Restores, NEW Q, NEW ok, resume(r, Q, ok)
    PROVE  status' \in [Restores -> Statuses] /\ AppTypes
  <1>1. status' \in [Restores -> Statuses]
    <2>1. unmarkQuiesced(status[r], Q) \in Statuses
      BY PartTypes, QuiescedType
    <2> QED
      BY <2>1, PersistType DEF resume
  <1>2. PICK hook \in [Q -> {"ok", "error"}] :
            setWork([a \in Apps |->
                IF a \in Q
                THEN unquiesceApp(work[a], status[r].entry[a].mode, hook[a])
                ELSE work[a]])
    BY DEF resume
  <1>3. \A a \in Apps : unquiesceApp(work[a], status[r].entry[a].mode, hook[a])
                            \in WorkTypes
    BY PartTypes, WorkType
  <1>4. [a \in Apps |->
            IF a \in Q
            THEN unquiesceApp(work[a], status[r].entry[a].mode, hook[a])
            ELSE work[a]] \in [Apps -> WorkTypes]
    BY <1>3 DEF CoreOK
  <1>5. AppTypes
    BY <1>2, <1>4, SetWorkType
  <1> QED
    BY <1>1, <1>5

\* Where a variable is left alone it keeps its type.
LEMMA UnchangedTypes ==
    ASSUME CoreOK
    PROVE  /\ UNCHANGED <<work, pods>> => AppTypes
           /\ UNCHANGED vault => vault' \in [Apps -> Bundles \cup {"old"}]
           /\ UNCHANGED job => job' \in [Restores -> JobsOfRun]
           /\ UNCHANGED orphan => orphan' \subseteq Restores \X Slots \X Units
           /\ UNCHANGED <<key, staged>> =>
                 key' \in [Restores -> Keys] /\ staged' \subseteq Restores
BY DEF CoreOK, AppTypes

\* A pass that leaves the objects and the stores alone keeps every type.
LEMMA PassSuffices ==
    ASSUME CoreOK, PassTypes, AppTypes,
           vault' \in [Apps -> Bundles \cup {"old"}],
           UNCHANGED <<obj, finalizer, bundles, data, handed, installed,
                       exporting>>
    PROVE  CoreOK'
BY DEF CoreOK, PassTypes, AppTypes

----------------------------------------------------------------------------
(* Type correctness: one lemma for each part of a pass. *)

\* The passes that write no status.
LEMMA QuietTypes ==
    ASSUME CoreOK, NEW r \in Restores, ReconcileQuietly(r)
    PROVE  CoreOK'
  <1>1. /\ stopRunningRestoreJobs(job[r]) \in JobsOfRun
        /\ deleteRestoreJobs(job[r]) \in JobsOfRun
        /\ Orphaned(r, job[r]) \subseteq Restores \X Slots \X Units
    BY PartTypes, StopJobsType
  <1>2. CASE AddFinalizer(r)
    BY <1>2 DEF AddFinalizer, appState, CoreOK
  <1>3. CASE TidyEnded(r)
    <2>1. key' \in [Restores -> Keys] /\ staged' \subseteq Restores
      BY <1>3, DiscardType DEF TidyEnded
    <2>2. job' \in [Restores -> JobsOfRun]
          /\ orphan' \subseteq Restores \X Slots \X Units
      BY <1>1, <1>3 DEF TidyEnded, CoreOK
    <2>3. bundles' \subseteq Bundles /\ finalizer' \subseteq Restores
      BY <1>3 DEF TidyEnded, removeImportedBundle, CoreOK
    <2> QED
      BY <1>3, <2>1, <2>2, <2>3 DEF TidyEnded, appState, CoreOK
  <1>4. CASE Finalize(r)
    <2>1. key' \in [Restores -> Keys] /\ staged' \subseteq Restores
      BY <1>4, DiscardType, UnchangedTypes DEF Finalize
    <2>2. job' \in [Restores -> JobsOfRun]
          /\ orphan' \subseteq Restores \X Slots \X Units
      BY <1>1, <1>4 DEF Finalize, CoreOK
    <2>3. /\ obj' \in [Restores -> {"absent", "live", "deleting", "gone"}]
          /\ finalizer' \subseteq Restores
      BY <1>4 DEF Finalize, CoreOK
    <2> QED
      BY <1>4, <2>1, <2>2, <2>3 DEF Finalize, appState, CoreOK
  <1> QED
    BY <1>2, <1>3, <1>4 DEF ReconcileQuietly

\* The plan is made of apps the bundle holds.
LEMMA PlanType ==
    ASSUME CoreOK, NEW r \in Restores, NEW O \in Omissions(r)
    PROVE  /\ Asked(r) \subseteq Apps /\ O \subseteq Asked(r)
           /\ recordPlan(r, O) \in Statuses
  <1>1. Asked(r) \subseteq Apps
    BY RestoreConfig DEF Asked
  <1>2. O \subseteq Asked(r)
    BY DEF Omissions, Unplannable
  <1>3. NewEntry \in Entries /\ [NewEntry EXCEPT !.retained = TRUE] \in Entries
    BY DEF NewEntry, Entries, Phases
  <1> DEFINE f == [x \in Slots |->
                      IF x \in Apps /\ x \in Asked(r) \ O /\ isRetained(x)
                      THEN [NewEntry EXCEPT !.retained = TRUE] ELSE NewEntry]
  <1>4. f \in [Slots -> Entries]
    BY <1>3
  <1>5. recordPlan(r, O) =
            [status[r] EXCEPT !.plan = Asked(r) \ O, !.omitted = O,
                              !.started = TRUE, !.phase = "Running", !.entry = f]
    BY DEF recordPlan
  <1> HIDE DEF f
  <1>6. status[r] \in Statuses
    BY PartTypes
  <1>7. recordPlan(r, O) \in Statuses
    <2>1. ASSUME NEW s \in Statuses, NEW P \in SUBSET Apps, NEW Q \in SUBSET Apps,
                 NEW g \in [Slots -> Entries]
          PROVE  [s EXCEPT !.plan = P, !.omitted = Q, !.started = TRUE,
                           !.phase = "Running", !.entry = g] \in Statuses
      BY DEF Statuses, Phases
    <2>2. Asked(r) \ O \in SUBSET Apps /\ O \in SUBSET Apps
      BY <1>1, <1>2
    <2>3. [status[r] EXCEPT !.plan = Asked(r) \ O, !.omitted = O,
                            !.started = TRUE, !.phase = "Running", !.entry = f]
              \in Statuses
      BY <1>4, <1>6, <2>1, <2>2, Zenon
    <2> QED
      BY <1>5, <2>3, Zenon
  <1> QED
    BY <1>1, <1>2, <1>7

\* The passes before an app is restored, and those that resume.
LEMMA EarlyTypes ==
    ASSUME CoreOK, NEW r \in Restores, NEW ok,
           \/ ResumeEnded(r, ok) \/ FinalizeResume(r, ok)
           \/ FailPreflight(r, ok) \/ Busy(r, ok) \/ FailUnusable(r, ok)
           \/ Plan(r, ok) \/ resumeStale(r, ok)
    PROVE  CoreOK'
  <1>1. status[r] \in Statuses /\ job[r] \in JobsOfRun
    BY PartTypes
  <1>2. CASE ResumeEnded(r, ok)
    BY <1>2, ResumeTypes, UnchangedTypes, PassSuffices
       DEF ResumeEnded, resumeAll, PassTypes
  <1>3. CASE FinalizeResume(r, ok)
    <2>1. key' \in [Restores -> Keys] /\ staged' \subseteq Restores
      BY <1>3, DiscardType, UnchangedTypes DEF FinalizeResume
    <2>2. job' \in [Restores -> JobsOfRun]
          /\ orphan' \subseteq Restores \X Slots \X Units
      BY <1>1, <1>3, StopJobsType DEF FinalizeResume, CoreOK
    <2>3. status' \in [Restores -> Statuses] /\ AppTypes
      BY <1>3, ResumeTypes DEF FinalizeResume, resumeAll
    <2> QED
      BY <1>3, <2>1, <2>2, <2>3, UnchangedTypes, PassSuffices
         DEF FinalizeResume, PassTypes, Steady
  <1>4. CASE FailPreflight(r, ok) \/ FailUnusable(r, ok)
    BY <1>1, <1>4, FailTypes, UnchangedTypes, PassSuffices
       DEF FailPreflight, FailUnusable, appState
  <1>5. CASE Busy(r, ok)
    <2>1. [status[r] EXCEPT !.phase = "Pending"] \in Statuses
      BY <1>1 DEF Statuses, Phases
    <2>2. PassTypes
      BY <1>5, <2>1, WriteTypes DEF Busy
    <2> QED
      BY <1>5, <2>2, UnchangedTypes, PassSuffices DEF Busy, appState
  <1>6. CASE Plan(r, ok)
    <2>1. PICK O \in Omissions(r) :
              \/ fail(r, status[r], job[r], ok)
              \/ /\ persist(r, recordPlan(r, O), ok)
                 /\ stageDecryptionSecret(r)
                 /\ UNCHANGED <<job, orphan>>
      BY <1>6 DEF Plan
    <2>2. PassTypes
      BY <1>1, <2>1, FailTypes, PlanType, WriteTypes
    <2> QED
      BY <1>6, <2>2, UnchangedTypes, PassSuffices DEF Plan, appState
  <1>7. CASE resumeStale(r, ok)
    <2>1. status' \in [Restores -> Statuses] /\ AppTypes
      BY <1>7, ResumeTypes DEF resumeStale
    <2>2. key' \in [Restores -> Keys] /\ staged' \subseteq Restores
      BY <1>7 DEF resumeStale, stageDecryptionSecret, CoreOK
    <2> QED
      BY <1>7, <2>1, <2>2, UnchangedTypes, PassSuffices
         DEF resumeStale, PassTypes
  <1> QED
    BY <1>2, <1>3, <1>4, <1>5, <1>6, <1>7

\* From the hold at the edge to the secrets.
LEMMA HoldTypes ==
    ASSUME CoreOK, NEW r \in Restores, NEW a \in Apps, NEW ok,
           \/ holdBack(r, a, ok) \/ PlanSecrets(r, a, ok)
           \/ ApplySecrets(r, a, ok) \/ AwaitSecrets(r, a, ok)
           \/ PodTimeout(r, a, ok) \/ awaitRollout(r, a, ok)
    PROVE  CoreOK'
  <1>1. /\ status[r] \in Statuses /\ job[r] \in JobsOfRun
        /\ Entry(r, a) \in Entries /\ a \in Slots
    BY PartTypes DEF Entry
  <1>2. CASE failApp(r, a, status[r], job[r], ok)
             /\ UNCHANGED <<Steady, data, vault, handed>>
    BY <1>1, <1>2, FailAppTypes, UnchangedTypes, PassSuffices DEF Steady
  <1>3. CASE \E s \in Statuses :
                 /\ persist(r, s, ok) /\ stageDecryptionSecret(r)
                 /\ UNCHANGED <<Steady, job, orphan, appState>>
    BY <1>3, WriteTypes, UnchangedTypes, PassSuffices DEF Steady, appState
  <1>4. CASE holdBack(r, a, ok)
    <2>1. [status[r] EXCEPT !.heldBack = @ \cup {a}] \in Statuses
      BY <1>1 DEF Statuses
    <2> QED
      BY <1>2, <1>3, <1>4, <2>1 DEF holdBack, appState
  <1>5. CASE PlanSecrets(r, a, ok)
    <2>1. appLacks(r, a) \in BOOLEAN
      BY DEF appLacks
    <2>2. [Entry(r, a) EXCEPT !.secrets = "planned", !.replaced = appLacks(r, a)]
              \in Entries
      BY <1>1, <2>1, EntryUpdates
    <2>3. setEntry(status[r], a,
              [Entry(r, a) EXCEPT !.secrets = "planned",
                                  !.replaced = appLacks(r, a)]) \in Statuses
      BY <1>1, <2>2, SetEntryType
    <2> QED
      BY <1>2, <1>3, <1>5, <2>3 DEF PlanSecrets, appState
  <1>6. CASE ApplySecrets(r, a, ok)
    <2> DEFINE z == IF Entry(r, a).secrets # "" /\ ~Entry(r, a).replaced
                    THEN "delivered" ELSE "applied"
    <2>1. [Entry(r, a) EXCEPT !.secrets = z] \in Entries
      BY <1>1, EntryUpdates
    <2>2. setEntry(status[r], a, [Entry(r, a) EXCEPT !.secrets = z]) \in Statuses
      BY <1>1, <2>1, SetEntryType
    <2>3. persist(r, setEntry(status[r], a, [Entry(r, a) EXCEPT !.secrets = z]), ok)
      BY <1>1, <1>6 DEF ApplySecrets
    <2> HIDE DEF z
    <2>4. PassTypes
      BY <1>6, <2>2, <2>3, WriteTypes DEF ApplySecrets
    <2>5. vault' \in [Apps -> Bundles \cup {"old"}]
      BY <1>6, PartTypes DEF ApplySecrets, CoreOK
    <2> QED
      BY <1>6, <2>4, <2>5, UnchangedTypes, PassSuffices DEF ApplySecrets, Steady
  <1>7. CASE AwaitSecrets(r, a, ok)
    <2>1. setEntry(status[r], a, [Entry(r, a) EXCEPT !.secrets = "delivered"])
              \in Statuses
      BY <1>1, EntryUpdates, SetEntryType
    <2> QED
      BY <1>2, <1>3, <1>7, <2>1 DEF AwaitSecrets, appState
  <1>8. CASE PodTimeout(r, a, ok)
    BY <1>2, <1>8 DEF PodTimeout
  <1>9. CASE awaitRollout(r, a, ok)
    <2>1. setEntry(status[r], a, [Entry(r, a) EXCEPT !.phase = "Ready"])
              \in Statuses
      BY <1>1, EntryUpdates, SetEntryType DEF Phases
    <2> QED
      BY <1>3, <1>9, <2>1 DEF awaitRollout
  <1> QED
    BY <1>4, <1>5, <1>6, <1>7, <1>8, <1>9

\* restoreApp from the pause to the roll.
LEMMA LoadTypes ==
    ASSUME CoreOK, NEW r \in Restores, NEW a \in Apps, NEW ok,
           \/ PauseApp(r, a, ok) \/ RestoreWaits(r, a, ok)
           \/ ResumeForCommands(r, a, ok) \/ Commands(r, a, ok)
    PROVE  CoreOK'
  <1> DEFINE en == ensureEntry(Entry(r, a), job[r][a], Units)
             js == [job[r] EXCEPT ![a] = ensureJobs(Entry(r, a), @, Units)]
  <1>1. /\ status[r] \in Statuses /\ job[r] \in JobsOfRun
        /\ Entry(r, a) \in Entries /\ a \in Slots
        /\ work[a] \in WorkTypes /\ pods[a] \in PodStates
    BY PartTypes DEF Entry
  <1>2. en \in Entries
    BY <1>1, EnsureEntryType
  <1>3. js \in JobsOfRun
    BY <1>1, EnsureJobsType
  <1> HIDE DEF en, js
  <1>4. ASSUME NEW s \in Statuses, NEW k \in JobsOfRun, failApp(r, a, s, k, ok),
               UNCHANGED <<Steady, data, vault, handed>>
        PROVE  CoreOK'
    BY <1>4, FailAppTypes, UnchangedTypes, PassSuffices DEF Steady
  <1>5. ASSUME NEW s \in Statuses, persist(r, s, ok), stageDecryptionSecret(r),
               UNCHANGED orphan,
               UNCHANGED job \/ job' = [job EXCEPT ![r] = js], AppTypes,
               UNCHANGED <<Steady, data, vault, handed>>
        PROVE  CoreOK'
    BY <1>3, <1>5, WriteTypes, UnchangedTypes, PassSuffices DEF Steady
  <1>6. ASSUME NEW w \in WorkTypes, setWork([work EXCEPT ![a] = w])
        PROVE  AppTypes
    <2>1. [work EXCEPT ![a] = w] \in [Apps -> WorkTypes]
      BY DEF CoreOK
    <2> QED
      BY <1>6, <2>1, SetWorkType
  <1>7. CASE PauseApp(r, a, ok)
    <2>1. CASE failApp(r, a, status[r], job[r], ok)
      BY <1>1, <1>4, <1>7, <2>1 DEF PauseApp
    <2>2. CASE ~failApp(r, a, status[r], job[r], ok)
      <3>1. PICK hook \in PreHook(work[a]) :
                /\ setWork([work EXCEPT ![a] = quiesceApp(a, work[a], hook)])
                /\ persist(r, setEntry(markQuiesced(status[r], a), a,
                       [Entry(r, a) EXCEPT !.started = TRUE,
                                           !.mode = quiesceMode(a, hook),
                                           !.phase = "Running"]), ok)
        BY <1>7, <2>2 DEF PauseApp
      <3>2. setEntry(markQuiesced(status[r], a), a,
                [Entry(r, a) EXCEPT !.started = TRUE,
                                    !.mode = quiesceMode(a, hook),
                                    !.phase = "Running"]) \in Statuses
        BY <1>1, WorkType, EntryUpdates, QuiescedType, SetEntryType
      <3>3. AppTypes
        BY <1>1, <1>6, <3>1, WorkType
      <3> QED
        BY <1>5, <1>7, <2>2, <3>1, <3>2, <3>3 DEF PauseApp
    <2> QED
      BY <2>1, <2>2
  <1>8. CASE RestoreWaits(r, a, ok)
    <2>1. setEntry(status[r], a, en) \in Statuses
      BY <1>1, <1>2, SetEntryType
    <2>2. /\ \/ failApp(r, a, setEntry(status[r], a, en), js, ok)
             \/ failApp(r, a, status[r], job[r], ok)
             \/ /\ job' = [job EXCEPT ![r] = js]
                /\ UNCHANGED orphan
                /\ persist(r, setEntry(status[r], a, en), ok)
                /\ stageDecryptionSecret(r)
                /\ UNCHANGED <<work, pods>>
          /\ UNCHANGED <<Steady, data, vault, handed>>
      BY <1>8 DEF RestoreWaits, en, js
    <2> QED
      BY <1>1, <1>3, <1>4, <1>5, <2>1, <2>2, UnchangedTypes
  <1>9. CASE ResumeForCommands(r, a, ok)
    <2>1. setEntry(unmarkQuiesced(status[r], {a}), a, [en EXCEPT !.ended = TRUE])
              \in Statuses
      BY <1>1, <1>2, EntryUpdates, QuiescedType, SetEntryType
    <2>2. AppTypes
      BY <1>1, <1>6, <1>9, WorkType DEF ResumeForCommands
    <2> QED
      BY <1>5, <1>9, <2>1, <2>2 DEF ResumeForCommands, Ensured, en
  <1>10. CASE Commands(r, a, ok)
    <2> DEFINE w1 == IF resumeCommandOwed(a, en.mode)
                     THEN [work[a] EXCEPT !.maint = FALSE] ELSE work[a]
               roll(w) ==
                   CASE mustRoll(a, en) /\ w.replicas > 0 -> "rolling"
                     [] ~mustRoll(a, en) /\ a \in WithCommands -> Overtaken(pods[a])
                     [] OTHER -> podsOf(w, pods[a])
               last == setEntry(unmarkQuiesced(status[r], {a}), a,
                           [en EXCEPT !.ended = TRUE, !.rollout = TRUE])
    <2>1. w1 \in WorkTypes
      BY <1>1 DEF WorkTypes
    <2>2. \A w : roll(w) \in PodStates
      BY <1>1, PodsType DEF PodStates
    <2>3. last \in Statuses /\ setEntry(status[r], a, en) \in Statuses
      BY <1>1, <1>2, EntryUpdates, QuiescedType, SetEntryType
    <2>4. \/ failApp(r, a, setEntry(status[r], a, en), job[r], ok)
          \/ /\ \E hook \in PostHook(w1) :
                    LET w == IF en.ended THEN w1 ELSE unquiesceApp(w1, en.mode, hook)
                    IN  /\ work' = [work EXCEPT ![a] = w]
                        /\ pods' = [pods EXCEPT ![a] = roll(w)]
             /\ persist(r, last, ok)
             /\ stageDecryptionSecret(r)
             /\ UNCHANGED <<job, orphan>>
      BY <1>10 DEF Commands, Ensured, en
    <2>5. UNCHANGED <<Steady, data, vault, handed>>
      BY <1>10 DEF Commands
    <2> HIDE DEF w1, roll, last
    <2>6. CASE failApp(r, a, setEntry(status[r], a, en), job[r], ok)
      BY <1>1, <1>4, <2>3, <2>5, <2>6
    <2>7. CASE ~failApp(r, a, setEntry(status[r], a, en), job[r], ok)
      <3>1. PICK hook \in PostHook(w1) :
                LET w == IF en.ended THEN w1 ELSE unquiesceApp(w1, en.mode, hook)
                IN  /\ work' = [work EXCEPT ![a] = w]
                    /\ pods' = [pods EXCEPT ![a] = roll(w)]
        BY <2>4, <2>7
      <3>2. unquiesceApp(w1, en.mode, hook) \in WorkTypes
        BY <2>1, WorkType
      <3>3. AppTypes
        BY <2>1, <2>2, <3>1, <3>2 DEF AppTypes, CoreOK
      <3> QED
        BY <1>5, <2>3, <2>4, <2>5, <2>7, <3>3
    <2> QED
      BY <2>6, <2>7
  <1> QED
    BY <1>7, <1>8, <1>9, <1>10

\* An uninstalled app's data.
LEMMA RetainedTypes ==
    ASSUME CoreOK, NEW r \in Restores, NEW a \in Apps, NEW ok,
           RestoreRetained(r, a, ok)
    PROVE  CoreOK'
  <1> DEFINE en0 == ensureEntry(Entry(r, a), job[r][a], Units)
             en == [en0 EXCEPT !.phase = "Running", !.secrets = "delivered"]
             js == [job[r] EXCEPT ![a] = ensureJobs(Entry(r, a), @, Units)]
             gaveUp(n, k) ==
                 fail(r, setEntry(status[r], a, [n EXCEPT !.phase = "Failed"]), k, ok)
  <1>1. /\ status[r] \in Statuses /\ job[r] \in JobsOfRun
        /\ Entry(r, a) \in Entries /\ a \in Slots
    BY PartTypes DEF Entry
  <1>2. js \in JobsOfRun
    BY <1>1, EnsureJobsType
  <1>3. en0 \in Entries
    BY <1>1, EnsureEntryType
  <1>4. /\ \/ gaveUp(en, js) \/ gaveUp(Entry(r, a), job[r])
           \/ \E n \in {en, [en EXCEPT !.phase = "Ready"]} :
                 /\ job' = [job EXCEPT ![r] = js]
                 /\ UNCHANGED orphan
                 /\ persist(r, setEntry(status[r], a, n), ok)
                 /\ stageDecryptionSecret(r)
        /\ \/ vault' = [vault EXCEPT ![a] = IF a \in WithSecrets
                                            THEN Bundle[r] ELSE @]
           \/ UNCHANGED vault
        /\ UNCHANGED <<Steady, data, handed, work, pods>>
    BY DEF RestoreRetained
  <1> HIDE DEF en0, js
  <1>5. en \in Entries
    BY <1>3, EntryUpdates
  <1> HIDE DEF en
  <1>6. \A n \in Entries : /\ [n EXCEPT !.phase = "Failed"] \in Entries
                           /\ [n EXCEPT !.phase = "Ready"] \in Entries
    BY EntryUpdates DEF Phases
  <1>7. \A n \in Entries, k \in JobsOfRun : gaveUp(n, k) => PassTypes
    BY <1>1, <1>6, SetEntryType, FailTypes
  <1>8. ASSUME NEW n \in Entries,
               /\ job' = [job EXCEPT ![r] = js]
               /\ UNCHANGED orphan
               /\ persist(r, setEntry(status[r], a, n), ok)
               /\ stageDecryptionSecret(r)
        PROVE  PassTypes
    <2>1. setEntry(status[r], a, n) \in Statuses
      BY <1>1, SetEntryType
    <2> QED
      BY <1>2, <1>8, <2>1, WriteTypes
  <1>9. PassTypes
    BY <1>1, <1>2, <1>4, <1>5, <1>6, <1>7, <1>8
  <1>10. vault' \in [Apps -> Bundles \cup {"old"}]
    BY <1>4, PartTypes DEF CoreOK
  <1> QED
    BY <1>4, <1>9, <1>10, UnchangedTypes, PassSuffices DEF Steady

\* What is the tenant's own, and the end.
LEMMA LastTypes ==
    ASSUME CoreOK, NEW r \in Restores, NEW ok,
           RestoreTenantWide(r, ok) \/ Finish(r, ok)
    PROVE  CoreOK'
  <1> DEFINE old == status[r].entry[TenantWide]
             en  == ensureEntry(old, job[r][TenantWide], Units)
             js  == [job[r] EXCEPT ![TenantWide] = ensureJobs(old, @, Units)]
             counted(n, k) ==
                 IF n.attempts > exportMaxAttempts
                 THEN fail(r, setEntry(status[r], TenantWide,
                                       [n EXCEPT !.phase = "Failed"]), k, ok)
                 ELSE /\ job' = [job EXCEPT ![r] = k]
                      /\ UNCHANGED orphan
                      /\ persist(r, setEntry(status[r], TenantWide, n), ok)
                      /\ stageDecryptionSecret(r)
  <1>1. /\ status[r] \in Statuses /\ job[r] \in JobsOfRun
        /\ old \in Entries /\ TenantWide \in Slots
    BY PartTypes
  <1>2. en \in Entries
    BY <1>1, EnsureEntryType
  <1>3. js \in JobsOfRun
    BY <1>1, EnsureJobsType
  <1>4. \A n \in Entries : /\ [n EXCEPT !.phase = "Failed"] \in Entries
                           /\ [n EXCEPT !.phase = "Ready"] \in Entries
                           /\ [n EXCEPT !.attempts = @ + 1] \in Entries
    BY EntryUpdates DEF Phases
  <1>5. CASE RestoreTenantWide(r, ok)
    <2>1. \/ counted(en, js)
          \/ counted([old EXCEPT !.attempts = @ + 1], job[r])
          \/ counted([en EXCEPT !.attempts = @ + 1], job[r])
      BY <1>5 DEF RestoreTenantWide
    <2> HIDE DEF en, old, js
    <2>2. \A n \in Entries, k \in JobsOfRun : counted(n, k) => PassTypes
      <3> SUFFICES ASSUME NEW n \in Entries, NEW k \in JobsOfRun, counted(n, k)
                   PROVE  PassTypes
        OBVIOUS
      <3>1. /\ setEntry(status[r], TenantWide, n) \in Statuses
            /\ setEntry(status[r], TenantWide, [n EXCEPT !.phase = "Failed"])
                   \in Statuses
        BY <1>1, <1>4, SetEntryType
      <3> QED
        BY <3>1, FailTypes, WriteTypes
    <2>3. PassTypes
      <3> HIDE DEF counted
      <3> QED
        BY <1>1, <1>2, <1>3, <1>4, <2>1, <2>2
    <2> QED
      BY <1>5, <2>3, UnchangedTypes, PassSuffices
         DEF RestoreTenantWide, Steady, appState
  <1>6. CASE Finish(r, ok)
    <2> DEFINE s == setEntry(status[r], TenantWide, [en EXCEPT !.phase = "Ready"])
    <2>1. persist(r, [s EXCEPT !.phase = "Ready", !.heldBack = {},
                               !.complete = status[r].omitted = {}], ok)
      BY <1>6 DEF Finish
    <2> HIDE DEF en
    <2>2. s \in Statuses
      BY <1>1, <1>2, <1>4, SetEntryType
    <2> HIDE DEF s
    <2>3. [s EXCEPT !.phase = "Ready", !.heldBack = {},
                    !.complete = status[r].omitted = {}] \in Statuses
      BY <2>2 DEF Statuses, Phases
    <2>4. status' \in [Restores -> Statuses]
      BY <2>1, <2>3, PersistType
    <2>5. job' \in [Restores -> JobsOfRun]
      BY <1>1, <1>6, StopJobsType DEF Finish, CoreOK
    <2>6. key' \in [Restores -> Keys] /\ staged' \subseteq Restores
      BY <1>6, DiscardType, UnchangedTypes DEF Finish
    <2>7. PassTypes
      BY <1>6, <2>4, <2>5, <2>6 DEF Finish, PassTypes, CoreOK
    <2> QED
      BY <1>6, <2>7, UnchangedTypes, PassSuffices DEF Finish, Steady, appState
  <1> QED
    BY <1>5, <1>6

\* A Job's write leaves stores, workloads and pods.
LEMMA LoadType ==
    ASSUME CoreOK, NEW r \in Restores, NEW x \in Slots, NEW u \in Units,
           NEW content \in Contents, Load(r, x, u, content),
           job' \in [Restores -> JobsOfRun],
           orphan' \subseteq Restores \X Slots \X Units
    PROVE  CoreOK'
  <1>1. data' \in [Slots -> [Units -> Contents]]
    BY DEF Load, CoreOK
  <1>2. AppTypes
    <2>1. CASE x = TenantWide
      BY <2>1, UnchangedTypes DEF Load
    <2>2. CASE x # TenantWide
      <3>1. x \in Apps
        BY <2>2 DEF Slots
      <3>2. PICK m \in {work[x].maint,
                        work[x].maint \/ QuiesceMode[x] = "command"} :
                work' = [work EXCEPT ![x].maint = m]
        BY <2>2 DEF Load
      <3>3. work[x] \in WorkTypes
        BY <3>1 DEF CoreOK
      <3>4. m \in BOOLEAN
        BY <3>3 DEF WorkTypes
      <3>5. [work[x] EXCEPT !.maint = m] \in WorkTypes
        BY <3>3, <3>4 DEF WorkTypes
      <3>6. work' \in [Apps -> WorkTypes]
        BY <3>2, <3>5 DEF CoreOK
      <3>7. pods' \in [Apps -> PodStates]
        <4>1. Overtaken(pods[x]) \in PodStates
          BY <3>1, PodsType DEF CoreOK
        <4>2. pods' = [pods EXCEPT ![x] = Overtaken(pods[x])]
          BY <2>2 DEF Load
        <4> QED
          BY <4>1, <4>2 DEF CoreOK
      <3> QED
        BY <3>6, <3>7 DEF AppTypes
    <2> QED
      BY <2>1, <2>2
  <1> QED
    BY <1>1, <1>2 DEF Load, Steady, CoreOK, AppTypes

\* Steps of the Jobs, of the apps, of users and of the exports.
LEMMA EnvironmentTypes ==
    ASSUME CoreOK, Environment
    PROVE  CoreOK'
  <1>1. ASSUME NEW r \in Restores, CreateRestore(r) \/ OwnKey(r) \/ DeleteRestore(r)
        PROVE  CoreOK'
    <2>1. CASE CreateRestore(r)
      BY <2>1 DEF CreateRestore, CoreOK, appState, Keys
    <2>2. CASE OwnKey(r)
      BY <2>2 DEF OwnKey, CoreOK, appState, Steady, Keys
    <2>3. CASE DeleteRestore(r)
      BY <2>3 DEF DeleteRestore, CoreOK, appState
    <2> QED
      BY <1>1, <2>1, <2>2, <2>3
  <1>2. ASSUME NEW r \in Restores, NEW x \in Slots, NEW u \in Units,
               JobEnds(r, x, u) \/ ForeignJob(r, x, u) \/ OrphanEnds(r, x, u)
        PROVE  CoreOK'
    <2>1. \A j \in JobStates :
              [job EXCEPT ![r][x][u] = j] \in [Restores -> JobsOfRun]
      BY DEF CoreOK, JobsOfRun
    <2>2. Bundle[r] \in Contents /\ "torn" \in Contents
      BY PartTypes DEF Contents
    <2>3. CASE JobCompletes(r, x, u)
      <3>1. job' \in [Restores -> JobsOfRun]
        BY <2>1, <2>3 DEF JobCompletes, JobStates
      <3> QED
        BY <2>2, <2>3, <3>1, LoadType, UnchangedTypes DEF JobCompletes
    <2>4. CASE JobFails(r, x, u)
      <3>1. job' \in [Restores -> JobsOfRun]
        BY <2>1, <2>4 DEF JobFails, JobStates
      <3>2. CASE Load(r, x, u, "torn") /\ UNCHANGED orphan
        BY <2>2, <3>1, <3>2, LoadType, UnchangedTypes
      <3>3. CASE ~(Load(r, x, u, "torn") /\ UNCHANGED orphan)
        BY <2>4, <3>1, <3>3 DEF JobFails, CoreOK, Steady, appState
      <3> QED
        BY <3>2, <3>3
    <2>5. CASE ForeignJob(r, x, u)
      <3>1. job' \in [Restores -> JobsOfRun]
        BY <2>1, <2>5 DEF ForeignJob, JobStates
      <3> QED
        BY <2>5, <3>1 DEF ForeignJob, CoreOK, Steady, appState
    <2>6. CASE OrphanEnds(r, x, u)
      <3>1. orphan' \subseteq Restores \X Slots \X Units /\ UNCHANGED job
        BY <2>6 DEF OrphanEnds, CoreOK
      <3>2. CASE Load(r, x, u, Bundle[r])
        BY <2>2, <3>1, <3>2, LoadType, UnchangedTypes
      <3>3. CASE ~Load(r, x, u, Bundle[r])
        BY <2>6, <3>1, <3>3 DEF OrphanEnds, CoreOK, Steady, appState
      <3> QED
        BY <3>2, <3>3
    <2> QED
      BY <1>2, <2>3, <2>4, <2>5, <2>6 DEF JobEnds
  <1>3. ASSUME NEW a \in Apps, PodsUp(a) \/ Handed(a) \/ Uninstall(a)
        PROVE  CoreOK'
    <2>1. work[a] \in WorkTypes /\ Fresh(a) \in WorkTypes
      BY WorkType DEF CoreOK
    <2>2. [work[a] EXCEPT !.replicas = Replicas[a]] \in WorkTypes
      BY <2>1, RestoreConfig DEF WorkTypes
    <2>3. CASE PodsUp(a)
      BY <2>3 DEF PodsUp, CoreOK, Steady, PodStates
    <2>4. CASE Handed(a)
      <3>1. AppTypes
        BY <2>2, <2>4 DEF Handed, CoreOK, AppTypes, PodStates
      <3>2. handed' \in [Apps -> Bundles \cup {"old"}]
        BY <2>4 DEF Handed, CoreOK
      <3> QED
        BY <2>4, <3>1, <3>2 DEF Handed, CoreOK, AppTypes, Steady
    <2>5. CASE Uninstall(a)
      <3>1. AppTypes /\ installed' \subseteq Apps
        BY <2>1, <2>5 DEF Uninstall, CoreOK, AppTypes, PodStates
      <3> QED
        BY <2>5, <3>1 DEF Uninstall, CoreOK, AppTypes
    <2> QED
      BY <1>3, <2>3, <2>4, <2>5
  <1>4. CASE ExportStarts \/ ExportEnds
    BY <1>4 DEF ExportStarts, ExportEnds, CoreOK, appState
  <1> QED
    BY <1>1, <1>2, <1>3, <1>4 DEF Environment

\* Passes of the component reconciler leave routes and passes.
LEMMA EdgeTypes ==
    ASSUME EdgeOK, CoreOK,
           \/ EdgeNext
           \/ Edge!restoreHoldChanged /\ UNCHANGED <<route, pass>>
           \/ UNCHANGED edge
    PROVE  EdgeOK'
  <1> USE DEF EdgeOK, Edge!RouteStates, Edge!Passes
  <1>1. ASSUME NEW a \in Apps, Edge!ComponentPass(a) PROVE EdgeOK'
    <2>1. pass[a] \in Edge!Passes
      OBVIOUS
    <2>2. CASE Edge!heldForRestore(a)
      <3>1. (a \in holding) \in BOOLEAN
        OBVIOUS
      <3> QED
        BY <2>2, <3>1 DEF Edge!heldForRestore
    <2>3. CASE Edge!applyRestoreHold(a)
      <3>1. [pass[a] EXCEPT !.at = "applied"] \in Edge!Passes
        BY <2>1
      <3>2. pass' = [pass EXCEPT ![a] = [pass[a] EXCEPT !.at = "applied"]]
        BY <2>3 DEF Edge!applyRestoreHold
      <3>3. pass' \in [Apps -> Edge!Passes]
        BY <3>1, <3>2
      <3>4. route' \in [Apps -> Edge!RouteStates] /\ UNCHANGED queue
        BY <2>3 DEF Edge!applyRestoreHold, Edge!routeFor
      <3> QED
        BY <3>3, <3>4
    <2>4. CASE Edge!withRestoreHold(a)
      <3>1. route' \in [Apps -> Edge!RouteStates] /\ UNCHANGED queue
        BY <2>4 DEF Edge!withRestoreHold, Edge!routeFor
      <3>2. pass' \in [Apps -> Edge!Passes]
        BY <2>4 DEF Edge!withRestoreHold, Edge!Idle
      <3> QED
        BY <3>1, <3>2
    <2>5. CASE Edge!EndsEarly(a)
      BY <2>5 DEF Edge!EndsEarly, Edge!Idle
    <2> QED
      BY <1>1, <2>2, <2>3, <2>4, <2>5 DEF Edge!ComponentPass
  <1>2. ASSUME NEW a \in Apps, Edge!OtherEvent(a) PROVE EdgeOK'
    BY <1>2 DEF Edge!OtherEvent
  <1>3. CASE Edge!restoreHoldChanged /\ UNCHANGED <<route, pass>>
    BY <1>3 DEF Edge!restoreHoldChanged, CoreOK
  <1>4. CASE UNCHANGED edge
    BY <1>4 DEF edge
  <1> QED
    BY <1>1, <1>2, <1>3, <1>4 DEF EdgeNext

LEMMA InitTypes == Init => TypeOK
  <1> SUFFICES ASSUME Init PROVE CoreOK /\ EdgeOK
    BY TypeParts
  <1>1. NewEntry \in Entries
    BY DEF NewEntry, Entries, Phases
  <1>2. NewStatus \in Statuses
    BY <1>1 DEF NewStatus, Statuses
  <1>3. \A a \in Apps : Fresh(a) \in WorkTypes
    BY RestoreConfig DEF Fresh, WorkTypes, NoMemo
  <1>4. CoreOK
    BY <1>2, <1>3, RestoreConfig
       DEF Init, CoreOK, JobsOfRun, JobStates, Keys, Contents, PodStates
  <1>5. EdgeOK
    BY DEF Init, EdgeOK, Edge!HoldInit, Edge!RouteStates, Edge!Passes, Edge!Idle
  <1> QED
    BY <1>4, <1>5

LEMMA NextTypes == TypeOK /\ [Next]_vars => TypeOK'
  <1> SUFFICES ASSUME CoreOK, EdgeOK, [Next]_vars PROVE CoreOK' /\ EdgeOK'
    BY TypeParts, PTL
  <1>1. ASSUME NEW r \in Restores, NEW ok, Reconcile(r, ok) PROVE CoreOK'
    BY <1>1, EarlyTypes, HoldTypes, LoadTypes, RetainedTypes, LastTypes
       DEF Reconcile
  <1>2. CASE Watched(RestoreNext)
    BY <1>1, <1>2, QuietTypes, EnvironmentTypes, EdgeTypes
       DEF Watched, RestoreNext
  <1>3. CASE EdgeNext /\ UNCHANGED NotEdge
    BY <1>3, EdgeTypes DEF NotEdge, CoreOK
  <1>4. CASE UNCHANGED vars
    BY <1>4, EdgeTypes DEF vars, edge, CoreOK
  <1> QED
    BY <1>2, <1>3, <1>4 DEF Next

\* Whatever fails and however restores, Jobs, exports and the edge interleave,
\* every variable keeps its type: the stored status never takes a shape
\* TenantRestoreStatus does not have, and attempts stay countable.
THEOREM RestoreTypeCorrect == Spec => []TypeOK
  <1> QED
    BY InitTypes, NextTypes, PTL DEF Spec

----------------------------------------------------------------------------
(* One restore at a time. *)

\* No two restores are created in the same second.
DistinctStamps == \A r, q \in Restores : Stamp[r] = Stamp[q] => r = q

\* What a pass may write as the phase: the one there is; another one only
\* while the restore runs; and Running only while no other restore goes first.
PhaseFor(r, s) ==
    \/ s.phase = status[r].phase
    \/ Running(r) /\ (s.phase = "Running" => ~tenantBusy(r))
Writing(r, ok) == \E s \in Statuses : persist(r, s, ok) /\ PhaseFor(r, s)

\* The operators on a status leave the phase, but for the one that fails it.
LEMMA PhaseOf ==
    ASSUME NEW s \in Statuses
    PROVE  /\ \A a : markQuiesced(s, a).phase = s.phase
           /\ \A Q : unmarkQuiesced(s, Q).phase = s.phase
           /\ failed(s).phase = "Failed" /\ failed(s) \in Statuses
BY DEF markQuiesced, unmarkQuiesced, failed, Statuses, Phases

\* Giving up writes Failed.
LEMMA FailWrites ==
    ASSUME NEW r \in Restores, NEW s \in Statuses, NEW js, NEW ok, Running(r),
           fail(r, s, js, ok)
    PROVE  Writing(r, ok)
BY PhaseOf DEF fail, Writing, PhaseFor

LEMMA FailAppWrites ==
    ASSUME NEW r \in Restores, NEW a \in Apps, NEW s \in Statuses, NEW js,
           NEW ok, Running(r), failApp(r, a, s, js, ok)
    PROVE  Writing(r, ok)
  <1> DEFINE n == [s.entry[a] EXCEPT !.ended = @ \/ s.entry[a].started,
                                     !.phase = "Failed"]
  <1>1. s.entry[a] \in Entries /\ a \in Slots
    BY DEF Statuses, Slots
  <1>2. n \in Entries
    BY <1>1, EntryUpdates
  <1>3. fail(r, setEntry(unmarkQuiesced(s, {a}), a, n), js, ok)
    BY DEF failApp
  <1> HIDE DEF n
  <1>4. setEntry(unmarkQuiesced(s, {a}), a, n) \in Statuses
    BY <1>1, <1>2, QuiescedType, SetEntryType
  <1> QED
    BY <1>3, <1>4, FailWrites

\* Writing an entry leaves the phase of the restore.
LEMMA EntryWrites ==
    ASSUME CoreOK, NEW r \in Restores, NEW x \in Slots, NEW n \in Entries, NEW ok,
           \/ persist(r, setEntry(status[r], x, n), ok)
           \/ \E a \in Apps : persist(r, setEntry(markQuiesced(status[r], a), x, n), ok)
           \/ \E Q : persist(r, setEntry(unmarkQuiesced(status[r], Q), x, n), ok)
    PROVE  Writing(r, ok)
  <1>1. status[r] \in Statuses
    BY PartTypes
  <1>2. ASSUME NEW s \in Statuses, s.phase = status[r].phase,
               persist(r, setEntry(s, x, n), ok)
        PROVE  Writing(r, ok)
    <2>1. setEntry(s, x, n) \in Statuses
      BY SetEntryType
    <2>2. setEntry(s, x, n).phase = status[r].phase
      BY <1>2 DEF setEntry, Statuses
    <2> QED
      BY <1>2, <2>1, <2>2 DEF Writing, PhaseFor
  <1>3. \A a \in Apps : /\ markQuiesced(status[r], a) \in Statuses
                        /\ markQuiesced(status[r], a).phase = status[r].phase
    BY <1>1, QuiescedType, PhaseOf
  <1>4. \A Q : /\ unmarkQuiesced(status[r], Q) \in Statuses
               /\ unmarkQuiesced(status[r], Q).phase = status[r].phase
    BY <1>1, QuiescedType, PhaseOf
  <1> QED
    BY <1>1, <1>2, <1>3, <1>4

\* What every step over an app of a restore presumes.
LEMMA AtRuns ==
    ASSUME NEW r, NEW x, At(r, x)
    PROVE  Running(r) /\ ~tenantBusy(r)
BY DEF At, Works

\* A pass over a restore writes its phase by those rules.
LEMMA PassWrites ==
    ASSUME CoreOK, NEW r \in Restores, NEW ok, Reconcile(r, ok)
    PROVE  Writing(r, ok)
  <1>1. status[r] \in Statuses /\ job[r] \in JobsOfRun
    BY PartTypes
  <1>2. ASSUME NEW Q, resume(r, Q, ok) PROVE Writing(r, ok)
    <2>1. persist(r, unmarkQuiesced(status[r], Q), ok)
      BY <1>2 DEF resume
    <2>2. unmarkQuiesced(status[r], Q) \in Statuses
      BY <1>1, QuiescedType
    <2>3. unmarkQuiesced(status[r], Q).phase = status[r].phase
      BY <1>1 DEF unmarkQuiesced, Statuses
    <2> QED
      BY <2>1, <2>2, <2>3 DEF Writing, PhaseFor
  <1>3. CASE ResumeEnded(r, ok) \/ FinalizeResume(r, ok) \/ resumeStale(r, ok)
    BY <1>2, <1>3 DEF ResumeEnded, FinalizeResume, resumeStale, resumeAll
  <1>4. CASE FailPreflight(r, ok) \/ FailUnusable(r, ok)
    BY <1>1, <1>4, FailWrites DEF FailPreflight, FailUnusable
  <1>5. CASE Busy(r, ok)
    <2>1. [status[r] EXCEPT !.phase = "Pending"] \in Statuses
      BY <1>1 DEF Statuses, Phases
    <2>2. [status[r] EXCEPT !.phase = "Pending"].phase = "Pending"
      BY <1>1 DEF Statuses
    <2> QED
      BY <1>5, <2>1, <2>2 DEF Busy, Writing, PhaseFor
  <1>6. CASE Plan(r, ok)
    <2>1. Running(r) /\ ~tenantBusy(r)
      BY <1>6 DEF Plan, Works
    <2>2. PICK O \in Omissions(r) :
              fail(r, status[r], job[r], ok) \/ persist(r, recordPlan(r, O), ok)
      BY <1>6 DEF Plan
    <2> QED
      BY <1>1, <2>1, <2>2, FailWrites, PlanType DEF Writing, PhaseFor
  <1>7. ASSUME NEW a \in Apps,
               \/ holdBack(r, a, ok) \/ PlanSecrets(r, a, ok)
               \/ ApplySecrets(r, a, ok) \/ AwaitSecrets(r, a, ok)
               \/ PodTimeout(r, a, ok) \/ awaitRollout(r, a, ok)
        PROVE  Writing(r, ok)
    <2>1. Running(r)
      BY <1>7, AtRuns DEF holdBack, PlanSecrets, ApplySecrets, AwaitSecrets,
                          PodTimeout, awaitRollout, Loaded, AtInstalled
    <2>2. Entry(r, a) \in Entries /\ a \in Slots
      BY PartTypes DEF Entry
    <2>3. /\ [Entry(r, a) EXCEPT !.phase = "Ready"] \in Entries
          /\ \A z \in {"applied", "delivered"} :
                [Entry(r, a) EXCEPT !.secrets = z] \in Entries
          /\ \A b \in BOOLEAN : [Entry(r, a) EXCEPT !.secrets = "planned",
                                                   !.replaced = b] \in Entries
      BY <2>2, EntryUpdates DEF Phases
    <2>4. \/ failApp(r, a, status[r], job[r], ok)
          \/ persist(r, [status[r] EXCEPT !.heldBack = @ \cup {a}], ok)
          \/ \E n \in Entries : persist(r, setEntry(status[r], a, n), ok)
      <3>1. CASE holdBack(r, a, ok)
        BY <3>1 DEF holdBack
      <3>2. CASE PlanSecrets(r, a, ok)
        <4>1. appLacks(r, a) \in BOOLEAN
          BY DEF appLacks
        <4> QED
          BY <2>3, <3>2, <4>1 DEF PlanSecrets
      <3>3. CASE ApplySecrets(r, a, ok)
        <4>1. \E z \in {"applied", "delivered"} :
                  persist(r, setEntry(status[r], a,
                              [Entry(r, a) EXCEPT !.secrets = z]), ok)
          BY <3>3 DEF ApplySecrets
        <4> QED
          BY <2>3, <4>1
      <3>4. CASE AwaitSecrets(r, a, ok)
        BY <2>3, <3>4 DEF AwaitSecrets
      <3>5. CASE PodTimeout(r, a, ok)
        BY <3>5 DEF PodTimeout
      <3>6. CASE awaitRollout(r, a, ok)
        BY <2>3, <3>6 DEF awaitRollout
      <3> QED
        BY <1>7, <3>1, <3>2, <3>3, <3>4, <3>5, <3>6
    <2>5. /\ [status[r] EXCEPT !.heldBack = @ \cup {a}] \in Statuses
          /\ [status[r] EXCEPT !.heldBack = @ \cup {a}].phase = status[r].phase
      BY <1>1 DEF Statuses
    <2>6. persist(r, [status[r] EXCEPT !.heldBack = @ \cup {a}], ok)
              => Writing(r, ok)
      BY <2>5 DEF Writing, PhaseFor
    <2> QED
      BY <1>1, <2>1, <2>2, <2>4, <2>6, FailAppWrites, EntryWrites
  <1>8. ASSUME NEW a \in Apps,
               \/ PauseApp(r, a, ok) \/ RestoreWaits(r, a, ok)
               \/ ResumeForCommands(r, a, ok) \/ Commands(r, a, ok)
               \/ RestoreRetained(r, a, ok)
        PROVE  Writing(r, ok)
    <2> DEFINE en == ensureEntry(Entry(r, a), job[r][a], Units)
    <2>1. Running(r)
      BY <1>8, AtRuns DEF PauseApp, RestoreWaits, ResumeForCommands, Commands,
                          RestoreRetained, Loaded, AtInstalled
    <2>2. Entry(r, a) \in Entries /\ a \in Slots
      BY PartTypes DEF Entry
    <2>3. en \in Entries
      BY <2>2, EnsureEntryType
    <2>4. setEntry(status[r], a, en) \in Statuses
      BY <1>1, <2>2, <2>3, SetEntryType
    <2>5. ASSUME NEW s \in Statuses, NEW js, failApp(r, a, s, js, ok)
          PROVE  Writing(r, ok)
      BY <2>1, <2>5, FailAppWrites
    <2>6. CASE PauseApp(r, a, ok)
      <3>1. \/ failApp(r, a, status[r], job[r], ok)
            \/ \E m \in Modes :
                  persist(r, setEntry(markQuiesced(status[r], a), a,
                      [Entry(r, a) EXCEPT !.started = TRUE, !.mode = m,
                                          !.phase = "Running"]), ok)
        BY <2>6, PartTypes, WorkType DEF PauseApp
      <3> QED
        BY <1>1, <2>2, <2>5, <3>1, EntryUpdates, EntryWrites
    <2>7. CASE RestoreWaits(r, a, ok)
      <3>1. \/ \E js : failApp(r, a, setEntry(status[r], a, en), js, ok)
            \/ failApp(r, a, status[r], job[r], ok)
            \/ persist(r, setEntry(status[r], a, en), ok)
        BY <2>7 DEF RestoreWaits
      <3> HIDE DEF en
      <3> QED
        BY <1>1, <2>2, <2>3, <2>4, <2>5, <3>1, EntryWrites
    <2>8. CASE ResumeForCommands(r, a, ok)
      <3>1. persist(r, setEntry(unmarkQuiesced(status[r], {a}), a,
                                [en EXCEPT !.ended = TRUE]), ok)
        BY <2>8 DEF ResumeForCommands, Ensured
      <3> HIDE DEF en
      <3> QED
        BY <2>2, <2>3, <3>1, EntryUpdates, EntryWrites
    <2>9. CASE Commands(r, a, ok)
      <3>1. \/ failApp(r, a, setEntry(status[r], a, en), job[r], ok)
            \/ persist(r, setEntry(unmarkQuiesced(status[r], {a}), a,
                   [en EXCEPT !.ended = TRUE, !.rollout = TRUE]), ok)
        BY <2>9 DEF Commands, Ensured
      <3> HIDE DEF en
      <3> QED
        BY <2>2, <2>3, <2>4, <2>5, <3>1, EntryUpdates, EntryWrites
    <2>10. CASE RestoreRetained(r, a, ok)
      <3> DEFINE n0 == [en EXCEPT !.phase = "Running", !.secrets = "delivered"]
      <3>1. \/ \E js : fail(r, setEntry(status[r], a, [n0 EXCEPT !.phase = "Failed"]),
                            js, ok)
            \/ fail(r, setEntry(status[r], a, [Entry(r, a) EXCEPT !.phase = "Failed"]),
                    job[r], ok)
            \/ persist(r, setEntry(status[r], a, n0), ok)
            \/ persist(r, setEntry(status[r], a, [n0 EXCEPT !.phase = "Ready"]), ok)
        BY <2>10 DEF RestoreRetained
      <3> HIDE DEF en
      <3>2. n0 \in Entries
        BY <2>3, EntryUpdates
      <3> HIDE DEF n0
      <3>3. /\ [n0 EXCEPT !.phase = "Failed"] \in Entries
            /\ [n0 EXCEPT !.phase = "Ready"] \in Entries
            /\ [Entry(r, a) EXCEPT !.phase = "Failed"] \in Entries
        BY <2>2, <3>2, EntryUpdates DEF Phases
      <3>4. ASSUME NEW n \in Entries, NEW js, fail(r, setEntry(status[r], a, n), js, ok)
            PROVE  Writing(r, ok)
        <4>1. setEntry(status[r], a, n) \in Statuses
          BY <1>1, <2>2, SetEntryType
        <4> QED
          BY <2>1, <3>4, <4>1, FailWrites
      <3> QED
        BY <2>2, <3>1, <3>2, <3>3, <3>4, EntryWrites
    <2> QED
      BY <1>8, <2>6, <2>7, <2>8, <2>9, <2>10
  <1>9. CASE RestoreTenantWide(r, ok) \/ Finish(r, ok)
    <2> DEFINE old == status[r].entry[TenantWide]
               en  == ensureEntry(old, job[r][TenantWide], Units)
    <2>1. Running(r) /\ ~tenantBusy(r)
      BY <1>9, AtRuns DEF RestoreTenantWide, Finish, tenantWideDone
    <2>2. old \in Entries /\ TenantWide \in Slots
      BY PartTypes
    <2>3. en \in Entries
      BY <2>2, EnsureEntryType
    <2>4. /\ [en EXCEPT !.attempts = @ + 1] \in Entries
          /\ [old EXCEPT !.attempts = @ + 1] \in Entries
          /\ [en EXCEPT !.phase = "Ready"] \in Entries
          /\ \A n \in Entries : [n EXCEPT !.phase = "Failed"] \in Entries
      <3> HIDE DEF en, old
      <3> QED
        BY <2>2, <2>3, EntryUpdates DEF Phases
    <2>5. CASE RestoreTenantWide(r, ok)
      <3>1. \E n \in {en, [en EXCEPT !.attempts = @ + 1],
                      [old EXCEPT !.attempts = @ + 1]} :
                \/ persist(r, setEntry(status[r], TenantWide, n), ok)
                \/ \E js : fail(r, setEntry(status[r], TenantWide,
                                            [n EXCEPT !.phase = "Failed"]), js, ok)
        BY <2>5 DEF RestoreTenantWide
      <3> HIDE DEF en, old
      <3>2. PICK n \in Entries :
                \/ persist(r, setEntry(status[r], TenantWide, n), ok)
                \/ \E js : fail(r, setEntry(status[r], TenantWide,
                                            [n EXCEPT !.phase = "Failed"]), js, ok)
        BY <2>3, <2>4, <3>1
      <3>3. setEntry(status[r], TenantWide, [n EXCEPT !.phase = "Failed"]) \in Statuses
        BY <1>1, <2>2, <2>4, SetEntryType
      <3> QED
        BY <2>1, <2>2, <3>2, <3>3, FailWrites, EntryWrites
    <2>6. CASE Finish(r, ok)
      <3> DEFINE s == setEntry(status[r], TenantWide, [en EXCEPT !.phase = "Ready"])
                 t == [s EXCEPT !.phase = "Ready", !.heldBack = {},
                                !.complete = status[r].omitted = {}]
      <3>1. persist(r, t, ok)
        BY <2>6 DEF Finish
      <3> HIDE DEF en, old
      <3>2. s \in Statuses
        BY <1>1, <2>2, <2>4, SetEntryType
      <3> HIDE DEF s
      <3>3. t \in Statuses
        BY <3>2 DEF Statuses, Phases
      <3> HIDE DEF t
      <3> QED
        BY <2>1, <3>1, <3>3 DEF Writing, PhaseFor
    <2> QED
      BY <1>9, <2>5, <2>6
  <1> QED
    BY <1>3, <1>4, <1>5, <1>6, <1>7, <1>8, <1>9 DEF Reconcile

\* What one step does to the phase and to the object of any restore.
PhaseStep(q) ==
    \/ status'[q].phase = status[q].phase
    \/ Running(q) /\ (status'[q].phase = "Running" => ~tenantBusy(q))
ObjectStep(q) ==
    \/ obj'[q] = obj[q]
    \/ /\ obj[q] = "absent" /\ obj'[q] = "live"
       /\ \A p \in Restores : obj[p] # "absent" => Stamp[p] <= Stamp[q]
    \/ Exists(q) /\ obj'[q] \in {"deleting", "gone"}

LEMMA StatusNext ==
    ASSUME TypeOK, [Next]_vars, NEW q \in Restores
    PROVE  PhaseStep(q)
  <1>0. CoreOK
    BY TypeParts
  <1>1. ASSUME NEW r \in Restores, NEW ok, Reconcile(r, ok) PROVE PhaseStep(q)
    <2>1. PICK s \in Statuses : persist(r, s, ok) /\ PhaseFor(r, s)
      BY <1>0, <1>1, PassWrites DEF Writing
    <2>2. status'[q] = status[q] \/ (q = r /\ status'[q] = s)
      BY <1>0, <2>1 DEF persist, CoreOK
    <2> QED
      BY <2>1, <2>2 DEF PhaseStep, PhaseFor
  <1>2. ASSUME UNCHANGED status PROVE PhaseStep(q)
    BY <1>2 DEF PhaseStep
  <1>3. ASSUME NEW r \in Restores, ReconcileQuietly(r) PROVE UNCHANGED status
    BY <1>3 DEF ReconcileQuietly, AddFinalizer, TidyEnded, Finalize
  <1>4. CASE Environment
    <2>1. ASSUME NEW r \in Restores, CreateRestore(r) \/ OwnKey(r) \/ DeleteRestore(r)
          PROVE  UNCHANGED status
      BY <2>1 DEF CreateRestore, OwnKey, DeleteRestore
    <2>2. ASSUME NEW r \in Restores, NEW x \in Slots, NEW u \in Units,
                 JobEnds(r, x, u) \/ ForeignJob(r, x, u) \/ OrphanEnds(r, x, u)
          PROVE  UNCHANGED status
      BY <2>2 DEF JobEnds, JobCompletes, JobFails, ForeignJob, OrphanEnds, Load
    <2>3. ASSUME NEW a \in Apps, PodsUp(a) \/ Handed(a) \/ Uninstall(a)
          PROVE  UNCHANGED status
      BY <2>3 DEF PodsUp, Handed, Uninstall
    <2>4. ASSUME ExportStarts \/ ExportEnds PROVE UNCHANGED status
      BY <2>4 DEF ExportStarts, ExportEnds
    <2> QED
      BY <1>2, <1>4, <2>1, <2>2, <2>3, <2>4 DEF Environment
  <1>5. ASSUME UNCHANGED NotEdge \/ UNCHANGED vars PROVE UNCHANGED status
    BY <1>5 DEF NotEdge, vars
  <1> QED
    BY <1>1, <1>2, <1>3, <1>4, <1>5 DEF Next, Watched, RestoreNext

LEMMA ObjectNext ==
    ASSUME TypeOK, [Next]_vars, NEW q \in Restores
    PROVE  ObjectStep(q)
  <1>0. CoreOK
    BY TypeParts
  <1>1. ASSUME UNCHANGED obj PROVE ObjectStep(q)
    BY <1>1 DEF ObjectStep
  <1>2. ASSUME NEW r \in Restores, NEW ok, Reconcile(r, ok) PROVE UNCHANGED obj
    <2>1. CASE \/ ResumeEnded(r, ok) \/ FailPreflight(r, ok) \/ Busy(r, ok)
               \/ FailUnusable(r, ok) \/ Plan(r, ok) \/ resumeStale(r, ok)
               \/ FinalizeResume(r, ok)
      BY <2>1 DEF ResumeEnded, FailPreflight, Busy, FailUnusable, Plan,
                  resumeStale, FinalizeResume, Steady
    <2>2. CASE RestoreTenantWide(r, ok) \/ Finish(r, ok)
      BY <2>2 DEF RestoreTenantWide, Finish, Steady
    <2>3. ASSUME NEW a \in Apps,
                 \/ holdBack(r, a, ok) \/ PlanSecrets(r, a, ok)
                 \/ ApplySecrets(r, a, ok) \/ AwaitSecrets(r, a, ok)
                 \/ PauseApp(r, a, ok) \/ RestoreWaits(r, a, ok)
                 \/ ResumeForCommands(r, a, ok) \/ PodTimeout(r, a, ok)
                 \/ Commands(r, a, ok) \/ awaitRollout(r, a, ok)
                 \/ RestoreRetained(r, a, ok)
          PROVE  UNCHANGED obj
      BY <2>3 DEF holdBack, PlanSecrets, ApplySecrets, AwaitSecrets, PauseApp,
                  RestoreWaits, ResumeForCommands, PodTimeout, Commands,
                  awaitRollout, RestoreRetained, Steady
    <2> QED
      BY <1>2, <2>1, <2>2, <2>3 DEF Reconcile
  <1>3. ASSUME NEW r \in Restores, ReconcileQuietly(r) PROVE ObjectStep(q)
    BY <1>0, <1>3 DEF ReconcileQuietly, AddFinalizer, TidyEnded, Finalize,
                      ObjectStep, CoreOK, Exists
  <1>4. CASE Environment
    <2>1. ASSUME NEW r \in Restores, CreateRestore(r) \/ OwnKey(r) \/ DeleteRestore(r)
          PROVE  ObjectStep(q)
      BY <1>0, <2>1 DEF CreateRestore, OwnKey, DeleteRestore, ObjectStep, CoreOK,
                        Steady, Exists
    <2>2. ASSUME NEW r \in Restores, NEW x \in Slots, NEW u \in Units,
                 JobEnds(r, x, u) \/ ForeignJob(r, x, u) \/ OrphanEnds(r, x, u)
          PROVE  UNCHANGED obj
      BY <2>2 DEF JobEnds, JobCompletes, JobFails, ForeignJob, OrphanEnds, Load,
                  Steady
    <2>3. ASSUME NEW a \in Apps, PodsUp(a) \/ Handed(a) \/ Uninstall(a)
          PROVE  UNCHANGED obj
      BY <2>3 DEF PodsUp, Handed, Uninstall, Steady
    <2>4. ASSUME ExportStarts \/ ExportEnds PROVE UNCHANGED obj
      BY <2>4 DEF ExportStarts, ExportEnds
    <2> QED
      BY <1>1, <1>4, <2>1, <2>2, <2>3, <2>4 DEF Environment
  <1>5. ASSUME UNCHANGED NotEdge \/ UNCHANGED vars PROVE UNCHANGED obj
    BY <1>5 DEF NotEdge, vars
  <1> QED
    BY <1>1, <1>2, <1>3, <1>4, <1>5 DEF Next, Watched, RestoreNext

\* A restore that is not there yet has no phase.
AbsentIsNew == \A r \in Restores : obj[r] = "absent" => status[r].phase = ""
\* Whoever runs is the oldest of the restores that have not ended.
RunnerIsOldest ==
    \A r, q \in Restores :
        /\ obj[q] = "live" /\ status[q].phase = "Running"
        /\ Exists(r) /\ Older(r, q)
        => IsTerminal(status[r])
ExclusionInv == AbsentIsNew /\ RunnerIsOldest

\* Nobody is older than itself, of two restores one is the older, and with
\* stamps apart one that comes later is not.
LEMMA OlderIsTotal ==
    ASSUME NEW r \in Restores, NEW q \in Restores
    PROVE  /\ ~Older(r, r)
           /\ r # q => Older(r, q) \/ Older(q, r)
           /\ DistinctStamps /\ r # q /\ Stamp[q] <= Stamp[r] => ~Older(r, q)
  <1>1. /\ Stamp[r] \in Nat /\ Stamp[q] \in Nat
        /\ NameRank[r] \in Nat /\ NameRank[q] \in Nat
        /\ NameRank[r] = NameRank[q] => r = q
    BY RestoreOrder
  <1> QED
    BY <1>1 DEF Older, DistinctStamps

\* Every step keeps the runner the oldest.
LEMMA ExclusionStep ==
    ASSUME DistinctStamps, TypeOK, ExclusionInv, [Next]_vars
    PROVE  ExclusionInv'
  <1>1. \A r \in Restores : PhaseStep(r) /\ ObjectStep(r)
    BY StatusNext, ObjectNext
  <1>2. AbsentIsNew'
    BY <1>1 DEF ExclusionInv, AbsentIsNew, PhaseStep, ObjectStep, Running,
                 Exists
  <1>3. ASSUME NEW r \in Restores, NEW q \in Restores,
               obj'[q] = "live", status'[q].phase = "Running",
               Exists(r)', Older(r, q)
        PROVE  IsTerminal(status'[r])
    <2>1. r # q
      BY <1>3, OlderIsTotal
    <2>2. obj[q] = "live"
      <3>1. CASE obj[q] = "absent"
        BY <1>1, <1>3, <3>1 DEF ExclusionInv, AbsentIsNew, PhaseStep, Running
      <3> QED
        BY <1>1, <1>3, <3>1 DEF ObjectStep
    <2>3. Exists(r)
      <3>1. ASSUME obj[r] = "absent" PROVE FALSE
        <4>1. Stamp[q] <= Stamp[r]
          BY <1>1, <1>3, <2>2, <3>1 DEF ObjectStep, Exists
        <4> QED
          BY <1>3, <2>1, <4>1, OlderIsTotal
      <3> QED
        BY <1>1, <1>3, <3>1 DEF ObjectStep, Exists
    <2>4. IsTerminal(status[r])
      <3>1. CASE status[q].phase = "Running"
        BY <1>3, <2>2, <2>3, <3>1 DEF ExclusionInv, RunnerIsOldest
      <3>2. CASE status[q].phase # "Running"
        <4>1. ~tenantBusy(q)
          BY <1>1, <1>3, <3>2 DEF PhaseStep
        <4> QED
          BY <1>3, <2>1, <2>3, <4>1 DEF tenantBusy
      <3> QED
        BY <3>1, <3>2
    <2> QED
      BY <1>1, <2>4 DEF PhaseStep, Running, IsTerminal
  <1>4. RunnerIsOldest'
    BY <1>3 DEF RunnerIsOldest, Older
  <1> QED
    BY <1>2, <1>4 DEF ExclusionInv

\* tenantBusy serialises the restores of a tenant, through lost writes,
\* deletions and failures, as long as no two carry the same creation second.
THEOREM RestoreExclusion ==
    ASSUME DistinctStamps
    PROVE  Spec => []OneRestoreAtATime
  <1>1. Init => ExclusionInv
    <2>1. NewStatus.phase = ""
      BY DEF NewStatus
    <2>2. Init => \A r \in Restores : obj[r] = "absent" /\ status[r] = NewStatus
      BY DEF Init
    <2> QED
      BY <2>1, <2>2 DEF ExclusionInv, AbsentIsNew, RunnerIsOldest, Exists
  <1>2. TypeOK /\ ExclusionInv /\ [Next]_vars => ExclusionInv'
    BY ExclusionStep
  <1>3. ExclusionInv => OneRestoreAtATime
    BY OlderIsTotal
       DEF ExclusionInv, RunnerIsOldest, OneRestoreAtATime, IsTerminal, Exists
  <1> QED
    BY <1>1, <1>2, <1>3, RestoreTypeCorrect, PTL DEF Spec

----------------------------------------------------------------------------
(* What a pass over a restore does, field by field: the common view of the *)
(* proofs below.                                                           *)

\* The fields of a status whose entry x is replaced.
LEMMA EntryFields ==
    ASSUME NEW s \in Statuses, NEW x \in Slots, NEW n
    PROVE  /\ setEntry(s, x, n).entry[x] = n
           /\ \A y \in Slots \ {x} : setEntry(s, x, n).entry[y] = s.entry[y]
           /\ setEntry(s, x, n).phase = s.phase
           /\ setEntry(s, x, n).plan = s.plan
           /\ setEntry(s, x, n).started = s.started
           /\ setEntry(s, x, n).quiesced = s.quiesced
BY DEF setEntry, Statuses

\* ... of one with other marks, and of one that failed.
LEMMA MarkFields ==
    ASSUME NEW s \in Statuses, NEW a
    PROVE  /\ markQuiesced(s, a).entry = s.entry
           /\ markQuiesced(s, a).phase = s.phase
           /\ markQuiesced(s, a).plan = s.plan
           /\ markQuiesced(s, a).started = s.started
           /\ markQuiesced(s, a).quiesced = s.quiesced \cup {a}
BY DEF markQuiesced, Statuses

LEMMA UnmarkFields ==
    ASSUME NEW s \in Statuses, NEW Q
    PROVE  /\ unmarkQuiesced(s, Q).entry = s.entry
           /\ unmarkQuiesced(s, Q).phase = s.phase
           /\ unmarkQuiesced(s, Q).plan = s.plan
           /\ unmarkQuiesced(s, Q).started = s.started
           /\ unmarkQuiesced(s, Q).quiesced = s.quiesced \ Q
BY DEF unmarkQuiesced, Statuses

LEMMA FailedFields ==
    ASSUME NEW s \in Statuses
    PROVE  /\ failed(s).entry = s.entry /\ failed(s).plan = s.plan
           /\ failed(s).started = s.started /\ failed(s).quiesced = s.quiesced
           /\ failed(s).phase = "Failed"
BY DEF failed, Statuses

\* What stays of an entry when only the Jobs of its slot are looked at.
Settings(m, n) ==
    /\ n.retained = m.retained /\ n.secrets = m.secrets
    /\ n.replaced = m.replaced /\ n.started = m.started /\ n.mode = m.mode
Course(m, n) == n.ended = m.ended /\ n.rollout = m.rollout
\* The units of a slot that are done, or whose Jobs are complete.
Complete(m, j) == m.done \cup {u \in Units : j[u] = "complete"}

LEMMA EnsureFields ==
    ASSUME NEW m \in Entries, NEW j \in [Units -> JobStates]
    PROVE  /\ Settings(m, ensureEntry(m, j, Units))
           /\ Course(m, ensureEntry(m, j, Units))
           /\ ensureEntry(m, j, Units).phase = m.phase
           /\ ensureEntry(m, j, Units).done = Complete(m, j)
           /\ \A u \in Units :
                /\ ensureJobs(m, j, Units)[u] = "complete" <=> j[u] = "complete"
                /\ ensureJobs(m, j, Units)[u] = "running" =>
                       j[u] = "running" \/ u \notin Complete(m, j)
  <1>1. /\ Settings(m, ensureEntry(m, j, Units))
        /\ Course(m, ensureEntry(m, j, Units))
        /\ ensureEntry(m, j, Units).phase = m.phase
        /\ ensureEntry(m, j, Units).done = Complete(m, j)
    BY DEF ensureEntry, Settings, Course, Complete, Entries
  <1>2. ASSUME NEW u \in Units
        PROVE  /\ ensureJobs(m, j, Units)[u] = "complete" <=> j[u] = "complete"
               /\ ensureJobs(m, j, Units)[u] = "running" =>
                      j[u] = "running" \/ u \notin Complete(m, j)
    BY DEF ensureJobs, Complete, JobStates
  <1> QED
    BY <1>1, <1>2

\* The pass writes s, or writes nothing; other restores it leaves alone.
Wrote(r, s) ==
    /\ \A q \in Restores \ {r} :
           status'[q] = status[q] /\ job'[q] = job[q] /\ key'[q] = key[q]
    /\ status'[r] = s \/ ("lost" \in Faults /\ status'[r] = status[r])
SlotOnly(r, x, s) ==
    /\ s.plan = status[r].plan /\ s.started = status[r].started
    /\ \A y \in Slots \ {x} : s.entry[y] = status[r].entry[y]
\* Other apps than x keep their workloads, and at least the state of their pods.
AppOnly(x) ==
    \A a \in Apps \ {x} :
        work'[a] = work[a] /\ pods'[a] \in {pods[a], podsOf(work[a], pods[a])}
JobsKept(r) ==
    \A x \in Slots, u \in Units :
        job'[r][x][u] = "complete" <=> job[r][x][u] = "complete"
\* The vault gains what the bundle holds, if anything.
VaultFrom(r, x) ==
    \A a \in Apps :
        \/ vault'[a] = vault[a]
        \/ /\ a = x /\ vault'[a] = Bundle[r]
           /\ \/ a \in WithSecrets
              \/ AtInstalled(r, a) /\ status[r].entry[a].secrets = "planned"
SameApp(a) == work'[a] = work[a] /\ pods'[a] = pods[a]

\* The restore fails, with the entry of x if that is where it was.
Fails(r, x, s) ==
    /\ Running(r) /\ s.phase = "Failed" /\ SlotOnly(r, x, s)
    /\ status[r].entry[x].done \subseteq s.entry[x].done
    /\ s.entry[x].done \subseteq Complete(status[r].entry[x], job[r][x])
    /\ s.entry[x].rollout = status[r].entry[x].rollout
    /\ s.entry[x].started = status[r].entry[x].started
    /\ s.entry[x].phase \in {status[r].entry[x].phase, "Failed"}
    /\ s.quiesced \subseteq status[r].quiesced
    /\ \/ At(r, x) /\ (x \notin s.quiesced \/ status[r].entry[x].retained)
       \/ UNCHANGED <<work, pods, vault>>
          /\ \/ ~status[r].started
             \/ {"tenant", "unusable"} \cap Faults # {} \/ key[r] = "gone"
    /\ JobsKept(r)
    /\ \A y \in Slots, u \in Units :
           job'[r][y][u] = "running" =>
               "tidy" \in Faults /\ (job[r][y][u] = "running" \/ At(r, y))
    /\ \A y \in Slots, u \in Units :
           job[r][y][u] = "none" => job'[r][y][u] = "none" \/ At(r, y)
    /\ orphan' # orphan => "orphan" \in Faults
    /\ \A t \in orphan' : t \in orphan \/ t[1] = r
    /\ VaultFrom(r, x)

\* The restore goes on, and has touched only the slot x.
GoesOn(r, x, s) ==
    /\ At(r, x) /\ SlotOnly(r, x, s) /\ s.phase = status[r].phase
    /\ UNCHANGED <<orphan, key>>
    /\ \A y \in Slots \ {x} : job'[r][y] = job[r][y]
    /\ JobsKept(r)
    /\ \A u \in Units :
           job'[r][x][u] = "running" =>
               \/ job[r][x][u] = "running"
               \/ u \notin Complete(status[r].entry[x], job[r][x])
    /\ AppOnly(x) /\ VaultFrom(r, x)
\* The ways it does, by what becomes of the entry m of the app a.
Notes(r, a, s) ==
    /\ s.entry[a] = status[r].entry[a] /\ s.quiesced = status[r].quiesced
    /\ job'[r][a] = job[r][a] /\ SameApp(a) /\ UNCHANGED vault
HasSecrets(r, a) == vault[a] = Bundle[r] /\ handed[a] = Bundle[r]
TakesSecrets(r, a, m, n) ==
    /\ ~m.started /\ AtInstalled(r, a)
    /\ n.retained = m.retained /\ n.started = m.started /\ n.mode = m.mode
    /\ n.done = m.done /\ n.phase = m.phase /\ Course(m, n)
    /\ \/ /\ n.secrets = "planned" /\ (~n.replaced => HasSecrets(r, a))
          /\ a \in WithSecrets /\ UNCHANGED vault
       \/ /\ m.secrets = "planned" /\ n.replaced = m.replaced /\ n.replaced
          /\ n.secrets = "applied" /\ vault' = [vault EXCEPT ![a] = Bundle[r]]
       \/ /\ m.secrets = "planned" /\ n.replaced = m.replaced /\ ~n.replaced
          /\ n.secrets = "delivered" /\ UNCHANGED vault
       \/ /\ m.secrets = "applied" /\ n.replaced = m.replaced
          /\ n.secrets = "delivered" /\ handed[a] = Bundle[r] /\ UNCHANGED vault
    /\ job'[r][a] = job[r][a] /\ SameApp(a)
Pauses(r, a, m, n) ==
    /\ ~m.started /\ AtInstalled(r, a) /\ SecretsDelivered(r, a)
    /\ n.started /\ n.phase = "Running" /\ n.done = m.done /\ Course(m, n)
    /\ n.retained = m.retained /\ n.secrets = m.secrets
    /\ n.replaced = m.replaced
    /\ \E hook \in PreHook(work[a]) :
           /\ n.mode = quiesceMode(a, hook)
           /\ work'[a] = quiesceApp(a, work[a], hook)
           /\ pods'[a] = podsOf(work'[a], pods[a])
    /\ job'[r][a] = job[r][a] /\ UNCHANGED vault
Waits(r, a, m, n) ==
    /\ m.started /\ AtInstalled(r, a)
    /\ Settings(m, n) /\ Course(m, n) /\ n.phase = m.phase
    /\ n.done = Complete(m, job[r][a]) /\ ~(Units \subseteq n.done)
    /\ SameApp(a) /\ UNCHANGED vault
ComesUp(r, a, m, n) ==
    /\ Loaded(r, a) /\ needsPod(a, m.mode) /\ ~m.ended
    /\ Settings(m, n) /\ n.ended /\ n.rollout = m.rollout /\ n.phase = m.phase
    /\ n.done = Complete(m, job[r][a]) /\ Units \subseteq n.done
    /\ job'[r][a] = job[r][a] /\ UNCHANGED vault
\* What Commands makes of the workload, and of its pods.
Resumed(a, m, hook) ==
    LET w == IF resumeCommandOwed(a, m.mode)
             THEN [work[a] EXCEPT !.maint = FALSE] ELSE work[a]
    IN  IF m.ended THEN w ELSE unquiesceApp(w, m.mode, hook)
Rolls(r, a, m, n) ==
    /\ Loaded(r, a) /\ (needsPod(a, m.mode) => m.ended /\ runningPodForApp(a))
    /\ Settings(m, n) /\ n.ended /\ n.rollout /\ n.phase = m.phase
    /\ n.done = Complete(m, job[r][a]) /\ Units \subseteq n.done
    /\ \E hook \in {"ok", "error"} :
           /\ hook = "error" => "resumeHook" \in Faults \/ work[a].replicas = 0
           /\ work'[a] = Resumed(a, m, hook)
           /\ pods'[a] =
                  IF mustRoll(a, m) /\ work'[a].replicas > 0 THEN "rolling"
                  ELSE podsOf(work'[a], pods[a])
    /\ job'[r][a] = job[r][a] /\ UNCHANGED vault
IsBack(r, a, m, n) ==
    /\ m.rollout /\ AtInstalled(r, a)
    /\ Settings(m, n) /\ Course(m, n) /\ n.phase = "Ready" /\ n.done = m.done
    /\ job'[r][a] = job[r][a] /\ SameApp(a) /\ UNCHANGED vault
LoadsRetained(r, a, m, n) ==
    /\ m.retained
    /\ n.retained = m.retained /\ n.secrets = "delivered"
    /\ n.replaced = m.replaced /\ n.started = m.started /\ n.mode = m.mode
    /\ Course(m, n) /\ n.done = Complete(m, job[r][a])
    /\ n.phase = IF Units \subseteq n.done THEN "Ready" ELSE "Running"
    /\ SameApp(a)
OverApp(r, a, s) ==
    LET m == status[r].entry[a]
        n == s.entry[a]
    IN  \/ Notes(r, a, s)
        \/ /\ s.quiesced = status[r].quiesced
           /\ \/ TakesSecrets(r, a, m, n) \/ Waits(r, a, m, n)
              \/ IsBack(r, a, m, n) \/ LoadsRetained(r, a, m, n)
        \/ s.quiesced = status[r].quiesced \cup {a} /\ Pauses(r, a, m, n)
        \/ /\ s.quiesced = status[r].quiesced \ {a}
           /\ ComesUp(r, a, m, n) \/ Rolls(r, a, m, n)
OverTenant(r, s) ==
    /\ s.quiesced = status[r].quiesced
    /\ UNCHANGED <<work, pods, vault>>
    /\ status[r].entry[TenantWide].done \subseteq s.entry[TenantWide].done
    /\ s.entry[TenantWide].done \subseteq
           Complete(status[r].entry[TenantWide], job[r][TenantWide])

\* The other passes: the plan, the end, waiting, and resuming what was paused.
IsNew(n) ==
    /\ n.phase = "Pending" /\ n.secrets = "" /\ ~n.started /\ ~n.ended
    /\ ~n.rollout /\ n.done = {}
Plans(r, s) ==
    /\ Works(r) /\ ~status[r].started
    /\ s.started /\ s.phase = "Running" /\ s.quiesced = status[r].quiesced
    /\ \A x \in Slots :
           /\ IsNew(s.entry[x])
           /\ s.entry[x].retained => x \notin installed
    /\ UNCHANGED <<job, orphan, key, work, pods, vault>>
Ends(r, s) ==
    /\ At(r, NoApp) /\ SlotOnly(r, TenantWide, s) /\ s.phase = "Ready"
    /\ s.quiesced = status[r].quiesced
    /\ s.entry[TenantWide].done =
           Complete(status[r].entry[TenantWide], job[r][TenantWide])
    /\ Units \subseteq s.entry[TenantWide].done
    /\ JobsKept(r)
    /\ \A y \in Slots, u \in Units :
           job'[r][y][u] = "running" =>
               "tidy" \in Faults /\ job[r][y][u] = "running"
    /\ UNCHANGED <<orphan, work, pods, vault>>
StandsBack(r, s) ==
    /\ Running(r) /\ s.phase = "Pending" /\ s.plan = status[r].plan
    /\ s.started = status[r].started /\ s.entry = status[r].entry
    /\ s.quiesced = status[r].quiesced
    /\ UNCHANGED <<job, orphan, key, work, pods, vault>>
Resumes(r, s) ==
    /\ s.plan = status[r].plan /\ s.started = status[r].started
    /\ s.phase = status[r].phase /\ s.entry = status[r].entry
    /\ UNCHANGED vault
    /\ \E Q \in SUBSET status[r].quiesced :
           /\ Q # {} /\ s.quiesced = status[r].quiesced \ Q
           /\ \A a \in Apps \ Q : work'[a] = work[a]
           /\ \/ /\ obj[r] = "live" /\ IsTerminal(status[r])
                 /\ UNCHANGED <<job, orphan, key>>
              \/ /\ Works(r) /\ status[r].started /\ Q = Stale(r)
                 /\ UNCHANGED <<job, orphan, key>>
              \/ /\ obj[r] = "deleting"
                 /\ \A x \in Slots, u \in Units :
                        job'[r][x][u] \in {"none", "foreign"}
                        /\ (job[r][x][u] = "none" => job'[r][x][u] = "none")
                 /\ orphan' # orphan => "orphan" \in Faults
                 /\ \A t \in orphan' : t \in orphan \/ t[1] = r

Passed(r, s) ==
    \/ \E x \in Slots : Fails(r, x, s)
    \/ \E a \in Apps : GoesOn(r, a, s) /\ OverApp(r, a, s)
    \/ GoesOn(r, TenantWide, s) /\ OverTenant(r, s)
    \/ Plans(r, s) \/ Ends(r, s) \/ StandsBack(r, s) \/ Resumes(r, s)
PassOver(r) ==
    /\ \E s \in Statuses : Wrote(r, s) /\ Passed(r, s)
    /\ UNCHANGED <<obj, finalizer, data, handed, installed>>

----------------------------------------------------------------------------
(* Every pass is one of these. *)

LEMMA WroteIs ==
    ASSUME CoreOK, NEW r \in Restores, NEW s \in Statuses, NEW ok \in Writes,
           persist(r, s, ok),
           job' = job \/ \E js : job' = [job EXCEPT ![r] = js],
           key' = key \/ \E k : key' = [key EXCEPT ![r] = k]
    PROVE  Wrote(r, s)
  <1>1. \A q \in Restores \ {r} :
            status'[q] = status[q] /\ job'[q] = job[q] /\ key'[q] = key[q]
    BY DEF CoreOK, persist
  <1>2. status'[r] = s \/ ("lost" \in Faults /\ status'[r] = status[r])
    BY DEF CoreOK, persist, Writes
  <1> QED
    BY <1>1, <1>2 DEF Wrote

\* The Jobs a slot is left with while it is worked on.
Ensuring(r, x) ==
    [job[r] EXCEPT ![x] = ensureJobs(status[r].entry[x], @, Units)]

LEMMA EnsuredJobs ==
    ASSUME CoreOK, NEW r \in Restores, NEW x \in Slots
    PROVE  /\ Ensuring(r, x) \in JobsOfRun
           /\ \A y \in Slots \ {x} : Ensuring(r, x)[y] = job[r][y]
           /\ \A y \in Slots, u \in Units :
                  Ensuring(r, x)[y][u] = "complete" <=> job[r][y][u] = "complete"
           /\ \A u \in Units :
                  Ensuring(r, x)[x][u] = "running" =>
                      \/ job[r][x][u] = "running"
                      \/ u \notin Complete(status[r].entry[x], job[r][x])
  <1>1. /\ job[r] \in JobsOfRun /\ status[r].entry[x] \in Entries
        /\ job[r][x] \in [Units -> JobStates]
    BY PartTypes DEF JobsOfRun
  <1>2. Ensuring(r, x) \in JobsOfRun
    BY <1>1, EnsureJobsType DEF Ensuring
  <1>3. /\ Ensuring(r, x)[x] = ensureJobs(status[r].entry[x], job[r][x], Units)
        /\ \A y \in Slots \ {x} : Ensuring(r, x)[y] = job[r][y]
    BY <1>1 DEF JobsOfRun, Ensuring
  <1>4. \A u \in Units :
            /\ Ensuring(r, x)[x][u] = "complete" <=> job[r][x][u] = "complete"
            /\ Ensuring(r, x)[x][u] = "running" =>
                   \/ job[r][x][u] = "running"
                   \/ u \notin Complete(status[r].entry[x], job[r][x])
    BY <1>1, <1>3, EnsureFields
  <1> QED
    BY <1>2, <1>3, <1>4

\* fail, once it is known which entry it writes.
LEMMA FailsIs ==
    ASSUME CoreOK, NEW r \in Restores, NEW x \in Slots, NEW s \in Statuses,
           NEW js \in JobsOfRun, NEW ok \in Writes,
           Running(r), fail(r, s, js, ok), SlotOnly(r, x, s),
           status[r].entry[x].done \subseteq s.entry[x].done,
           s.entry[x].done \subseteq Complete(status[r].entry[x], job[r][x]),
           s.entry[x].rollout = status[r].entry[x].rollout,
           s.entry[x].started = status[r].entry[x].started,
           s.entry[x].phase \in {status[r].entry[x].phase, "Failed"},
           s.quiesced \subseteq status[r].quiesced,
           \/ At(r, x) /\ (x \notin s.quiesced \/ status[r].entry[x].retained)
           \/ UNCHANGED <<work, pods, vault>>
              /\ \/ ~status[r].started
                 \/ {"tenant", "unusable"} \cap Faults # {} \/ key[r] = "gone",
           \A y \in Slots, u \in Units :
               js[y][u] = "complete" <=> job[r][y][u] = "complete",
           \A y \in Slots : js[y] = job[r][y] \/ At(r, y),
           VaultFrom(r, x)
    PROVE  \E t \in Statuses : Wrote(r, t) /\ Fails(r, x, t)
  <1> DEFINE t == failed(s)
             stopped == stopRunningRestoreJobs(js)
  <1>1. t \in Statuses
    BY DEF failed, Statuses, Phases
  <1>2. /\ t.entry = s.entry /\ t.plan = s.plan /\ t.started = s.started
        /\ t.quiesced = s.quiesced /\ t.phase = "Failed"
    BY FailedFields
  <1>3. /\ \/ job' = [job EXCEPT ![r] = stopped] /\ orphan' = Orphaned(r, js)
           \/ "tidy" \in Faults /\ job' = [job EXCEPT ![r] = js] /\ UNCHANGED orphan
        /\ key' = key \/ \E k : key' = [key EXCEPT ![r] = k]
        /\ persist(r, t, ok)
    BY DEF fail, discardStagedRestoreSecrets
  <1>4. \A y \in Slots, u \in Units :
            /\ stopped[y][u] # "running"
            /\ stopped[y][u] = "complete" <=> js[y][u] = "complete"
            /\ js[y][u] = "none" => stopped[y][u] = "none"
    BY DEF stopRunningRestoreJobs
  <1> HIDE DEF t, stopped
  <1>5. Wrote(r, t)
    BY <1>1, <1>3, WroteIs
  <1>6. job'[r] = stopped \/ ("tidy" \in Faults /\ job'[r] = js)
    BY <1>3 DEF CoreOK
  <1>7. JobsKept(r)
    BY <1>4, <1>6 DEF JobsKept
  <1>8. \A y \in Slots, u \in Units :
            job'[r][y][u] = "running" =>
                "tidy" \in Faults /\ (job[r][y][u] = "running" \/ At(r, y))
    BY <1>4, <1>6
  <1>9. \A y \in Slots, u \in Units :
            job[r][y][u] = "none" => job'[r][y][u] = "none" \/ At(r, y)
    BY <1>4, <1>6
  <1>10. /\ orphan' # orphan => "orphan" \in Faults
         /\ \A p \in orphan' : p \in orphan \/ p[1] = r
    BY <1>3 DEF Orphaned
  <1>11. SlotOnly(r, x, t)
    BY <1>2 DEF SlotOnly
  <1>12. Fails(r, x, t)
    BY <1>2, <1>7, <1>8, <1>9, <1>10, <1>11 DEF Fails
  <1> QED
    BY <1>1, <1>5, <1>12

\* failApp at the app a, when the entry it is given is m with units added.
LEMMA FailsAppIs ==
    ASSUME CoreOK, NEW r \in Restores, NEW a \in Apps, NEW s \in Statuses,
           NEW js \in JobsOfRun, NEW ok \in Writes,
           At(r, a), failApp(r, a, s, js, ok), SlotOnly(r, a, s),
           status[r].entry[a].done \subseteq s.entry[a].done,
           s.entry[a].done \subseteq Complete(status[r].entry[a], job[r][a]),
           s.entry[a].rollout = status[r].entry[a].rollout,
           s.entry[a].started = status[r].entry[a].started,
           s.quiesced = status[r].quiesced,
           \A y \in Slots, u \in Units :
               js[y][u] = "complete" <=> job[r][y][u] = "complete",
           \A y \in Slots \ {a} : js[y] = job[r][y],
           UNCHANGED vault
    PROVE  \E t \in Statuses : Wrote(r, t) /\ Fails(r, a, t)
  <1> DEFINE n == [s.entry[a] EXCEPT !.ended = @ \/ s.entry[a].started,
                                     !.phase = "Failed"]
             s1 == unmarkQuiesced(s, {a})
             t == setEntry(s1, a, n)
  <1>1. s.entry[a] \in Entries /\ a \in Slots /\ Running(r)
    BY AtRuns DEF Statuses, Slots
  <1>2. n \in Entries /\ s1 \in Statuses
    BY <1>1, EntryUpdates, QuiescedType
  <1>3. /\ n.done = s.entry[a].done /\ n.rollout = s.entry[a].rollout
        /\ n.phase = "Failed" /\ n.started = s.entry[a].started
    BY <1>1 DEF Entries
  <1>4. fail(r, t, js, ok)
    BY DEF failApp
  <1>5. /\ s1.entry = s.entry /\ s1.plan = s.plan /\ s1.started = s.started
        /\ s1.quiesced = s.quiesced \ {a}
    BY <1>2, UnmarkFields
  <1> HIDE DEF n, s1
  <1>6. /\ t \in Statuses /\ t.entry[a] = n
        /\ t.plan = s.plan /\ t.started = s.started
        /\ t.quiesced = s.quiesced \ {a}
        /\ \A y \in Slots \ {a} : t.entry[y] = s.entry[y]
    BY <1>1, <1>2, <1>5, EntryFields, SetEntryType
  <1> HIDE DEF t
  <1>7. SlotOnly(r, a, t)
    BY <1>6 DEF SlotOnly
  <1>8. VaultFrom(r, a)
    BY DEF VaultFrom
  <1> QED
    BY <1>1, <1>3, <1>4, <1>6, <1>7, <1>8, FailsIs

JobsOver(r, x) == UNCHANGED job \/ job' = [job EXCEPT ![r] = Ensuring(r, x)]

\* A pass that goes on, once it is known which entry it writes.
LEMMA GoesOnIs ==
    ASSUME CoreOK, NEW r \in Restores, NEW x \in Slots, NEW s \in Statuses,
           NEW ok \in Writes, At(r, x), persist(r, s, ok), SlotOnly(r, x, s),
           s.phase = status[r].phase, UNCHANGED <<orphan, key>>,
           JobsOver(r, x),
           AppOnly(x), VaultFrom(r, x)
    PROVE  Wrote(r, s) /\ GoesOn(r, x, s)
  <1>1. job'[r] = job[r] \/ job'[r] = Ensuring(r, x)
    BY DEF CoreOK, JobsOver
  <1>2. Wrote(r, s)
    BY WroteIs DEF JobsOver
  <1>3. JobsKept(r)
    BY <1>1, EnsuredJobs DEF JobsKept
  <1> QED
    BY <1>1, <1>2, <1>3, EnsuredJobs DEF GoesOn

LEMMA AppOnlyIs ==
    ASSUME CoreOK, NEW x,
           \/ UNCHANGED <<work, pods>>
           \/ \E w : setWork([work EXCEPT ![x] = w])
           \/ \E w, p : /\ work' = [work EXCEPT ![x] = w]
                        /\ pods' = [pods EXCEPT ![x] = p]
    PROVE  AppOnly(x)
  <1>1. CASE \E w : setWork([work EXCEPT ![x] = w])
    BY <1>1 DEF setWork, AppOnly, CoreOK
  <1> QED
    BY <1>1 DEF AppOnly, CoreOK

\* The same with the entry n at hand.
LEMMA EntryGoesOn ==
    ASSUME CoreOK, NEW r \in Restores, NEW x \in Slots, NEW n \in Entries,
           NEW s0 \in Statuses, s0.entry = status[r].entry,
           s0.plan = status[r].plan, s0.phase = status[r].phase,
           s0.started = status[r].started,
           NEW ok \in Writes, At(r, x), persist(r, setEntry(s0, x, n), ok),
           stageDecryptionSecret(r), UNCHANGED orphan,
           JobsOver(r, x),
           AppOnly(x), VaultFrom(r, x)
    PROVE  \E s \in Statuses :
               /\ Wrote(r, s) /\ GoesOn(r, x, s)
               /\ s.entry[x] = n /\ s.quiesced = s0.quiesced
  <1> DEFINE s == setEntry(s0, x, n)
  <1>1. s \in Statuses
    BY SetEntryType
  <1>2. /\ s.entry[x] = n /\ s.quiesced = s0.quiesced /\ s.phase = s0.phase
        /\ s.plan = s0.plan /\ s.started = s0.started
        /\ \A y \in Slots \ {x} : s.entry[y] = s0.entry[y]
    BY EntryFields
  <1>3. persist(r, s, ok) /\ UNCHANGED <<orphan, key>>
    BY DEF stageDecryptionSecret
  <1> HIDE DEF s
  <1>4. SlotOnly(r, x, s)
    BY <1>2 DEF SlotOnly
  <1>5. Wrote(r, s) /\ GoesOn(r, x, s)
    BY <1>1, <1>2, <1>3, <1>4, GoesOnIs
  <1> QED
    BY <1>1, <1>2, <1>5

\* failApp with the stored status.
LEMMA FailsAsStored ==
    ASSUME CoreOK, NEW r \in Restores, NEW a \in Apps, NEW ok \in Writes,
           At(r, a), failApp(r, a, status[r], job[r], ok), UNCHANGED vault
    PROVE  \E s \in Statuses : Wrote(r, s) /\ Passed(r, s)
  <1>1. status[r] \in Statuses /\ job[r] \in JobsOfRun /\ a \in Slots
    BY PartTypes
  <1>2. SlotOnly(r, a, status[r])
    BY DEF SlotOnly
  <1>3. status[r].entry[a].done
            \subseteq Complete(status[r].entry[a], job[r][a])
    BY DEF Complete
  <1>4. \E s \in Statuses : Wrote(r, s) /\ Fails(r, a, s)
    BY <1>1, <1>2, <1>3, FailsAppIs
  <1> QED
    BY <1>1, <1>4 DEF Passed

Passes(r) == \E s \in Statuses : Wrote(r, s) /\ Passed(r, s)

LEMMA HoldPasses ==
    ASSUME CoreOK, NEW r \in Restores, NEW a \in Apps, NEW ok \in Writes,
           \/ holdBack(r, a, ok) \/ PlanSecrets(r, a, ok)
           \/ ApplySecrets(r, a, ok) \/ AwaitSecrets(r, a, ok)
           \/ PodTimeout(r, a, ok) \/ awaitRollout(r, a, ok)
    PROVE  Passes(r)
  <1>1. /\ status[r] \in Statuses /\ job[r] \in JobsOfRun
        /\ Entry(r, a) \in Entries /\ a \in Slots
        /\ Entry(r, a) = status[r].entry[a]
    BY PartTypes DEF Entry
  <1>2. At(r, a)
    BY DEF holdBack, PlanSecrets, ApplySecrets, AwaitSecrets, PodTimeout,
           awaitRollout, Loaded, AtInstalled
  <1>3. ASSUME failApp(r, a, status[r], job[r], ok), UNCHANGED vault
        PROVE  Passes(r)
    BY <1>2, <1>3, FailsAsStored DEF Passes
  <1>4. UNCHANGED vault => VaultFrom(r, a)
    BY DEF VaultFrom
  <1>5. ASSUME NEW n \in Entries, persist(r, setEntry(status[r], a, n), ok),
               stageDecryptionSecret(r), UNCHANGED <<job, orphan, work, pods>>,
               VaultFrom(r, a),
               TakesSecrets(r, a, Entry(r, a), n) \/ IsBack(r, a, Entry(r, a), n)
        PROVE  Passes(r)
    <2>1. AppOnly(a)
      BY <1>5, AppOnlyIs
    <2>2. PICK s \in Statuses :
              /\ Wrote(r, s) /\ GoesOn(r, a, s)
              /\ s.entry[a] = n /\ s.quiesced = status[r].quiesced
      BY <1>1, <1>2, <1>5, <2>1, EntryGoesOn DEF JobsOver
    <2>3. OverApp(r, a, s)
      BY <1>1, <1>5, <2>2 DEF OverApp
    <2> QED
      BY <2>2, <2>3 DEF Passes, Passed
  <1>6. CASE holdBack(r, a, ok)
    <2>1. CASE a \notin status[r].heldBack
      <3> DEFINE s == [status[r] EXCEPT !.heldBack = @ \cup {a}]
      <3>1. s \in Statuses
        BY <1>1 DEF Statuses
      <3>2. /\ s.entry = status[r].entry /\ s.plan = status[r].plan
            /\ s.started = status[r].started /\ s.phase = status[r].phase
            /\ s.quiesced = status[r].quiesced
        BY <1>1 DEF Statuses
      <3>3. /\ persist(r, s, ok) /\ UNCHANGED <<job, orphan, key, vault>>
            /\ UNCHANGED <<work, pods>>
        BY <1>6, <2>1 DEF holdBack, stageDecryptionSecret, failApp
      <3> HIDE DEF s
      <3>4. SlotOnly(r, a, s)
        BY <3>2 DEF SlotOnly
      <3>5. AppOnly(a)
        BY <3>3, AppOnlyIs
      <3>6. Wrote(r, s) /\ GoesOn(r, a, s)
        BY <1>1, <1>2, <1>4, <3>1, <3>2, <3>3, <3>4, <3>5, GoesOnIs
           DEF JobsOver
      <3>7. Notes(r, a, s)
        BY <3>2, <3>3 DEF Notes, SameApp
      <3> QED
        BY <3>1, <3>6, <3>7 DEF Passes, Passed, OverApp
    <2>2. CASE a \in status[r].heldBack
      BY <1>3, <1>6, <2>2 DEF holdBack
    <2> QED
      BY <2>1, <2>2
  <1>7. CASE PlanSecrets(r, a, ok)
    <2> DEFINE n == [Entry(r, a) EXCEPT !.secrets = "planned",
                                        !.replaced = appLacks(r, a)]
    <2>1. appLacks(r, a) \in BOOLEAN
      BY DEF appLacks
    <2>2. n \in Entries
      BY <1>1, <2>1, EntryUpdates
    <2>3. /\ n.retained = Entry(r, a).retained /\ n.started = Entry(r, a).started
          /\ n.mode = Entry(r, a).mode /\ n.done = Entry(r, a).done
          /\ n.phase = Entry(r, a).phase /\ Course(Entry(r, a), n)
          /\ n.secrets = "planned" /\ n.replaced = appLacks(r, a)
      BY <1>1 DEF Entries, Course
    <2>4. CASE failApp(r, a, status[r], job[r], ok)
      BY <1>3, <1>7, <2>4 DEF PlanSecrets
    <2>5. CASE ~failApp(r, a, status[r], job[r], ok)
      <3>1. /\ persist(r, setEntry(status[r], a, n), ok)
            /\ stageDecryptionSecret(r)
            /\ UNCHANGED <<job, orphan, work, pods, vault>>
            /\ AtInstalled(r, a) /\ ~Entry(r, a).started /\ a \in WithSecrets
        BY <1>7, <2>5 DEF PlanSecrets
      <3> HIDE DEF n
      <3>2. ~n.replaced => HasSecrets(r, a)
        BY <2>3 DEF appLacks, HasSecrets
      <3>3. TakesSecrets(r, a, Entry(r, a), n)
        BY <2>3, <3>1, <3>2 DEF TakesSecrets, SameApp
      <3> QED
        BY <1>4, <1>5, <2>2, <3>1, <3>3
    <2> QED
      BY <2>4, <2>5
  <1>8. CASE ApplySecrets(r, a, ok)
    <2> DEFINE z == IF Entry(r, a).replaced THEN "applied" ELSE "delivered"
               n == [Entry(r, a) EXCEPT !.secrets = z]
    <2>1. n \in Entries
      BY <1>1, EntryUpdates
    <2>2. /\ n.retained = Entry(r, a).retained /\ n.started = Entry(r, a).started
          /\ n.mode = Entry(r, a).mode /\ n.done = Entry(r, a).done
          /\ n.phase = Entry(r, a).phase /\ Course(Entry(r, a), n)
          /\ n.secrets = z /\ n.replaced = Entry(r, a).replaced
      BY <1>1 DEF Entries, Course
    <2>3. /\ AtInstalled(r, a) /\ ~Entry(r, a).started
          /\ Entry(r, a).secrets = "planned"
          /\ vault' = [vault EXCEPT ![a] = IF Entry(r, a).replaced THEN Bundle[r]
                                           ELSE @]
          /\ stageDecryptionSecret(r)
          /\ UNCHANGED <<job, orphan, work, pods>>
      BY <1>8 DEF ApplySecrets
    <2>4. persist(r, setEntry(status[r], a, n), ok)
      <3>1. (IF Entry(r, a).secrets # "" /\ ~Entry(r, a).replaced
             THEN "delivered" ELSE "applied") = z
        BY <2>3
      <3>2. n = [Entry(r, a) EXCEPT
                    !.secrets = IF @ # "" /\ ~Entry(r, a).replaced
                                THEN "delivered" ELSE "applied"]
        BY <1>1, <3>1
      <3> QED
        BY <1>8, <3>2 DEF ApplySecrets
    <2>5. /\ Entry(r, a).replaced => n.secrets = "applied"
                                   /\ vault' = [vault EXCEPT ![a] = Bundle[r]]
          /\ ~Entry(r, a).replaced => n.secrets = "delivered" /\ vault' = vault
      BY <2>2, <2>3 DEF CoreOK
    <2> HIDE DEF n, z
    <2>6. VaultFrom(r, a)
      BY <1>1, <2>3, <2>5 DEF VaultFrom, CoreOK
    <2>7. TakesSecrets(r, a, Entry(r, a), n)
      BY <2>2, <2>3, <2>5 DEF TakesSecrets, SameApp
    <2> QED
      BY <1>5, <2>1, <2>3, <2>4, <2>6, <2>7
  <1>9. CASE AwaitSecrets(r, a, ok)
    <2> DEFINE n == [Entry(r, a) EXCEPT !.secrets = "delivered"]
    <2>1. n \in Entries
      BY <1>1, EntryUpdates
    <2>2. /\ n.retained = Entry(r, a).retained /\ n.started = Entry(r, a).started
          /\ n.mode = Entry(r, a).mode /\ n.done = Entry(r, a).done
          /\ n.phase = Entry(r, a).phase /\ Course(Entry(r, a), n)
          /\ n.secrets = "delivered" /\ n.replaced = Entry(r, a).replaced
      BY <1>1 DEF Entries, Course
    <2>3. CASE failApp(r, a, status[r], job[r], ok)
      BY <1>3, <1>9, <2>3 DEF AwaitSecrets
    <2>4. CASE ~failApp(r, a, status[r], job[r], ok)
      <3>1. /\ persist(r, setEntry(status[r], a, n), ok)
            /\ stageDecryptionSecret(r) /\ handed[a] = Bundle[r]
            /\ UNCHANGED <<job, orphan, work, pods, vault>>
            /\ AtInstalled(r, a) /\ ~Entry(r, a).started
            /\ Entry(r, a).secrets = "applied"
        BY <1>9, <2>4 DEF AwaitSecrets
      <3> HIDE DEF n
      <3>2. TakesSecrets(r, a, Entry(r, a), n)
        BY <2>2, <3>1 DEF TakesSecrets, SameApp
      <3> QED
        BY <1>4, <1>5, <2>1, <3>1, <3>2
    <2> QED
      BY <2>3, <2>4
  <1>10. CASE PodTimeout(r, a, ok)
    BY <1>3, <1>10 DEF PodTimeout
  <1>11. CASE awaitRollout(r, a, ok)
    <2> DEFINE n == [Entry(r, a) EXCEPT !.phase = "Ready"]
    <2>1. n \in Entries
      BY <1>1, EntryUpdates DEF Phases
    <2>2. /\ Settings(Entry(r, a), n) /\ Course(Entry(r, a), n)
          /\ n.phase = "Ready" /\ n.done = Entry(r, a).done
      BY <1>1 DEF Entries, Course, Settings
    <2>3. /\ persist(r, setEntry(status[r], a, n), ok)
          /\ stageDecryptionSecret(r)
          /\ UNCHANGED <<job, orphan, work, pods, vault>>
          /\ AtInstalled(r, a) /\ Entry(r, a).rollout
      BY <1>11 DEF awaitRollout, appState
    <2> HIDE DEF n
    <2>4. IsBack(r, a, Entry(r, a), n)
      BY <2>2, <2>3 DEF IsBack, SameApp
    <2> QED
      BY <1>4, <1>5, <2>1, <2>3, <2>4
  <1> QED
    BY <1>6, <1>7, <1>8, <1>9, <1>10, <1>11

\* restoreApp from the pause to the roll.
LEMMA LoadPasses ==
    ASSUME CoreOK, NEW r \in Restores, NEW a \in Apps, NEW ok \in Writes,
           \/ PauseApp(r, a, ok) \/ RestoreWaits(r, a, ok)
           \/ ResumeForCommands(r, a, ok) \/ Commands(r, a, ok)
    PROVE  Passes(r)
  <1> DEFINE m == Entry(r, a)
             en == ensureEntry(m, job[r][a], Units)
             s1 == unmarkQuiesced(status[r], {a})
  <1>1. /\ status[r] \in Statuses /\ job[r] \in JobsOfRun
        /\ m \in Entries /\ a \in Slots /\ m = status[r].entry[a]
        /\ work[a] \in WorkTypes /\ pods[a] \in PodStates
        /\ job[r][a] \in [Units -> JobStates]
    BY PartTypes DEF Entry, JobsOfRun
  <1>2. At(r, a) /\ AtInstalled(r, a)
    BY DEF PauseApp, RestoreWaits, ResumeForCommands, Commands, Loaded, AtInstalled
  <1>3. /\ en \in Entries /\ Settings(m, en) /\ Course(m, en)
        /\ en.phase = m.phase /\ en.done = Complete(m, job[r][a])
    BY <1>1, EnsureEntryType, EnsureFields
  <1>4. /\ s1 \in Statuses /\ s1.entry = status[r].entry
        /\ s1.plan = status[r].plan /\ s1.phase = status[r].phase
        /\ s1.started = status[r].started
        /\ s1.quiesced = status[r].quiesced \ {a}
    BY <1>1, QuiescedType, UnmarkFields
  <1>5. ASSUME UNCHANGED vault PROVE VaultFrom(r, a)
    BY <1>5 DEF VaultFrom
  <1>6. ASSUME failApp(r, a, status[r], job[r], ok), UNCHANGED vault
        PROVE  Passes(r)
    BY <1>2, <1>6, FailsAsStored DEF Passes
  <1> HIDE DEF en, m, s1
  \* failApp with the units that are complete noted.
  <1>7. ASSUME NEW js \in JobsOfRun, failApp(r, a, setEntry(status[r], a, en), js, ok),
               \A y \in Slots, u \in Units :
                   js[y][u] = "complete" <=> job[r][y][u] = "complete",
               \A y \in Slots \ {a} : js[y] = job[r][y],
               UNCHANGED vault
        PROVE  Passes(r)
    <2> DEFINE s == setEntry(status[r], a, en)
    <2>1. s \in Statuses
      BY <1>1, <1>3, SetEntryType
    <2>2. /\ s.entry[a] = en /\ s.quiesced = status[r].quiesced
          /\ s.plan = status[r].plan /\ s.started = status[r].started
          /\ \A y \in Slots \ {a} : s.entry[y] = status[r].entry[y]
      BY <1>1, EntryFields
    <2> HIDE DEF s
    <2>3. SlotOnly(r, a, s)
      BY <2>2 DEF SlotOnly
    <2>4. /\ status[r].entry[a].done \subseteq s.entry[a].done
          /\ s.entry[a].done \subseteq Complete(status[r].entry[a], job[r][a])
          /\ s.entry[a].rollout = status[r].entry[a].rollout
          /\ s.entry[a].started = status[r].entry[a].started
      BY <1>1, <1>3, <2>2 DEF Complete, Course, Settings
    <2>5. failApp(r, a, s, js, ok)
      BY <1>7 DEF s
    <2>6. \E t \in Statuses : Wrote(r, t) /\ Fails(r, a, t)
      BY <1>2, <1>7, <2>1, <2>2, <2>3, <2>4, <2>5, FailsAppIs
    <2> QED
      BY <1>1, <2>6 DEF Passes, Passed
  <1>8. CASE PauseApp(r, a, ok)
    <2>1. CASE failApp(r, a, status[r], job[r], ok)
      BY <1>6, <1>8, <2>1 DEF PauseApp
    <2>2. CASE ~failApp(r, a, status[r], job[r], ok)
      <3>1. PICK hook \in PreHook(work[a]) :
                /\ setWork([work EXCEPT ![a] = quiesceApp(a, work[a], hook)])
                /\ persist(r, setEntry(markQuiesced(status[r], a), a,
                       [m EXCEPT !.started = TRUE,
                                 !.mode = quiesceMode(a, hook),
                                 !.phase = "Running"]), ok)
        BY <1>8, <2>2 DEF PauseApp, m
      <3> DEFINE n == [m EXCEPT !.started = TRUE, !.mode = quiesceMode(a, hook),
                                !.phase = "Running"]
                 s0 == markQuiesced(status[r], a)
      <3>2. quiesceMode(a, hook) \in Modes
        BY <1>1, WorkType
      <3>3. n \in Entries
        BY <1>1, <3>2, EntryUpdates
      <3>4. /\ n.started /\ n.mode = quiesceMode(a, hook) /\ n.phase = "Running"
            /\ n.done = m.done /\ Course(m, n) /\ n.retained = m.retained
            /\ n.secrets = m.secrets /\ n.replaced = m.replaced
        BY <1>1 DEF Entries, Course
      <3>5. /\ s0 \in Statuses /\ s0.entry = status[r].entry
            /\ s0.plan = status[r].plan /\ s0.phase = status[r].phase
            /\ s0.started = status[r].started
            /\ s0.quiesced = status[r].quiesced \cup {a}
        BY <1>1, QuiescedType, MarkFields
      <3> HIDE DEF n, s0
      <3>6. /\ persist(r, setEntry(s0, a, n), ok) /\ ~m.started
            /\ SecretsDelivered(r, a) /\ stageDecryptionSecret(r)
            /\ UNCHANGED <<job, orphan, vault>>
        BY <1>8, <2>2, <3>1 DEF PauseApp, n, s0, m
      <3>7. /\ work'[a] = quiesceApp(a, work[a], hook)
            /\ pods'[a] = podsOf(work'[a], pods[a])
        BY <3>1 DEF setWork, CoreOK
      <3>8. AppOnly(a)
        BY <3>1, AppOnlyIs
      <3>9. PICK s \in Statuses :
                /\ Wrote(r, s) /\ GoesOn(r, a, s)
                /\ s.entry[a] = n /\ s.quiesced = s0.quiesced
        BY <1>1, <1>2, <1>5, <3>3, <3>5, <3>6, <3>8, EntryGoesOn
           DEF JobsOver
      <3>10. Pauses(r, a, m, n)
        BY <1>2, <3>4, <3>6, <3>7 DEF Pauses
      <3>11. OverApp(r, a, s)
        BY <1>1, <3>5, <3>9, <3>10 DEF OverApp
      <3> QED
        BY <3>9, <3>11 DEF Passes, Passed
    <2> QED
      BY <2>1, <2>2
  <1>9. CASE RestoreWaits(r, a, ok)
    <2>1. [job[r] EXCEPT ![a] = ensureJobs(m, @, Units)] = Ensuring(r, a)
      BY <1>1 DEF Ensuring
    <2>2. /\ \/ failApp(r, a, status[r], job[r], ok)
             \/ failApp(r, a, setEntry(status[r], a, en), Ensuring(r, a), ok)
             \/ /\ job' = [job EXCEPT ![r] = Ensuring(r, a)]
                /\ UNCHANGED orphan
                /\ persist(r, setEntry(status[r], a, en), ok)
                /\ stageDecryptionSecret(r)
                /\ UNCHANGED <<work, pods>>
                /\ ~(Units \subseteq en.done)
          /\ m.started /\ UNCHANGED vault
      BY <1>9, <2>1 DEF RestoreWaits, en, m
    <2>3. CASE failApp(r, a, setEntry(status[r], a, en), Ensuring(r, a), ok)
      BY <1>1, <1>7, <2>2, <2>3, EnsuredJobs
    <2>4. CASE /\ job' = [job EXCEPT ![r] = Ensuring(r, a)]
               /\ UNCHANGED orphan
               /\ persist(r, setEntry(status[r], a, en), ok)
               /\ stageDecryptionSecret(r)
               /\ UNCHANGED <<work, pods>>
               /\ ~(Units \subseteq en.done)
      <3>1. AppOnly(a)
        BY <2>4, AppOnlyIs
      <3>0. VaultFrom(r, a) /\ JobsOver(r, a)
        BY <1>5, <2>2, <2>4 DEF JobsOver
      <3>2. PICK s \in Statuses :
                /\ Wrote(r, s) /\ GoesOn(r, a, s)
                /\ s.entry[a] = en /\ s.quiesced = status[r].quiesced
        BY <1>1, <1>2, <1>3, <2>4, <3>0, <3>1, EntryGoesOn
      <3>3. Waits(r, a, m, en)
        BY <1>2, <1>3, <2>2, <2>4 DEF Waits, SameApp
      <3>4. OverApp(r, a, s)
        BY <1>1, <3>2, <3>3 DEF OverApp
      <3> QED
        BY <3>2, <3>4 DEF Passes, Passed
    <2> QED
      BY <1>6, <2>2, <2>3, <2>4
  <1>10. ASSUME NEW n \in Entries, persist(r, setEntry(s1, a, n), ok),
                stageDecryptionSecret(r), UNCHANGED <<job, orphan, vault>>,
                AppOnly(a), ComesUp(r, a, m, n) \/ Rolls(r, a, m, n)
         PROVE  Passes(r)
    <2>1. PICK s \in Statuses :
              /\ Wrote(r, s) /\ GoesOn(r, a, s)
              /\ s.entry[a] = n /\ s.quiesced = s1.quiesced
      BY <1>1, <1>2, <1>4, <1>5, <1>10, EntryGoesOn DEF JobsOver
    <2>2. OverApp(r, a, s)
      BY <1>1, <1>4, <1>10, <2>1 DEF OverApp
    <2> QED
      BY <2>1, <2>2 DEF Passes, Passed
  <1>11. CASE ResumeForCommands(r, a, ok)
    <2> DEFINE n == [en EXCEPT !.ended = TRUE]
    <2>1. n \in Entries
      BY <1>3, EntryUpdates
    <2>2. /\ Settings(en, n) /\ n.ended /\ n.rollout = en.rollout
          /\ n.phase = en.phase /\ n.done = en.done
      BY <1>3 DEF Entries, Settings
    <2>3. /\ Loaded(r, a) /\ needsPod(a, m.mode) /\ ~m.ended
          /\ persist(r, setEntry(s1, a, n), ok)
          /\ stageDecryptionSecret(r) /\ UNCHANGED <<job, orphan, vault>>
          /\ \E w : setWork([work EXCEPT ![a] = w])
          /\ Units \subseteq en.done
      BY <1>11 DEF ResumeForCommands, Loaded, Ensured, en, m, s1
    <2> HIDE DEF n
    <2>4. ComesUp(r, a, m, n)
      BY <1>3, <2>2, <2>3 DEF ComesUp, Settings, Course
    <2>5. AppOnly(a)
      BY <2>3, AppOnlyIs
    <2> QED
      BY <1>10, <2>1, <2>3, <2>4, <2>5
  <1>12. CASE Commands(r, a, ok)
    <2> DEFINE n == [en EXCEPT !.ended = TRUE, !.rollout = TRUE]
               w1 == IF resumeCommandOwed(a, en.mode)
                     THEN [work[a] EXCEPT !.maint = FALSE] ELSE work[a]
               roll(w) ==
                   CASE mustRoll(a, en) /\ w.replicas > 0 -> "rolling"
                     [] ~mustRoll(a, en) /\ a \in WithCommands -> Overtaken(pods[a])
                     [] OTHER -> podsOf(w, pods[a])
    <2>1. n \in Entries
      BY <1>3, EntryUpdates
    <2>2. /\ Settings(en, n) /\ n.ended /\ n.rollout
          /\ n.phase = en.phase /\ n.done = en.done
      BY <1>3 DEF Entries, Settings
    <2>3. /\ \/ failApp(r, a, setEntry(status[r], a, en), job[r], ok)
             \/ /\ \E hook \in PostHook(w1) :
                       LET w == IF en.ended THEN w1 ELSE unquiesceApp(w1, en.mode, hook)
                       IN  /\ work' = [work EXCEPT ![a] = w]
                           /\ pods' = [pods EXCEPT ![a] = roll(w)]
                /\ persist(r, setEntry(s1, a, n), ok)
                /\ stageDecryptionSecret(r)
                /\ UNCHANGED <<job, orphan>>
          /\ UNCHANGED vault /\ Loaded(r, a)
          /\ needsPod(a, en.mode) => en.ended /\ runningPodForApp(a)
      BY <1>12 DEF Commands, Ensured, en, m, s1
    <2>4. Units \subseteq en.done
      BY <2>3 DEF Loaded, en, m
    <2>5. w1.replicas = work[a].replicas /\ work[a].replicas \in Nat
      BY <1>1 DEF WorkTypes
    <2>6. \A w : roll(w) = IF mustRoll(a, m) /\ w.replicas > 0 THEN "rolling"
                           ELSE podsOf(w, pods[a])
      <3>1. mustRoll(a, en) <=> mustRoll(a, m)
        BY <1>3 DEF mustRoll, Settings
      <3>2. a \in WithCommands => mustRoll(a, en)
        BY DEF mustRoll
      <3> QED
        BY <3>1, <3>2
    <2> HIDE DEF n, roll
    <2>7. CASE failApp(r, a, setEntry(status[r], a, en), job[r], ok)
      BY <1>1, <1>7, <2>3, <2>7
    <2>8. CASE ~failApp(r, a, setEntry(status[r], a, en), job[r], ok)
      <3>1. PICK hook \in PostHook(w1) :
                LET w == IF en.ended THEN w1 ELSE unquiesceApp(w1, en.mode, hook)
                IN  /\ work' = [work EXCEPT ![a] = w]
                    /\ pods' = [pods EXCEPT ![a] = roll(w)]
        BY <2>3, <2>8
      <3>2. /\ hook \in {"ok", "error"}
            /\ hook = "error" => "resumeHook" \in Faults \/ work[a].replicas = 0
        BY <2>5 DEF PostHook
      <3>3. (IF en.ended THEN w1 ELSE unquiesceApp(w1, en.mode, hook))
                = Resumed(a, m, hook)
        BY <1>3 DEF Resumed, Settings, Course
      <3>4. /\ work' = [work EXCEPT ![a] = Resumed(a, m, hook)]
            /\ pods' = [pods EXCEPT ![a] = roll(Resumed(a, m, hook))]
        BY <3>1, <3>3
      <3>5. /\ work'[a] = Resumed(a, m, hook)
            /\ pods'[a] = IF mustRoll(a, m) /\ work'[a].replicas > 0 THEN "rolling"
                          ELSE podsOf(work'[a], pods[a])
        BY <2>6, <3>4 DEF CoreOK
      <3>6. AppOnly(a)
        BY <3>4, AppOnlyIs
      <3>7. Rolls(r, a, m, n)
        <4>1. /\ Settings(m, n) /\ n.ended /\ n.rollout /\ n.phase = m.phase
              /\ n.done = Complete(m, job[r][a]) /\ Units \subseteq n.done
          BY <1>3, <2>2, <2>4 DEF Settings
        <4>2. /\ Loaded(r, a) /\ UNCHANGED vault /\ job'[r][a] = job[r][a]
              /\ needsPod(a, m.mode) => m.ended /\ runningPodForApp(a)
          BY <1>3, <2>3, <2>8 DEF Settings, Course
        <4> QED
          BY <3>2, <3>5, <4>1, <4>2 DEF Rolls
      <3> QED
        BY <1>10, <2>1, <2>3, <2>8, <3>6, <3>7
    <2> QED
      BY <2>7, <2>8
  <1> QED
    BY <1>8, <1>9, <1>11, <1>12

\* An uninstalled app's data.
LEMMA RetainedPasses ==
    ASSUME CoreOK, NEW r \in Restores, NEW a \in Apps, NEW ok \in Writes,
           RestoreRetained(r, a, ok)
    PROVE  Passes(r)
  <1> DEFINE m == Entry(r, a)
             en0 == ensureEntry(m, job[r][a], Units)
             en == [en0 EXCEPT !.phase = "Running", !.secrets = "delivered"]
             gaveUp(n, k) ==
                 fail(r, setEntry(status[r], a, [n EXCEPT !.phase = "Failed"]), k, ok)
  <1>1. /\ status[r] \in Statuses /\ job[r] \in JobsOfRun
        /\ m \in Entries /\ a \in Slots /\ m = status[r].entry[a]
        /\ job[r][a] \in [Units -> JobStates]
    BY PartTypes DEF Entry, JobsOfRun
  <1>2. /\ en0 \in Entries /\ Settings(m, en0) /\ Course(m, en0)
        /\ en0.done = Complete(m, job[r][a])
    BY <1>1, EnsureEntryType, EnsureFields
  <1>3. /\ At(r, a) /\ m.retained /\ Running(r) /\ UNCHANGED <<work, pods>>
        /\ \/ vault' = [vault EXCEPT ![a] = IF a \in WithSecrets
                                            THEN Bundle[r] ELSE @]
           \/ UNCHANGED vault
    BY AtRuns DEF RestoreRetained
  <1>4. [job[r] EXCEPT ![a] = ensureJobs(m, @, Units)] = Ensuring(r, a)
    BY <1>1 DEF Ensuring
  <1>5. \/ gaveUp(en, Ensuring(r, a)) \/ gaveUp(m, job[r])
        \/ /\ job' = [job EXCEPT ![r] = Ensuring(r, a)]
           /\ UNCHANGED orphan
           /\ persist(r, setEntry(status[r], a,
                  IF Units \subseteq en.done
                  THEN [en EXCEPT !.phase = "Ready"] ELSE en), ok)
           /\ stageDecryptionSecret(r)
    BY <1>4 DEF RestoreRetained
  <1>6. VaultFrom(r, a)
    BY <1>3 DEF VaultFrom, CoreOK
  <1> HIDE DEF en0, m
  <1>7. /\ en \in Entries /\ en.phase = "Running" /\ en.secrets = "delivered"
        /\ en.retained = m.retained /\ en.replaced = m.replaced
        /\ en.started = m.started /\ en.mode = m.mode
        /\ Course(m, en) /\ en.done = Complete(m, job[r][a])
    <2>1. en \in Entries
      BY <1>2, EntryUpdates
    <2>2. /\ en.phase = "Running" /\ en.secrets = "delivered"
          /\ en.retained = en0.retained /\ en.replaced = en0.replaced
          /\ en.started = en0.started /\ en.mode = en0.mode
          /\ Course(en0, en) /\ en.done = en0.done
      BY <1>2 DEF Entries, Course
    <2> QED
      BY <1>2, <2>1, <2>2 DEF Settings, Course
  <1> HIDE DEF en
  <1>8. ASSUME NEW n \in Entries, NEW k \in JobsOfRun, gaveUp(n, k),
               m.done \subseteq n.done, n.done \subseteq Complete(m, job[r][a]),
               n.rollout = m.rollout, n.started = m.started,
               \A y \in Slots, u \in Units :
                   k[y][u] = "complete" <=> job[r][y][u] = "complete",
               \A y \in Slots \ {a} : k[y] = job[r][y]
        PROVE  Passes(r)
    <2> DEFINE f == [n EXCEPT !.phase = "Failed"]
               s == setEntry(status[r], a, f)
    <2>1. f \in Entries
      BY EntryUpdates DEF Phases
    <2>2. f.done = n.done /\ f.rollout = n.rollout /\ f.phase = "Failed" /\ f.started = n.started
      BY DEF Entries
    <2>3. fail(r, s, k, ok)
      BY <1>8
    <2> HIDE DEF f
    <2>4. s \in Statuses
      BY <1>1, <2>1, SetEntryType
    <2>5. /\ s.entry[a] = f /\ s.quiesced = status[r].quiesced
          /\ s.plan = status[r].plan /\ s.started = status[r].started
          /\ \A y \in Slots \ {a} : s.entry[y] = status[r].entry[y]
      BY <1>1, EntryFields
    <2> HIDE DEF s
    <2>6. SlotOnly(r, a, s)
      BY <2>5 DEF SlotOnly
    <2>7. \E t \in Statuses : Wrote(r, t) /\ Fails(r, a, t)
      BY <1>1, <1>3, <1>6, <1>8, <2>2, <2>3, <2>4, <2>5, <2>6, FailsIs
    <2> QED
      BY <1>1, <2>7 DEF Passes, Passed
  <1>9. CASE gaveUp(en, Ensuring(r, a))
    <2>1. m.done \subseteq en.done /\ en.rollout = m.rollout
      BY <1>7 DEF Complete, Course
    <2> HIDE DEF gaveUp
    <2> QED
      BY <1>1, <1>7, <1>8, <1>9, <2>1, EnsuredJobs
  <1>10. CASE gaveUp(m, job[r])
    <2>1. m.done \subseteq Complete(m, job[r][a])
      BY DEF Complete
    <2> HIDE DEF gaveUp
    <2> QED
      BY <1>1, <1>8, <1>10, <2>1
  <1>11. CASE /\ job' = [job EXCEPT ![r] = Ensuring(r, a)]
              /\ UNCHANGED orphan
              /\ persist(r, setEntry(status[r], a,
                     IF Units \subseteq en.done
                     THEN [en EXCEPT !.phase = "Ready"] ELSE en), ok)
              /\ stageDecryptionSecret(r)
    <2> DEFINE n == IF Units \subseteq en.done
                    THEN [en EXCEPT !.phase = "Ready"] ELSE en
    <2>1. [en EXCEPT !.phase = "Ready"] \in Entries
      BY <1>7, EntryUpdates DEF Phases
    <2>2. n \in Entries
      BY <1>7, <2>1
    <2>3. /\ n.secrets = en.secrets /\ n.retained = en.retained
          /\ n.replaced = en.replaced /\ n.started = en.started
          /\ n.mode = en.mode /\ Course(en, n) /\ n.done = en.done
          /\ n.phase = IF Units \subseteq en.done THEN "Ready" ELSE "Running"
      BY <1>7 DEF Entries, Course
    <2>4. persist(r, setEntry(status[r], a, n), ok)
      BY <1>11
    <2> HIDE DEF n
    <2>5. LoadsRetained(r, a, m, n)
      BY <1>3, <1>7, <2>3 DEF LoadsRetained, SameApp, Course
    <2>6. AppOnly(a) /\ JobsOver(r, a)
      BY <1>3, <1>11, AppOnlyIs DEF JobsOver
    <2>7. PICK s \in Statuses :
              /\ Wrote(r, s) /\ GoesOn(r, a, s)
              /\ s.entry[a] = n /\ s.quiesced = status[r].quiesced
      BY <1>1, <1>3, <1>6, <1>11, <2>2, <2>4, <2>6, EntryGoesOn
    <2>8. OverApp(r, a, s)
      BY <1>1, <2>5, <2>7 DEF OverApp
    <2> QED
      BY <2>7, <2>8 DEF Passes, Passed
  <1> QED
    BY <1>5, <1>9, <1>10, <1>11

\* What is the tenant's own, and the end.
LEMMA LastPasses ==
    ASSUME CoreOK, NEW r \in Restores, NEW ok \in Writes,
           RestoreTenantWide(r, ok) \/ Finish(r, ok)
    PROVE  Passes(r)
  <1> DEFINE old == status[r].entry[TenantWide]
             en  == ensureEntry(old, job[r][TenantWide], Units)
             counted(n, k) ==
                 IF n.attempts > exportMaxAttempts
                 THEN fail(r, setEntry(status[r], TenantWide,
                                       [n EXCEPT !.phase = "Failed"]), k, ok)
                 ELSE /\ job' = [job EXCEPT ![r] = k]
                      /\ UNCHANGED orphan
                      /\ persist(r, setEntry(status[r], TenantWide, n), ok)
                      /\ stageDecryptionSecret(r)
  <1>1. /\ status[r] \in Statuses /\ job[r] \in JobsOfRun
        /\ old \in Entries /\ TenantWide \in Slots
        /\ job[r][TenantWide] \in [Units -> JobStates]
    BY PartTypes DEF JobsOfRun
  <1>2. /\ en \in Entries /\ Course(old, en) /\ Settings(old, en)
        /\ en.done = Complete(old, job[r][TenantWide])
    BY <1>1, EnsureEntryType, EnsureFields
  <1>3. /\ At(r, TenantWide) /\ Running(r) /\ UNCHANGED <<work, pods, vault>>
    BY AtRuns DEF RestoreTenantWide, Finish, tenantWideDone, NoApp, appState
  <1>4. VaultFrom(r, TenantWide) /\ AppOnly(TenantWide)
    BY <1>3, AppOnlyIs DEF VaultFrom
  <1>5. \A x \in Apps : TenantWide # x
    BY RestoreConfig
  <1>6. Stale(r) = {} /\ nextPendingApp(r) = TenantWide
    BY <1>3 DEF At
  <1>7. TenantWide \notin status[r].quiesced
    BY <1>1, <1>5 DEF Statuses
  <1>8. CASE RestoreTenantWide(r, ok)
    <2>1. \/ counted(en, Ensuring(r, TenantWide))
          \/ counted([old EXCEPT !.attempts = @ + 1], job[r])
          \/ counted([en EXCEPT !.attempts = @ + 1], job[r])
      BY <1>8 DEF RestoreTenantWide, Ensuring
    <2> HIDE DEF en
    <2>2. ASSUME NEW n \in Entries, NEW k, counted(n, k),
                 k = job[r] \/ k = Ensuring(r, TenantWide),
                 old.done \subseteq n.done, n.rollout = old.rollout,
                 n.started = old.started,
                 n.done \subseteq Complete(old, job[r][TenantWide])
          PROVE  Passes(r)
      <3>1. /\ k \in JobsOfRun
            /\ \A y \in Slots, u \in Units :
                   k[y][u] = "complete" <=> job[r][y][u] = "complete"
            /\ \A y \in Slots \ {TenantWide} : k[y] = job[r][y]
        BY <1>1, <2>2, EnsuredJobs
      <3>2. CASE n.attempts > exportMaxAttempts
        <4> DEFINE f == [n EXCEPT !.phase = "Failed"]
                   s == setEntry(status[r], TenantWide, f)
        <4>1. f \in Entries
          BY EntryUpdates DEF Phases
        <4>2. f.done = n.done /\ f.rollout = n.rollout /\ f.phase = "Failed" /\ f.started = n.started
          BY DEF Entries
        <4>3. fail(r, s, k, ok)
          BY <2>2, <3>2
        <4> HIDE DEF f
        <4>4. s \in Statuses
          BY <1>1, <4>1, SetEntryType
        <4>5. /\ s.entry[TenantWide] = f /\ s.quiesced = status[r].quiesced
              /\ s.plan = status[r].plan /\ s.started = status[r].started
              /\ \A y \in Slots \ {TenantWide} : s.entry[y] = status[r].entry[y]
          BY <1>1, EntryFields
        <4> HIDE DEF s
        <4>6. SlotOnly(r, TenantWide, s)
          BY <4>5 DEF SlotOnly
        <4>7. TenantWide \notin s.quiesced
          BY <1>7, <4>5
        <4>8. \E t \in Statuses : Wrote(r, t) /\ Fails(r, TenantWide, t)
          BY <1>1, <1>3, <1>4, <2>2, <3>1, <4>2, <4>3, <4>4, <4>5, <4>6, <4>7,
             FailsIs
        <4> QED
          BY <1>1, <4>8 DEF Passes, Passed
      <3>3. CASE ~(n.attempts > exportMaxAttempts)
        <4>1. /\ job' = [job EXCEPT ![r] = k] /\ UNCHANGED orphan
              /\ persist(r, setEntry(status[r], TenantWide, n), ok)
              /\ stageDecryptionSecret(r)
          BY <2>2, <3>3
        <4>2. JobsOver(r, TenantWide)
          BY <2>2, <4>1 DEF CoreOK, JobsOver
        <4>3. PICK s \in Statuses :
                  /\ Wrote(r, s) /\ GoesOn(r, TenantWide, s)
                  /\ s.entry[TenantWide] = n /\ s.quiesced = status[r].quiesced
          BY <1>1, <1>3, <1>4, <4>1, <4>2, EntryGoesOn
        <4>4. OverTenant(r, s)
          BY <1>3, <2>2, <4>3 DEF OverTenant
        <4> QED
          BY <4>3, <4>4 DEF Passes, Passed
      <3> QED
        BY <3>2, <3>3
    <2>3. /\ old.done \subseteq en.done /\ en.rollout = old.rollout
          /\ en.started = old.started
          /\ old.done \subseteq Complete(old, job[r][TenantWide])
      BY <1>2 DEF Complete, Course, Settings
    <2> HIDE DEF counted, old
    <2>4. ASSUME NEW n \in Entries
          PROVE  /\ [n EXCEPT !.attempts = @ + 1] \in Entries
                 /\ [n EXCEPT !.attempts = @ + 1].done = n.done
                 /\ [n EXCEPT !.attempts = @ + 1].rollout = n.rollout
                 /\ [n EXCEPT !.attempts = @ + 1].started = n.started
      <3>1. [n EXCEPT !.attempts = @ + 1] \in Entries
        BY EntryUpdates
      <3>2. /\ [n EXCEPT !.attempts = @ + 1].done = n.done
            /\ [n EXCEPT !.attempts = @ + 1].rollout = n.rollout
            /\ [n EXCEPT !.attempts = @ + 1].started = n.started
        BY DEF Entries
      <3> QED
        BY <3>1, <3>2
    <2>5. CASE counted(en, Ensuring(r, TenantWide))
      BY <1>2, <2>2, <2>3, <2>5
    <2>6. CASE counted([old EXCEPT !.attempts = @ + 1], job[r])
      BY <1>1, <2>2, <2>3, <2>4, <2>6
    <2>7. CASE counted([en EXCEPT !.attempts = @ + 1], job[r])
      BY <1>2, <2>2, <2>3, <2>4, <2>7
    <2> QED
      BY <2>1, <2>5, <2>6, <2>7
  <1>9. CASE Finish(r, ok)
    <2> DEFINE n == [en EXCEPT !.phase = "Ready"]
               s == setEntry(status[r], TenantWide, n)
               t == [s EXCEPT !.phase = "Ready", !.heldBack = {},
                              !.complete = status[r].omitted = {}]
               stopped == stopRunningRestoreJobs(job[r])
    <2>1. /\ persist(r, t, ok) /\ UNCHANGED orphan
          /\ \/ job' = [job EXCEPT ![r] = stopped]
             \/ "tidy" \in Faults /\ UNCHANGED job
          /\ key' = key \/ \E k : key' = [key EXCEPT ![r] = k]
      BY <1>9 DEF Finish, discardStagedRestoreSecrets
    <2>2. Units \subseteq en.done
      BY <1>9 DEF Finish, tenantWideDone
    <2> HIDE DEF en
    <2>3. n \in Entries /\ n.done = en.done
      <3>1. n \in Entries
        BY <1>2, EntryUpdates DEF Phases
      <3>2. n.done = en.done
        BY <1>2 DEF Entries
      <3> QED
        BY <3>1, <3>2
    <2> HIDE DEF n
    <2>4. s \in Statuses
      BY <1>1, <2>3, SetEntryType
    <2>5. /\ s.entry[TenantWide] = n /\ s.quiesced = status[r].quiesced
          /\ s.plan = status[r].plan /\ s.started = status[r].started
          /\ \A y \in Slots \ {TenantWide} : s.entry[y] = status[r].entry[y]
      BY <1>1, EntryFields
    <2> HIDE DEF s
    <2>6. t \in Statuses
      BY <2>4 DEF Statuses, Phases
    <2>7. /\ t.phase = "Ready" /\ t.entry = s.entry /\ t.plan = s.plan
          /\ t.started = s.started /\ t.quiesced = s.quiesced
      BY <2>4 DEF Statuses
    <2>8. \A y \in Slots, u \in Units :
              /\ stopped[y][u] # "running"
              /\ stopped[y][u] = "complete" <=> job[r][y][u] = "complete"
      BY DEF stopRunningRestoreJobs
    <2> HIDE DEF t, stopped
    <2>9. Wrote(r, t)
      BY <2>1, <2>6, WroteIs
    <2>10. job'[r] = stopped \/ ("tidy" \in Faults /\ job'[r] = job[r])
      BY <2>1 DEF CoreOK
    <2>11. /\ JobsKept(r)
           /\ \A y \in Slots, u \in Units :
                  job'[r][y][u] = "running" =>
                      "tidy" \in Faults /\ job[r][y][u] = "running"
      BY <2>8, <2>10 DEF JobsKept
    <2>12. SlotOnly(r, TenantWide, t)
      BY <2>5, <2>7 DEF SlotOnly
    <2>13. Ends(r, t)
      BY <1>2, <1>3, <2>1, <2>2, <2>3, <2>5, <2>7, <2>11, <2>12 DEF Ends, NoApp
    <2> QED
      BY <2>6, <2>9, <2>13 DEF Passes, Passed
  <1> QED
    BY <1>8, <1>9

\* Passes over a restore that has ended or is being deleted, and the passes
\* up to the plan.
LEMMA EarlyPasses ==
    ASSUME CoreOK, NEW r \in Restores, NEW ok \in Writes,
           \/ ResumeEnded(r, ok) \/ FinalizeResume(r, ok)
           \/ FailPreflight(r, ok) \/ Busy(r, ok) \/ FailUnusable(r, ok)
           \/ Plan(r, ok) \/ resumeStale(r, ok)
    PROVE  Passes(r)
  <1>1. /\ status[r] \in Statuses /\ job[r] \in JobsOfRun
        /\ TenantWide \in Slots
    BY PartTypes
  <1>2. ASSUME fail(r, status[r], job[r], ok), Running(r),
               UNCHANGED <<work, pods, vault>>,
               \/ ~status[r].started
               \/ {"tenant", "unusable"} \cap Faults # {} \/ key[r] = "gone"
        PROVE  Passes(r)
    <2>1. SlotOnly(r, TenantWide, status[r])
      BY DEF SlotOnly
    <2>2. status[r].entry[TenantWide].done
              \subseteq Complete(status[r].entry[TenantWide], job[r][TenantWide])
      BY DEF Complete
    <2>3. VaultFrom(r, TenantWide)
      BY <1>2 DEF VaultFrom
    <2>4. \E t \in Statuses : Wrote(r, t) /\ Fails(r, TenantWide, t)
      BY <1>1, <1>2, <2>1, <2>2, <2>3, FailsIs
    <2> QED
      BY <1>1, <2>4 DEF Passes, Passed
  <1>3. ASSUME NEW Q, resume(r, Q, ok), Q \subseteq status[r].quiesced,
               job' = job \/ \E js : job' = [job EXCEPT ![r] = js],
               key' = key \/ \E k : key' = [key EXCEPT ![r] = k],
               UNCHANGED vault,
               \/ /\ obj[r] = "live" /\ IsTerminal(status[r])
                  /\ UNCHANGED <<job, orphan, key>>
               \/ /\ Works(r) /\ status[r].started /\ Q = Stale(r)
                  /\ UNCHANGED <<job, orphan, key>>
               \/ /\ obj[r] = "deleting"
                  /\ \A x \in Slots, u \in Units :
                         job'[r][x][u] \in {"none", "foreign"}
                         /\ (job[r][x][u] = "none" => job'[r][x][u] = "none")
                  /\ orphan' # orphan => "orphan" \in Faults
                  /\ \A t \in orphan' : t \in orphan \/ t[1] = r
        PROVE  Passes(r)
    <2> DEFINE s == unmarkQuiesced(status[r], Q)
    <2>1. persist(r, s, ok) /\ Q # {}
      BY <1>3 DEF resume
    <2>2. /\ s \in Statuses /\ s.entry = status[r].entry
          /\ s.phase = status[r].phase /\ s.plan = status[r].plan
          /\ s.started = status[r].started
          /\ s.quiesced = status[r].quiesced \ Q
      BY <1>1, QuiescedType, UnmarkFields
    <2> HIDE DEF s
    <2>3. \A a \in Apps \ Q : work'[a] = work[a]
      BY <1>3 DEF resume, setWork
    <2>4. Wrote(r, s)
      BY <1>3, <2>1, <2>2, WroteIs
    <2>5. Resumes(r, s)
      BY <1>3, <2>1, <2>2, <2>3 DEF Resumes
    <2> QED
      BY <2>2, <2>4, <2>5 DEF Passes, Passed
  <1>4. CASE ResumeEnded(r, ok)
    BY <1>3, <1>4 DEF ResumeEnded, resumeAll
  <1>5. CASE FinalizeResume(r, ok)
    <2> DEFINE gone == deleteRestoreJobs(job[r])
    <2>1. \A x \in Slots, u \in Units :
              /\ gone[x][u] \in {"none", "foreign"}
              /\ job[r][x][u] = "none" => gone[x][u] = "none"
      BY DEF deleteRestoreJobs
    <2>2. /\ job' = [job EXCEPT ![r] = gone] /\ orphan' = Orphaned(r, job[r])
          /\ key' = key \/ \E k : key' = [key EXCEPT ![r] = k]
          /\ resume(r, status[r].quiesced, ok) /\ obj[r] = "deleting"
          /\ UNCHANGED vault
      BY <1>5 DEF FinalizeResume, resumeAll, discardStagedRestoreSecrets
    <2> HIDE DEF gone
    <2>3. job'[r] = gone
      BY <2>2 DEF CoreOK
    <2>4. /\ orphan' # orphan => "orphan" \in Faults
          /\ \A t \in orphan' : t \in orphan \/ t[1] = r
      BY <2>2 DEF Orphaned
    <2>5. job' = job \/ \E js : job' = [job EXCEPT ![r] = js]
      BY <2>2
    <2> QED
      BY <1>3, <2>1, <2>2, <2>3, <2>4, <2>5
  <1>6. CASE FailPreflight(r, ok) \/ FailUnusable(r, ok)
    BY <1>2, <1>6 DEF FailPreflight, FailUnusable, Resolved, appState
  <1>7. CASE Busy(r, ok)
    <2> DEFINE s == [status[r] EXCEPT !.phase = "Pending"]
    <2>1. s \in Statuses
      BY <1>1 DEF Statuses, Phases
    <2>2. /\ s.phase = "Pending" /\ s.entry = status[r].entry
          /\ s.plan = status[r].plan /\ s.started = status[r].started
          /\ s.quiesced = status[r].quiesced
      BY <1>1 DEF Statuses
    <2>3. /\ persist(r, s, ok) /\ Running(r)
          /\ UNCHANGED <<job, orphan, key, work, pods, vault>>
      BY <1>7 DEF Busy, appState
    <2> HIDE DEF s
    <2>4. Wrote(r, s)
      BY <2>1, <2>3, WroteIs
    <2>5. StandsBack(r, s)
      BY <2>2, <2>3 DEF StandsBack
    <2> QED
      BY <2>1, <2>4, <2>5 DEF Passes, Passed
  <1>8. CASE Plan(r, ok)
    <2>1. PICK O \in Omissions(r) :
              \/ fail(r, status[r], job[r], ok)
              \/ /\ persist(r, recordPlan(r, O), ok)
                 /\ stageDecryptionSecret(r)
                 /\ UNCHANGED <<job, orphan>>
      BY <1>8 DEF Plan
    <2>2. /\ Works(r) /\ Running(r) /\ ~status[r].started
          /\ UNCHANGED <<work, pods, vault>>
      BY <1>8 DEF Plan, appState, Works
    <2>3. CASE persist(r, recordPlan(r, O), ok) /\ stageDecryptionSecret(r)
               /\ UNCHANGED <<job, orphan>>
      <3> DEFINE s == recordPlan(r, O)
                 f == [x \in Slots |->
                          IF x \in Apps /\ x \in Asked(r) \ O /\ isRetained(x)
                          THEN [NewEntry EXCEPT !.retained = TRUE] ELSE NewEntry]
      <3>1. s \in Statuses
        BY PlanType
      <3>2. /\ s.started /\ s.phase = "Running" /\ s.entry = f
            /\ s.quiesced = status[r].quiesced
        BY <1>1 DEF recordPlan, Statuses
      <3>3. \A x \in Slots :
                /\ IsNew(f[x])
                /\ f[x].retained => x \notin installed
        BY DEF NewEntry, isRetained, IsNew
      <3>4. persist(r, s, ok) /\ UNCHANGED <<job, orphan, key>>
        BY <2>3 DEF stageDecryptionSecret
      <3> HIDE DEF s, f
      <3>5. Wrote(r, s)
        BY <3>1, <3>4, WroteIs
      <3>6. Plans(r, s)
        BY <2>2, <3>2, <3>3, <3>4 DEF Plans
      <3> QED
        BY <3>1, <3>5, <3>6 DEF Passes, Passed
    <2> QED
      BY <1>2, <2>1, <2>2, <2>3
  <1>9. CASE resumeStale(r, ok)
    <2>1. Stale(r) \subseteq status[r].quiesced
      BY DEF Stale
    <2>2. /\ Works(r) /\ status[r].started /\ resume(r, Stale(r), ok)
          /\ UNCHANGED <<job, orphan, key, vault>>
      BY <1>9 DEF resumeStale, stageDecryptionSecret
    <2> QED
      BY <1>3, <2>1, <2>2
  <1> QED
    BY <1>4, <1>5, <1>6, <1>7, <1>8, <1>9

\* Every pass over a restore that writes its status is one of those.
LEMMA PassIs ==
    ASSUME CoreOK, NEW r \in Restores, NEW ok \in Writes, Reconcile(r, ok)
    PROVE  PassOver(r)
  <1>1. Passes(r)
    BY EarlyPasses, HoldPasses, LoadPasses, RetainedPasses, LastPasses
       DEF Reconcile
  <1>2. UNCHANGED <<obj, finalizer, data, handed, installed>>
    <2>1. CASE \/ ResumeEnded(r, ok) \/ FailPreflight(r, ok) \/ Busy(r, ok)
               \/ FailUnusable(r, ok) \/ Plan(r, ok) \/ resumeStale(r, ok)
               \/ FinalizeResume(r, ok)
      BY <2>1 DEF ResumeEnded, FailPreflight, Busy, FailUnusable, Plan,
                  resumeStale, FinalizeResume, Steady, appState
    <2>2. CASE RestoreTenantWide(r, ok) \/ Finish(r, ok)
      BY <2>2 DEF RestoreTenantWide, Finish, Steady, appState
    <2>3. ASSUME NEW a \in Apps,
                 \/ holdBack(r, a, ok) \/ PlanSecrets(r, a, ok)
                 \/ ApplySecrets(r, a, ok) \/ AwaitSecrets(r, a, ok)
                 \/ PauseApp(r, a, ok) \/ RestoreWaits(r, a, ok)
                 \/ ResumeForCommands(r, a, ok) \/ PodTimeout(r, a, ok)
                 \/ Commands(r, a, ok) \/ awaitRollout(r, a, ok)
                 \/ RestoreRetained(r, a, ok)
          PROVE  UNCHANGED <<obj, finalizer, data, handed, installed>>
      BY <2>3 DEF holdBack, PlanSecrets, ApplySecrets, AwaitSecrets, PauseApp,
                  RestoreWaits, ResumeForCommands, PodTimeout, Commands,
                  awaitRollout, RestoreRetained, Steady, appState
    <2> QED
      BY <2>1, <2>2, <2>3 DEF Reconcile
  <1> QED
    BY <1>1, <1>2 DEF PassOver, Passes

----------------------------------------------------------------------------
(* The other steps, in the same view. *)

\* A pass that writes no status.
QuietPass(r) ==
    /\ UNCHANGED <<status, data, vault, handed, work, pods, installed>>
    /\ \A q \in Restores \ {r} :
           /\ obj'[q] = obj[q] /\ job'[q] = job[q] /\ key'[q] = key[q]
           /\ q \in finalizer' <=> q \in finalizer
    /\ \A x \in Slots, u \in Units :
           /\ job'[r][x][u] = "running" => job[r][x][u] = "running"
           /\ job[r][x][u] = "none" => job'[r][x][u] = "none"
           /\ job'[r][x][u] = "complete" => job[r][x][u] = "complete"
    /\ orphan' # orphan => "orphan" \in Faults
    /\ \A t \in orphan' : t \in orphan \/ t[1] = r
    /\ \/ /\ obj[r] = "live" /\ obj'[r] = "live" /\ ~IsTerminal(status[r])
          /\ r \in finalizer' /\ UNCHANGED <<job, orphan, key>>
       \/ /\ \/ /\ obj[r] = "live" /\ obj'[r] = "live" /\ IsTerminal(status[r])
                /\ \A x \in Slots, u \in Units :
                       job[r][x][u] = "complete" => job'[r][x][u] = "complete"
             \/ obj[r] = "deleting" /\ obj'[r] = "gone"
          /\ \A x \in Slots, u \in Units : job'[r][x][u] # "running"

LEMMA QuietIs ==
    ASSUME CoreOK, NEW r \in Restores, ReconcileQuietly(r)
    PROVE  QuietPass(r)
  <1> DEFINE stopped == stopRunningRestoreJobs(job[r])
             gone == deleteRestoreJobs(job[r])
  <1>1. \A x \in Slots, u \in Units :
            /\ stopped[x][u] # "running" /\ gone[x][u] # "running"
            /\ stopped[x][u] = "complete" <=> job[r][x][u] = "complete"
            /\ gone[x][u] # "complete"
            /\ job[r][x][u] = "none" => stopped[x][u] = "none" /\ gone[x][u] = "none"
    BY DEF stopRunningRestoreJobs, deleteRestoreJobs
  <1>2. ASSUME orphan' = Orphaned(r, job[r])
        PROVE  /\ orphan' # orphan => "orphan" \in Faults
               /\ \A t \in orphan' : t \in orphan \/ t[1] = r
    BY <1>2 DEF Orphaned
  <1>3. CASE AddFinalizer(r)
    BY <1>3 DEF AddFinalizer, QuietPass, CoreOK, appState
  <1>4. CASE TidyEnded(r)
    <2>1. /\ job' = [job EXCEPT ![r] = stopped] /\ orphan' = Orphaned(r, job[r])
          /\ key' = [key EXCEPT ![r] = discardKey(@)]
          /\ finalizer' = finalizer \ {r}
          /\ obj[r] = "live" /\ IsTerminal(status[r])
          /\ UNCHANGED <<obj, status, data, vault, handed, work, pods, installed>>
      BY <1>4 DEF TidyEnded, appState, discardStagedRestoreSecrets
    <2> HIDE DEF stopped
    <2>2. /\ job'[r] = stopped
          /\ \A q \in Restores \ {r} : job'[q] = job[q] /\ key'[q] = key[q]
      BY <2>1 DEF CoreOK
    <2> QED
      BY <1>1, <1>2, <2>1, <2>2 DEF QuietPass
  <1>5. CASE Finalize(r)
    <2>1. /\ job' = [job EXCEPT ![r] = gone] /\ orphan' = Orphaned(r, job[r])
          /\ key' = key \/ key' = [key EXCEPT ![r] = discardKey(@)]
          /\ finalizer' = finalizer \ {r}
          /\ obj[r] = "deleting" /\ obj' = [obj EXCEPT ![r] = "gone"]
          /\ UNCHANGED <<status, data, vault, handed, work, pods, installed>>
      BY <1>5 DEF Finalize, appState, discardStagedRestoreSecrets
    <2> HIDE DEF gone
    <2>2. /\ job'[r] = gone /\ obj'[r] = "gone"
          /\ \A q \in Restores \ {r} : /\ job'[q] = job[q] /\ key'[q] = key[q]
                                       /\ obj'[q] = obj[q]
      BY <2>1 DEF CoreOK
    <2> QED
      BY <1>1, <1>2, <2>1, <2>2 DEF QuietPass
  <1> QED
    BY <1>3, <1>4, <1>5 DEF ReconcileQuietly

\* A Job of the unit u of the slot x ends, or a pod that outlived its Job.
UnitEnds(r, x, u) ==
    /\ UNCHANGED <<obj, finalizer, status, key, vault, handed, installed>>
    /\ \A q \in Restores, y \in Slots, v \in Units :
           <<q, y, v>> # <<r, x, u>> => job'[q][y][v] = job[q][y][v]
    /\ \A y \in Slots, v \in Units :
           <<y, v>> # <<x, u>> => data'[y][v] = data[y][v]
    /\ \A a \in Apps \ {x} : SameApp(a)
    /\ x \in Apps =>
           /\ work'[x].replicas = work[x].replicas
           /\ work'[x].memo = work[x].memo
           /\ work[x].maint => work'[x].maint
           /\ work'[x].maint => work[x].maint \/ QuiesceMode[x] = "command"
           /\ pods'[x] \in {pods[x], Overtaken(pods[x])}
    /\ \/ /\ job[r][x][u] = "running" /\ UNCHANGED orphan
          /\ job'[r][x][u] \in {"complete", "failed", "stuck"}
          /\ job'[r][x][u] = "complete" => data'[x][u] = Bundle[r]
       \/ /\ <<r, x, u>> \in orphan /\ orphan' \subseteq orphan
          /\ UNCHANGED job /\ data'[x][u] \in {data[x][u], Bundle[r]}

LEMMA LoadIs ==
    ASSUME CoreOK, NEW r \in Restores, NEW x \in Slots, NEW u \in Units,
           NEW content, Load(r, x, u, content)
    PROVE  /\ UNCHANGED <<obj, finalizer, status, key, vault, handed, installed>>
           /\ \A y \in Slots, v \in Units :
                  <<y, v>> # <<x, u>> => data'[y][v] = data[y][v]
           /\ data'[x][u] = content
           /\ \A a \in Apps \ {x} : SameApp(a)
           /\ x \in Apps =>
                  /\ work'[x].replicas = work[x].replicas
                  /\ work'[x].memo = work[x].memo
                  /\ work[x].maint => work'[x].maint
                  /\ work'[x].maint => work[x].maint \/ QuiesceMode[x] = "command"
                  /\ pods'[x] \in {pods[x], Overtaken(pods[x])}
  <1>1. /\ UNCHANGED <<obj, finalizer, status, key, vault, handed, installed>>
        /\ data' = [data EXCEPT ![x][u] = content]
    BY DEF Load, Steady
  <1>2. /\ \A y \in Slots, v \in Units :
               <<y, v>> # <<x, u>> => data'[y][v] = data[y][v]
        /\ data'[x][u] = content
    BY <1>1 DEF CoreOK
  <1>3. CASE x = TenantWide
    <2>1. x \notin Apps /\ UNCHANGED <<work, pods>>
      BY <1>3, RestoreConfig DEF Load
    <2> QED
      BY <1>1, <1>2, <2>1 DEF SameApp
  <1>4. CASE x # TenantWide
    <2>1. x \in Apps /\ work[x] \in WorkTypes
      BY <1>4 DEF Slots, CoreOK
    <2>2. PICK m \in {work[x].maint,
                      work[x].maint \/ QuiesceMode[x] = "command"} :
              work' = [work EXCEPT ![x].maint = m]
      BY <1>4 DEF Load
    <2>3. pods' = [pods EXCEPT ![x] = Overtaken(pods[x])]
      BY <1>4 DEF Load
    <2>4. /\ \A a \in Apps \ {x} : SameApp(a)
          /\ pods'[x] = Overtaken(pods[x])
          /\ work'[x] = [work[x] EXCEPT !.maint = m]
      BY <2>1, <2>2, <2>3 DEF CoreOK, SameApp
    <2>5. /\ work'[x].replicas = work[x].replicas
          /\ work'[x].memo = work[x].memo /\ work'[x].maint = m
      BY <2>1, <2>4 DEF WorkTypes
    <2> QED
      BY <1>1, <1>2, <2>2, <2>4, <2>5
  <1> QED
    BY <1>3, <1>4

LEMMA UnitIs ==
    ASSUME CoreOK, NEW r \in Restores, NEW x \in Slots, NEW u \in Units,
           JobEnds(r, x, u) \/ OrphanEnds(r, x, u)
    PROVE  UnitEnds(r, x, u)
  <1> DEFINE Rest == \A q \in Restores, y \in Slots, v \in Units :
                         <<q, y, v>> # <<r, x, u>> => job'[q][y][v] = job[q][y][v]
  <1>2. ASSUME UNCHANGED <<Steady, status, key, staged, appState>>
        PROVE  /\ UNCHANGED <<obj, finalizer, status, key, vault, handed, installed>>
               /\ UNCHANGED <<data, work, pods>>
    BY <1>2 DEF Steady, appState
  <1>3. CASE JobCompletes(r, x, u)
    <2>1. /\ job[r][x][u] = "running" /\ UNCHANGED orphan
          /\ Load(r, x, u, Bundle[r])
      BY <1>3 DEF JobCompletes
    <2>2. Rest /\ job'[r][x][u] = "complete"
      BY <1>3 DEF JobCompletes, CoreOK, JobsOfRun
    <2> QED
      BY <2>1, <2>2, LoadIs DEF UnitEnds
  <1>4. CASE JobFails(r, x, u)
    <2>1. /\ job[r][x][u] = "running" /\ UNCHANGED orphan
          /\ \/ UNCHANGED <<Steady, status, key, staged, appState>>
             \/ Load(r, x, u, "torn")
      BY <1>4 DEF JobFails
    <2>2. Rest /\ job'[r][x][u] \in {"failed", "stuck"}
      BY <1>4 DEF JobFails, CoreOK, JobsOfRun
    <2>3. CASE Load(r, x, u, "torn")
      BY <2>1, <2>2, <2>3, LoadIs DEF UnitEnds
    <2>4. CASE ~Load(r, x, u, "torn")
      BY <1>2, <2>1, <2>2, <2>4 DEF UnitEnds, SameApp
    <2> QED
      BY <2>3, <2>4
  <1>5. CASE OrphanEnds(r, x, u)
    <2>1. CASE Load(r, x, u, Bundle[r])
      BY <1>5, <2>1, LoadIs DEF OrphanEnds, UnitEnds
    <2>2. CASE ~Load(r, x, u, Bundle[r])
      BY <1>2, <1>5, <2>2 DEF OrphanEnds, UnitEnds, SameApp
    <2> QED
      BY <2>1, <2>2
  <1> QED
    BY <1>3, <1>4, <1>5 DEF JobEnds

\* Another run's Job is found under a name of the restore that works.
Intrudes(r, x, u) ==
    /\ Running(r) /\ status[r].started /\ job[r][x][u] = "none"
    /\ job'[r][x][u] = "foreign"
    /\ \A q \in Restores, y \in Slots, v \in Units :
           <<q, y, v>> # <<r, x, u>> => job'[q][y][v] = job[q][y][v]
    /\ UNCHANGED <<obj, finalizer, status, key, orphan, data, vault, handed,
                   work, pods, installed>>

\* A restore is made, given its key, or deleted.
ObjectOnly(r) ==
    /\ UNCHANGED <<finalizer, status, job, orphan, data, vault, handed, work,
                   pods, installed>>
    /\ \A q \in Restores \ {r} : obj'[q] = obj[q] /\ key'[q] = key[q]
    /\ \/ obj[r] = "absent" /\ obj'[r] = "live" /\ key'[r] \in {key[r], "loose"}
       \/ obj'[r] = obj[r] /\ key'[r] = "owned"
       \/ /\ obj[r] = "live" /\ key'[r] = key[r]
          /\ obj'[r] = IF r \in finalizer THEN "deleting" ELSE "gone"

\* What a step of the world is about, when it is about one app.
AppOnlyStep(a) ==
    /\ UNCHANGED <<obj, finalizer, status, job, orphan, key, data, vault>>
    /\ \A b \in Apps \ {a} : SameApp(b) /\ handed'[b] = handed[b]
    /\ \/ /\ pods[a] \in {"starting", "rolling"} /\ pods'[a] = "fresh"
          /\ UNCHANGED <<work, handed, installed>>
       \/ /\ handed[a] # vault[a] /\ handed'[a] = vault[a]
          /\ work'[a] = [work[a] EXCEPT !.replicas = Replicas[a]]
          /\ pods'[a] = "starting" /\ UNCHANGED installed
       \/ /\ installed' = installed \ {a} /\ UNCHANGED handed
          /\ work'[a] = Fresh(a) /\ pods'[a] = "fresh"

Unmoved == UNCHANGED <<obj, finalizer, status, job, orphan, key, data, vault,
                       handed, work, pods, installed>>

\* Every step is one of these.
Stepped ==
    \/ \E r \in Restores : PassOver(r)
    \/ \E r \in Restores : QuietPass(r)
    \/ \E r \in Restores, x \in Slots, u \in Units : UnitEnds(r, x, u)
    \/ \E r \in Restores, x \in Slots, u \in Units : Intrudes(r, x, u)
    \/ \E r \in Restores : ObjectOnly(r)
    \/ \E a \in Apps : AppOnlyStep(a)
    \/ Unmoved

LEMMA StepIs ==
    ASSUME TypeOK, [Next]_vars
    PROVE  Stepped
  <1>0. CoreOK
    BY TypeParts
  <1>1. ASSUME NEW r \in Restores, NEW ok \in Writes, Reconcile(r, ok)
        PROVE  Stepped
    BY <1>0, <1>1, PassIs DEF Stepped
  <1>2. ASSUME NEW r \in Restores, ReconcileQuietly(r) PROVE Stepped
    BY <1>0, <1>2, QuietIs DEF Stepped
  <1>3. ASSUME NEW r \in Restores, NEW x \in Slots, NEW u \in Units,
               JobEnds(r, x, u) \/ OrphanEnds(r, x, u)
        PROVE  Stepped
    BY <1>0, <1>3, UnitIs DEF Stepped
  <1>4. ASSUME NEW r \in Restores, NEW x \in Slots, NEW u \in Units,
               ForeignJob(r, x, u)
        PROVE  Stepped
    <2>1. Intrudes(r, x, u)
      BY <1>0, <1>4 DEF ForeignJob, Intrudes, Steady, appState, CoreOK, JobsOfRun
    <2> QED
      BY <2>1 DEF Stepped
  <1>5. ASSUME NEW r \in Restores, CreateRestore(r) \/ OwnKey(r) \/ DeleteRestore(r)
        PROVE  Stepped
    <2>1. CASE CreateRestore(r)
      BY <1>0, <2>1 DEF CreateRestore, ObjectOnly, Stepped, appState, CoreOK
    <2>2. CASE OwnKey(r)
      BY <1>0, <2>2 DEF OwnKey, ObjectOnly, Stepped, appState, Steady, CoreOK
    <2>3. CASE DeleteRestore(r)
      BY <1>0, <2>3 DEF DeleteRestore, ObjectOnly, Stepped, appState, CoreOK
    <2> QED
      BY <1>5, <2>1, <2>2, <2>3
  <1>6. ASSUME NEW a \in Apps, PodsUp(a) \/ Handed(a) \/ Uninstall(a)
        PROVE  Stepped
    <2>1. AppOnlyStep(a)
      <3>1. CASE PodsUp(a)
        BY <1>0, <3>1 DEF PodsUp, AppOnlyStep, SameApp, Steady, CoreOK
      <3>2. CASE Handed(a)
        BY <1>0, <3>2 DEF Handed, AppOnlyStep, SameApp, Steady, CoreOK
      <3>3. CASE Uninstall(a)
        BY <1>0, <3>3 DEF Uninstall, AppOnlyStep, SameApp, CoreOK
      <3> QED
        BY <1>6, <3>1, <3>2, <3>3
    <2> QED
      BY <2>1 DEF Stepped
  <1>7. ASSUME ExportStarts \/ ExportEnds PROVE Unmoved
    BY <1>7 DEF ExportStarts, ExportEnds, Unmoved, appState
  <1>8. ASSUME UNCHANGED NotEdge \/ UNCHANGED vars PROVE Unmoved
    BY <1>8 DEF NotEdge, vars, Unmoved
  <1>9. Unmoved => Stepped
    BY DEF Stepped
  <1>10. CASE Environment
    BY <1>3, <1>4, <1>5, <1>6, <1>7, <1>9, <1>10 DEF Environment
  <1> QED
    BY <1>1, <1>2, <1>8, <1>9, <1>10 DEF Next, Watched, RestoreNext

----------------------------------------------------------------------------
(* Which restore holds the tenant. *)

Holds(r) == Exists(r) /\ status[r].started /\ ~IsTerminal(status[r])

\* Whoever has started is the oldest of the restores that have not ended.
StartedIsOldest ==
    \A r, q \in Restores :
        status[q].started /\ Exists(r) /\ Older(r, q) => IsTerminal(status[r])
Fresher(n) == ~n.started /\ ~n.rollout /\ n.phase # "Ready" /\ n.done = {}
\* A restore that has not started has paused nothing and has no Jobs.
Untouched ==
    \A r \in Restores :
        /\ obj[r] = "absent" => ~status[r].started
        /\ ~status[r].started =>
               /\ status[r].quiesced = {}
               /\ \A x \in Slots : Fresher(status[r].entry[x])
               /\ \A x \in Slots, u \in Units : job[r][x][u] = "none"
\* The finalizer stays for as long as a restore holds the tenant.
HolderIsKept == \A r \in Restores : Holds(r) => r \in finalizer
HoldInv == StartedIsOldest /\ Untouched /\ HolderIsKept

\* Of two restores one has ended, or neither has started.
LEMMA OneHolds ==
    ASSUME StartedIsOldest, NEW r \in Restores, NEW q \in Restores,
           Holds(r), Holds(q)
    PROVE  r = q
BY OlderIsTotal DEF StartedIsOldest, Holds

\* One that works has nobody before it.
LEMMA WorkerIsFirst ==
    ASSUME NEW r \in Restores, NEW q \in Restores, Works(r),
           Exists(q), Older(q, r), q # r
    PROVE  IsTerminal(status[q])
BY DEF Works, tenantBusy

LEMMA AtHolds ==
    ASSUME NEW r \in Restores, NEW x, At(r, x)
    PROVE  /\ Works(r) /\ Running(r) /\ Holds(r)
           /\ status[r].started /\ obj[r] = "live" /\ Stale(r) = {}
           /\ nextPendingApp(r) = x /\ r \in finalizer /\ Resolved(r)
BY DEF At, Works, Running, Holds, Exists

\* A restore starts with its plan.
LEMMA StartedStep ==
    ASSUME TypeOK, [Next]_vars, NEW q \in Restores
    PROVE  \/ status'[q].started = status[q].started
           \/ Works(q) /\ ~status[q].started
  <1>1. ASSUME NEW r \in Restores, PassOver(r)
        PROVE  \/ status'[q].started = status[q].started
               \/ Works(q) /\ ~status[q].started
    <2>1. PICK s \in Statuses : Wrote(r, s) /\ Passed(r, s)
      BY <1>1 DEF PassOver
    <2>2. s.started = status[r].started \/ (Works(r) /\ ~status[r].started)
      BY <2>1 DEF Passed, Fails, GoesOn, SlotOnly, Plans, Ends, StandsBack, Resumes
    <2> QED
      BY <2>1, <2>2 DEF Wrote
  <1>2. Stepped
    BY StepIs
  <1>3. CASE ~\E r \in Restores : PassOver(r)
    BY <1>2, <1>3 DEF Stepped, QuietPass, UnitEnds, Intrudes, ObjectOnly,
                      AppOnlyStep, Unmoved
  <1> QED
    BY <1>1, <1>3

LEMMA OldestStep ==
    ASSUME DistinctStamps, TypeOK, HoldInv, [Next]_vars
    PROVE  StartedIsOldest'
  <1>1. \A r \in Restores : PhaseStep(r) /\ ObjectStep(r)
    BY StatusNext, ObjectNext
  <1>2. ASSUME NEW r \in Restores, NEW q \in Restores,
               status'[q].started, Exists(r)', Older(r, q)
        PROVE  IsTerminal(status'[r])
    <2>1. r # q
      BY <1>2, OlderIsTotal
    <2>2. status[q].started \/ Works(q)
      BY <1>2, StartedStep
    <2>3. obj[q] # "absent"
      BY <2>2 DEF HoldInv, Untouched, Works, Running
    <2>4. Exists(r)
      <3>1. ASSUME obj[r] = "absent" PROVE FALSE
        <4>1. Stamp[q] <= Stamp[r]
          BY <1>1, <1>2, <2>3, <3>1 DEF ObjectStep, Exists
        <4> QED
          BY <1>2, <2>1, <4>1, OlderIsTotal
      <3> QED
        BY <1>1, <1>2, <3>1 DEF ObjectStep, Exists
    <2>5. IsTerminal(status[r])
      BY <1>2, <2>1, <2>2, <2>4, WorkerIsFirst DEF HoldInv, StartedIsOldest
    <2> QED
      BY <1>1, <2>5 DEF PhaseStep, Running, IsTerminal
  <1> QED
    BY <1>2 DEF StartedIsOldest, Older

LEMMA UntouchedStep ==
    ASSUME TypeOK, HoldInv, [Next]_vars
    PROVE  Untouched'
  <1>0. CoreOK
    BY TypeParts
  <1>1. ASSUME NEW q \in Restores, obj'[q] = "absent" PROVE ~status'[q].started
    <2>1. obj[q] = "absent"
      BY <1>1, ObjectNext DEF ObjectStep
    <2> QED
      BY <2>1, StartedStep DEF HoldInv, Untouched, Works, Running
  <1>2. ASSUME NEW q \in Restores, ~status'[q].started
        PROVE  /\ status'[q].quiesced = {}
               /\ \A x \in Slots : Fresher(status'[q].entry[x])
               /\ \A x \in Slots, u \in Units : job'[q][x][u] = "none"
    <2>1. ASSUME NEW r \in Restores, PassOver(r)
          PROVE  /\ status'[q].quiesced = {}
                 /\ \A x \in Slots : Fresher(status'[q].entry[x])
                 /\ \A x \in Slots, u \in Units : job'[q][x][u] = "none"
      <3>1. PICK s \in Statuses : Wrote(r, s) /\ Passed(r, s)
        BY <2>1 DEF PassOver
      <3>2. CASE q # r
        BY <1>2, <3>1, <3>2 DEF Wrote, HoldInv, Untouched
      <3>3. CASE q = r
        <4>1. \A x \in Slots : ~At(r, x) \/ status[r].started
          BY AtHolds
        <4>2. CASE status[r].started
          <5>1. s.started
            BY <3>1, <4>2 DEF Passed, Fails, GoesOn, SlotOnly, Plans, Ends,
                              StandsBack, Resumes
          <5> QED
            BY <1>2, <3>1, <3>3, <4>2, <5>1 DEF Wrote
        <4>3. CASE ~status[r].started
          <5>1. /\ status[r].quiesced = {}
                /\ \A x \in Slots : Fresher(status[r].entry[x])
                /\ \A x \in Slots, u \in Units : job[r][x][u] = "none"
            BY <4>3 DEF HoldInv, Untouched
          <5>2. ASSUME NEW x \in Slots, Fails(r, x, s)
                PROVE  /\ s.quiesced = {}
                       /\ \A y \in Slots : Fresher(s.entry[y])
                       /\ \A y \in Slots, u \in Units : job'[r][y][u] = "none"
            BY <4>1, <4>3, <5>1, <5>2 DEF Fails, SlotOnly, Fresher, Complete
          <5>3. ASSUME Plans(r, s) \/ StandsBack(r, s)
                PROVE  /\ s.quiesced = {} /\ job' = job
                       /\ \A y \in Slots : Fresher(s.entry[y])
            BY <5>1, <5>3 DEF Plans, StandsBack, IsNew, Fresher
          <5>4. ~Resumes(r, s) /\ ~Ends(r, s)
            BY <4>3, <5>1, AtHolds DEF Resumes, Ends
          <5>5. \A x \in Slots : ~GoesOn(r, x, s)
            BY <4>1, <4>3 DEF GoesOn
          <5>6. TenantWide \in Slots /\ \A a \in Apps : a \in Slots
            BY DEF Slots
          <5>7. /\ s.quiesced = {}
                /\ \A y \in Slots : Fresher(s.entry[y])
                /\ \A y \in Slots, u \in Units : job'[r][y][u] = "none"
            BY <3>1, <5>1, <5>2, <5>3, <5>4, <5>5, <5>6 DEF Passed
          <5> QED
            BY <3>1, <3>3, <5>1, <5>7 DEF Wrote
        <4> QED
          BY <4>2, <4>3
      <3> QED
        BY <3>2, <3>3
    <2>2. CASE ~\E r \in Restores : PassOver(r)
      <3>1. Stepped
        BY StepIs
      <3>2. UNCHANGED status
        BY <2>2, <3>1 DEF Stepped, QuietPass, UnitEnds, Intrudes, ObjectOnly,
                          AppOnlyStep, Unmoved
      <3>3. /\ status[q].quiesced = {} /\ ~status[q].started
            /\ \A x \in Slots : Fresher(status[q].entry[x])
            /\ \A x \in Slots, u \in Units : job[q][x][u] = "none"
        BY <1>2, <3>2 DEF HoldInv, Untouched
      <3>4. ASSUME NEW r \in Restores, QuietPass(r)
            PROVE  \A x \in Slots, u \in Units : job'[q][x][u] = "none"
        BY <3>3, <3>4 DEF QuietPass
      <3>5. ASSUME NEW r \in Restores, NEW y \in Slots, NEW v \in Units,
                   UnitEnds(r, y, v) \/ Intrudes(r, y, v)
            PROVE  \A x \in Slots, u \in Units : job'[q][x][u] = "none"
        BY <3>3, <3>5 DEF UnitEnds, Intrudes
      <3>6. ASSUME UNCHANGED job
            PROVE  \A x \in Slots, u \in Units : job'[q][x][u] = "none"
        BY <3>3, <3>6
      <3>7. \A x \in Slots, u \in Units : job'[q][x][u] = "none"
        BY <2>2, <3>1, <3>4, <3>5, <3>6 DEF Stepped, ObjectOnly, AppOnlyStep, Unmoved
      <3> QED
        BY <3>2, <3>3, <3>7
    <2> QED
      BY <2>1, <2>2
  <1> QED
    BY <1>1, <1>2 DEF Untouched

LEMMA HoldFirst == Init => HoldInv
  <1>1. /\ ~NewStatus.started /\ NewStatus.quiesced = {}
        /\ \A x \in Slots : Fresher(NewStatus.entry[x])
    BY DEF NewStatus, NewEntry, Fresher
  <1>2. Init => \A r \in Restores :
                    /\ obj[r] = "absent" /\ status[r] = NewStatus
                    /\ \A x \in Slots, u \in Units : job[r][x][u] = "none"
    BY DEF Init
  <1> QED
    BY <1>1, <1>2 DEF HoldInv, StartedIsOldest, Untouched, HolderIsKept, Holds,
                     Exists

\* Only a pass makes a restore hold the tenant.
LEMMA HolderStays ==
    ASSUME Untouched, Stepped, NEW q \in Restores, Holds(q)',
           ~\E r \in Restores : PassOver(r)
    PROVE  Holds(q) /\ status'[q] = status[q]
  <1>1. UNCHANGED status
    BY DEF Stepped, QuietPass, UnitEnds, Intrudes, ObjectOnly, AppOnlyStep, Unmoved
  <1>2. Exists(q)' /\ status[q].started /\ ~IsTerminal(status[q])
    BY <1>1 DEF Holds
  <1>3. obj[q] # "absent"
    BY <1>2 DEF Untouched
  <1>4. ASSUME UNCHANGED obj PROVE Exists(q)
    BY <1>2, <1>4 DEF Exists
  <1>5. ASSUME NEW r \in Restores, QuietPass(r) \/ ObjectOnly(r) PROVE Exists(q)
    BY <1>2, <1>3, <1>5 DEF QuietPass, ObjectOnly, Exists
  <1>6. Exists(q)
    BY <1>4, <1>5 DEF Stepped, UnitEnds, Intrudes, AppOnlyStep, Unmoved
  <1> QED
    BY <1>1, <1>2, <1>6 DEF Holds

\* A pass that is not the plan is over a restore that holds the tenant, if the
\* restore holds it afterwards.
LEMMA HolderPass ==
    ASSUME NEW r \in Restores, PassOver(r), NEW q \in Restores, Holds(q)',
           NEW s \in Statuses, Wrote(r, s), Passed(r, s)
    PROVE  \/ Holds(q) /\ status'[q] = status[q]
           \/ /\ q = r /\ status'[r] = s
              /\ ~IsTerminal(s) /\ s.started
              /\ Plans(r, s) \/ Holds(r)
  <1>1. UNCHANGED obj
    BY DEF PassOver
  <1>2. CASE status'[q] = status[q]
    BY <1>1, <1>2 DEF Holds, Exists
  <1>3. CASE q = r /\ status'[r] = s
    <2>1. ~IsTerminal(s) /\ s.started /\ Exists(r)
      BY <1>1, <1>3 DEF Holds, Exists
    <2>2. ASSUME ~Plans(r, s) PROVE status[r].started /\ ~IsTerminal(status[r])
      <3>1. status[r].started
        BY <2>1, <2>2, AtHolds
           DEF Passed, Fails, GoesOn, SlotOnly, Ends, StandsBack, Resumes
      <3>2. CASE Resumes(r, s)
        BY <2>1, <3>2 DEF Resumes, IsTerminal
      <3>3. CASE ~Resumes(r, s)
        <4>1. ASSUME NEW x, GoesOn(r, x, s) PROVE Running(r)
          BY <4>1, AtHolds DEF GoesOn
        <4>2. ASSUME Ends(r, s) PROVE Running(r)
          BY <4>2, AtHolds DEF Ends
        <4>3. Running(r)
          BY <2>2, <3>3, <4>1, <4>2 DEF Passed, Fails, StandsBack
        <4> QED
          BY <3>1, <4>3 DEF Running
      <3> QED
        BY <3>2, <3>3
    <2> QED
      BY <1>3, <2>1, <2>2 DEF Holds
  <1> QED
    BY <1>2, <1>3 DEF Wrote

LEMMA KeptStep ==
    ASSUME TypeOK, HoldInv, [Next]_vars
    PROVE  HolderIsKept'
  <1> SUFFICES ASSUME NEW q \in Restores, Holds(q)'
               PROVE  q \in finalizer'
    BY DEF HolderIsKept
  <1>1. Stepped
    BY StepIs
  <1>2. ASSUME NEW r \in Restores, PassOver(r) PROVE q \in finalizer'
    <2>1. PICK s \in Statuses : Wrote(r, s) /\ Passed(r, s)
      BY <1>2 DEF PassOver
    <2>2. Holds(q) \/ (q = r /\ Plans(r, s))
      BY <1>2, <2>1, HolderPass
    <2> QED
      BY <1>2, <2>2 DEF HoldInv, HolderIsKept, Plans, Works, Running, PassOver
  <1>3. CASE ~\E r \in Restores : PassOver(r)
    <2>1. Holds(q) /\ q \in finalizer
      BY <1>1, <1>3, HolderStays DEF HoldInv, HolderIsKept
    <2>2. ASSUME NEW r \in Restores, QuietPass(r) PROVE q \in finalizer'
      BY <2>1, <2>2 DEF QuietPass, Holds, Exists
    <2> QED
      BY <1>1, <1>3, <2>1, <2>2
         DEF Stepped, UnitEnds, Intrudes, ObjectOnly, AppOnlyStep, Unmoved
  <1> QED
    BY <1>2, <1>3

LEMMA HoldStep ==
    ASSUME DistinctStamps, TypeOK, HoldInv, [Next]_vars
    PROVE  HoldInv'
BY OldestStep, UntouchedStep, KeptStep DEF HoldInv

----------------------------------------------------------------------------
(* Secrets before data. *)

\* What the entry n of the app a says of the vault's values v and of the ones
\* h the app was started with, against those b of the bundle.
Fits(n, a, v, h, b) ==
    /\ ~n.retained /\ n.secrets # "" => a \in WithSecrets
    /\ n.secrets = "planned" /\ ~n.replaced => v = b /\ h = b
    /\ n.secrets = "applied" => v = b
    /\ n.secrets = "delivered" /\ ~n.retained => v = b /\ h = b
    /\ n.started /\ ~n.retained /\ a \in WithSecrets => n.secrets = "delivered"
SecretsKnown ==
    \A r \in Restores : Holds(r) => \A a \in Apps :
        Fits(status[r].entry[a], a, vault[a], handed[a], Bundle[r])
\* The vault and the apps keep what they had where the bundle holds nothing.
NoSecretsKept ==
    \A a \in Apps \ WithSecrets : vault[a] = "old" /\ handed[a] = "old"
SecretsInv == SecretsKnown /\ NoSecretsKept

\* The vault is written by the restore that holds the tenant.
LEMMA VaultPass ==
    ASSUME NEW r \in Restores, NEW s \in Statuses, Passed(r, s)
    PROVE  \/ UNCHANGED vault
           \/ Holds(r) /\ \E x \in Slots : At(r, x) /\ VaultFrom(r, x)
  <1>1. ASSUME NEW x \in Slots, At(r, x) PROVE Holds(r)
    BY <1>1, AtHolds
  <1>2. ASSUME NEW x \in Slots, Fails(r, x, s) \/ GoesOn(r, x, s)
        PROVE  \/ UNCHANGED vault
               \/ Holds(r) /\ \E y \in Slots : At(r, y) /\ VaultFrom(r, y)
    BY <1>1, <1>2 DEF Fails, GoesOn
  <1>3. TenantWide \in Slots /\ \A a \in Apps : a \in Slots
    BY DEF Slots
  <1> QED
    BY <1>2, <1>3 DEF Passed, Plans, Ends, StandsBack, Resumes

LEMMA SecretsPass ==
    ASSUME TypeOK, HoldInv, SecretsInv, NEW r \in Restores, PassOver(r)
    PROVE  SecretsInv'
  <1>0. CoreOK
    BY TypeParts
  <1>1. PICK s \in Statuses : Wrote(r, s) /\ Passed(r, s)
    BY DEF PassOver
  <1>2. UNCHANGED <<obj, handed>>
    BY DEF PassOver
  <1>3. \A x \in Slots : At(r, x) => Holds(r)
    BY AtHolds
  <1>4. NoSecretsKept'
    <2> SUFFICES ASSUME NEW a \in Apps \ WithSecrets
                 PROVE  vault'[a] = "old"
      BY <1>2 DEF NoSecretsKept, SecretsInv
    <2>1. vault[a] = "old"
      BY DEF SecretsInv, NoSecretsKept
    <2>2. ASSUME AtInstalled(r, a), status[r].entry[a].secrets = "planned",
                 Holds(r)
          PROVE  FALSE
      <3>1. Fits(status[r].entry[a], a, vault[a], handed[a], Bundle[r])
        BY <2>2 DEF SecretsInv, SecretsKnown
      <3> QED
        BY <2>2, <3>1 DEF Fits, AtInstalled
    <2> QED
      BY <1>1, <2>1, <2>2, VaultPass DEF VaultFrom
  <1>5. ASSUME NEW q \in Restores, Holds(q)', NEW a \in Apps
        PROVE  Fits(status'[q].entry[a], a, vault'[a], handed[a], Bundle[q])
    <2>1. CASE Holds(q) /\ status'[q] = status[q]
      <3>1. Fits(status[q].entry[a], a, vault[a], handed[a], Bundle[q])
        BY <2>1 DEF SecretsInv, SecretsKnown
      <3>2. vault'[a] = vault[a] \/ (q = r /\ vault'[a] = Bundle[r])
        BY <1>1, <2>1, VaultPass, OneHolds DEF VaultFrom, HoldInv
      <3> QED
        BY <2>1, <3>1, <3>2 DEF Fits
    <2>2. CASE /\ q = r /\ status'[r] = s /\ ~IsTerminal(s) /\ s.started
               /\ Plans(r, s) \/ Holds(r)
      <3>1. CASE Plans(r, s)
        <4>1. s.entry[a].secrets = "" /\ ~s.entry[a].started
          BY <3>1 DEF Plans, Slots, IsNew
        <4> QED
          BY <2>2, <4>1 DEF Fits
      <3>2. CASE Holds(r)
        <4>1. Fits(status[r].entry[a], a, vault[a], handed[a], Bundle[r])
          BY <3>2 DEF SecretsInv, SecretsKnown
        <4>2. ASSUME s.entry[a] = status[r].entry[a],
                     vault'[a] = vault[a] \/ vault'[a] = Bundle[r]
              PROVE  Fits(s.entry[a], a, vault'[a], handed[a], Bundle[r])
          BY <4>1, <4>2 DEF Fits
        <4>3. vault'[a] = vault[a] \/ vault'[a] = Bundle[r]
          BY <1>1, VaultPass DEF VaultFrom
        <4>4. ASSUME NEW x \in Apps, GoesOn(r, x, s), OverApp(r, x, s)
              PROVE  Fits(s.entry[a], a, vault'[a], handed[a], Bundle[r])
          <5>1. CASE a # x
            <6>1. s.entry[a] = status[r].entry[a]
              BY <4>4, <5>1 DEF GoesOn, SlotOnly, Slots
            <6> QED
              BY <4>2, <4>3, <6>1
          <5>2. CASE a = x
            <6> DEFINE m == status[r].entry[a]
                       n == s.entry[a]
            <6>1. CASE Notes(r, a, s)
              BY <4>2, <4>3, <6>1 DEF Notes
            <6>2. CASE TakesSecrets(r, a, m, n)
              <7>1. ~m.retained /\ n.retained = m.retained /\ ~m.started
                    /\ n.started = m.started
                BY <6>2 DEF TakesSecrets, AtInstalled
              <7>2. CASE /\ n.secrets = "planned"
                         /\ (~n.replaced => HasSecrets(r, a))
                         /\ a \in WithSecrets /\ UNCHANGED vault
                BY <7>1, <7>2 DEF Fits, HasSecrets
              <7>3. CASE /\ m.secrets = "planned" /\ n.secrets = "applied"
                         /\ vault' = [vault EXCEPT ![a] = Bundle[r]]
                <8>1. vault'[a] = Bundle[r]
                  BY <1>0, <7>3 DEF CoreOK
                <8> QED
                  BY <4>1, <7>1, <7>3, <8>1 DEF Fits
              <7>4. CASE /\ m.secrets = "planned" /\ n.replaced = m.replaced
                         /\ ~n.replaced /\ n.secrets = "delivered"
                         /\ UNCHANGED vault
                BY <4>1, <7>1, <7>4 DEF Fits
              <7>5. CASE /\ m.secrets = "applied" /\ n.secrets = "delivered"
                         /\ handed[a] = Bundle[r] /\ UNCHANGED vault
                BY <4>1, <7>1, <7>5 DEF Fits
              <7> QED
                BY <6>2, <7>2, <7>3, <7>4, <7>5 DEF TakesSecrets
            <6>3. CASE \/ Waits(r, a, m, n) \/ IsBack(r, a, m, n)
                       \/ ComesUp(r, a, m, n) \/ Rolls(r, a, m, n)
              <7>1. Settings(m, n) /\ UNCHANGED vault
                BY <6>3 DEF Waits, IsBack, ComesUp, Rolls
              <7> QED
                BY <4>1, <7>1 DEF Fits, Settings
            <6>4. CASE LoadsRetained(r, a, m, n)
              <7>1. n.retained /\ n.secrets = "delivered"
                BY <6>4 DEF LoadsRetained
              <7> QED
                BY <7>1 DEF Fits
            <6>5. CASE Pauses(r, a, m, n)
              <7>1. /\ n.retained = m.retained /\ n.secrets = m.secrets
                    /\ n.replaced = m.replaced /\ UNCHANGED vault
                    /\ a \in WithSecrets => m.secrets = "delivered"
                BY <6>5 DEF Pauses, SecretsDelivered, Entry
              <7> QED
                BY <4>1, <7>1 DEF Fits
            <6> QED
              BY <4>4, <5>2, <6>1, <6>2, <6>3, <6>4, <6>5 DEF OverApp
          <5> QED
            BY <5>1, <5>2
        <4>5. ASSUME GoesOn(r, TenantWide, s) PROVE s.entry[a] = status[r].entry[a]
          BY <4>5, RestoreConfig DEF GoesOn, SlotOnly, Slots
        <4>6. ASSUME StandsBack(r, s) \/ Resumes(r, s)
              PROVE  s.entry[a] = status[r].entry[a]
          BY <4>6 DEF StandsBack, Resumes
        <4>7. ~Ends(r, s) /\ \A x \in Slots : ~Fails(r, x, s)
          BY <2>2 DEF Ends, Fails, IsTerminal
        <4>8. ~Plans(r, s)
          BY <3>2 DEF Plans, Holds
        <4> QED
          BY <1>1, <2>2, <4>2, <4>3, <4>4, <4>5, <4>6, <4>7, <4>8 DEF Passed
      <3> QED
        BY <2>2, <3>1, <3>2
    <2> QED
      BY <1>1, <1>5, <2>1, <2>2, HolderPass
  <1>6. SecretsKnown'
    BY <1>2, <1>5 DEF SecretsKnown
  <1> QED
    BY <1>4, <1>6 DEF SecretsInv

LEMMA SecretsStep ==
    ASSUME TypeOK, HoldInv, SecretsInv, [Next]_vars
    PROVE  SecretsInv'
  <1>0. CoreOK
    BY TypeParts
  <1>1. Stepped
    BY StepIs
  <1>2. CASE \E r \in Restores : PassOver(r)
    BY <1>2, SecretsPass
  <1>3. CASE ~\E r \in Restores : PassOver(r)
    <2>1. UNCHANGED vault
      BY <1>1, <1>3 DEF Stepped, QuietPass, UnitEnds, Intrudes, ObjectOnly,
                        AppOnlyStep, Unmoved
    <2>2. ASSUME NEW a \in Apps
          PROVE  handed'[a] = handed[a] \/ handed'[a] = vault[a]
      BY <1>1, <1>3 DEF Stepped, QuietPass, UnitEnds, Intrudes, ObjectOnly,
                        AppOnlyStep, Unmoved
    <2>3. ASSUME NEW q \in Restores, Holds(q)', NEW a \in Apps
          PROVE  Fits(status'[q].entry[a], a, vault'[a], handed'[a], Bundle[q])
      <3>1. Holds(q) /\ status'[q] = status[q]
        BY <1>1, <1>3, <2>3, HolderStays DEF HoldInv
      <3>2. Fits(status[q].entry[a], a, vault[a], handed[a], Bundle[q])
        BY <3>1 DEF SecretsInv, SecretsKnown
      <3> QED
        BY <2>1, <2>2, <3>1, <3>2 DEF Fits
    <2>4. SecretsKnown'
      BY <2>3 DEF SecretsKnown
    <2>5. NoSecretsKept'
      BY <2>1, <2>2 DEF SecretsInv, NoSecretsKept
    <2> QED
      BY <2>4, <2>5 DEF SecretsInv
  <1> QED
    BY <1>2, <1>3

LEMMA SecretsBegin == Init => SecretsInv
  <1>1. ~NewStatus.started
    BY DEF NewStatus
  <1>2. Init => /\ \A r \in Restores : status[r] = NewStatus
                /\ \A a \in Apps : vault[a] = "old" /\ handed[a] = "old"
    BY DEF Init
  <1> QED
    BY <1>1, <1>2 DEF SecretsInv, SecretsKnown, NoSecretsKept, Holds

\* Whatever fails and however many restores follow each other, an app is
\* paused for loading only once it runs with the secrets its data was written
\* with.
THEOREM SecretsAreFirst ==
    ASSUME DistinctStamps
    PROVE  Spec => []SecretsBeforeData
  <1>1. Init => SecretsInv
    BY SecretsBegin
  <1>2. TypeOK /\ HoldInv /\ [Next]_vars => HoldInv'
    BY HoldStep
  <1>3. TypeOK /\ HoldInv /\ SecretsInv /\ [Next]_vars => SecretsInv'
    BY SecretsStep
  <1>4. TypeOK /\ HoldInv /\ SecretsInv => SecretsBeforeData
    <2> SUFFICES ASSUME TypeOK, HoldInv, SecretsInv, NEW r \in Restores,
                        NEW a \in WithSecrets \cap installed, Running(r),
                        Entry(r, a).started, ~Entry(r, a).retained
                 PROVE  handed[a] = Bundle[r]
      BY DEF SecretsBeforeData
    <2>1. a \in Apps /\ a \in Slots
      BY DEF TypeOK, Slots
    <2>2. Holds(r)
      BY <2>1 DEF HoldInv, Untouched, Fresher, Holds, Running, Exists, Entry
    <2>3. Fits(status[r].entry[a], a, vault[a], handed[a], Bundle[r])
      BY <2>1, <2>2 DEF SecretsInv, SecretsKnown
    <2> QED
      BY <2>3 DEF Fits, Entry
  <1> QED
    BY <1>1, <1>2, <1>3, <1>4, HoldFirst, RestoreTypeCorrect, PTL DEF Spec

----------------------------------------------------------------------------
(* Ready means restored. *)

Sole == \A r, q \in Restores : r = q
\* Nothing of a restore goes on loading once another may have begun: its Jobs
\* are stopped when it ends, and no pod outlives its Job.
Undivided == Sole \/ {"orphan", "tidy"} \cap Faults = {}

Latest(r) == \A q \in Restores : Older(r, q) => ~status[q].started

\* A unit is done when its Job is complete, and its store then holds what the
\* bundle held until a later restore begins.
DoneIsComplete ==
    \A r \in Restores, x \in Slots, u \in Units :
        obj[r] = "live" /\ u \in status[r].entry[x].done
            => job[r][x][u] = "complete"
CompleteIsLoaded ==
    \A r \in Restores, x \in Slots, u \in Units :
        job[r][x][u] = "complete" /\ Latest(r) => data[x][u] = Bundle[r]
\* Only the restore that holds the tenant loads.
LoaderHolds ==
    \A r \in Restores, x \in Slots, u \in Units :
        job[r][x][u] = "running" => Holds(r) \/ Sole
OrphansOfOne == orphan # {} => Sole
\* An app is through once its units are done, and the restore once all are.
ThroughIsDone ==
    \A r \in Restores :
        /\ \A a \in Apps :
               status[r].entry[a].phase = "Ready" \/ status[r].entry[a].rollout
                   => Units \subseteq status[r].entry[a].done
        /\ status[r].phase = "Ready" =>
               \A x \in status[r].plan \cup {TenantWide} :
                   Units \subseteq status[r].entry[x].done
DataInv ==
    /\ DoneIsComplete /\ CompleteIsLoaded /\ LoaderHolds
    /\ OrphansOfOne /\ ThroughIsDone

\* What a pass notes as done is complete; what was done stays so, but for the
\* plan, which comes before anything is.
LEMMA DonePass ==
    ASSUME TypeOK, HoldInv, NEW r \in Restores, NEW s \in Statuses, Passed(r, s),
           NEW x \in Slots
    PROVE  /\ s.entry[x].done \subseteq Complete(status[r].entry[x], job[r][x])
           /\ status[r].entry[x].done \subseteq s.entry[x].done
  <1> DEFINE m == status[r].entry[x]
             n == s.entry[x]
             Good == n.done = m.done \/ n.done = Complete(m, job[r][x])
             Goal == /\ n.done \subseteq Complete(m, job[r][x])
                     /\ m.done \subseteq n.done
  <1>1. m.done \subseteq Complete(m, job[r][x])
    BY DEF Complete
  <1>2. ASSUME NEW y \in Slots, Fails(r, y, s) PROVE Goal
    BY <1>1, <1>2 DEF Fails, SlotOnly
  <1>3. ASSUME NEW a \in Apps, GoesOn(r, a, s), OverApp(r, a, s) PROVE Goal
    <2>1. CASE x # a
      BY <1>1, <1>3, <2>1 DEF GoesOn, SlotOnly
    <2>2. CASE x = a
      <3>1. Good
        BY <1>3, <2>2 DEF OverApp, Notes, TakesSecrets, Waits, IsBack,
                          LoadsRetained, Pauses, ComesUp, Rolls
      <3> QED
        BY <1>1, <3>1
    <2> QED
      BY <2>1, <2>2
  <1>4. ASSUME GoesOn(r, TenantWide, s), OverTenant(r, s) PROVE Goal
    BY <1>1, <1>4 DEF GoesOn, SlotOnly, OverTenant
  <1>5. ASSUME Plans(r, s) PROVE Goal
    <2>1. m.done = {} /\ n.done = {}
      BY <1>5 DEF Plans, IsNew, HoldInv, Untouched, Fresher
    <2> QED
      BY <2>1
  <1>6. ASSUME Ends(r, s) PROVE Goal
    BY <1>1, <1>6 DEF Ends, SlotOnly
  <1>7. ASSUME StandsBack(r, s) \/ Resumes(r, s) PROVE Goal
    BY <1>1, <1>7 DEF StandsBack, Resumes
  <1> QED
    BY <1>2, <1>3, <1>4, <1>5, <1>6, <1>7 DEF Passed

\* The Jobs of a pass: complete ones stay while the restore is there, none
\* completes, and one runs afterwards only where that is allowed.
LEMMA JobsPass ==
    ASSUME NEW r \in Restores, NEW s \in Statuses, Passed(r, s),
           NEW x \in Slots, NEW u \in Units
    PROVE  /\ job'[r][x][u] = "complete" => job[r][x][u] = "complete"
           /\ obj[r] = "live" =>
                  (job[r][x][u] = "complete" => job'[r][x][u] = "complete")
  <1>1. ASSUME JobsKept(r)
        PROVE  job'[r][x][u] = "complete" <=> job[r][x][u] = "complete"
    BY <1>1 DEF JobsKept
  <1>2. CASE Resumes(r, s)
    BY <1>2 DEF Resumes
  <1>3. CASE ~Resumes(r, s)
    BY <1>1, <1>3 DEF Passed, Fails, GoesOn, Plans, Ends, StandsBack
  <1> QED
    BY <1>2, <1>3

LEMMA LatestStep ==
    ASSUME TypeOK, [Next]_vars, NEW r \in Restores, Latest(r)'
    PROVE  Latest(r)
BY StartedStep DEF Latest, Older

LEMMA DoneStep ==
    ASSUME TypeOK, HoldInv, DoneIsComplete, [Next]_vars
    PROVE  DoneIsComplete'
  <1> SUFFICES ASSUME NEW q \in Restores, NEW x \in Slots, NEW u \in Units,
                      obj'[q] = "live", u \in status'[q].entry[x].done
               PROVE  job'[q][x][u] = "complete"
    BY DEF DoneIsComplete
  <1>1. Stepped
    BY StepIs
  <1>2. ASSUME NEW r \in Restores, PassOver(r) PROVE job'[q][x][u] = "complete"
    <2>1. PICK s \in Statuses : Wrote(r, s) /\ Passed(r, s)
      BY <1>2 DEF PassOver
    <2>2. obj[q] = "live"
      BY <1>2 DEF PassOver
    <2>3. CASE q # r
      BY <2>1, <2>2, <2>3 DEF Wrote, DoneIsComplete
    <2>4. CASE q = r
      <3>1. u \in Complete(status[r].entry[x], job[r][x])
        BY <2>1, <2>4, DonePass DEF Wrote, Complete
      <3>2. job[r][x][u] = "complete"
        BY <2>2, <2>4, <3>1 DEF Complete, DoneIsComplete
      <3> QED
        BY <2>1, <2>2, <2>4, <3>2, JobsPass
    <2> QED
      BY <2>3, <2>4
  <1>3. CASE ~\E r \in Restores : PassOver(r)
    <2>1. UNCHANGED status
      BY <1>1, <1>3 DEF Stepped, QuietPass, UnitEnds, Intrudes, ObjectOnly,
                        AppOnlyStep, Unmoved
    <2>2. obj[q] = "live"
      <3>1. obj[q] # "absent"
        BY <2>1 DEF HoldInv, Untouched, Fresher
      <3> QED
        BY <3>1, ObjectNext DEF ObjectStep
    <2>3. job[q][x][u] = "complete"
      BY <2>1, <2>2 DEF DoneIsComplete
    <2>4. ASSUME NEW r \in Restores, QuietPass(r) PROVE job'[q][x][u] = "complete"
      <3>1. CASE q # r
        BY <2>3, <2>4, <3>1 DEF QuietPass
      <3>2. CASE q = r
        BY <2>2, <2>3, <2>4, <3>2 DEF QuietPass
      <3> QED
        BY <3>1, <3>2
    <2>5. ASSUME NEW r \in Restores, NEW y \in Slots, NEW v \in Units,
                 UnitEnds(r, y, v) \/ Intrudes(r, y, v)
          PROVE  job'[q][x][u] = "complete"
      BY <2>3, <2>5 DEF UnitEnds, Intrudes
    <2> QED
      BY <1>1, <1>3, <2>3, <2>4, <2>5
         DEF Stepped, ObjectOnly, AppOnlyStep, Unmoved
  <1> QED
    BY <1>2, <1>3

LEMMA LoadedStep ==
    ASSUME TypeOK, HoldInv, DataInv, [Next]_vars
    PROVE  CompleteIsLoaded'
  <1> SUFFICES ASSUME NEW q \in Restores, NEW x \in Slots, NEW u \in Units,
                      job'[q][x][u] = "complete", Latest(q)'
               PROVE  data'[x][u] = Bundle[q]
    BY DEF CompleteIsLoaded
  <1>1. Stepped /\ Latest(q)
    BY StepIs, LatestStep
  <1>2. job[q][x][u] = "complete" => data[x][u] = Bundle[q]
    BY <1>1 DEF DataInv, CompleteIsLoaded
  <1>3. ASSUME NEW r \in Restores, PassOver(r) PROVE data'[x][u] = Bundle[q]
    <2>1. PICK s \in Statuses : Wrote(r, s) /\ Passed(r, s)
      BY <1>3 DEF PassOver
    <2>2. job[q][x][u] = "complete"
      BY <2>1, JobsPass DEF Wrote
    <2> QED
      BY <1>2, <1>3, <2>2 DEF PassOver
  <1>4. ASSUME NEW r \in Restores, QuietPass(r) PROVE data'[x][u] = Bundle[q]
    BY <1>2, <1>4 DEF QuietPass
  <1>5. ASSUME NEW r \in Restores, NEW y \in Slots, NEW v \in Units,
               UnitEnds(r, y, v)
        PROVE  data'[x][u] = Bundle[q]
    <2>1. CASE <<x, u>> # <<y, v>>
      <3>1. job'[q][x][u] = job[q][x][u] /\ data'[x][u] = data[x][u]
        BY <1>5, <2>1 DEF UnitEnds
      <3> QED
        BY <1>2, <3>1
    <2>2. CASE x = y /\ u = v /\ q = r
      BY <1>2, <1>5, <2>2 DEF UnitEnds
    <2>3. CASE x = y /\ u = v /\ q # r
      <3>1. job[q][x][u] = "complete"
        BY <1>5, <2>3 DEF UnitEnds
      <3>2. ~Sole
        BY <2>3 DEF Sole
      <3>3. <<r, x, u>> \notin orphan
        BY <3>2 DEF DataInv, OrphansOfOne
      <3>4. Holds(r)
        BY <1>5, <2>3, <3>2, <3>3 DEF UnitEnds, DataInv, LoaderHolds
      <3>5. status[q].started
        BY <3>1 DEF HoldInv, Untouched
      <3> QED
        BY <1>1, <2>3, <3>4, <3>5, OlderIsTotal
           DEF Latest, Holds, HoldInv, StartedIsOldest
    <2> QED
      BY <2>1, <2>2, <2>3
  <1>6. ASSUME NEW r \in Restores, NEW y \in Slots, NEW v \in Units,
               Intrudes(r, y, v)
        PROVE  data'[x][u] = Bundle[q]
    BY <1>2, <1>6 DEF Intrudes
  <1> QED
    BY <1>1, <1>2, <1>3, <1>4, <1>5, <1>6
       DEF Stepped, ObjectOnly, AppOnlyStep, Unmoved

LEMMA LoaderStep ==
    ASSUME Undivided, TypeOK, HoldInv, DataInv, [Next]_vars
    PROVE  LoaderHolds'
  <1> SUFFICES ASSUME NEW q \in Restores, NEW x \in Slots, NEW u \in Units,
                      job'[q][x][u] = "running", ~Sole
               PROVE  Holds(q)'
    BY DEF LoaderHolds, Sole
  <1>1. Stepped /\ "tidy" \notin Faults
    BY StepIs DEF Undivided
  <1>2. job[q][x][u] = "running" => Holds(q)
    BY DEF DataInv, LoaderHolds
  <1>3. ASSUME NEW r \in Restores, PassOver(r) PROVE Holds(q)'
    <2>1. PICK s \in Statuses : Wrote(r, s) /\ Passed(r, s)
      BY <1>3 DEF PassOver
    <2>2. UNCHANGED obj
      BY <1>3 DEF PassOver
    <2>3. CASE q # r
      BY <1>2, <2>1, <2>2, <2>3 DEF Wrote, Holds, Exists
    <2>4. CASE q = r
      <3>1. ASSUME NEW y \in Slots PROVE ~Fails(r, y, s)
        BY <1>1, <2>4 DEF Fails
      <3>2. ~Ends(r, s)
        BY <1>1, <2>4 DEF Ends
      <3>3. ~Plans(r, s)
        BY <1>2, <2>4 DEF Plans, Holds
      <3>4. ASSUME NEW y, GoesOn(r, y, s)
            PROVE  Holds(r) /\ s.started = status[r].started /\ ~IsTerminal(s)
        BY <3>4, AtHolds DEF GoesOn, SlotOnly, Holds, IsTerminal
      <3>5. ASSUME StandsBack(r, s)
            PROVE  Holds(r) /\ s.started = status[r].started /\ ~IsTerminal(s)
        BY <1>2, <2>4, <3>5 DEF StandsBack, IsTerminal
      <3>6. ASSUME Resumes(r, s)
            PROVE  Holds(r) /\ s.started = status[r].started /\ ~IsTerminal(s)
        <4>1. job[r][x][u] = "running"
          BY <2>4, <3>6 DEF Resumes
        <4> QED
          BY <1>2, <2>4, <3>6, <4>1 DEF Resumes, Holds, IsTerminal
      <3>7. Holds(r) /\ s.started = status[r].started /\ ~IsTerminal(s)
        BY <2>1, <3>1, <3>2, <3>3, <3>4, <3>5, <3>6 DEF Passed
      <3> QED
        BY <2>1, <2>2, <2>4, <3>7 DEF Wrote, Holds, Exists
    <2> QED
      BY <2>3, <2>4
  <1>4. CASE ~\E r \in Restores : PassOver(r)
    <2>1. UNCHANGED status
      BY <1>1, <1>4 DEF Stepped, QuietPass, UnitEnds, Intrudes, ObjectOnly,
                        AppOnlyStep, Unmoved
    <2>2. ASSUME NEW r \in Restores, QuietPass(r)
          PROVE  Holds(q) /\ (obj'[q] = obj[q])
      BY <1>2, <2>2 DEF QuietPass
    <2>3. ASSUME NEW r \in Restores, NEW y \in Slots, NEW v \in Units,
                 UnitEnds(r, y, v) \/ Intrudes(r, y, v)
          PROVE  Holds(q) /\ (obj'[q] = obj[q])
      BY <1>2, <2>3 DEF UnitEnds, Intrudes
    <2>4. ASSUME NEW r \in Restores, ObjectOnly(r)
          PROVE  Holds(q) /\ Exists(q)'
      BY <1>2, <2>4 DEF ObjectOnly, Holds, Exists, HoldInv, HolderIsKept
    <2>5. Holds(q) /\ Exists(q)'
      BY <1>1, <1>2, <1>4, <2>2, <2>3, <2>4
         DEF Stepped, AppOnlyStep, Unmoved, Holds, Exists
    <2> QED
      BY <2>1, <2>5 DEF Holds
  <1> QED
    BY <1>3, <1>4

LEMMA OrphansStep ==
    ASSUME Undivided, TypeOK, DataInv, [Next]_vars
    PROVE  OrphansOfOne'
  <1> SUFFICES ASSUME ~Sole PROVE orphan' = {}
    BY DEF OrphansOfOne, Sole
  <1>1. Stepped /\ orphan = {} /\ "orphan" \notin Faults
    BY StepIs DEF Undivided, DataInv, OrphansOfOne
  <1>2. ASSUME NEW r \in Restores, NEW s, Passed(r, s) PROVE orphan' = {}
    BY <1>1, <1>2 DEF Passed, Fails, GoesOn, Plans, Ends, StandsBack, Resumes
  <1> QED
    BY <1>1, <1>2 DEF Stepped, PassOver, QuietPass, UnitEnds, Intrudes,
                      ObjectOnly, AppOnlyStep, Unmoved

LEMMA NoAppLeft ==
    ASSUME TypeOK, NEW r \in Restores, At(r, NoApp), NEW a \in status[r].plan
    PROVE  status[r].entry[a].phase = "Ready"
  <1> DEFINE pending == {b \in status[r].plan : status[r].entry[b].phase # "Ready"}
  <1>1. status[r].plan \subseteq Apps
    BY DEF TypeOK, Statuses
  <1>2. CASE pending # {}
    <2>1. First(pending) \in Apps
      BY <1>1, <1>2, FirstIsIn
    <2>2. nextPendingApp(r) = First(pending)
      BY <1>2 DEF nextPendingApp
    <2> QED
      BY <2>1, <2>2, AtHolds, RestoreConfig DEF NoApp
  <1> QED
    BY <1>2

LEMMA ThroughStep ==
    ASSUME TypeOK, HoldInv, DataInv, [Next]_vars
    PROVE  ThroughIsDone'
  <1>1. Stepped
    BY StepIs
  <1>2. ASSUME NEW q \in Restores
        PROVE  /\ \A a \in Apps :
                      \/ status[q].entry[a].phase = "Ready"
                      \/ status[q].entry[a].rollout
                      => Units \subseteq status[q].entry[a].done
               /\ status[q].phase = "Ready" =>
                      \A x \in status[q].plan \cup {TenantWide} :
                          Units \subseteq status[q].entry[x].done
    BY DEF DataInv, ThroughIsDone
  <1>3. ASSUME NEW r \in Restores, PassOver(r) PROVE ThroughIsDone'
    <2>1. PICK s \in Statuses : Wrote(r, s) /\ Passed(r, s)
      BY <1>3 DEF PassOver
    <2>2. ASSUME NEW a \in Apps,
                 s.entry[a].phase = "Ready" \/ s.entry[a].rollout
          PROVE  Units \subseteq s.entry[a].done
      <3> DEFINE m == status[r].entry[a]
                 n == s.entry[a]
      <3>1. a \in Slots /\ a # TenantWide
        BY RestoreConfig DEF Slots
      <3>2. m.done \subseteq n.done
        BY <2>1, <3>1, DonePass
      <3>3. m.phase = "Ready" \/ m.rollout \/ Units \subseteq n.done
        <4>1. ASSUME NEW y \in Slots, Fails(r, y, s)
              PROVE  m.phase = "Ready" \/ m.rollout
          BY <2>2, <3>1, <4>1 DEF Fails, SlotOnly
        <4>2. ASSUME NEW b \in Apps, GoesOn(r, b, s), OverApp(r, b, s)
              PROVE  m.phase = "Ready" \/ m.rollout \/ Units \subseteq n.done
          <5>1. CASE a # b
            BY <2>2, <3>1, <4>2, <5>1 DEF GoesOn, SlotOnly
          <5>2. CASE a = b
            BY <2>2, <4>2, <5>2
               DEF OverApp, Notes, TakesSecrets, Waits, IsBack, LoadsRetained,
                   Pauses, ComesUp, Rolls, Course
          <5> QED
            BY <5>1, <5>2
        <4>3. ASSUME GoesOn(r, TenantWide, s) \/ Ends(r, s)
              PROVE  m.phase = "Ready" \/ m.rollout
          BY <2>2, <3>1, <4>3 DEF GoesOn, Ends, SlotOnly
        <4>4. ~Plans(r, s)
          BY <2>2, <3>1 DEF Plans, IsNew
        <4>5. ASSUME StandsBack(r, s) \/ Resumes(r, s)
              PROVE  m.phase = "Ready" \/ m.rollout
          BY <2>2, <4>5 DEF StandsBack, Resumes
        <4> QED
          BY <2>1, <4>1, <4>2, <4>3, <4>4, <4>5 DEF Passed
      <3> QED
        BY <1>2, <3>2, <3>3
    <2>3. ASSUME s.phase = "Ready", NEW x \in s.plan \cup {TenantWide}
          PROVE  Units \subseteq s.entry[x].done
      <3>1. CASE Ends(r, s)
        <4>1. CASE x = TenantWide
          BY <3>1, <4>1 DEF Ends
        <4>2. CASE x # TenantWide
          <5>1. x \in status[r].plan /\ x \in Apps
            BY <2>3, <3>1, <4>2 DEF Ends, SlotOnly, Statuses
          <5>2. At(r, NoApp)
            BY <3>1 DEF Ends
          <5>3. Units \subseteq status[r].entry[x].done
            BY <1>2, <5>1, <5>2, NoAppLeft
          <5>4. s.entry[x] = status[r].entry[x]
            BY <3>1, <4>2, <5>1 DEF Ends, SlotOnly, Slots
          <5> QED
            BY <5>3, <5>4
        <4> QED
          BY <4>1, <4>2
      <3>2. CASE Resumes(r, s)
        BY <1>2, <2>3, <3>2 DEF Resumes
      <3>3. \A y : ~GoesOn(r, y, s)
        BY <2>3, AtHolds DEF GoesOn, Running, IsTerminal
      <3> QED
        BY <2>1, <2>3, <3>1, <3>2, <3>3 DEF Passed, Fails, Plans, StandsBack
    <2> QED
      BY <1>2, <2>1, <2>2, <2>3 DEF ThroughIsDone, Wrote
  <1>4. CASE ~\E r \in Restores : PassOver(r)
    <2>1. UNCHANGED status
      BY <1>1, <1>4 DEF Stepped, QuietPass, UnitEnds, Intrudes, ObjectOnly,
                        AppOnlyStep, Unmoved
    <2> QED
      BY <2>1 DEF DataInv, ThroughIsDone
  <1> QED
    BY <1>3, <1>4

LEMMA DataStep ==
    ASSUME Undivided, TypeOK, HoldInv, DataInv, [Next]_vars
    PROVE  DataInv'
BY DoneStep, LoadedStep, LoaderStep, OrphansStep, ThroughStep DEF DataInv

LEMMA DataFirst == Init => DataInv
  <1>1. /\ NewStatus.phase # "Ready"
        /\ \A x \in Slots : /\ NewStatus.entry[x].phase # "Ready"
                            /\ ~NewStatus.entry[x].rollout
    BY DEF NewStatus, NewEntry
  <1>2. Init => /\ orphan = {}
                /\ \A r \in Restores :
                    /\ obj[r] = "absent" /\ status[r] = NewStatus
                    /\ \A x \in Slots, u \in Units : job[r][x][u] = "none"
    BY DEF Init
  <1> QED
    BY <1>1, <1>2 DEF DataInv, DoneIsComplete, CompleteIsLoaded, LoaderHolds,
                      OrphansOfOne, ThroughIsDone, Slots

\* "Ready" keeps its word over any sequence of restores: until a later restore
\* begins, the stores of the apps it planned and of the tenant hold what its
\* bundle held, whatever writes are lost.
THEOREM ReadyHoldsTheBundle ==
    ASSUME DistinctStamps, Undivided
    PROVE  Spec => []ReadyIsRestored
  <1>1. TypeOK /\ HoldInv /\ [Next]_vars => HoldInv'
    BY HoldStep
  <1>2. TypeOK /\ HoldInv /\ DataInv /\ [Next]_vars => DataInv'
    BY DataStep
  <1>3. TypeOK /\ DataInv => ReadyIsRestored
    <2> SUFFICES ASSUME TypeOK, DataInv, NEW r \in Restores, obj[r] = "live",
                        status[r].phase = "Ready", Latest(r),
                        NEW x \in status[r].plan \cup {TenantWide},
                        NEW u \in Units
                 PROVE  data[x][u] = Bundle[r]
      BY DEF ReadyIsRestored, Latest
    <2>1. x \in Slots
      BY DEF TypeOK, Statuses, Slots
    <2>2. u \in status[r].entry[x].done
      BY DEF DataInv, ThroughIsDone
    <2> QED
      BY <2>1, <2>2 DEF DataInv, DoneIsComplete, CompleteIsLoaded
  <1> QED
    BY <1>1, <1>2, <1>3, HoldFirst, DataFirst, RestoreTypeCorrect, PTL DEF Spec

----------------------------------------------------------------------------
(* What is on record of a workload. *)

\* The workload w of the app a has the replicas it is to have, or none and the
\* memo of them; only an app with a maintenance command is in maintenance.
Accounted(a, w) ==
    /\ w.replicas \in {0, Replicas[a]} /\ w.memo \in {NoMemo, Replicas[a]}
    /\ w.replicas = 0 => w.memo = Replicas[a] /\ QuiesceMode[a] # "none"
    /\ w.maint => QuiesceMode[a] = "command"
MemoInv ==
    \A a \in Apps :
        Accounted(a, work[a]) /\ (work[a].replicas = 0 => pods[a] = "none")

\* Pausing and resuming keep the account, whatever the hooks return.
LEMMA Accounts ==
    ASSUME NEW a \in Apps, NEW w \in WorkTypes, Accounted(a, w)
    PROVE  /\ \A hook : Accounted(a, quiesceApp(a, w, hook))
           /\ \A mode, hook : Accounted(a, unquiesceApp(w, mode, hook))
           /\ [w EXCEPT !.maint = FALSE] \in WorkTypes
           /\ Accounted(a, [w EXCEPT !.maint = FALSE])
           /\ Accounted(a, Fresh(a))
  <1>0. Replicas[a] \in Nat \ {0} /\ QuiesceMode[a] \in Modes
    BY RestoreConfig
  <1>1. /\ [w EXCEPT !.maint = FALSE] \in WorkTypes
        /\ Accounted(a, [w EXCEPT !.maint = FALSE])
    BY DEF WorkTypes, Accounted
  <1>2. ASSUME NEW v \in WorkTypes, Accounted(a, v)
        PROVE  /\ Accounted(a, ScaleBack(v))
               /\ QuiesceMode[a] # "none" => Accounted(a, ScaleToZero(v))
    <2>1. Accounted(a, ScaleBack(v))
      BY <1>0, <1>2 DEF ScaleBack, Accounted, WorkTypes, NoMemo
    <2>2. QuiesceMode[a] # "none" => Accounted(a, ScaleToZero(v))
      BY <1>0, <1>2 DEF ScaleToZero, Accounted, WorkTypes, NoMemo
    <2> QED
      BY <2>1, <2>2
  <1>3. \A mode, hook : Accounted(a, unquiesceApp(w, mode, hook))
    BY <1>1, <1>2 DEF unquiesceApp
  <1>4. ASSUME NEW hook PROVE Accounted(a, quiesceApp(a, w, hook))
    <2> DEFINE v == [w EXCEPT !.maint = @ \/ (QuiesceMode[a] = "command"
                                               /\ hook \in {"ok", "late"})]
    <2>1. v \in WorkTypes /\ Accounted(a, v)
      BY DEF WorkTypes, Accounted
    <2>2. quiesceApp(a, w, hook) = IF quiesceMode(a, hook) = "scaleDown"
                                   THEN ScaleToZero(v) ELSE v
      BY DEF quiesceApp
    <2>3. quiesceMode(a, hook) = "scaleDown" => QuiesceMode[a] # "none"
      BY DEF quiesceMode
    <2> HIDE DEF v
    <2> QED
      BY <1>2, <2>1, <2>2, <2>3
  <1>5. Accounted(a, Fresh(a))
    BY <1>0 DEF Fresh, Accounted, NoMemo
  <1> QED
    BY <1>1, <1>3, <1>4, <1>5

\* Pods follow the workloads.
LEMMA SetWorkAccounts ==
    ASSUME NEW W, W \in [Apps -> WorkTypes], \A a \in Apps : Accounted(a, W[a]),
           setWork(W)
    PROVE  MemoInv'
  <1>1. ASSUME NEW a \in Apps
        PROVE  work'[a] = W[a] /\ pods'[a] = podsOf(W[a], pods[a])
    BY DEF setWork
  <1>2. ASSUME NEW a \in Apps, W[a].replicas = 0
        PROVE  podsOf(W[a], pods[a]) = "none"
    BY <1>2 DEF podsOf
  <1> QED
    BY <1>1, <1>2 DEF MemoInv, Accounted

\* One app paused or resumed, the others as they were.
LEMMA OneAccounts ==
    ASSUME CoreOK, MemoInv, NEW a \in Apps, NEW w \in WorkTypes,
           Accounted(a, w), setWork([work EXCEPT ![a] = w])
    PROVE  MemoInv'
  <1> DEFINE W == [work EXCEPT ![a] = w]
  <1>1. W \in [Apps -> WorkTypes] /\ \A b \in Apps : Accounted(b, W[b])
    BY DEF CoreOK, MemoInv
  <1> QED
    BY <1>1, SetWorkAccounts

LEMMA FailAppAccounts ==
    ASSUME CoreOK, MemoInv, NEW r, NEW a \in Apps, NEW s, NEW js, NEW ok,
           failApp(r, a, s, js, ok)
    PROVE  MemoInv'
  <1>1. PICK hook \in PostHook(work[a]) :
            setWork([work EXCEPT ![a] = unquiesceApp(@, s.entry[a].mode, hook)])
    BY DEF failApp
  <1>2. hook \in {"ok", "error"} /\ work[a] \in WorkTypes
    BY DEF PostHook, CoreOK
  <1> DEFINE w == unquiesceApp(work[a], s.entry[a].mode, hook)
  <1>3. Accounted(a, w) /\ w \in WorkTypes
    BY <1>2, Accounts, WorkType DEF MemoInv
  <1> QED
    BY <1>1, <1>3, OneAccounts

LEMMA ResumeAccounts ==
    ASSUME CoreOK, MemoInv, NEW r, NEW Q, NEW ok, resume(r, Q, ok)
    PROVE  MemoInv'
  <1>1. PICK hook \in [Q -> {"ok", "error"}] :
            setWork([a \in Apps |->
                IF a \in Q
                THEN unquiesceApp(work[a], status[r].entry[a].mode, hook[a])
                ELSE work[a]])
    BY DEF resume
  <1> DEFINE W == [a \in Apps |->
                IF a \in Q
                THEN unquiesceApp(work[a], status[r].entry[a].mode, hook[a])
                ELSE work[a]]
  <1>2. ASSUME NEW a \in Apps PROVE W[a] \in WorkTypes /\ Accounted(a, W[a])
    BY Accounts, WorkType DEF CoreOK, MemoInv
  <1>3. W \in [Apps -> WorkTypes]
    BY <1>2
  <1> HIDE DEF W
  <1> QED
    BY <1>1, <1>2, <1>3, SetWorkAccounts DEF W

\* The commands, the resume and the roll.
LEMMA CommandsAccounts ==
    ASSUME CoreOK, MemoInv, NEW r \in Restores, NEW a \in Apps, NEW ok,
           Commands(r, a, ok)
    PROVE  MemoInv'
  <1> DEFINE en == Ensured(r, a)
             w1 == IF resumeCommandOwed(a, en.mode)
                   THEN [work[a] EXCEPT !.maint = FALSE] ELSE work[a]
             w(hook) == IF en.ended THEN w1
                        ELSE unquiesceApp(w1, en.mode, hook)
             p(hook) == CASE mustRoll(a, en) /\ w(hook).replicas > 0 -> "rolling"
                          [] ~mustRoll(a, en) /\ a \in WithCommands ->
                                Overtaken(pods[a])
                          [] OTHER -> podsOf(w(hook), pods[a])
  <1>1. CASE \E s, js : failApp(r, a, s, js, ok)
    BY <1>1, FailAppAccounts
  <1>2. CASE ~\E s, js : failApp(r, a, s, js, ok)
    <2>1. PICK hook \in PostHook(w1) : /\ work' = [work EXCEPT ![a] = w(hook)]
                                       /\ pods' = [pods EXCEPT ![a] = p(hook)]
      BY <1>2 DEF Commands, Ensured
    <2>2. work[a] \in WorkTypes /\ Accounted(a, work[a])
      BY DEF CoreOK, MemoInv
    <2>3. w1 \in WorkTypes /\ Accounted(a, w1)
      BY <2>2, Accounts
    <2>4. w(hook) \in WorkTypes /\ Accounted(a, w(hook))
      <3> HIDE DEF w1
      <3> QED
        BY <2>3, Accounts, WorkType
    <2>5. needsPod(a, en.mode) => work[a].replicas > 0
      BY DEF Commands, runningPodForApp, Ensured
    <2>6. w(hook).replicas = 0 => p(hook) = "none"
      <3>1. ASSUME w(hook).replicas = 0, ~mustRoll(a, en), a \in WithCommands
            PROVE  FALSE
        BY <3>1 DEF mustRoll
      <3> HIDE DEF w
      <3> QED
        BY <3>1 DEF podsOf
    <2>7. /\ work'[a] = w(hook) /\ pods'[a] = p(hook)
          /\ \A b \in Apps \ {a} : work'[b] = work[b] /\ pods'[b] = pods[b]
      <3> HIDE DEF w, p
      <3> QED
        BY <2>1 DEF CoreOK
    <2> HIDE DEF w, p
    <2> QED
      BY <2>4, <2>6, <2>7 DEF MemoInv, Accounted
  <1> QED
    BY <1>1, <1>2

LEMMA PauseAccounts ==
    ASSUME CoreOK, MemoInv, NEW r \in Restores, NEW a \in Apps, NEW ok,
           PauseApp(r, a, ok) \/ ResumeForCommands(r, a, ok)
    PROVE  MemoInv'
  <1>0. work[a] \in WorkTypes /\ Accounted(a, work[a])
    BY DEF CoreOK, MemoInv
  <1>1. ASSUME NEW hook, setWork([work EXCEPT ![a] = quiesceApp(a, @, hook)])
        PROVE  MemoInv'
    <2> DEFINE w == quiesceApp(a, work[a], hook)
    <2>1. w \in WorkTypes /\ Accounted(a, w)
      BY <1>0, Accounts, WorkType
    <2> QED
      BY <1>1, <2>1, OneAccounts
  <1>2. ASSUME NEW mode, NEW hook,
               setWork([work EXCEPT ![a] = unquiesceApp(@, mode, hook)])
        PROVE  MemoInv'
    <2> DEFINE w == unquiesceApp(work[a], mode, hook)
    <2>1. w \in WorkTypes /\ Accounted(a, w)
      BY <1>0, Accounts, WorkType
    <2> QED
      BY <1>2, <2>1, OneAccounts
  <1>3. CASE PauseApp(r, a, ok)
    BY <1>1, <1>3, FailAppAccounts DEF PauseApp
  <1>4. CASE ResumeForCommands(r, a, ok)
    BY <1>2, <1>4 DEF ResumeForCommands
  <1> QED
    BY <1>3, <1>4

LEMMA MemoPass ==
    ASSUME CoreOK, MemoInv, NEW r \in Restores, NEW ok, Reconcile(r, ok)
    PROVE  MemoInv'
  <1>1. ASSUME UNCHANGED <<work, pods>> PROVE MemoInv'
    BY <1>1 DEF MemoInv, Accounted
  <1>2. CASE ResumeEnded(r, ok) \/ resumeStale(r, ok) \/ FinalizeResume(r, ok)
    BY <1>2, ResumeAccounts DEF ResumeEnded, resumeStale, FinalizeResume, resumeAll
  <1>3. CASE \/ FailPreflight(r, ok) \/ Busy(r, ok) \/ FailUnusable(r, ok)
             \/ Plan(r, ok) \/ RestoreTenantWide(r, ok) \/ Finish(r, ok)
    BY <1>1, <1>3 DEF FailPreflight, Busy, FailUnusable, Plan,
                      RestoreTenantWide, Finish, appState
  <1>4. ASSUME NEW a \in Apps, \/ holdBack(r, a, ok) \/ PlanSecrets(r, a, ok)
                               \/ AwaitSecrets(r, a, ok)
                               \/ RestoreWaits(r, a, ok) \/ PodTimeout(r, a, ok)
        PROVE  MemoInv'
    <2>1. CASE \E s, js : failApp(r, a, s, js, ok)
      BY <2>1, FailAppAccounts
    <2>2. CASE ~\E s, js : failApp(r, a, s, js, ok)
      BY <1>1, <1>4, <2>2 DEF holdBack, PlanSecrets, AwaitSecrets, RestoreWaits,
                              PodTimeout
    <2> QED
      BY <2>1, <2>2
  <1>5. ASSUME NEW a \in Apps, \/ ApplySecrets(r, a, ok) \/ awaitRollout(r, a, ok)
                               \/ RestoreRetained(r, a, ok)
        PROVE  MemoInv'
    BY <1>1, <1>5 DEF ApplySecrets, awaitRollout, RestoreRetained, appState
  <1> QED
    BY <1>2, <1>3, <1>4, <1>5, PauseAccounts, CommandsAccounts DEF Reconcile

LEMMA MemoStep ==
    ASSUME TypeOK, MemoInv, [Next]_vars
    PROVE  MemoInv'
  <1>0. CoreOK
    BY TypeParts
  <1>1. ASSUME NEW r \in Restores, NEW ok, Reconcile(r, ok) PROVE MemoInv'
    BY <1>0, <1>1, MemoPass
  <1>2. ASSUME UNCHANGED <<work, pods>> PROVE MemoInv'
    BY <1>2 DEF MemoInv, Accounted
  <1>3. ASSUME NEW r \in Restores, ReconcileQuietly(r) PROVE MemoInv'
    BY <1>0, <1>2, <1>3, QuietIs DEF QuietPass
  <1>4. ASSUME NEW r \in Restores, NEW x \in Slots, NEW u \in Units,
               JobEnds(r, x, u) \/ OrphanEnds(r, x, u)
        PROVE  MemoInv'
    <2>1. UnitEnds(r, x, u)
      BY <1>0, <1>4, UnitIs
    <2> SUFFICES ASSUME NEW a \in Apps
                 PROVE  /\ Accounted(a, work'[a])
                        /\ work'[a].replicas = 0 => pods'[a] = "none"
      BY DEF MemoInv, Accounted
    <2>2. CASE a # x
      BY <2>1, <2>2 DEF UnitEnds, SameApp, MemoInv
    <2>3. CASE a = x
      BY <2>1, <2>3 DEF UnitEnds, MemoInv, Accounted, Overtaken
    <2> QED
      BY <2>2, <2>3
  <1>5. ASSUME NEW r \in Restores,
               \/ CreateRestore(r) \/ OwnKey(r) \/ DeleteRestore(r)
               \/ \E x \in Slots, u \in Units : ForeignJob(r, x, u)
        PROVE  MemoInv'
    BY <1>2, <1>5 DEF CreateRestore, OwnKey, DeleteRestore, ForeignJob, appState
  <1>6. ASSUME NEW a \in Apps,
               \A b \in Apps \ {a} : work'[b] = work[b] /\ pods'[b] = pods[b],
               Accounted(a, work'[a]), work'[a].replicas # 0
        PROVE  MemoInv'
    <2>1. \A b \in Apps : /\ Accounted(b, work'[b])
                          /\ work'[b].replicas = 0 => pods'[b] = "none"
      BY <1>6 DEF MemoInv
    <2> QED
      BY <2>1 DEF MemoInv, Accounted
  <1>7. ASSUME NEW a \in Apps, PodsUp(a) \/ Handed(a) \/ Uninstall(a)
        PROVE  MemoInv'
    <2>0. Replicas[a] \in Nat \ {0} /\ work[a] \in WorkTypes
          /\ Accounted(a, work[a]) /\ (work[a].replicas = 0 => pods[a] = "none")
      BY <1>0, RestoreConfig DEF CoreOK, MemoInv
    <2>1. CASE PodsUp(a)
      BY <1>0, <2>1 DEF PodsUp, MemoInv, Accounted, CoreOK
    <2>2. CASE Handed(a)
      <3>1. /\ work'[a] = [work[a] EXCEPT !.replicas = Replicas[a]]
            /\ \A b \in Apps \ {a} : work'[b] = work[b] /\ pods'[b] = pods[b]
        BY <1>0, <2>2 DEF Handed, CoreOK
      <3>2. Accounted(a, work'[a]) /\ work'[a].replicas # 0
        BY <2>0, <3>1 DEF Accounted, WorkTypes
      <3> QED
        BY <1>6, <3>1, <3>2
    <2>3. CASE Uninstall(a)
      <3>1. /\ work'[a] = Fresh(a)
            /\ \A b \in Apps \ {a} : work'[b] = work[b] /\ pods'[b] = pods[b]
        BY <1>0, <2>3 DEF Uninstall, CoreOK
      <3>2. Accounted(a, work'[a]) /\ work'[a].replicas # 0
        <4>1. Accounted(a, Fresh(a))
          BY <2>0, Accounts
        <4>2. Fresh(a).replicas # 0
          BY <2>0 DEF Fresh
        <4> QED
          BY <3>1, <4>1, <4>2
      <3> QED
        BY <1>6, <3>1, <3>2
    <2> QED
      BY <1>7, <2>1, <2>2, <2>3
  <1>8. CASE ExportStarts \/ ExportEnds \/ UNCHANGED NotEdge \/ UNCHANGED vars
    BY <1>2, <1>8 DEF ExportStarts, ExportEnds, NotEdge, vars, appState
  <1>9. CASE Environment
    BY <1>4, <1>5, <1>7, <1>8, <1>9 DEF Environment
  <1> QED
    BY <1>1, <1>3, <1>8, <1>9 DEF Next, Watched, RestoreNext

LEMMA MemoFirst == Init => MemoInv
  <1>1. \A a \in Apps : Accounted(a, Fresh(a)) /\ Fresh(a).replicas # 0
    BY RestoreConfig DEF Fresh, Accounted, NoMemo
  <1>2. Init => \A a \in Apps : work[a] = Fresh(a)
    BY DEF Init
  <1> QED
    BY <1>1, <1>2 DEF MemoInv, Accounted

----------------------------------------------------------------------------
(* Loading under the pause. *)

\* No write of a status is lost, and a restore is ended from outside only
\* where no other can take its place.
Undisturbed ==
    /\ "lost" \notin Faults
    /\ Sole \/ {"tenant", "unusable"} \cap Faults = {}

\* The key of a restore stays until the restore is over.
KeyKept ==
    \A r \in Restores :
        obj[r] \notin {"deleting", "gone"} /\ ~IsTerminal(status[r])
            => key[r] # "gone"
\* Only the restore that holds the tenant has apps to resume.
PauserHolds ==
    \A r \in Restores :
        Exists(r) /\ status[r].quiesced # {} => Holds(r) \/ Sole

\* The mode an app can be paused in, by the mode its profile asks for.
ModeOf(a, mode) ==
    \/ QuiesceMode[a] = "none" /\ mode = "none"
    \/ QuiesceMode[a] = "command" /\ mode \in {"command", "scaleDown"}
    \/ QuiesceMode[a] = "scaleDown" /\ mode = "scaleDown"
\* How the entry n of the app a goes with the apps Q on record as paused.
Stages(a, n, Q) ==
    /\ a \in Q => n.started /\ ~n.ended /\ ~n.rollout
    /\ n.started => ~n.retained /\ ModeOf(a, n.mode)
    /\ n.ended \/ n.rollout => n.started /\ Units \subseteq n.done
    /\ n.phase = "Ready" /\ ~n.retained => n.rollout
    /\ n.ended /\ ~n.rollout => needsPod(a, n.mode)
\* It is the turn of the app a.
InTurn(s, a) ==
    /\ a \in s.plan /\ s.entry[a].phase # "Ready"
    /\ \A b \in s.plan : s.entry[b].phase # "Ready" => AppRank[a] <= AppRank[b]
PausedAs(w, mode) ==
    /\ mode = "command" => w.replicas > 0 /\ w.maint
    /\ mode = "scaleDown" => w.replicas = 0
\* An app that is on record as paused is paused; an app is on record from its
\* pause to its resume, and only then has Jobs that run.  Here o is where the
\* restore is in its life, w the workload of the app, js its Jobs, and I the
\* apps installed.
Pausing(a, n, Q, o, w, js, I) ==
    /\ a \in Q /\ a \in I => PausedAs(w, n.mode)
    /\ o = "live" /\ n.started /\ ~n.ended => a \in Q
    /\ \A u \in Units :
           js[u] = "running" /\ ~n.retained => a \in Q /\ u \notin n.done
    /\ n.retained => a \notin I
PausesRight ==
    \A r \in Restores : Holds(r) => \A a \in Apps :
        /\ Stages(a, status[r].entry[a], status[r].quiesced)
        /\ Pausing(a, status[r].entry[a], status[r].quiesced,
                   obj[r], work[a], job[r][a], installed)
PausesInTurn ==
    \A r \in Restores : Holds(r) =>
        \A a \in status[r].quiesced : InTurn(status[r], a)
PauseInv == KeyKept /\ PauserHolds /\ PausesRight /\ PausesInTurn

\* The app whose turn it is, is the one that is worked on.
LEMMA TurnIs ==
    ASSUME TypeOK, NEW r \in Restores, NEW a \in Apps
    PROVE  /\ InTurn(status[r], a) => nextPendingApp(r) = a
           /\ nextPendingApp(r) = a => InTurn(status[r], a)
  <1> DEFINE pending == {b \in status[r].plan : status[r].entry[b].phase # "Ready"}
  <1>1. pending \subseteq Apps
    BY DEF TypeOK, Statuses
  <1>2. nextPendingApp(r) = IF pending = {} THEN NoApp ELSE First(pending)
    BY DEF nextPendingApp
  <1>3. a # NoApp
    BY RestoreConfig DEF NoApp
  <1>4. InTurn(status[r], a) <=>
            a \in pending /\ \A b \in pending : AppRank[a] <= AppRank[b]
    BY DEF InTurn
  <1>5. pending # {} => /\ First(pending) \in pending
                        /\ \A b \in pending : AppRank[First(pending)] <= AppRank[b]
    BY <1>1, FirstIsIn
  <1> HIDE DEF pending
  <1>6. ASSUME nextPendingApp(r) = a PROVE InTurn(status[r], a)
    BY <1>2, <1>3, <1>4, <1>5, <1>6
  <1>7. ASSUME InTurn(status[r], a) PROVE nextPendingApp(r) = a
    <2>1. /\ a \in pending /\ First(pending) \in pending
          /\ AppRank[a] <= AppRank[First(pending)]
          /\ AppRank[First(pending)] <= AppRank[a]
      BY <1>4, <1>5, <1>7
    <2>2. a \in Apps /\ First(pending) \in Apps
      BY <1>1, <2>1
    <2>3. AppRank[a] = AppRank[First(pending)]
      BY <2>1, <2>2, RestoreOrder
    <2> QED
      BY <1>2, <2>1, <2>2, <2>3, RestoreOrder
  <1> QED
    BY <1>6, <1>7

\* So nothing is stale, and an app that is not worked on is not paused.
LEMMA PausedIsNext ==
    ASSUME TypeOK, PausesInTurn, NEW r \in Restores, Holds(r),
           NEW a \in status[r].quiesced
    PROVE  nextPendingApp(r) = a
  <1>1. a \in Apps /\ InTurn(status[r], a)
    BY DEF PausesInTurn, TypeOK, Statuses
  <1> QED
    BY <1>1, TurnIs

\* A pass over another restore than the holder leaves the apps alone.
LEMMA OtherPass ==
    ASSUME TypeOK, HoldInv, PauseInv, NEW r \in Restores, NEW q \in Restores,
           Holds(r), q # r, PassOver(q)
    PROVE  /\ UNCHANGED <<work, pods, vault>>
           /\ status'[r] = status[r] /\ job'[r] = job[r] /\ key'[r] = key[r]
  <1>1. PICK s \in Statuses : Wrote(q, s) /\ Passed(q, s)
    BY DEF PassOver
  <1>2. ~Holds(q) /\ ~Sole
    BY OneHolds DEF HoldInv, Sole
  <1>3. \A x : ~At(q, x)
    BY <1>2, AtHolds
  <1>4. ~Resumes(q, s)
    <2>1. ASSUME Resumes(q, s) PROVE status[q].quiesced # {} /\ Exists(q)
      BY <2>1 DEF Resumes, Exists, Works, Running
    <2> QED
      BY <1>2, <2>1 DEF PauseInv, PauserHolds
  <1>5. UNCHANGED <<work, pods, vault>>
    BY <1>1, <1>3, <1>4 DEF Passed, Fails, GoesOn, Plans, Ends, StandsBack
  <1> QED
    BY <1>1, <1>5 DEF Wrote

\* What a pass that the restore survives does to one of its apps.
Aside(r, a, s) ==
    /\ s.entry[a] = status[r].entry[a]
    /\ a \in s.quiesced <=> a \in status[r].quiesced
    /\ job'[r][a] = job[r][a] /\ work'[a] = work[a]
    /\ pods'[a] \in {pods[a], podsOf(work[a], pods[a])}
Struck(r, a, s) ==
    /\ obj[r] = "deleting" /\ s.entry[a] = status[r].entry[a]
    /\ a \in s.quiesced => a \in status[r].quiesced /\ work'[a] = work[a]
    /\ \A u \in Units : job'[r][a][u] # "running"
LEMMA OwnPass ==
    ASSUME TypeOK, PauseInv, NEW r \in Restores, NEW s \in Statuses,
           Holds(r), Passed(r, s), ~IsTerminal(s), NEW a \in Apps
    PROVE  \/ Aside(r, a, s) \/ Struck(r, a, s)
           \/ GoesOn(r, a, s) /\ OverApp(r, a, s)
  <1>0. a \in Slots /\ a # TenantWide
    BY RestoreConfig DEF Slots
  <1>1. ASSUME NEW x \in Apps, x # a, GoesOn(r, x, s), OverApp(r, x, s)
        PROVE  Aside(r, a, s)
    <2>1. /\ s.entry[a] = status[r].entry[a] /\ job'[r][a] = job[r][a]
          /\ work'[a] = work[a]
          /\ pods'[a] \in {pods[a], podsOf(work[a], pods[a])}
      BY <1>0, <1>1 DEF GoesOn, SlotOnly, AppOnly
    <2>2. a \in s.quiesced <=> a \in status[r].quiesced
      BY <1>1 DEF OverApp, Notes
    <2> QED
      BY <2>1, <2>2 DEF Aside
  <1>2. ASSUME GoesOn(r, TenantWide, s), OverTenant(r, s) PROVE Aside(r, a, s)
    BY <1>0, <1>2 DEF GoesOn, SlotOnly, OverTenant, Aside
  <1>3. ASSUME StandsBack(r, s) PROVE Aside(r, a, s)
    BY <1>3 DEF StandsBack, Aside
  <1>4. ASSUME Resumes(r, s) PROVE Struck(r, a, s)
    <2>1. PICK Q \in SUBSET status[r].quiesced :
             /\ Q # {} /\ s.quiesced = status[r].quiesced \ Q
             /\ \A b \in Apps \ Q : work'[b] = work[b]
             /\ \/ IsTerminal(status[r])
                \/ Works(r) /\ Q = Stale(r)
                \/ /\ obj[r] = "deleting"
                   /\ \A x \in Slots, u \in Units :
                        job'[r][x][u] \in {"none", "foreign"}
      BY <1>4 DEF Resumes
    <2>2. Q # Stale(r)
      BY <2>1, PausedIsNext DEF Stale, PauseInv
    <2>3. ~IsTerminal(status[r])
      BY DEF Holds
    <2> QED
      BY <1>0, <1>4, <2>1, <2>2, <2>3 DEF Resumes, Struck
  <1>5. ~Ends(r, s) /\ ~Plans(r, s) /\ \A x \in Slots : ~Fails(r, x, s)
    BY DEF Ends, Plans, Fails, IsTerminal, Holds
  <1> QED
    BY <1>1, <1>2, <1>3, <1>4, <1>5 DEF Passed

\* A pass over an app keeps its entry in step with the record of the paused.
LEMMA StagesPass ==
    ASSUME NEW r \in Restores, NEW s \in Statuses, NEW a \in Apps,
           Stages(a, status[r].entry[a], status[r].quiesced), OverApp(r, a, s)
    PROVE  Stages(a, s.entry[a], s.quiesced)
  <1> DEFINE m == status[r].entry[a]
             n == s.entry[a]
             Q == status[r].quiesced
  <1>1. CASE Notes(r, a, s)
    BY <1>1 DEF Notes
  <1>2. CASE s.quiesced = Q /\ TakesSecrets(r, a, m, n)
    BY <1>2 DEF TakesSecrets, Stages, Course
  <1>3. CASE s.quiesced = Q /\ Waits(r, a, m, n)
    BY <1>3 DEF Waits, Stages, Course, Settings, Complete
  <1>4. CASE s.quiesced = Q /\ IsBack(r, a, m, n)
    BY <1>4 DEF IsBack, Stages, Course, Settings
  <1>5. CASE s.quiesced = Q /\ LoadsRetained(r, a, m, n)
    BY <1>5 DEF LoadsRetained, Stages, Course
  <1>6. CASE Pauses(r, a, m, n)
    <2>1. n.started /\ ~m.started /\ Course(m, n) /\ n.phase = "Running"
          /\ n.retained = m.retained /\ ~m.retained
      BY <1>6 DEF Pauses, AtInstalled
    <2>2. PICK hook : n.mode = quiesceMode(a, hook)
      BY <1>6 DEF Pauses
    <2>3. ModeOf(a, n.mode)
      BY <2>2, RestoreConfig DEF quiesceMode, ModeOf, Modes
    <2> QED
      BY <2>1, <2>3 DEF Stages, Course
  <1>7. CASE s.quiesced = Q \ {a} /\ ComesUp(r, a, m, n)
    BY <1>7 DEF ComesUp, Stages, Settings, Loaded, Entry
  <1>8. CASE s.quiesced = Q \ {a} /\ Rolls(r, a, m, n)
    BY <1>8 DEF Rolls, Stages, Settings, Loaded, Entry
  <1> QED
    BY <1>1, <1>2, <1>3, <1>4, <1>5, <1>6, <1>7, <1>8 DEF OverApp

\* ... and its pause for as long as it is on record.
LEMMA PausingPass ==
    ASSUME CoreOK, NEW r \in Restores, NEW s \in Statuses, NEW a \in Apps, Holds(r),
           Stages(a, status[r].entry[a], status[r].quiesced),
           Pausing(a, status[r].entry[a], status[r].quiesced,
                   obj[r], work[a], job[r][a], installed),
           GoesOn(r, a, s), OverApp(r, a, s)
    PROVE  Pausing(a, s.entry[a], s.quiesced,
                   obj[r], work'[a], job'[r][a], installed)
  <1> DEFINE m == status[r].entry[a]
             n == s.entry[a]
             Q == status[r].quiesced
  <1>0. obj[r] = "live"
    BY AtHolds DEF GoesOn
  <1>1. CASE Notes(r, a, s)
    BY <1>1 DEF Notes, SameApp
  <1>2. CASE s.quiesced = Q /\ TakesSecrets(r, a, m, n)
    BY <1>2 DEF TakesSecrets, Pausing, Course, SameApp
  <1>3. CASE s.quiesced = Q /\ Waits(r, a, m, n)
    <2>1. /\ Settings(m, n) /\ Course(m, n) /\ m.started /\ ~m.retained
          /\ n.done = Complete(m, job[r][a]) /\ ~(Units \subseteq n.done)
          /\ work'[a] = work[a] /\ a \in installed
      BY <1>3 DEF Waits, SameApp, AtInstalled
    <2>2. ~m.ended /\ a \in Q
      BY <1>0, <2>1 DEF Stages, Pausing, Complete
    <2>3. ASSUME NEW u \in Units, job'[r][a][u] = "running" PROVE u \notin n.done
      BY <2>1, <2>3 DEF GoesOn, Pausing, Complete
    <2> QED
      BY <1>3, <2>1, <2>2, <2>3 DEF Pausing, Settings, Course
  <1>4. CASE s.quiesced = Q /\ IsBack(r, a, m, n)
    BY <1>4 DEF IsBack, Pausing, Course, Settings, SameApp
  <1>5. CASE s.quiesced = Q /\ LoadsRetained(r, a, m, n)
    BY <1>5 DEF LoadsRetained, Stages, Pausing, Course, SameApp
  <1>6. CASE s.quiesced = Q \cup {a} /\ Pauses(r, a, m, n)
    <2>1. /\ ~m.started /\ ~m.retained /\ n.retained = m.retained
          /\ n.done = m.done /\ job'[r][a] = job[r][a]
      BY <1>6 DEF Pauses, AtInstalled
    <2>2. PICK hook \in PreHook(work[a]) :
              /\ n.mode = quiesceMode(a, hook)
              /\ work'[a] = quiesceApp(a, work[a], hook)
      BY <1>6 DEF Pauses
    <2>3. PausedAs(work'[a], n.mode)
      <3>0. work[a] \in WorkTypes
        BY DEF CoreOK
      <3>1. CASE n.mode = "command"
        <4>1. QuiesceMode[a] = "command" /\ hook = "ok"
          BY <2>2, <3>1 DEF quiesceMode
        <4>2. work[a].replicas > 0
          BY <2>2, <4>1 DEF PreHook
        <4>3. work'[a] = [work[a] EXCEPT !.maint = TRUE]
          BY <2>2, <3>0, <3>1, <4>1 DEF quiesceApp, WorkTypes
        <4> QED
          BY <3>0, <3>1, <4>2, <4>3 DEF PausedAs, WorkTypes
      <3>2. CASE n.mode = "scaleDown"
        BY <2>2, <3>0, <3>2 DEF quiesceApp, ScaleToZero, PausedAs, WorkTypes
      <3> QED
        BY <3>1, <3>2 DEF PausedAs
    <2> QED
      BY <1>6, <2>1, <2>3 DEF Pausing
  <1>7. CASE /\ s.quiesced = Q \ {a}
             /\ ComesUp(r, a, m, n) \/ Rolls(r, a, m, n)
    <2>1. /\ Settings(m, n) /\ n.ended /\ n.done = Complete(m, job[r][a])
          /\ Units \subseteq n.done /\ job'[r][a] = job[r][a]
      BY <1>7 DEF ComesUp, Rolls
    <2>2. ASSUME NEW u \in Units, job[r][a][u] = "running", ~m.retained
          PROVE  FALSE
      BY <2>1, <2>2 DEF Pausing, Complete
    <2> QED
      BY <1>7, <2>1, <2>2 DEF Pausing, Settings
  <1> QED
    BY <1>1, <1>2, <1>3, <1>4, <1>5, <1>6, <1>7 DEF OverApp

LEMMA KeyStep ==
    ASSUME Undisturbed, TypeOK, HoldInv, PauseInv, [Next]_vars
    PROVE  KeyKept'
  <1> SUFFICES ASSUME NEW q \in Restores, obj'[q] \notin {"deleting", "gone"},
                      ~IsTerminal(status'[q])
               PROVE  key'[q] # "gone"
    BY DEF KeyKept, IsTerminal
  <1>1. Stepped
    BY StepIs
  <1>2. ~IsTerminal(status[q]) /\ obj[q] \notin {"deleting", "gone"}
    <2>1. PhaseStep(q) /\ ObjectStep(q)
      BY StatusNext, ObjectNext
    <2> QED
      BY <2>1 DEF PhaseStep, ObjectStep, Running, IsTerminal, Exists
  <1>3. key[q] # "gone"
    BY <1>2 DEF PauseInv, KeyKept
  <1>4. ASSUME NEW r \in Restores, PassOver(r) PROVE key'[q] # "gone"
    <2>1. PICK s \in Statuses : Wrote(r, s) /\ Passed(r, s)
      BY <1>4 DEF PassOver
    <2>2. CASE q # r
      BY <1>3, <2>1, <2>2 DEF Wrote
    <2>3. CASE q = r
      <3>1. status'[r] = s /\ ~IsTerminal(s)
        BY <2>1, <2>3 DEF Wrote, Undisturbed
      <3>2. ~Ends(r, s) /\ \A x \in Slots : ~Fails(r, x, s)
        BY <3>1 DEF Ends, Fails, IsTerminal
      <3>3. UNCHANGED key
        BY <1>2, <2>1, <2>3, <3>2
           DEF Passed, GoesOn, Plans, StandsBack, Resumes
      <3> QED
        BY <1>3, <3>3
    <2> QED
      BY <2>2, <2>3
  <1>5. ASSUME NEW r \in Restores, QuietPass(r) PROVE key'[q] # "gone"
    BY <1>2, <1>3, <1>5 DEF QuietPass
  <1>6. ASSUME NEW r \in Restores, ObjectOnly(r) PROVE key'[q] # "gone"
    BY <1>3, <1>6 DEF ObjectOnly
  <1> QED
    BY <1>1, <1>3, <1>4, <1>5, <1>6
       DEF Stepped, UnitEnds, Intrudes, AppOnlyStep, Unmoved

\* A restore that ends has resumed what it paused, unless it is the only one.
LEMMA NothingLeft ==
    ASSUME Undisturbed, TypeOK, HoldInv, PauseInv, NEW r \in Restores,
           NEW s \in Statuses, Ends(r, s) \/ \E x \in Slots : Fails(r, x, s),
           s.quiesced # {}
    PROVE  Sole
  <1>0. status[r].quiesced \subseteq Apps
    BY DEF TypeOK, Statuses
  <1>1. ASSUME Ends(r, s) PROVE FALSE
    <2>1. Stale(r) = {} /\ nextPendingApp(r) = NoApp /\ s.quiesced = status[r].quiesced
      BY <1>1, AtHolds DEF Ends
    <2> QED
      BY <1>0, <2>1, RestoreConfig DEF Stale, NoApp
  <1>2. ASSUME NEW x \in Slots, Fails(r, x, s) PROVE Sole
    <2>1. s.quiesced \subseteq status[r].quiesced /\ Running(r)
      BY <1>2 DEF Fails
    <2>2. CASE At(r, x) /\ (x \notin s.quiesced \/ status[r].entry[x].retained)
      <3>1. status[r].quiesced \subseteq {x} /\ Holds(r)
        BY <2>2, AtHolds DEF Stale
      <3>2. x \in status[r].quiesced /\ x \in Apps /\ status[r].entry[x].retained
        BY <1>0, <2>1, <2>2, <3>1
      <3>3. Stages(x, status[r].entry[x], status[r].quiesced)
        BY <3>1, <3>2 DEF PauseInv, PausesRight
      <3> QED
        BY <3>2, <3>3 DEF Stages
    <2>3. CASE ~status[r].started
      BY <2>1, <2>3 DEF HoldInv, Untouched
    <2>4. CASE {"tenant", "unusable"} \cap Faults # {}
      BY <2>4 DEF Undisturbed
    <2>5. CASE key[r] = "gone"
      BY <2>1, <2>5 DEF PauseInv, KeyKept, Running
    <2> QED
      BY <1>2, <2>2, <2>3, <2>4, <2>5 DEF Fails
  <1> QED
    BY <1>1, <1>2

LEMMA PauserStep ==
    ASSUME Undisturbed, TypeOK, HoldInv, PauseInv, [Next]_vars
    PROVE  PauserHolds'
  <1> SUFFICES ASSUME NEW q \in Restores, Exists(q)', status'[q].quiesced # {}, ~Sole
               PROVE  Holds(q)'
    BY DEF PauserHolds, Sole
  <1>1. Stepped
    BY StepIs
  <1>2. Exists(q) /\ status[q].quiesced # {} => Holds(q)
    BY DEF PauseInv, PauserHolds
  <1>3. ASSUME NEW r \in Restores, PassOver(r) PROVE Holds(q)'
    <2>1. PICK s \in Statuses : Wrote(r, s) /\ Passed(r, s)
      BY <1>3 DEF PassOver
    <2>2. Exists(q)
      BY <1>3 DEF PassOver, Exists
    <2>3. CASE status'[q] = status[q]
      BY <1>2, <2>2, <2>3 DEF Holds
    <2>4. CASE q = r /\ status'[r] = s
      <3>1. ~Ends(r, s) /\ \A x \in Slots : ~Fails(r, x, s)
        BY <2>4, NothingLeft
      <3>2. ASSUME NEW x, GoesOn(r, x, s) PROVE s.started /\ ~IsTerminal(s)
        BY <3>2, AtHolds DEF GoesOn, SlotOnly, Holds, IsTerminal
      <3>3. ASSUME Resumes(r, s) PROVE s.started /\ ~IsTerminal(s)
        <4>1. Holds(r)
          BY <1>2, <2>2, <2>4, <3>3 DEF Resumes
        <4> QED
          BY <3>3, <4>1 DEF Resumes, Holds, IsTerminal
      <3>4. ASSUME StandsBack(r, s) PROVE s.started /\ ~IsTerminal(s)
        <4>1. Holds(r)
          BY <1>2, <2>2, <2>4, <3>4 DEF StandsBack
        <4> QED
          BY <3>4, <4>1 DEF StandsBack, Holds, IsTerminal
      <3>5. ASSUME Plans(r, s) PROVE s.started /\ ~IsTerminal(s)
        BY <3>5 DEF Plans, IsTerminal
      <3>6. s.started /\ ~IsTerminal(s)
        BY <2>1, <3>1, <3>2, <3>3, <3>4, <3>5 DEF Passed
      <3> QED
        BY <2>4, <3>6 DEF Holds
    <2> QED
      BY <2>1, <2>3, <2>4 DEF Wrote
  <1>4. CASE ~\E r \in Restores : PassOver(r)
    <2>1. UNCHANGED status
      BY <1>1, <1>4 DEF Stepped, QuietPass, UnitEnds, Intrudes, ObjectOnly,
                        AppOnlyStep, Unmoved
    <2>2. obj[q] # "absent"
      BY <2>1 DEF HoldInv, Untouched
    <2>3. Exists(q)
      BY <2>2, ObjectNext DEF ObjectStep, Exists
    <2> QED
      BY <1>2, <2>1, <2>3 DEF Holds
  <1> QED
    BY <1>3, <1>4

\* What holds of every app when it holds under the plan that was just made.
LEMMA PlanPauses ==
    ASSUME HoldInv, NEW r \in Restores, NEW s \in Statuses, Plans(r, s),
           NEW a \in Apps
    PROVE  /\ s.quiesced = {}
           /\ Stages(a, s.entry[a], s.quiesced)
           /\ Pausing(a, s.entry[a], s.quiesced,
                      obj[r], work'[a], job'[r][a], installed)
  <1>1. a \in Slots
    BY DEF Slots
  <1>2. /\ s.quiesced = {} /\ job' = job
        /\ \A u \in Units : job[r][a][u] = "none"
    BY <1>1 DEF Plans, HoldInv, Untouched
  <1>3. IsNew(s.entry[a]) /\ (s.entry[a].retained => a \notin installed)
    BY <1>1 DEF Plans
  <1> QED
    BY <1>2, <1>3 DEF Stages, Pausing, IsNew

LEMMA RightPass ==
    ASSUME Undisturbed, TypeOK, HoldInv, PauseInv, NEW r \in Restores, PassOver(r)
    PROVE  PausesRight'
  <1>0. CoreOK
    BY TypeParts
  <1>1. PICK s \in Statuses : Wrote(r, s) /\ Passed(r, s)
    BY DEF PassOver
  <1>2. UNCHANGED <<obj, installed>> /\ status'[r] = s
    BY <1>1 DEF PassOver, Wrote, Undisturbed
  <1>3. ASSUME NEW q \in Restores, Holds(q)', NEW a \in Apps
        PROVE  /\ Stages(a, status'[q].entry[a], status'[q].quiesced)
               /\ Pausing(a, status'[q].entry[a], status'[q].quiesced,
                          obj[q], work'[a], job'[q][a], installed)
    <2>0. ASSUME Holds(q)
          PROVE  /\ Stages(a, status[q].entry[a], status[q].quiesced)
                 /\ Pausing(a, status[q].entry[a], status[q].quiesced,
                            obj[q], work[a], job[q][a], installed)
      BY <2>0 DEF PauseInv, PausesRight
    <2>1. CASE q # r
      <3>1. Holds(q)
        BY <1>1, <1>2, <1>3, <2>1 DEF Wrote, Holds, Exists
      <3>2. UNCHANGED work /\ status'[q] = status[q] /\ job'[q] = job[q]
        BY <2>1, <3>1, OtherPass
      <3> QED
        BY <2>0, <3>1, <3>2
    <2>2. CASE q = r
      <3>1. ~IsTerminal(s) /\ s.started
        BY <1>2, <1>3, <2>2 DEF Holds
      <3>2. CASE Plans(r, s)
        BY <1>2, <2>2, <3>2, PlanPauses
      <3>3. CASE ~Plans(r, s)
        <4>1. Holds(r)
          BY <1>1, <1>2, <1>3, <2>2, <3>3, HolderPass
        <4>2. CASE Aside(r, a, s)
          <5>1. Stages(a, s.entry[a], s.quiesced)
            BY <2>0, <2>2, <4>1, <4>2 DEF Aside, Stages
          <5>2. Pausing(a, s.entry[a], s.quiesced,
                        obj[r], work'[a], job'[r][a], installed)
            BY <2>0, <2>2, <4>1, <4>2 DEF Aside, Pausing
          <5> QED
            BY <1>2, <2>2, <5>1, <5>2
        <4>3. CASE Struck(r, a, s)
          <5>1. Stages(a, s.entry[a], s.quiesced)
            BY <2>0, <2>2, <4>1, <4>3 DEF Struck, Stages
          <5>2. Pausing(a, s.entry[a], s.quiesced,
                        obj[r], work'[a], job'[r][a], installed)
            BY <2>0, <2>2, <4>1, <4>3 DEF Struck, Pausing
          <5> QED
            BY <1>2, <2>2, <5>1, <5>2
        <4>4. CASE GoesOn(r, a, s) /\ OverApp(r, a, s)
          BY <1>0, <1>2, <2>0, <2>2, <4>1, <4>4, StagesPass, PausingPass
        <4> QED
          BY <1>1, <3>1, <4>1, <4>2, <4>3, <4>4, OwnPass
      <3> QED
        BY <3>2, <3>3
    <2> QED
      BY <2>1, <2>2
  <1> QED
    BY <1>2, <1>3 DEF PausesRight

\* An app that is paused has its secrets, and is not started by them again.
LEMMA PausedIsHanded ==
    ASSUME SecretsInv, PauseInv, NEW r \in Restores, Holds(r), NEW a \in Apps,
           a \in status[r].quiesced
    PROVE  handed[a] = vault[a]
  <1>1. Stages(a, status[r].entry[a], status[r].quiesced)
    BY DEF PauseInv, PausesRight
  <1>2. Fits(status[r].entry[a], a, vault[a], handed[a], Bundle[r])
    BY DEF SecretsInv, SecretsKnown
  <1> QED
    BY <1>1, <1>2 DEF Stages, Fits, SecretsInv, NoSecretsKept

LEMMA RightStep ==
    ASSUME Undisturbed, TypeOK, HoldInv, SecretsInv, PauseInv, [Next]_vars
    PROVE  PausesRight'
  <1>1. Stepped
    BY StepIs
  <1>2. CASE \E r \in Restores : PassOver(r)
    BY <1>2, RightPass
  <1>3. CASE ~\E r \in Restores : PassOver(r)
    <2>1. ASSUME NEW q \in Restores, Holds(q)', NEW a \in Apps
          PROVE  /\ Stages(a, status'[q].entry[a], status'[q].quiesced)
                 /\ Pausing(a, status'[q].entry[a], status'[q].quiesced,
                            obj'[q], work'[a], job'[q][a], installed')
      <3> DEFINE n == status[q].entry[a]
                 Q == status[q].quiesced
      <3>1. Holds(q) /\ status'[q] = status[q]
        BY <1>1, <1>3, <2>1, HolderStays DEF HoldInv
      <3>2. Stages(a, n, Q) /\ Pausing(a, n, Q, obj[q], work[a], job[q][a], installed)
        BY <3>1 DEF PauseInv, PausesRight
      <3>3. obj'[q] = "live" => obj[q] = "live"
        BY <3>1, ObjectNext DEF ObjectStep, Holds, Exists
      <3>4. ASSUME NEW u \in Units, job'[q][a][u] = "running"
            PROVE  job[q][a][u] = "running"
        <4>1. a \in Slots
          BY DEF Slots
        <4>2. ASSUME NEW r \in Restores, QuietPass(r)
              PROVE  job[q][a][u] = "running"
          BY <3>4, <4>1, <4>2 DEF QuietPass
        <4>3. ASSUME NEW r \in Restores, NEW x \in Slots, NEW v \in Units,
                     UnitEnds(r, x, v) \/ Intrudes(r, x, v)
              PROVE  job[q][a][u] = "running"
          BY <3>4, <4>1, <4>3 DEF UnitEnds, Intrudes
        <4> QED
          BY <1>1, <1>3, <3>4, <4>2, <4>3
             DEF Stepped, ObjectOnly, AppOnlyStep, Unmoved
      <3>5. installed' \subseteq installed
        BY <1>1, <1>3 DEF Stepped, QuietPass, UnitEnds, Intrudes, ObjectOnly,
                          AppOnlyStep, Unmoved
      <3>6. ASSUME a \in Q, a \in installed'
            PROVE  \/ work'[a] = work[a]
                   \/ /\ work'[a].replicas = work[a].replicas
                      /\ work[a].maint => work'[a].maint
        <4>1. handed[a] = vault[a]
          BY <3>1, <3>6, PausedIsHanded
        <4>2. ASSUME NEW r \in Restores, NEW x \in Slots, NEW v \in Units,
                     UnitEnds(r, x, v)
              PROVE  \/ work'[a] = work[a]
                     \/ /\ work'[a].replicas = work[a].replicas
                        /\ work[a].maint => work'[a].maint
          BY <4>2 DEF UnitEnds, SameApp
        <4>3. ASSUME NEW b \in Apps, AppOnlyStep(b) PROVE work'[a] = work[a]
          BY <3>6, <4>1, <4>3 DEF AppOnlyStep, SameApp
        <4> QED
          BY <1>1, <1>3, <4>2, <4>3
             DEF Stepped, QuietPass, Intrudes, ObjectOnly, Unmoved
      <3>7. a \in Q /\ a \in installed' => PausedAs(work'[a], n.mode)
        BY <3>2, <3>5, <3>6 DEF Pausing, PausedAs
      <3> QED
        BY <3>1, <3>2, <3>3, <3>4, <3>5, <3>7 DEF Pausing
    <2> QED
      BY <2>1 DEF PausesRight
  <1> QED
    BY <1>2, <1>3

LEMMA TurnStep ==
    ASSUME Undisturbed, TypeOK, HoldInv, PauseInv, [Next]_vars
    PROVE  PausesInTurn'
  <1> SUFFICES ASSUME NEW q \in Restores, Holds(q)', NEW a \in status'[q].quiesced
               PROVE  InTurn(status'[q], a)
    BY DEF PausesInTurn, InTurn
  <1>1. Stepped
    BY StepIs
  <1>2. ASSUME Holds(q), status'[q] = status[q] PROVE InTurn(status'[q], a)
    BY <1>2 DEF PauseInv, PausesInTurn
  <1>3. ASSUME NEW r \in Restores, PassOver(r) PROVE InTurn(status'[q], a)
    <2>1. PICK s \in Statuses : Wrote(r, s) /\ Passed(r, s)
      BY <1>3 DEF PassOver
    <2>2. CASE q = r /\ status'[r] = s /\ ~IsTerminal(s)
      <3>0. a \in s.quiesced /\ a \in Apps
        BY <2>2 DEF Statuses
      <3>1. ~Plans(r, s)
        BY <3>0, PlanPauses
      <3>2. Holds(r)
        BY <1>3, <2>1, <2>2, <3>1, HolderPass
      <3>3. ~Ends(r, s) /\ \A x \in Slots : ~Fails(r, x, s)
        BY <2>2 DEF Ends, Fails, IsTerminal
      <3>4. CASE StandsBack(r, s) \/ Resumes(r, s)
        <4>1. s.plan = status[r].plan /\ s.entry = status[r].entry
              /\ s.quiesced \subseteq status[r].quiesced
          BY <3>4 DEF StandsBack, Resumes
        <4>2. InTurn(status[r], a)
          BY <3>0, <3>2, <4>1 DEF PauseInv, PausesInTurn
        <4> QED
          BY <2>2, <4>1, <4>2 DEF InTurn
      <3>5. ASSUME NEW x \in Slots, GoesOn(r, x, s),
                   x = TenantWide => OverTenant(r, s),
                   x # TenantWide => OverApp(r, x, s)
            PROVE  InTurn(s, a)
        <4>1. /\ nextPendingApp(r) = x /\ s.plan = status[r].plan
              /\ \A y \in Slots \ {x} : s.entry[y] = status[r].entry[y]
          BY <3>5, AtHolds DEF GoesOn, SlotOnly
        <4>2. a \in status[r].quiesced \/ a = x
          BY <3>0, <3>5 DEF OverTenant, OverApp, Notes
        <4>3. a = x /\ x # TenantWide
          BY <3>0, <3>2, <4>1, <4>2, PausedIsNext, RestoreConfig DEF PauseInv
        <4>4. InTurn(status[r], a)
          BY <3>0, <4>1, <4>3, TurnIs
        <4>5. s.entry[a].phase # "Ready"
          <5> DEFINE m == status[r].entry[a]
                     n == s.entry[a]
          <5>1. Stages(a, m, status[r].quiesced) /\ m.phase # "Ready"
            BY <3>0, <3>2, <4>4 DEF PauseInv, PausesRight, InTurn
          <5>2. CASE a \in status[r].quiesced
            <6>1. ~m.rollout /\ ~m.retained
              BY <5>1, <5>2 DEF Stages
            <6> QED
              BY <3>5, <4>3, <5>1, <6>1
                 DEF OverApp, Notes, TakesSecrets, Waits, IsBack, LoadsRetained,
                     Pauses, ComesUp, Rolls
          <5>3. CASE a \notin status[r].quiesced
            BY <3>0, <3>5, <4>3, <5>3 DEF OverApp, Notes, Pauses
          <5> QED
            BY <5>2, <5>3
        <4>6. \A b \in s.plan : s.entry[b].phase # "Ready" =>
                                    status[r].entry[b].phase # "Ready"
          BY <3>0, <4>1, <4>3, <4>4 DEF InTurn, Statuses, Slots
        <4> QED
          BY <4>1, <4>4, <4>5, <4>6 DEF InTurn
      <3>6. TenantWide \in Slots /\ \A b \in Apps : b \in Slots /\ b # TenantWide
        BY RestoreConfig DEF Slots
      <3> QED
        BY <2>1, <2>2, <3>1, <3>3, <3>4, <3>5, <3>6 DEF Passed
    <2> QED
      BY <1>2, <1>3, <2>1, <2>2, HolderPass
  <1>4. CASE ~\E r \in Restores : PassOver(r)
    BY <1>1, <1>2, <1>4, HolderStays DEF HoldInv
  <1> QED
    BY <1>3, <1>4

LEMMA PauseStep ==
    ASSUME Undisturbed, TypeOK, HoldInv, SecretsInv, PauseInv, [Next]_vars
    PROVE  PauseInv'
BY KeyStep, PauserStep, RightStep, TurnStep DEF PauseInv

LEMMA PauseFirst == Init => PauseInv
  <1>1. ~NewStatus.started /\ NewStatus.quiesced = {}
    BY DEF NewStatus
  <1>2. Init => \A r \in Restores : /\ status[r] = NewStatus /\ key[r] = "none"
                                    /\ obj[r] = "absent"
    BY DEF Init
  <1> QED
    BY <1>1, <1>2 DEF PauseInv, KeyKept, PauserHolds, PausesRight, PausesInTurn,
                      Holds

\* Over any sequence of restores no unit loads an app that can write, as long
\* as the status a pass writes is stored and no restore is ended from outside
\* with another waiting behind it: what is loaded is the app whose turn it is,
\* that app is on record as paused until it is resumed, and nobody else
\* resumes it, the handing of secrets included.
THEOREM LoadsUnderPause ==
    ASSUME DistinctStamps, Undisturbed
    PROVE  Spec => []LoadUnderPause
  <1>1. TypeOK /\ HoldInv /\ [Next]_vars => HoldInv'
    BY HoldStep
  <1>2. TypeOK /\ HoldInv /\ SecretsInv /\ [Next]_vars => SecretsInv'
    BY SecretsStep
  <1>3. TypeOK /\ HoldInv /\ SecretsInv /\ PauseInv /\ [Next]_vars => PauseInv'
    BY PauseStep
  <1>4. TypeOK /\ HoldInv /\ PauseInv => LoadUnderPause
    <2> SUFFICES ASSUME TypeOK, HoldInv, PauseInv, NEW r \in Restores,
                        NEW a \in installed, NEW u \in Units,
                        job[r][a][u] = "running", Running(r),
                        ~Entry(r, a).retained, QuiesceMode[a] # "none"
                 PROVE  Frozen(work[a])
      BY DEF LoadUnderPause
    <2>1. a \in Apps /\ a \in Slots
      BY DEF TypeOK, Slots
    <2>2. Holds(r)
      BY <2>1 DEF HoldInv, Untouched, Holds, Running, Exists
    <2>3. /\ Stages(a, status[r].entry[a], status[r].quiesced)
          /\ Pausing(a, status[r].entry[a], status[r].quiesced,
                     obj[r], work[a], job[r][a], installed)
      BY <2>1, <2>2 DEF PauseInv, PausesRight
    <2>4. a \in status[r].quiesced
      BY <2>3 DEF Pausing, Entry
    <2>5. ModeOf(a, status[r].entry[a].mode) /\ PausedAs(work[a], status[r].entry[a].mode)
      BY <2>3, <2>4 DEF Stages, Pausing
    <2> QED
      BY <2>5 DEF ModeOf, PausedAs, Frozen
  <1> QED
    BY <1>1, <1>2, <1>3, <1>4, HoldFirst, SecretsBegin, PauseFirst,
       RestoreTypeCorrect, PTL DEF Spec

----------------------------------------------------------------------------
(* Ready means served by what was put back. *)

\* Calm: no command that resumes an app fails, either.
Calm == Undisturbed /\ Undivided /\ "resumeHook" \notin Faults

\* A pod outlives its Job only once the restore is over.
OrphansAreOver ==
    \A t \in orphan :
        IsTerminal(status[t[1]]) \/ obj[t[1]] \in {"deleting", "gone"}
\* From its roll until the restore ends, an app is up, on pods that were
\* started after the data was loaded.
RolledServes ==
    \A r \in Restores, a \in installed :
        Running(r) /\ status[r].entry[a].rollout => Up(a) /\ pods[a] # "stale"
ServeInv == OrphansAreOver /\ RolledServes

LEMMA OverStep ==
    ASSUME Undisturbed, TypeOK, OrphansAreOver, [Next]_vars
    PROVE  OrphansAreOver'
  <1> SUFFICES ASSUME NEW t \in orphan'
               PROVE  IsTerminal(status'[t[1]]) \/ obj'[t[1]] \in {"deleting", "gone"}
    BY DEF OrphansAreOver, IsTerminal
  <1>1. Stepped
    BY StepIs
  <1>2. orphan \subseteq Restores \X Slots \X Units
    BY DEF TypeOK
  <1>3. CASE t \in orphan
    <2>1. t[1] \in Restores
      BY <1>2, <1>3
    <2>2. PhaseStep(t[1]) /\ ObjectStep(t[1])
      BY <2>1, StatusNext, ObjectNext
    <2> QED
      BY <1>3, <2>2 DEF OrphansAreOver, PhaseStep, ObjectStep, Running,
                        IsTerminal, Exists
  <1>4. CASE t \notin orphan
    <2>1. ASSUME NEW r \in Restores, PassOver(r)
          PROVE  IsTerminal(status'[t[1]]) \/ obj'[t[1]] = "deleting"
      <3>1. PICK s \in Statuses : Wrote(r, s) /\ Passed(r, s)
        BY <2>1 DEF PassOver
      <3>2. status'[r] = s /\ UNCHANGED obj
        BY <2>1, <3>1 DEF Wrote, Undisturbed, PassOver
      <3>3. t[1] = r /\ (IsTerminal(s) \/ obj[r] = "deleting")
        BY <1>4, <3>1 DEF Passed, Fails, GoesOn, Plans, Ends, StandsBack,
                          Resumes, IsTerminal
      <3> QED
        BY <3>2, <3>3
    <2>2. ASSUME NEW r \in Restores, QuietPass(r)
          PROVE  IsTerminal(status'[t[1]]) \/ obj'[t[1]] = "gone"
      BY <1>4, <2>2 DEF QuietPass
    <2> QED
      BY <1>1, <1>4, <2>1, <2>2
         DEF Stepped, UnitEnds, Intrudes, ObjectOnly, AppOnlyStep, Unmoved
  <1> QED
    BY <1>3, <1>4

\* The roll itself.
LEMMA RollServes ==
    ASSUME Calm, TypeOK, MemoInv, NEW r \in Restores, NEW a \in Apps, NEW n,
           Stages(a, status[r].entry[a], status[r].quiesced),
           Pausing(a, status[r].entry[a], status[r].quiesced,
                   obj[r], work[a], job[r][a], installed),
           Rolls(r, a, status[r].entry[a], n)
    PROVE  work'[a].replicas > 0 /\ ~work'[a].maint /\ pods'[a] # "stale"
  <1> DEFINE m == status[r].entry[a]
  <1>0. /\ Replicas[a] \in Nat \ {0} /\ work[a] \in WorkTypes
        /\ QuiesceMode[a] \in Modes
    BY RestoreConfig DEF TypeOK
  <1>1. /\ m.started /\ ~m.rollout /\ obj[r] = "live" /\ a \in installed
        /\ needsPod(a, m.mode) => m.ended /\ runningPodForApp(a)
    BY AtHolds DEF Rolls, Loaded, AtInstalled, Entry
  <1>2. PICK hook \in {"ok", "error"} :
           /\ hook = "error" => work[a].replicas = 0
           /\ work'[a] = Resumed(a, m, hook)
           /\ pods'[a] =
                  IF mustRoll(a, m) /\ work'[a].replicas > 0 THEN "rolling"
                  ELSE podsOf(work'[a], pods[a])
    BY DEF Rolls, Calm
  <1>3. ModeOf(a, m.mode)
    BY <1>1 DEF Stages
  <1>4. /\ Accounted(a, work[a])
        /\ work[a].replicas = 0 => pods[a] = "none"
    BY DEF MemoInv
  <1>5. CASE m.ended
    <2>1. needsPod(a, m.mode)
      BY <1>1, <1>5 DEF Stages
    <2>2. work[a].replicas > 0 /\ mustRoll(a, m)
      BY <1>1, <2>1 DEF runningPodForApp, needsPod, mustRoll
    <2>3. work'[a] = IF resumeCommandOwed(a, m.mode)
                     THEN [work[a] EXCEPT !.maint = FALSE] ELSE work[a]
      BY <1>2, <1>5 DEF Resumed
    <2>4. work'[a].replicas = work[a].replicas /\ ~work'[a].maint
      <3>1. CASE resumeCommandOwed(a, m.mode)
        BY <1>0, <2>3, <3>1 DEF WorkTypes
      <3>2. CASE ~resumeCommandOwed(a, m.mode)
        BY <1>4, <2>1, <2>3, <3>2 DEF Accounted, resumeCommandOwed, needsPod
      <3> QED
        BY <3>1, <3>2
    <2> QED
      BY <1>2, <2>2, <2>4
  <1>6. CASE ~m.ended
    <2>1. ~needsPod(a, m.mode) /\ PausedAs(work[a], m.mode)
      BY <1>1, <1>6 DEF Pausing
    <2>2. ~resumeCommandOwed(a, m.mode)
      BY <2>1 DEF needsPod, resumeCommandOwed
    <2>3. work'[a] = unquiesceApp(work[a], m.mode, hook)
      BY <1>2, <1>6, <2>2 DEF Resumed
    <2>4. CASE m.mode = "command"
      <3>1. hook = "ok" /\ work[a].replicas > 0
        BY <1>2, <2>1, <2>4 DEF PausedAs
      <3>2. work'[a].replicas = work[a].replicas /\ ~work'[a].maint
        BY <1>0, <2>3, <2>4, <3>1 DEF unquiesceApp, WorkTypes
      <3>3. mustRoll(a, m)
        BY <2>4 DEF mustRoll
      <3> QED
        BY <1>2, <3>1, <3>2, <3>3
    <2>5. CASE m.mode # "command"
      <3>1. work'[a] = ScaleBack(work[a]) /\ QuiesceMode[a] # "command"
        BY <1>3, <2>2, <2>3, <2>5 DEF unquiesceApp, ModeOf, resumeCommandOwed
      <3>2. work'[a].replicas > 0 /\ ~work'[a].maint
        <4>1. CASE work[a].memo = NoMemo
          <5>1. work'[a] = work[a] /\ work[a].replicas # 0
            BY <1>0, <1>4, <3>1, <4>1 DEF ScaleBack, Accounted, NoMemo
          <5> QED
            BY <1>0, <1>4, <3>1, <5>1 DEF Accounted
        <4>2. CASE work[a].memo # NoMemo
          <5>1. work[a].memo = Replicas[a] /\ ~work[a].maint
            BY <1>4, <3>1, <4>2 DEF Accounted
          <5>2. work'[a].replicas = Replicas[a] /\ work'[a].maint = work[a].maint
            BY <1>0, <3>1, <4>2, <5>1 DEF ScaleBack, WorkTypes
          <5> QED
            BY <1>0, <5>1, <5>2
        <4> QED
          BY <4>1, <4>2
      <3>3. mustRoll(a, m) \/ pods[a] = "none"
        BY <1>4, <2>1 DEF mustRoll, PausedAs
      <3>4. pods'[a] # "stale"
        BY <1>2, <3>2, <3>3 DEF podsOf
      <3> QED
        BY <3>2, <3>4
    <2> QED
      BY <2>4, <2>5
  <1> QED
    BY <1>5, <1>6

LEMMA ServePass ==
    ASSUME Calm, TypeOK, HoldInv, MemoInv, PauseInv, ServeInv,
           NEW q \in Restores, PassOver(q),
           NEW r \in Restores, NEW a \in installed, Running(r)',
           status'[r].entry[a].rollout
    PROVE  Up(a)' /\ pods'[a] # "stale"
  <1>0. a \in Apps /\ a \in Slots
    BY DEF TypeOK, Slots
  <1>1. PICK s \in Statuses : Wrote(q, s) /\ Passed(q, s)
    BY DEF PassOver
  <1>2. UNCHANGED <<obj, finalizer>>
    BY DEF PassOver
  <1>3. ASSUME Running(r), status[r].entry[a].rollout
        PROVE  Holds(r) /\ Up(a) /\ pods[a] # "stale"
    BY <1>0, <1>3 DEF ServeInv, RolledServes, HoldInv, Untouched, Fresher,
                      Holds, Running, Exists
  <1>4. ASSUME work'[a] = work[a],
               pods'[a] \in {pods[a], podsOf(work[a], pods[a])},
               Up(a), pods[a] # "stale"
        PROVE  Up(a)' /\ pods'[a] # "stale"
    BY <1>4 DEF Up, podsOf
  <1>5. CASE r # q
    <2>1. Running(r) /\ status[r].entry[a].rollout
      BY <1>1, <1>2, <1>5 DEF Wrote, Running
    <2>2. UNCHANGED <<work, pods>>
      BY <1>3, <1>5, <2>1, OtherPass
    <2> QED
      BY <1>3, <1>4, <2>1, <2>2
  <1>6. CASE r = q
    <2>1. status'[r] = s /\ ~IsTerminal(s) /\ obj[r] = "live" /\ Running(r)
      <3>1. status'[r] = s
        BY <1>1, <1>6 DEF Wrote, Calm, Undisturbed
      <3>2. ~IsTerminal(s) /\ obj[r] = "live" /\ r \in finalizer
        BY <1>2, <3>1 DEF Running
      <3>3. ~IsTerminal(status[r])
        <4>1. CASE Resumes(r, s)
          BY <3>2, <4>1 DEF Resumes, IsTerminal
        <4>2. CASE ~Resumes(r, s)
          <5>1. ASSUME NEW x, At(r, x) PROVE Running(r)
            BY <5>1, AtHolds
          <5>2. Running(r)
            BY <1>1, <1>6, <4>2, <5>1 DEF Passed, Fails, GoesOn, Plans, Works,
                                          Ends, StandsBack
          <5> QED
            BY <5>2 DEF Running
        <4> QED
          BY <4>1, <4>2
      <3> QED
        BY <3>1, <3>2, <3>3 DEF Running
    <2>2. s.entry[a].rollout
      BY <2>1
    <2>3. ~Plans(r, s)
      BY <1>0, <2>2 DEF Plans, IsNew
    <2>4. Holds(r)
      <3>1. CASE Resumes(r, s)
        <4>1. status[r].quiesced # {}
          BY <3>1 DEF Resumes
        <4> QED
          BY <2>1, <4>1 DEF HoldInv, Untouched, Holds, Exists, Running
      <3>2. CASE ~Resumes(r, s)
        <4>1. status[r].started \/ ~status[r].entry[a].rollout
          BY <1>0 DEF HoldInv, Untouched, Fresher
        <4>2. ASSUME NEW x, At(r, x) PROVE Holds(r)
          BY <4>2, AtHolds
        <4>3. status[r].started
          BY <1>1, <1>6, <2>1, <2>2, <2>3, <3>2, <4>1, <4>2
             DEF Passed, Fails, GoesOn, Ends, StandsBack, Holds, IsTerminal
        <4> QED
          BY <2>1, <4>3 DEF Holds, Exists, Running
      <3> QED
        BY <3>1, <3>2
    <2>5. /\ Stages(a, status[r].entry[a], status[r].quiesced)
          /\ Pausing(a, status[r].entry[a], status[r].quiesced,
                     obj[r], work[a], job[r][a], installed)
      BY <1>0, <2>4 DEF PauseInv, PausesRight
    <2>6. CASE Aside(r, a, s)
      BY <1>3, <1>4, <2>1, <2>2, <2>6 DEF Aside
    <2>7. CASE OverApp(r, a, s)
      <3> DEFINE m == status[r].entry[a]
                 n == s.entry[a]
      <3>1. CASE Rolls(r, a, m, n)
        BY <1>0, <2>5, <3>1, RollServes DEF Up
      <3>2. CASE ~Rolls(r, a, m, n)
        <4>1. m.rollout /\ SameApp(a)
          BY <2>2, <2>5, <2>7, <3>2
             DEF OverApp, Notes, TakesSecrets, Waits, IsBack, LoadsRetained,
                 Pauses, ComesUp, Course, Loaded, Entry, Stages
        <4> QED
          BY <1>3, <1>4, <2>1, <4>1 DEF SameApp
      <3> QED
        BY <3>1, <3>2
    <2> QED
      BY <1>0, <1>1, <1>6, <2>1, <2>4, <2>6, <2>7, OwnPass DEF Struck
  <1> QED
    BY <1>5, <1>6

\* Nothing loads an app that was rolled.
LEMMA RolledIsLeft ==
    ASSUME TypeOK, HoldInv, DataInv, PauseInv, ServeInv, NEW r \in Restores,
           NEW a \in installed, Running(r), status[r].entry[a].rollout,
           NEW q \in Restores, NEW u \in Units
    PROVE  job[q][a][u] # "running" /\ <<q, a, u>> \notin orphan
  <1>0. a \in Apps /\ a \in Slots
    BY DEF TypeOK, Slots
  <1>1. Holds(r)
    BY <1>0 DEF HoldInv, Untouched, Fresher, Holds, Running, Exists
  <1>2. ASSUME job[q][a][u] = "running" PROVE FALSE
    <2>1. q = r
      BY <1>0, <1>1, <1>2, OneHolds DEF DataInv, LoaderHolds, HoldInv, Sole
    <2>2. /\ Stages(a, status[r].entry[a], status[r].quiesced)
          /\ Pausing(a, status[r].entry[a], status[r].quiesced,
                     obj[r], work[a], job[r][a], installed)
      BY <1>0, <1>1 DEF PauseInv, PausesRight
    <2> QED
      BY <1>2, <2>1, <2>2 DEF Stages, Pausing
  <1>3. ASSUME <<q, a, u>> \in orphan PROVE FALSE
    <2>1. q = r
      BY <1>3 DEF DataInv, OrphansOfOne, Sole
    <2>2. IsTerminal(status[q]) \/ obj[q] \in {"deleting", "gone"}
      BY <1>3 DEF ServeInv, OrphansAreOver
    <2> QED
      BY <2>1, <2>2 DEF Running
  <1> QED
    BY <1>2, <1>3

LEMMA RolledStep ==
    ASSUME Calm, TypeOK, HoldInv, MemoInv, DataInv, PauseInv, ServeInv, [Next]_vars
    PROVE  RolledServes'
  <1>1. Stepped
    BY StepIs
  <1>2. installed' \subseteq installed /\ installed \subseteq Apps
    BY <1>1 DEF Stepped, PassOver, QuietPass, UnitEnds, Intrudes, ObjectOnly,
                AppOnlyStep, Unmoved, TypeOK
  <1> SUFFICES ASSUME NEW r \in Restores, NEW a \in installed', Running(r)',
                      status'[r].entry[a].rollout
               PROVE  Up(a)' /\ pods'[a] # "stale"
    BY DEF RolledServes
  <1>3. a \in installed /\ a \in Apps /\ a \in Slots
    BY <1>2 DEF Slots
  <1>4. CASE \E q \in Restores : PassOver(q)
    BY <1>3, <1>4, ServePass
  <1>5. CASE ~\E q \in Restores : PassOver(q)
    <2>1. UNCHANGED status
      BY <1>1, <1>5 DEF Stepped, QuietPass, UnitEnds, Intrudes, ObjectOnly,
                        AppOnlyStep, Unmoved
    <2>2. status[r].started /\ status[r].entry[a].rollout
      BY <1>3, <2>1 DEF HoldInv, Untouched, Fresher
    <2>3. Holds(r)'
      BY <2>1, <2>2 DEF Holds, Running, Exists
    <2>4. Holds(r) /\ r \in finalizer
      BY <1>1, <1>5, <2>3, HolderStays DEF HoldInv, HolderIsKept
    <2>5. obj[r] = "live"
      BY <2>4, ObjectNext DEF ObjectStep, Holds, Exists, Running
    <2>6. Running(r)
      BY <2>4, <2>5 DEF Running, Holds
    <2>7. Up(a) /\ pods[a] # "stale"
      BY <1>3, <2>2, <2>6 DEF ServeInv, RolledServes
    <2>8. ASSUME UNCHANGED <<work, pods>> PROVE Up(a)' /\ pods'[a] # "stale"
      BY <2>7, <2>8 DEF Up
    <2>9. ASSUME NEW q \in Restores, NEW x \in Slots, NEW u \in Units,
                 UnitEnds(q, x, u)
          PROVE  Up(a)' /\ pods'[a] # "stale"
      <3>1. a # x
        BY <1>3, <2>2, <2>6, <2>9, RolledIsLeft DEF UnitEnds
      <3>2. SameApp(a)
        BY <1>3, <2>9, <3>1 DEF UnitEnds
      <3> QED
        BY <2>7, <3>2 DEF SameApp, Up
    <2>10. ASSUME NEW b \in Apps, AppOnlyStep(b)
           PROVE  Up(a)' /\ pods'[a] # "stale"
      <3>1. CASE b # a
        BY <1>3, <2>7, <2>10, <3>1 DEF AppOnlyStep, SameApp, Up
      <3>2. CASE b = a
        <4>0. work[a] \in WorkTypes /\ Replicas[a] \in Nat \ {0}
          BY <1>3, RestoreConfig DEF TypeOK
        <4>1. CASE pods'[a] = "fresh" /\ UNCHANGED work
          BY <2>7, <4>1 DEF Up
        <4>2. CASE /\ work'[a] = [work[a] EXCEPT !.replicas = Replicas[a]]
                   /\ pods'[a] = "starting"
          BY <2>7, <4>0, <4>2 DEF Up, WorkTypes
        <4>3. CASE installed' = installed \ {a}
          BY <4>3
        <4> QED
          BY <2>10, <3>2, <4>1, <4>2, <4>3 DEF AppOnlyStep
      <3> QED
        BY <3>1, <3>2
    <2> QED
      BY <1>1, <1>5, <2>8, <2>9, <2>10
         DEF Stepped, QuietPass, Intrudes, ObjectOnly, Unmoved
  <1> QED
    BY <1>4, <1>5

LEMMA ServeStep ==
    ASSUME Calm, TypeOK, HoldInv, MemoInv, DataInv, PauseInv, ServeInv, [Next]_vars
    PROVE  ServeInv'
BY OverStep, RolledStep DEF ServeInv, Calm

\* Over any sequence of calm restores, an app whose entry says Ready is up,
\* out of maintenance and served by pods started on what was put back: it was
\* rolled after its last unit was loaded, and neither a Job, nor a pod left of
\* one, nor another restore has loaded it since.
THEOREM ReadyIsServed ==
    ASSUME DistinctStamps, Calm
    PROVE  Spec => []ReadyServesRestored
  <1>0. Undisturbed /\ Undivided
    BY DEF Calm
  <1>1. TypeOK /\ HoldInv /\ [Next]_vars => HoldInv'
    BY HoldStep
  <1>2. TypeOK /\ HoldInv /\ SecretsInv /\ [Next]_vars => SecretsInv'
    BY SecretsStep
  <1>3. TypeOK /\ HoldInv /\ DataInv /\ [Next]_vars => DataInv'
    BY <1>0, DataStep
  <1>4. TypeOK /\ MemoInv /\ [Next]_vars => MemoInv'
    BY MemoStep
  <1>5. TypeOK /\ HoldInv /\ SecretsInv /\ PauseInv /\ [Next]_vars => PauseInv'
    BY <1>0, PauseStep
  <1>6. TypeOK /\ HoldInv /\ MemoInv /\ DataInv /\ PauseInv /\ ServeInv
            /\ [Next]_vars => ServeInv'
    BY ServeStep
  <1>7. Init => ServeInv
    <2>1. Init => orphan = {} /\ \A r \in Restores : obj[r] = "absent"
      BY DEF Init
    <2> QED
      BY <2>1 DEF ServeInv, OrphansAreOver, RolledServes, Running
  <1>8. TypeOK /\ HoldInv /\ PauseInv /\ ServeInv => ReadyServesRestored
    <2> SUFFICES ASSUME TypeOK, HoldInv, PauseInv, ServeInv, NEW r \in Restores,
                        NEW a \in installed, Running(r),
                        Entry(r, a).phase = "Ready"
                 PROVE  Up(a) /\ pods[a] # "stale"
      BY DEF ReadyServesRestored
    <2>1. a \in Apps /\ a \in Slots
      BY DEF TypeOK, Slots
    <2>2. Holds(r)
      BY <2>1 DEF HoldInv, Untouched, Fresher, Holds, Running, Exists, Entry
    <2>3. /\ Stages(a, status[r].entry[a], status[r].quiesced)
          /\ Pausing(a, status[r].entry[a], status[r].quiesced,
                     obj[r], work[a], job[r][a], installed)
      BY <2>1, <2>2 DEF PauseInv, PausesRight
    <2>4. status[r].entry[a].rollout
      BY <2>3 DEF Stages, Pausing, Entry
    <2> QED
      BY <2>4 DEF ServeInv, RolledServes
  <1> QED
    BY <1>1, <1>2, <1>3, <1>4, <1>5, <1>6, <1>7, <1>8, HoldFirst, SecretsBegin,
       DataFirst, MemoFirst, PauseFirst, RestoreTypeCorrect, PTL DEF Spec

=============================================================================
