------------------------- MODULE ExportCaptureProofs ------------------------
(***************************************************************************)
(* Theorems about what an export captures: the bundle it leaves in the     *)
(* object store (what it holds when the status claims it, when the         *)
(* manifest is there, when the export is Ready, when it has been deleted,  *)
(* and when its tenant goes), and the pause of the apps it is taken under. *)
(***************************************************************************)
EXTENDS TenantExportProofs, WellFoundedInduction

----------------------------------------------------------------------------
(* What one pass may do to the entries, the Jobs and the manifest. *)

\* The units of a slot that are recorded, or whose Job is complete.
Have(e, x) ==
    status[e].entry[x].done \cup {u \in AllUnits : job[e][x][u] = "complete"}

\* It is slot x's turn in this pass.
Turn(e, x) == Captures(e) /\ nextPendingApp(e) = x

\* The manifest's Job is made: everything is there, and what it lists fixed.
Begins(e) ==
    /\ Turn(e, NoApp)
    /\ Units \subseteq Have(e, TenantWide)
    /\ listed'[e] = buildManifest(e)

\* n is an entry that a pass may leave in slot x.
Grown(e, x, n) ==
    /\ status[e].entry[x].done \subseteq n.done
    /\ n.done \subseteq Have(e, x)
    /\ n.phase = "Ready" /\ x \in Apps =>
           status[e].entry[x].phase = "Ready" \/ Units \subseteq n.done

\* js are Jobs that a pass may leave.
JobsFrom(e, js) ==
    /\ \A x \in Slots, u \in AllUnits :
           /\ js[x][u] = "complete" => job[e][x][u] = "complete"
           /\ js[x][u] = "running" => job[e][x][u] = "running" \/ Turn(e, x)
    /\ js[TenantWide][Manifest] = "running" =>
           job[e][TenantWide][Manifest] = "running" \/ Begins(e)

\* t is a status that a pass may leave.
StatusFrom(e, t) ==
    /\ \A x \in Slots :
           /\ Grown(e, x, t.entry[x])
           /\ t.entry[x] # status[e].entry[x] => Turn(e, x)
    /\ t.phase = "Ready" =>
           \/ status[e].phase = "Ready"
           \/ Manifest \in t.entry[TenantWide].done
    /\ t.bundle => status[e].bundle \/ Running(e)

\* How the uploads on their way out may change.
OrphansFrom(e) ==
    /\ "orphan" \notin Faults => orphan'[e] = orphan[e]
    /\ <<TenantWide, Manifest>> \in orphan'[e] =>
           \/ <<TenantWide, Manifest>> \in orphan[e]
           \/ job[e][TenantWide][Manifest] = "running"
           \/ Begins(e)

\* A whole pass, and what it leaves alone: the other exports.
PassOver(e) ==
    /\ StatusFrom(e, status'[e])
    /\ JobsFrom(e, job'[e])
    /\ OrphansFrom(e)
    /\ \/ listed'[e] = listed[e]
       \/ Turn(e, NoApp) /\ listed'[e] = buildManifest(e)
Same(f) ==
    /\ status'[f] = status[f] /\ job'[f] = job[f]
    /\ orphan'[f] = orphan[f] /\ listed'[f] = listed[f]

----------------------------------------------------------------------------
(* Lemmas about the operators a pass is built from. *)

\* A pass over units records those whose Jobs are complete, and no others.
LEMMA EnsureFields ==
    ASSUME NEW en \in Entries, NEW j, NEW U \in SUBSET AllUnits
    PROVE  /\ ensureEntry(en, j, U).done = en.done \cup {u \in U : j[u] = "complete"}
           /\ ensureEntry(en, j, U).phase = en.phase
           /\ ensureEntry(en, j, U).retained = en.retained
           /\ ensureEntry(en, j, U).started = en.started
           /\ ensureEntry(en, j, U).mode = en.mode
BY DEF ensureEntry, Entries

\* The fields of a status with an entry replaced.
LEMMA SetEntryFields ==
    ASSUME NEW s \in Statuses, NEW x \in Slots, NEW n
    PROVE  /\ setEntry(s, x, n).entry[x] = n
           /\ \A y \in Slots \ {x} : setEntry(s, x, n).entry[y] = s.entry[y]
           /\ setEntry(s, x, n).phase = s.phase
           /\ setEntry(s, x, n).bundle = s.bundle
           /\ setEntry(s, x, n).quiesced = s.quiesced
BY DEF setEntry, Statuses

\* Marks of what is paused touch nothing else.
LEMMA MarkFields ==
    ASSUME NEW s \in Statuses
    PROVE  /\ \A a : /\ markQuiesced(s, a).entry = s.entry
                     /\ markQuiesced(s, a).phase = s.phase
                     /\ markQuiesced(s, a).bundle = s.bundle
                     /\ markQuiesced(s, a).quiesced = s.quiesced \cup {a}
           /\ \A Q : /\ unmarkQuiesced(s, Q).entry = s.entry
                     /\ unmarkQuiesced(s, Q).phase = s.phase
                     /\ unmarkQuiesced(s, Q).bundle = s.bundle
                     /\ unmarkQuiesced(s, Q).quiesced = s.quiesced \ Q
           /\ \A ph : /\ setPhase(s, ph).entry = s.entry
                      /\ setPhase(s, ph).phase = ph
                      /\ setPhase(s, ph).bundle = s.bundle
                      /\ setPhase(s, ph).quiesced = s.quiesced
BY DEF markQuiesced, unmarkQuiesced, setPhase, Statuses

\* The status as it is, with another entry in the slot whose turn it is.
LEMMA EntryFrom ==
    ASSUME TypeOK, NEW e \in Exports, NEW x \in Slots, Turn(e, x),
           NEW t \in Statuses,
           Grown(e, x, t.entry[x]),
           \A y \in Slots \ {x} : t.entry[y] = status[e].entry[y],
           t.bundle = status[e].bundle,
           \/ t.phase \in {status[e].phase, "Failed"}
           \/ Manifest \in t.entry[TenantWide].done
    PROVE  StatusFrom(e, t)
<1>1. \A y \in Slots : Grown(e, y, status[e].entry[y])
  BY DEF Grown, Have
<1> QED
  BY <1>1 DEF StatusFrom

\* The status as it is, with other marks and perhaps a phase that is not
\* Ready.
LEMMA SameEntriesFrom ==
    ASSUME TypeOK, NEW e \in Exports, NEW t, t.entry = status[e].entry,
           t.bundle => status[e].bundle \/ Running(e),
           t.phase = "Ready" => status[e].phase = "Ready"
    PROVE  StatusFrom(e, t)
BY DEF StatusFrom, Grown, Have

\* A write of such a status, landed or lost.
LEMMA PersistFrom ==
    ASSUME TypeOK, NEW e \in Exports, NEW t, NEW ok, StatusFrom(e, t),
           persist(e, t, ok)
    PROVE  /\ StatusFrom(e, status'[e])
           /\ \A f \in Exports \ {e} : status'[f] = status[f]
<1>1. StatusFrom(e, status[e])
  BY SameEntriesFrom
<1>2. CASE UNCHANGED status
  BY <1>1, <1>2
<1>3. CASE status' = [status EXCEPT ![e] = t]
  <2>1. status'[e] = t /\ \A f \in Exports \ {e} : status'[f] = status[f]
    BY <1>3 DEF TypeOK
  <2> QED
    BY <2>1
<1> QED
  BY <1>2, <1>3 DEF persist
\* The Jobs a pass makes, those of the tenant's own units included, are not
\* the manifest's.
LEMMA EnsureJobsFrom ==
    ASSUME TypeOK, NEW e \in Exports, NEW x \in Slots, NEW en, Turn(e, x)
    PROVE  JobsFrom(e, [job[e] EXCEPT ![x] = ensureJobs(en, job[e][x], Units)])
<1> DEFINE j == ensureJobs(en, job[e][x], Units)
           js == [job[e] EXCEPT ![x] = j]
<1>1. job[e] \in JobsOfRun /\ job[e][x] \in [AllUnits -> JobStates]
  BY PartTypes
<1>2. \A u \in AllUnits : /\ j[u] = "complete" => job[e][x][u] = "complete"
                          /\ u \notin Units => j[u] = job[e][x][u]
  BY DEF ensureJobs
<1>3. Manifest \in AllUnits /\ Manifest \notin Units /\ TenantWide \in Slots
  BY ConfigAssumption DEF AllUnits, Slots
<1> HIDE DEF j
<1>4. js[x] = j /\ \A y \in Slots \ {x} : js[y] = job[e][y]
  BY <1>1 DEF JobsOfRun
<1> HIDE DEF js
<1>5. JobsFrom(e, js)
  BY <1>2, <1>3, <1>4 DEF JobsFrom
<1> QED
  BY <1>5 DEF js, j

\* The manifest's Job is made when it is its turn.
LEMMA ManifestJobsFrom ==
    ASSUME TypeOK, NEW e \in Exports, NEW en, Turn(e, TenantWide),
           job[e][TenantWide][Manifest] = "none" => Begins(e)
    PROVE  JobsFrom(e, [job[e] EXCEPT ![TenantWide] =
                           ensureJobs(en, job[e][TenantWide], {Manifest})])
<1> DEFINE j == ensureJobs(en, job[e][TenantWide], {Manifest})
           js == [job[e] EXCEPT ![TenantWide] = j]
<1>1. job[e] \in JobsOfRun /\ TenantWide \in Slots /\ Manifest \in AllUnits
  BY PartTypes
<1>2. \A u \in AllUnits :
          /\ j[u] = "complete" => job[e][TenantWide][u] = "complete"
          /\ j[u] = "running" => job[e][TenantWide][u] \in {"running", "none"}
  BY DEF ensureJobs
<1> HIDE DEF j
<1>3. js[TenantWide] = j /\ \A y \in Slots \ {TenantWide} : js[y] = job[e][y]
  BY <1>1 DEF JobsOfRun
<1> HIDE DEF js
<1>4. JobsFrom(e, js)
  BY <1>1, <1>2, <1>3 DEF JobsFrom
<1> QED
  BY <1>4 DEF js, j

\* Jobs left alone, and Jobs stopped.
LEMMA StopFrom ==
    ASSUME TypeOK, NEW e \in Exports
    PROVE  /\ JobsFrom(e, job[e])
           /\ \A js \in JobsOfRun :
                  JobsFrom(e, js) => JobsFrom(e, stopRunningExportJobs(js))
<1>1. TenantWide \in Slots /\ Manifest \in AllUnits
  BY PartTypes
<1>2. ASSUME NEW js \in JobsOfRun, JobsFrom(e, js)
      PROVE  JobsFrom(e, stopRunningExportJobs(js))
  <2>1. \A x \in Slots, u \in AllUnits :
            stopRunningExportJobs(js)[x][u] \in {js[x][u], "none"}
    BY DEF stopRunningExportJobs
  <2> QED
    BY <1>1, <1>2, <2>1 DEF JobsFrom
<1> QED
  BY <1>2 DEF JobsFrom

\* What a pass does to the status, the Jobs and the uploads on their way out.
Changes(e) ==
    /\ StatusFrom(e, status'[e]) /\ JobsFrom(e, job'[e]) /\ OrphansFrom(e)
    /\ \A f \in Exports \ {e} :
           status'[f] = status[f] /\ job'[f] = job[f] /\ orphan'[f] = orphan[f]

\* The uploads that deleting the running ones among the Jobs js leaves.
LEMMA OrphanedFrom ==
    ASSUME TypeOK, NEW e \in Exports, NEW js, JobsFrom(e, js),
           orphan' = [orphan EXCEPT ![e] = Orphaned(e, js)]
    PROVE  OrphansFrom(e) /\ \A f \in Exports \ {e} : orphan'[f] = orphan[f]
<1>1. orphan'[e] = Orphaned(e, js)
      /\ \A f \in Exports \ {e} : orphan'[f] = orphan[f]
  BY DEF TypeOK
<1>2. <<TenantWide, Manifest>> \in RunningOf(js) =>
          js[TenantWide][Manifest] = "running"
  BY DEF RunningOf
<1> QED
  BY <1>1, <1>2 DEF OrphansFrom, Orphaned, JobsFrom

\* A pass that gives up.
LEMMA FailFrom ==
    ASSUME TypeOK, NEW e \in Exports, NEW s \in Statuses,
           NEW js \in JobsOfRun, NEW ok, JobsFrom(e, js),
           StatusFrom(e, setPhase(s, "Failed")), fail(e, s, js, ok)
    PROVE  Changes(e)
<1>1. /\ StatusFrom(e, status'[e])
      /\ \A f \in Exports \ {e} : status'[f] = status[f]
  BY PersistFrom DEF fail
<1>2. CASE /\ job' = [job EXCEPT ![e] = stopRunningExportJobs(js)]
           /\ orphan' = [orphan EXCEPT ![e] = Orphaned(e, js)]
  <2>1. job'[e] = stopRunningExportJobs(js)
        /\ \A f \in Exports \ {e} : job'[f] = job[f]
    BY <1>2 DEF TypeOK
  <2> QED
    BY <1>1, <1>2, <2>1, StopFrom, OrphanedFrom DEF Changes
<1>3. CASE job' = [job EXCEPT ![e] = js] /\ UNCHANGED orphan
  <2>1. job'[e] = js /\ \A f \in Exports \ {e} : job'[f] = job[f]
    BY <1>3 DEF TypeOK
  <2> QED
    BY <1>1, <1>3, <2>1 DEF Changes, OrphansFrom
<1> QED
  BY <1>2, <1>3 DEF fail

\* A pass that goes on with the Jobs js.
LEMMA GoOnFrom ==
    ASSUME TypeOK, NEW e \in Exports, NEW t, NEW js, NEW ok,
           JobsFrom(e, js), StatusFrom(e, t), persist(e, t, ok),
           job' = [job EXCEPT ![e] = js], UNCHANGED orphan
    PROVE  Changes(e)
<1>1. job'[e] = js /\ \A f \in Exports \ {e} : job'[f] = job[f]
  BY DEF TypeOK
<1> QED
  BY <1>1, PersistFrom DEF Changes, OrphansFrom

\* A pass that touches no Job.
LEMMA WriteFrom ==
    ASSUME TypeOK, NEW e \in Exports, NEW t, NEW ok,
           StatusFrom(e, t), persist(e, t, ok), UNCHANGED <<job, orphan>>
    PROVE  Changes(e)
BY PersistFrom, StopFrom DEF Changes, OrphansFrom

\* failApp, for the app whose turn it is.
LEMMA FailAppFrom ==
    ASSUME TypeOK, NEW e \in Exports, NEW a \in Apps, Turn(e, a),
           NEW s \in Statuses, NEW js \in JobsOfRun, NEW ok, JobsFrom(e, js),
           Grown(e, a, s.entry[a]),
           \A y \in Slots \ {a} : s.entry[y] = status[e].entry[y],
           s.bundle = status[e].bundle, failApp(e, a, s, js, ok)
    PROVE  Changes(e)
<1> DEFINE n == [s.entry[a] EXCEPT !.ended = s.entry[a].started,
                                   !.phase = "Failed"]
           q == unmarkQuiesced(s, {a})
           t == setEntry(q, a, n)
           r == setPhase(t, "Failed")
<1>1. a \in Slots /\ s.entry[a] \in Entries
  BY DEF Slots, Statuses
<1>2. n \in Entries /\ n.done = s.entry[a].done /\ n.phase = "Failed"
  BY <1>1 DEF Entries, Phases
<1>3. q \in Statuses /\ q.entry = s.entry /\ q.bundle = s.bundle
  BY QuiescedType, MarkFields
<1> HIDE DEF n, q
<1>4. /\ t \in Statuses /\ t.entry[a] = n /\ t.bundle = s.bundle
      /\ \A y \in Slots \ {a} : t.entry[y] = s.entry[y]
  BY <1>1, <1>2, <1>3, SetEntryType, SetEntryFields
<1>5. fail(e, t, js, ok)
  BY DEF failApp, n, q
<1> HIDE DEF t
<1>6. /\ r \in Statuses /\ r.entry = t.entry /\ r.bundle = t.bundle
      /\ r.phase = "Failed"
  BY <1>4, SetPhaseType, MarkFields DEF Phases
<1>7. Grown(e, a, n)
  BY <1>2 DEF Grown
<1> HIDE DEF r
<1>8. StatusFrom(e, r)
  BY <1>1, <1>4, <1>6, <1>7, EntryFrom
<1> QED
  BY <1>4, <1>5, <1>8, FailFrom DEF r

\* The passes that come before a capture, or after it.
LEMMA EarlyFrom ==
    ASSUME TypeOK, NEW e \in Exports, NEW ok,
           \/ ResumeEnded(e, ok) \/ FinalizeResume(e, ok)
           \/ FailNoTenant(e, ok) \/ Busy(e, ok) \/ AssignBundle(e, ok)
           \/ FailNoSecret(e, ok) \/ resumeStale(e, ok)
    PROVE  Changes(e)
<1>1. status[e] \in Statuses /\ job[e] \in JobsOfRun
  BY PartTypes
<1>2. \A Q : StatusFrom(e, unmarkQuiesced(status[e], Q))
  BY <1>1, MarkFields, SameEntriesFrom
<1>3. \A ph \in Phases \ {"Ready"} : StatusFrom(e, setPhase(status[e], ph))
  BY <1>1, MarkFields, SameEntriesFrom
<1>4. CASE \/ ResumeEnded(e, ok) \/ FinalizeResume(e, ok) \/ resumeStale(e, ok)
  BY <1>2, <1>4, WriteFrom
     DEF ResumeEnded, FinalizeResume, resumeAll, resumeStale
<1>5. fail(e, status[e], job[e], ok) => Changes(e)
  BY <1>1, <1>3, StopFrom, FailFrom DEF Phases
<1>6. CASE FailNoTenant(e, ok) \/ FailNoSecret(e, ok)
  BY <1>5, <1>6 DEF FailNoTenant, FailNoSecret
<1>7. CASE Busy(e, ok)
  BY <1>3, <1>7, WriteFrom DEF Busy, Phases
<1>8. CASE AssignBundle(e, ok)
  <2> DEFINE t == [status[e] EXCEPT !.bundle = TRUE, !.phase = "Running"]
  <2>1. t.entry = status[e].entry /\ t.phase = "Running"
    BY <1>1 DEF Statuses
  <2>2. Running(e)
    BY <1>8 DEF AssignBundle, Holds
  <2>3. \/ persist(e, t, ok) /\ UNCHANGED <<job, orphan>>
        \/ fail(e, status[e], job[e], ok)
    BY <1>8 DEF AssignBundle
  <2> HIDE DEF t
  <2>4. StatusFrom(e, t)
    BY <2>1, <2>2, SameEntriesFrom
  <2> QED
    BY <1>5, <2>3, <2>4, WriteFrom
<1> QED
  BY <1>4, <1>6, <1>7, <1>8

\* The entries that a pass over the units of its slot may end with.
LEMMA EnsureGrown ==
    ASSUME TypeOK, NEW e \in Exports, NEW x \in Slots, NEW en \in Entries,
           en.done = status[e].entry[x].done, NEW U \in SUBSET AllUnits,
           NEW n, n.done = ensureEntry(en, job[e][x], U).done,
           n.phase # "Ready" \/ x \notin Apps \/ Units \subseteq n.done
           \/ n.phase = status[e].entry[x].phase
    PROVE  Grown(e, x, n)
<1>1. n.done = status[e].entry[x].done
                   \cup {u \in U : job[e][x][u] = "complete"}
  BY EnsureFields
<1> QED
  BY <1>1 DEF Grown, Have

\* captureApp: the pause, the captures and the resume.
LEMMA CaptureFrom ==
    ASSUME TypeOK, NEW e \in Exports, NEW a \in Apps, NEW ok,
           \/ PauseApp(e, a, ok) \/ CaptureWaits(e, a, ok)
           \/ CaptureCannot(e, a, ok) \/ CaptureDone(e, a, ok)
    PROVE  Changes(e)
<1> DEFINE old == status[e].entry[a]
           en  == ensureEntry(old, job[e][a], Units)
           js  == [job[e] EXCEPT ![a] = ensureJobs(old, job[e][a], Units)]
           up  == [en EXCEPT !.ended = TRUE, !.phase = "Ready"]
           bad == [en EXCEPT !.ended = TRUE, !.phase = "Running",
                             !.attempts = @ + 1]
           paused(m) == [old EXCEPT !.started = TRUE, !.mode = m,
                                    !.phase = "Running"]
<1>1. /\ status[e] \in Statuses /\ job[e] \in JobsOfRun
      /\ old \in Entries /\ a \in Slots /\ Units \in SUBSET AllUnits
      /\ job[e][a] \in [AllUnits -> JobStates]
  BY PartTypes
<1>2. Turn(e, a) /\ Captures(e)
  BY DEF PauseApp, CaptureWaits, CaptureCannot, CaptureDone, AtInstalled, At,
         Turn
<1>3. en \in Entries /\ js \in JobsOfRun /\ JobsFrom(e, js)
  BY <1>1, <1>2, EnsureEntryType, EnsureJobsType, SlotJobsType, EnsureJobsFrom
<1>4. Grown(e, a, old) /\ Grown(e, a, en)
  <2>1. Grown(e, a, old)
    BY DEF Grown, Have
  <2>2. Grown(e, a, en)
    <3>1. en.phase = old.phase
      BY <1>1, EnsureFields
    <3> QED
      BY <1>1, <3>1, EnsureGrown
  <2> QED
    BY <2>1, <2>2
<1>5. JobsFrom(e, job[e])
  BY StopFrom
<1>6. \/ \E hook : persist(e, setEntry(markQuiesced(status[e], a), a,
                               paused(quiesceMode(a, hook))), ok)
         /\ UNCHANGED <<job, orphan>>
      \/ failApp(e, a, status[e], job[e], ok)
      \/ failApp(e, a, setEntry(status[e], a, en), js, ok)
      \/ /\ job' = [job EXCEPT ![e] = js] /\ UNCHANGED orphan
         /\ persist(e, setEntry(status[e], a, en), ok)
      \/ /\ Units \subseteq en.done /\ UNCHANGED <<job, orphan>>
         /\ persist(e, setEntry(unmarkQuiesced(status[e], {a}), a, up), ok)
      \/ /\ UNCHANGED <<job, orphan>>
         /\ persist(e, setEntry(status[e], a, bad), ok)
      \/ failApp(e, a, setEntry(status[e], a, bad), job[e], ok)
  <2>1. CASE PauseApp(e, a, ok)
    BY <2>1 DEF PauseApp
  <2>2. CASE CaptureWaits(e, a, ok)
    BY <2>2 DEF CaptureWaits
  <2>3. CASE CaptureCannot(e, a, ok)
    BY <2>3 DEF CaptureCannot
  <2>4. CASE CaptureDone(e, a, ok)
    BY <2>4 DEF CaptureDone
  <2> QED
    BY <2>1, <2>2, <2>3, <2>4
<1> HIDE DEF en, js
<1>7. /\ up \in Entries /\ up.done = en.done /\ up.phase = "Ready"
      /\ bad \in Entries /\ bad.done = en.done /\ bad.phase = "Running"
  <2>1. up \in Entries /\ bad \in Entries
    BY <1>3, EntryUpdates
  <2>2. up.done = en.done /\ up.phase = "Ready"
    BY <1>3 DEF Entries
  <2>3. bad.done = en.done /\ bad.phase = "Running"
    BY <1>3 DEF Entries
  <2> QED
    BY <2>1, <2>2, <2>3
<1>8. /\ Grown(e, a, bad)
      /\ Units \subseteq en.done => Grown(e, a, up)
  <2> HIDE DEF up, bad
  <2> QED
    BY <1>4, <1>7 DEF Grown
<1>9. \A m \in Modes : /\ paused(m) \in Entries
                       /\ Grown(e, a, paused(m))
  <2> SUFFICES ASSUME NEW m \in Modes
               PROVE  paused(m) \in Entries /\ Grown(e, a, paused(m))
    OBVIOUS
  <2>1. paused(m) \in Entries /\ paused(m).done = old.done
        /\ paused(m).phase = "Running"
    BY <1>1 DEF Entries, Phases
  <2> QED
    BY <1>4, <2>1 DEF Grown
<1> HIDE DEF up, bad, paused
<1>10. ASSUME NEW n \in Entries, Grown(e, a, n), NEW s \in Statuses,
              s.entry = status[e].entry, s.bundle = status[e].bundle,
              s.phase = status[e].phase
       PROVE  /\ StatusFrom(e, setEntry(s, a, n))
              /\ \A k \in JobsOfRun :
                     JobsFrom(e, k) /\ failApp(e, a, setEntry(s, a, n), k, ok)
                         => Changes(e)
  <2> DEFINE t == setEntry(s, a, n)
  <2>1. /\ t \in Statuses /\ t.entry[a] = n /\ t.bundle = status[e].bundle
        /\ \A y \in Slots \ {a} : t.entry[y] = status[e].entry[y]
        /\ t.phase = status[e].phase
    BY <1>1, <1>10, SetEntryType, SetEntryFields
  <2> HIDE DEF t
  <2>2. StatusFrom(e, t)
    BY <1>1, <1>2, <1>10, <2>1, EntryFrom
  <2>3. \A k \in JobsOfRun : JobsFrom(e, k) /\ failApp(e, a, t, k, ok)
                                 => Changes(e)
    BY <1>2, <1>10, <2>1, FailAppFrom
  <2> QED
    BY <2>2, <2>3 DEF t
<1>11. \A Q : /\ unmarkQuiesced(status[e], Q) \in Statuses
              /\ unmarkQuiesced(status[e], Q).entry = status[e].entry
              /\ unmarkQuiesced(status[e], Q).bundle = status[e].bundle
              /\ unmarkQuiesced(status[e], Q).phase = status[e].phase
  BY <1>1, QuiescedType, MarkFields
<1>12. /\ markQuiesced(status[e], a) \in Statuses
       /\ markQuiesced(status[e], a).entry = status[e].entry
       /\ markQuiesced(status[e], a).bundle = status[e].bundle
       /\ markQuiesced(status[e], a).phase = status[e].phase
  BY <1>1, QuiescedType, MarkFields
<1>13. CASE \E hook : persist(e, setEntry(markQuiesced(status[e], a), a,
                                  paused(quiesceMode(a, hook))), ok)
                      /\ UNCHANGED <<job, orphan>>
  <2>1. PICK hook : persist(e, setEntry(markQuiesced(status[e], a), a,
                                paused(quiesceMode(a, hook))), ok)
                    /\ UNCHANGED <<job, orphan>>
    BY <1>13
  <2>2. quiesceMode(a, hook) \in Modes
    BY QuiesceModeType
  <2>3. StatusFrom(e, setEntry(markQuiesced(status[e], a), a,
                               paused(quiesceMode(a, hook))))
    BY <1>9, <1>10, <1>12, <2>2
  <2> QED
    BY <2>1, <2>3, WriteFrom
<1>14. CASE failApp(e, a, status[e], job[e], ok)
  BY <1>1, <1>2, <1>4, <1>5, <1>14, FailAppFrom
<1>15. CASE failApp(e, a, setEntry(status[e], a, en), js, ok)
  BY <1>1, <1>3, <1>4, <1>10, <1>15
<1>16. CASE /\ job' = [job EXCEPT ![e] = js] /\ UNCHANGED orphan
            /\ persist(e, setEntry(status[e], a, en), ok)
  BY <1>1, <1>3, <1>4, <1>10, <1>16, GoOnFrom
<1>17. CASE /\ Units \subseteq en.done /\ UNCHANGED <<job, orphan>>
            /\ persist(e, setEntry(unmarkQuiesced(status[e], {a}), a, up), ok)
  BY <1>7, <1>8, <1>10, <1>11, <1>17, WriteFrom
<1>18. CASE /\ UNCHANGED <<job, orphan>>
            /\ persist(e, setEntry(status[e], a, bad), ok)
  BY <1>1, <1>7, <1>8, <1>10, <1>18, WriteFrom
<1>19. CASE failApp(e, a, setEntry(status[e], a, bad), job[e], ok)
  BY <1>1, <1>5, <1>7, <1>8, <1>10, <1>19
<1> QED
  BY <1>6, <1>13, <1>14, <1>15, <1>16, <1>17, <1>18, <1>19

\* captureRetained: the data of an uninstalled app.
LEMMA RetainedFrom ==
    ASSUME TypeOK, NEW e \in Exports, NEW a \in Apps, NEW ok,
           CaptureRetained(e, a, ok)
    PROVE  Changes(e)
<1> DEFINE old == status[e].entry[a]
           en0 == [old EXCEPT !.retained = TRUE]
           en  == [ensureEntry(en0, job[e][a], Units) EXCEPT !.phase = "Running"]
           js  == [job[e] EXCEPT ![a] = ensureJobs(en0, job[e][a], Units)]
           bad == [en EXCEPT !.attempts = @ + 1]
           failed(n, k) ==
               fail(e, setEntry(status[e], a, [n EXCEPT !.phase = "Failed"]),
                    k, ok)
           goesOn(n) == /\ job' = [job EXCEPT ![e] = js]
                        /\ persist(e, setEntry(status[e], a, n), ok)
                        /\ UNCHANGED orphan
<1>1. /\ status[e] \in Statuses /\ job[e] \in JobsOfRun
      /\ old \in Entries /\ a \in Slots /\ Units \in SUBSET AllUnits
      /\ job[e][a] \in [AllUnits -> JobStates]
  BY PartTypes
<1>2. Turn(e, a) /\ Captures(e)
  BY DEF CaptureRetained, At, Turn
<1>3. en0 \in Entries /\ en0.done = old.done
  <2>1. en0 \in Entries
    BY <1>1, EntryUpdates
  <2> QED
    BY <1>1, <2>1 DEF Entries
<1>4. \/ failed(en0, job[e]) \/ failed(en, js) \/ failed(bad, js)
      \/ goesOn(en) \/ goesOn(bad)
      \/ Units \subseteq en.done /\ goesOn([en EXCEPT !.phase = "Ready"])
  BY DEF CaptureRetained
<1> HIDE DEF en0
<1>5. js \in JobsOfRun /\ JobsFrom(e, js)
  BY <1>1, <1>2, EnsureJobsType, SlotJobsType, EnsureJobsFrom
<1>6. /\ en \in Entries /\ en.phase = "Running"
      /\ en.done = ensureEntry(en0, job[e][a], Units).done
  <2> DEFINE m == ensureEntry(en0, job[e][a], Units)
  <2>1. m \in Entries
    BY <1>1, <1>3, EnsureEntryType
  <2> HIDE DEF m
  <2>2. [m EXCEPT !.phase = "Running"] \in Entries
    BY <2>1, EntryUpdates DEF Phases
  <2>3. [m EXCEPT !.phase = "Running"].phase = "Running"
        /\ [m EXCEPT !.phase = "Running"].done = m.done
    BY <2>1 DEF Entries
  <2> QED
    BY <2>2, <2>3 DEF m
<1> HIDE DEF en, js
<1>7. bad \in Entries /\ bad.done = en.done /\ bad.phase = "Running"
  <2>1. bad \in Entries
    BY <1>6, EntryUpdates
  <2>2. bad.done = en.done /\ bad.phase = "Running"
    BY <1>6 DEF Entries
  <2> QED
    BY <2>1, <2>2
<1> HIDE DEF bad
<1>8. ASSUME NEW n \in Entries
      PROVE  \A ph \in Phases : /\ [n EXCEPT !.phase = ph] \in Entries
                                /\ [n EXCEPT !.phase = ph].done = n.done
                                /\ [n EXCEPT !.phase = ph].phase = ph
  <2>1. \A ph \in Phases : [n EXCEPT !.phase = ph] \in Entries
    BY EntryUpdates
  <2>2. \A ph \in Phases : /\ [n EXCEPT !.phase = ph].done = n.done
                           /\ [n EXCEPT !.phase = ph].phase = ph
    BY DEF Entries
  <2> QED
    BY <2>1, <2>2
<1>9. ASSUME NEW n, n.done \in {old.done, en.done},
             n.phase # "Ready" \/ Units \subseteq n.done
      PROVE  Grown(e, a, n)
  <2>1. en.done = old.done \cup {u \in Units : job[e][a][u] = "complete"}
    BY <1>1, <1>3, <1>6, EnsureFields
  <2> QED
    BY <1>9, <2>1 DEF Grown, Have, AllUnits
<1>10. ASSUME NEW n \in Entries, Grown(e, a, n)
       PROVE  /\ setEntry(status[e], a, n) \in Statuses
              /\ StatusFrom(e, setEntry(status[e], a, n))
              /\ StatusFrom(e, setPhase(setEntry(status[e], a, n), "Failed"))
  <2> DEFINE t == setEntry(status[e], a, n)
             r == setPhase(t, "Failed")
  <2>1. /\ t \in Statuses /\ t.entry[a] = n /\ t.bundle = status[e].bundle
        /\ \A y \in Slots \ {a} : t.entry[y] = status[e].entry[y]
        /\ t.phase = status[e].phase
    BY <1>1, SetEntryType, SetEntryFields
  <2> HIDE DEF t
  <2>2. StatusFrom(e, t)
    BY <1>1, <1>2, <1>10, <2>1, EntryFrom
  <2>3. /\ r \in Statuses /\ r.entry = t.entry /\ r.bundle = t.bundle
        /\ r.phase = "Failed"
    BY <2>1, SetPhaseType, MarkFields DEF Phases
  <2> HIDE DEF r
  <2>4. StatusFrom(e, r)
    BY <1>1, <1>2, <1>10, <2>1, <2>3, EntryFrom
  <2> QED
    BY <2>1, <2>2, <2>4 DEF t, r
<1>11. \A n \in Entries, k \in JobsOfRun :
           /\ n.done \in {old.done, en.done} /\ JobsFrom(e, k) /\ failed(n, k)
           => Changes(e)
  <2> SUFFICES ASSUME NEW n \in Entries, NEW k \in JobsOfRun,
                      n.done \in {old.done, en.done}, JobsFrom(e, k),
                      failed(n, k)
               PROVE  Changes(e)
    OBVIOUS
  <2> DEFINE m == [n EXCEPT !.phase = "Failed"]
  <2>1. m \in Entries /\ m.done = n.done /\ m.phase = "Failed"
    BY <1>8 DEF Phases
  <2> HIDE DEF m
  <2>2. Grown(e, a, m)
    BY <1>9, <2>1
  <2>3. fail(e, setEntry(status[e], a, m), k, ok)
    BY DEF m
  <2> QED
    BY <1>10, <2>1, <2>2, <2>3, FailFrom
<1>12. \A n \in Entries : /\ n.done = en.done
                          /\ n.phase # "Ready" \/ Units \subseteq n.done
                          /\ goesOn(n)
                          => Changes(e)
  <2> SUFFICES ASSUME NEW n \in Entries, n.done = en.done,
                      n.phase # "Ready" \/ Units \subseteq n.done, goesOn(n)
               PROVE  Changes(e)
    OBVIOUS
  <2>1. Grown(e, a, n)
    BY <1>9
  <2>2. StatusFrom(e, setEntry(status[e], a, n))
    BY <1>10, <2>1
  <2> QED
    BY <1>5, <2>2, GoOnFrom
<1>13. /\ [en EXCEPT !.phase = "Ready"] \in Entries
       /\ [en EXCEPT !.phase = "Ready"].done = en.done
  BY <1>6, <1>8 DEF Phases
<1> HIDE DEF failed, goesOn
<1> QED
  BY <1>1, <1>3, <1>4, <1>5, <1>6, <1>7, <1>11, <1>12, <1>13, StopFrom

\* What a pass over the tenant's own captures ends with.
LEMMA ExhaustedFrom ==
    ASSUME TypeOK, NEW e \in Exports, Turn(e, TenantWide), NEW n \in Entries,
           NEW js \in JobsOfRun, NEW ok, JobsFrom(e, js),
           Grown(e, TenantWide, n), tenantWideExhausted(e, n, js, ok)
    PROVE  Changes(e)
<1>1. status[e] \in Statuses /\ TenantWide \in Slots
  BY PartTypes
<1>2. ASSUME NEW m \in Entries, Grown(e, TenantWide, m)
      PROVE  /\ setEntry(status[e], TenantWide, m) \in Statuses
             /\ StatusFrom(e, setEntry(status[e], TenantWide, m))
             /\ StatusFrom(e, setPhase(setEntry(status[e], TenantWide, m),
                                       "Failed"))
  <2> DEFINE t == setEntry(status[e], TenantWide, m)
             r == setPhase(t, "Failed")
  <2>1. /\ t \in Statuses /\ t.entry[TenantWide] = m
        /\ t.bundle = status[e].bundle
        /\ \A y \in Slots \ {TenantWide} : t.entry[y] = status[e].entry[y]
        /\ t.phase = status[e].phase
    BY <1>1, SetEntryType, SetEntryFields
  <2> HIDE DEF t
  <2>2. StatusFrom(e, t)
    BY <1>1, <1>2, <2>1, EntryFrom
  <2>3. /\ r \in Statuses /\ r.entry = t.entry /\ r.bundle = t.bundle
        /\ r.phase = "Failed"
    BY <2>1, SetPhaseType, MarkFields DEF Phases
  <2> HIDE DEF r
  <2>4. StatusFrom(e, r)
    BY <1>1, <1>2, <2>1, <2>3, EntryFrom
  <2> QED
    BY <2>1, <2>2, <2>4 DEF t, r
<1>3. CASE n.attempts > exportMaxAttempts
  <2> DEFINE m == [n EXCEPT !.phase = "Failed"]
  <2>1. m \in Entries /\ m.done = n.done
    <3>1. m \in Entries
      BY EntryUpdates DEF Phases
    <3> QED
      BY <3>1 DEF Entries
  <2>2. fail(e, setEntry(status[e], TenantWide, m), js, ok)
    BY <1>3 DEF tenantWideExhausted
  <2> HIDE DEF m
  <2>3. Grown(e, TenantWide, m)
    BY <2>1, ConfigAssumption DEF Grown
  <2> QED
    BY <1>2, <2>1, <2>2, <2>3, FailFrom
<1>4. CASE ~(n.attempts > exportMaxAttempts)
  <2>1. /\ job' = [job EXCEPT ![e] = js] /\ UNCHANGED orphan
        /\ persist(e, setEntry(status[e], TenantWide, n), ok)
    BY <1>4 DEF tenantWideExhausted
  <2> QED
    BY <1>2, <2>1, GoOnFrom
<1> QED
  BY <1>3, <1>4

\* captureTenantWide: what is the tenant's own.
LEMMA TenantWideFrom ==
    ASSUME TypeOK, NEW e \in Exports, NEW ok, CaptureTenantWide(e, ok)
    PROVE  Changes(e)
<1> DEFINE old == status[e].entry[TenantWide]
           en  == ensureEntry(old, job[e][TenantWide], Units)
           js  == [job[e] EXCEPT ![TenantWide] =
                      ensureJobs(old, job[e][TenantWide], Units)]
           bad == [old EXCEPT !.attempts = @ + 1]
<1>1. /\ old \in Entries /\ job[e] \in JobsOfRun
      /\ job[e][TenantWide] \in [AllUnits -> JobStates]
      /\ TenantWide \in Slots /\ Units \in SUBSET AllUnits
      /\ TenantWide \notin Apps
  BY PartTypes, ConfigAssumption
<1>2. Turn(e, TenantWide) /\ Captures(e)
  BY DEF CaptureTenantWide, At, Turn, NoApp
<1>3. en \in Entries /\ Grown(e, TenantWide, en)
  BY <1>1, EnsureEntryType, EnsureGrown
<1>4. js \in JobsOfRun /\ JobsFrom(e, js)
  BY <1>1, <1>2, EnsureJobsType, SlotJobsType, EnsureJobsFrom
<1>5. bad \in Entries /\ Grown(e, TenantWide, bad)
  <2>1. bad \in Entries
    BY <1>1, EntryUpdates
  <2>2. bad.done = old.done
    BY <1>1 DEF Entries
  <2> QED
    BY <1>1, <2>1, <2>2 DEF Grown, Have
<1>6. \/ tenantWideExhausted(e, en, js, ok)
      \/ tenantWideExhausted(e, bad, job[e], ok)
  BY DEF CaptureTenantWide
<1> HIDE DEF en, js, bad
<1> QED
  BY <1>1, <1>2, <1>3, <1>4, <1>5, <1>6, StopFrom, ExhaustedFrom

\* complete: the manifest's Job, and the end.
LEMMA CompleteFrom ==
    ASSUME TypeOK, NEW e \in Exports, NEW ok, Complete(e, ok)
    PROVE  /\ Changes(e)
           /\ \/ UNCHANGED listed
              \/ /\ Turn(e, NoApp)
                 /\ listed' = [listed EXCEPT ![e] = buildManifest(e)]
<1> DEFINE old == status[e].entry[TenantWide]
           got == ensureEntry(old, job[e][TenantWide], Units)
           tw  == [got EXCEPT !.phase = "Ready"]
           en  == ensureEntry(tw, job[e][TenantWide], {Manifest})
           js  == [job[e] EXCEPT ![TenantWide] =
                      ensureJobs(tw, job[e][TenantWide], {Manifest})]
           bad == [tw EXCEPT !.attempts = @ + 1]
           t   == setEntry(status[e], TenantWide, en)
           r   == setPhase(t, "Ready")
<1>1. /\ status[e] \in Statuses /\ old \in Entries /\ job[e] \in JobsOfRun
      /\ job[e][TenantWide] \in [AllUnits -> JobStates]
      /\ TenantWide \in Slots /\ Units \in SUBSET AllUnits
      /\ {Manifest} \in SUBSET AllUnits
      /\ TenantWide \notin Apps
  BY PartTypes, ConfigAssumption
<1>2. Turn(e, TenantWide) /\ Turn(e, NoApp) /\ Captures(e)
      /\ Units \subseteq tw.done
  BY DEF Complete, At, Turn, NoApp
<1>3. \/ tenantWideExhausted(e, bad, job[e], ok) /\ UNCHANGED listed
      \/ /\ tenantWideExhausted(e, en, js, ok)
         /\ listed' = [listed EXCEPT ![e] =
                IF job[e][TenantWide][Manifest] = "none"
                THEN buildManifest(e) ELSE listed[e]]
      \/ /\ Manifest \in en.done
         /\ job' = [job EXCEPT ![e] = stopRunningExportJobs(job[e])]
         /\ orphan' = [orphan EXCEPT ![e] = Orphaned(e, job[e])]
         /\ persist(e, r, ok)
         /\ UNCHANGED listed
  BY DEF Complete
<1>4. got \in Entries
      /\ got.done = old.done \cup {u \in Units : job[e][TenantWide][u] = "complete"}
  BY <1>1, EnsureEntryType, EnsureFields
<1> HIDE DEF got
<1>5. tw \in Entries /\ tw.done = got.done
  <2>1. tw \in Entries
    BY <1>4, EntryUpdates DEF Phases
  <2>2. tw.done = got.done
    BY <1>4 DEF Entries
  <2> QED
    BY <2>1, <2>2
<1> HIDE DEF tw
<1>6. en \in Entries
      /\ en.done = tw.done \cup {u \in {Manifest} : job[e][TenantWide][u] = "complete"}
  BY <1>1, <1>5, EnsureEntryType, EnsureFields
<1>7. bad \in Entries /\ bad.done = tw.done
  <2>1. bad \in Entries
    BY <1>5, EntryUpdates
  <2>2. bad.done = tw.done
    BY <1>5 DEF Entries
  <2> QED
    BY <2>1, <2>2
<1> HIDE DEF en, bad
<1>8. Grown(e, TenantWide, en) /\ Grown(e, TenantWide, bad)
      /\ Units \subseteq Have(e, TenantWide)
  BY <1>1, <1>2, <1>4, <1>5, <1>6, <1>7 DEF Grown, Have
<1>9. js \in JobsOfRun
  BY <1>1, EnsureJobsType, SlotJobsType
<1>10. CASE tenantWideExhausted(e, bad, job[e], ok) /\ UNCHANGED listed
  BY <1>1, <1>2, <1>7, <1>8, <1>10, StopFrom, ExhaustedFrom
<1>11. CASE /\ tenantWideExhausted(e, en, js, ok)
            /\ listed' = [listed EXCEPT ![e] =
                   IF job[e][TenantWide][Manifest] = "none"
                   THEN buildManifest(e) ELSE listed[e]]
  <2>1. listed \in [Exports -> SUBSET Apps]
    BY DEF TypeOK
  <2>2. CASE job[e][TenantWide][Manifest] = "none"
    <3>1. listed' = [listed EXCEPT ![e] = buildManifest(e)]
      BY <1>11, <2>2
    <3>2. listed'[e] = buildManifest(e)
      BY <2>1, <3>1
    <3>3. Begins(e)
      BY <1>2, <1>8, <3>2 DEF Begins
    <3>4. JobsFrom(e, js)
      BY <1>2, <3>3, ManifestJobsFrom
    <3> HIDE DEF js
    <3> QED
      BY <1>2, <1>6, <1>8, <1>9, <1>11, <3>1, <3>4, ExhaustedFrom
  <2>3. CASE job[e][TenantWide][Manifest] # "none"
    <3>1. listed' = listed
      BY <1>11, <2>1, <2>3
    <3>2. JobsFrom(e, js)
      BY <1>2, <2>3, ManifestJobsFrom
    <3> HIDE DEF js
    <3> QED
      BY <1>2, <1>6, <1>8, <1>9, <1>11, <3>1, <3>2, ExhaustedFrom
  <2> QED
    BY <2>2, <2>3
<1>12. CASE /\ Manifest \in en.done
            /\ job' = [job EXCEPT ![e] = stopRunningExportJobs(job[e])]
            /\ orphan' = [orphan EXCEPT ![e] = Orphaned(e, job[e])]
            /\ persist(e, r, ok)
            /\ UNCHANGED listed
  <2>1. /\ t \in Statuses /\ t.entry[TenantWide] = en
        /\ t.bundle = status[e].bundle
        /\ \A y \in Slots \ {TenantWide} : t.entry[y] = status[e].entry[y]
    BY <1>1, <1>6, SetEntryType, SetEntryFields
  <2> HIDE DEF t
  <2>2. /\ r \in Statuses /\ r.entry = t.entry /\ r.bundle = t.bundle
    BY <2>1, SetPhaseType, MarkFields DEF Phases
  <2> HIDE DEF r
  <2>3. StatusFrom(e, r)
    BY <1>1, <1>2, <1>8, <1>12, <2>1, <2>2, EntryFrom
  <2>4. /\ StatusFrom(e, status'[e])
        /\ \A f \in Exports \ {e} : status'[f] = status[f]
    BY <1>12, <2>3, PersistFrom
  <2>5. job'[e] = stopRunningExportJobs(job[e])
        /\ \A f \in Exports \ {e} : job'[f] = job[f]
    BY <1>12 DEF TypeOK
  <2> QED
    BY <1>1, <1>12, <2>4, <2>5, StopFrom, OrphanedFrom DEF Changes
<1> QED
  BY <1>3, <1>10, <1>11, <1>12

\* Every pass over an export that writes its status changes that export alone,
\* and in these ways.
LEMMA ReconcileFrom ==
    ASSUME TypeOK, NEW e \in Exports, NEW ok, Reconcile(e, ok)
    PROVE  /\ PassOver(e)
           /\ \A f \in Exports \ {e} : Same(f)
           /\ UNCHANGED <<obj, finalizer, cleanup, store, installed, retained,
                          tenant>>
<1>1. Changes(e)
  BY EarlyFrom, CaptureFrom, RetainedFrom, TenantWideFrom, CompleteFrom
     DEF Reconcile
<1>2. \/ UNCHANGED listed
      \/ /\ Turn(e, NoApp)
         /\ listed' = [listed EXCEPT ![e] = buildManifest(e)]
  <2>1. CASE Complete(e, ok)
    BY <2>1, CompleteFrom
  <2>2. CASE ~Complete(e, ok)
    BY <2>2 DEF Reconcile, ResumeEnded, FinalizeResume, FailNoTenant, Busy,
       AssignBundle, FailNoSecret, resumeStale, PauseApp, CaptureWaits,
       CaptureCannot, CaptureDone, CaptureRetained, CaptureTenantWide
  <2> QED
    BY <2>1, <2>2
<1>3. /\ \/ listed'[e] = listed[e]
         \/ Turn(e, NoApp) /\ listed'[e] = buildManifest(e)
      /\ \A f \in Exports \ {e} : listed'[f] = listed[f]
  BY <1>2 DEF TypeOK
<1>4. UNCHANGED <<obj, finalizer, cleanup, store, installed, retained, tenant>>
  BY DEF Reconcile, ResumeEnded, FinalizeResume, FailNoTenant, Busy,
     AssignBundle, FailNoSecret, resumeStale, PauseApp, CaptureWaits,
     CaptureCannot, CaptureDone, CaptureRetained, CaptureTenantWide, Complete
<1> QED
  BY <1>1, <1>3, <1>4 DEF Changes, PassOver, Same

\* A pass that writes no status: what it may do to the Jobs, and to the
\* uploads on their way out.
QuietOver(e) ==
    /\ \A x \in Slots, u \in AllUnits :
           job'[e][x][u] \in {job[e][x][u], "none"}
    /\ \A p \in orphan'[e] : p \in orphan[e] \/ job[e][p[1]][p[2]] = "running"
    /\ "orphan" \notin Faults => orphan'[e] = orphan[e]

LEMMA QuietFrom ==
    ASSUME TypeOK, NEW e \in Exports, ReconcileQuietly(e)
    PROVE  /\ QuietOver(e)
           /\ \A f \in Exports \ {e} : Same(f)
           /\ status' = status /\ listed' = listed
           /\ UNCHANGED <<store, installed, retained, tenant>>
<1>1. UNCHANGED <<status, listed, store, installed, retained, tenant>>
  BY DEF ReconcileQuietly, AddFinalizer, TidyEnded, Finalize
<1>2. \/ UNCHANGED <<job, orphan>>
      \/ /\ \/ job' = [job EXCEPT ![e] = stopRunningExportJobs(job[e])]
            \/ job' = [job EXCEPT ![e] = deleteExportJobs(job[e])]
         /\ orphan' = [orphan EXCEPT ![e] = Orphaned(e, job[e])]
  BY DEF ReconcileQuietly, AddFinalizer, TidyEnded, Finalize
<1>3. CASE UNCHANGED <<job, orphan>>
  BY <1>1, <1>3 DEF QuietOver, Same
<1>4. CASE /\ \/ job' = [job EXCEPT ![e] = stopRunningExportJobs(job[e])]
              \/ job' = [job EXCEPT ![e] = deleteExportJobs(job[e])]
           /\ orphan' = [orphan EXCEPT ![e] = Orphaned(e, job[e])]
  <2>1. \/ job'[e] = stopRunningExportJobs(job[e])
        \/ job'[e] = deleteExportJobs(job[e])
    BY <1>4 DEF TypeOK
  <2>2. orphan'[e] = Orphaned(e, job[e])
    BY <1>4 DEF TypeOK
  <2>3. \A f \in Exports \ {e} : job'[f] = job[f] /\ orphan'[f] = orphan[f]
    BY <1>4 DEF TypeOK
  <2>4. \A x \in Slots, u \in AllUnits :
            job'[e][x][u] \in {job[e][x][u], "none"}
    BY <2>1 DEF stopRunningExportJobs, deleteExportJobs
  <2>5. \A p \in RunningOf(job[e]) : job[e][p[1]][p[2]] = "running"
    BY DEF RunningOf
  <2> QED
    BY <1>1, <2>2, <2>3, <2>4, <2>5 DEF QuietOver, Same, Orphaned
<1> QED
  BY <1>2, <1>3, <1>4

----------------------------------------------------------------------------
(* Every step, seen from one export. *)

Kept(e) == obj[e] \in {"absent", "live"}

StepOver(e) ==
    /\ StatusFrom(e, status'[e])
    /\ \A x \in Slots, u \in AllUnits :
           /\ job'[e][x][u] = "complete" =>
                  \/ job[e][x][u] = "complete"
                  \/ job[e][x][u] = "running" /\ <<x, u>> \in store'[e]
           /\ job'[e][x][u] = "running" =>
                  job[e][x][u] = "running" \/ Turn(e, x)
    /\ job'[e][TenantWide][Manifest] = "running" =>
           job[e][TenantWide][Manifest] = "running" \/ Begins(e)
    /\ OrphansFrom(e) \/ orphan'[e] \subseteq orphan[e]
    /\ \A x \in Slots, u \in AllUnits :
           <<x, u>> \in store'[e] =>
               \/ <<x, u>> \in store[e] \cup orphan[e]
               \/ job[e][x][u] = "running"
    /\ store[e] \subseteq store'[e] \/ cleanup[e] = "running"
    /\ \/ listed'[e] = listed[e]
       \/ Turn(e, NoApp) /\ listed'[e] = buildManifest(e)

\* A pass over the export, or over another one.
LEMMA PassStep ==
    ASSUME TypeOK, NEW e \in Exports, NEW c \in Exports,
           (\E ok : Reconcile(c, ok)) \/ ReconcileQuietly(c)
    PROVE  StepOver(e)
<1>1. StatusFrom(e, status[e])
  BY SameEntriesFrom
<1>2. TenantWide \in Slots /\ Manifest \in AllUnits
  BY PartTypes
<1>3. CASE Same(e) /\ UNCHANGED store
  BY <1>1, <1>3 DEF StepOver, Same, OrphansFrom
<1>4. CASE PassOver(e) /\ UNCHANGED store
  BY <1>4 DEF StepOver, PassOver, JobsFrom
<1>5. CASE QuietOver(e) /\ UNCHANGED <<store, status, listed>>
  <2>1. OrphansFrom(e)
    <3>1. <<TenantWide, Manifest>> \in orphan'[e] =>
              \/ <<TenantWide, Manifest>> \in orphan[e]
              \/ job[e][TenantWide][Manifest] = "running"
      BY <1>5 DEF QuietOver
    <3> QED
      BY <1>5, <3>1 DEF QuietOver, OrphansFrom
  <2> QED
    BY <1>1, <1>2, <1>5, <2>1 DEF StepOver, QuietOver
<1> QED
  BY <1>3, <1>4, <1>5, ReconcileFrom, QuietFrom

\* A Job of a run moves.
LEMMA JobStep ==
    ASSUME TypeOK, NEW e \in Exports, NEW c \in Exports, NEW y \in Slots,
           NEW v \in AllUnits,
           \/ JobCompletes(c, y, v) \/ JobFails(c, y, v)
           \/ JobCollected(c, y, v) \/ ForeignJob(c, y, v)
           \/ OrphanEnds(c, y, v)
    PROVE  StepOver(e)
<1>1. StatusFrom(e, status[e]) /\ UNCHANGED <<status, listed>>
  BY SameEntriesFrom
     DEF JobCompletes, JobFails, JobCollected, ForeignJob, OrphanEnds, Others
<1>2. TenantWide \in Slots /\ Manifest \in AllUnits
  BY PartTypes
<1>3. CASE JobCompletes(c, y, v)
  <2>1. \A x \in Slots, u \in AllUnits :
            \/ job'[e][x][u] = job[e][x][u]
            \/ /\ e = c /\ x = y /\ u = v
               /\ job[e][x][u] = "running" /\ job'[e][x][u] = "complete"
    BY <1>3 DEF JobCompletes, TypeOK
  <2>2. store[e] \subseteq store'[e] /\ (e = c => <<y, v>> \in store'[e])
    BY <1>3 DEF JobCompletes, Upload, TypeOK
  <2>3. \A p \in store'[e] : p \in store[e] \/ (e = c /\ p = <<y, v>>)
    BY <1>3 DEF JobCompletes, Upload, TypeOK
  <2>4. job[c][y][v] = "running" /\ UNCHANGED orphan
    BY <1>3 DEF JobCompletes
  <2> QED
    BY <1>1, <1>2, <2>1, <2>2, <2>3, <2>4 DEF StepOver
<1>4. CASE JobFails(c, y, v) \/ JobCollected(c, y, v) \/ ForeignJob(c, y, v)
  <2>1. \A x \in Slots, u \in AllUnits :
            \/ job'[e][x][u] = job[e][x][u]
            \/ job'[e][x][u] \in {"failed", "stuck", "none", "foreign"}
    <3>1. PICK how \in {"failed", "stuck", "none", "foreign"} :
              job' = [job EXCEPT ![c][y][v] = how]
      BY <1>4 DEF JobFails, JobCollected, ForeignJob
    <3> QED
      BY <3>1 DEF TypeOK
  <2>2. UNCHANGED <<orphan, store>>
    BY <1>4 DEF JobFails, JobCollected, ForeignJob
  <2> QED
    BY <1>1, <1>2, <2>1, <2>2 DEF StepOver
<1>5. CASE OrphanEnds(c, y, v)
  <2>1. store[e] \subseteq store'[e] /\ orphan'[e] \subseteq orphan[e]
    BY <1>5 DEF OrphanEnds, Upload, TypeOK
  <2>2. \A p \in store'[e] : p \in store[e] \/ p \in orphan[e]
    <3>1. /\ <<y, v>> \in orphan[c]
          /\ \/ store' = store
             \/ store' = [store EXCEPT ![c] = store[c] \cup {<<y, v>>}]
      BY <1>5 DEF OrphanEnds, Upload
    <3>2. store \in [Exports -> SUBSET (Slots \X AllUnits)]
      BY DEF TypeOK
    <3>3. store'[e] \in {store[e], store[c] \cup {<<y, v>>}}
          /\ (e # c => store'[e] = store[e])
      BY <3>1, <3>2
    <3> QED
      BY <3>1, <3>3
  <2>3. UNCHANGED job
    BY <1>5 DEF OrphanEnds
  <2> QED
    BY <1>1, <1>2, <2>1, <2>2, <2>3 DEF StepOver
<1> QED
  BY <1>3, <1>4, <1>5

\* The rest of the world.
LEMMA WorldStep ==
    ASSUME TypeOK, NEW e \in Exports,
           \/ \E c \in Exports : \/ CreateExport(c) \/ DeleteExport(c)
                                 \/ SourceLost(c) \/ CleanupEnds(c)
           \/ \E a \in Apps : AppChanges(a)
           \/ TearDown
           \/ UNCHANGED vars
    PROVE  StepOver(e)
<1>1. UNCHANGED <<status, listed, job, orphan>>
  BY DEF CreateExport, DeleteExport, SourceLost, CleanupEnds, AppChanges,
         TearDown, vars
<1>2. StatusFrom(e, status[e])
  BY SameEntriesFrom
<1>3. /\ store[e] \subseteq store'[e] \/ cleanup[e] = "running"
      /\ store'[e] \subseteq store[e]
  <2>1. CASE \E c \in Exports : CleanupEnds(c)
    BY <2>1 DEF CleanupEnds, TypeOK
  <2>2. CASE ~\E c \in Exports : CleanupEnds(c)
    <3>1. UNCHANGED store
      BY <2>2 DEF CreateExport, DeleteExport, SourceLost, AppChanges,
                  TearDown, vars
    <3> QED
      BY <3>1
  <2> QED
    BY <2>1, <2>2
<1> QED
  BY <1>1, <1>2, <1>3 DEF StepOver

\* Every step.
LEMMA NextOver ==
    ASSUME TypeOK, [Next]_vars, NEW e \in Exports
    PROVE  StepOver(e)
<1>1. CASE \E c \in Exports, ok \in Writes : Reconcile(c, ok)
  BY <1>1, PassStep
<1>2. CASE \E c \in Exports : ReconcileQuietly(c)
  BY <1>2, PassStep
<1>3. CASE Environment
  BY <1>3, JobStep, WorldStep DEF Environment
<1>4. CASE UNCHANGED vars
  BY <1>4, WorldStep
<1> QED
  BY <1>1, <1>2, <1>3, <1>4 DEF Next

\* Who makes an export, and who cleans up after it: an object that is there
\* and not on its way out was so or is new, and its cleanup does not begin.
LEMMA LifeSteps ==
    ASSUME TypeOK, [Next]_vars, NEW e \in Exports
    PROVE  /\ Kept(e)' => Kept(e)
           /\ Kept(e) => \/ cleanup'[e] = cleanup[e]
                         \/ cleanup[e] = "running"
<1> DEFINE Goal == /\ Kept(e)' => Kept(e)
                   /\ Kept(e) => \/ cleanup'[e] = cleanup[e]
                                 \/ cleanup[e] = "running"
<1>1. ASSUME UNCHANGED <<obj, cleanup>> PROVE Goal
  BY <1>1 DEF Kept
<1>2. ASSUME NEW c \in Exports, NEW ok, Reconcile(c, ok)
      PROVE  Goal
  BY <1>1, <1>2, ReconcileFrom
<1>3. ASSUME NEW c \in Exports, ReconcileQuietly(c) PROVE Goal
  <2>1. CASE AddFinalizer(c) \/ TidyEnded(c)
    BY <1>1, <2>1 DEF AddFinalizer, TidyEnded
  <2>2. CASE Finalize(c)
    <3>1. /\ obj[c] = "deleting"
          /\ obj' = obj \/ obj' = [obj EXCEPT ![c] = "gone"]
          /\ \A f \in Exports \ {c} : cleanup'[f] = cleanup[f]
      BY <2>2 DEF Finalize, TypeOK
    <3> QED
      BY <3>1 DEF Kept, TypeOK
  <2> QED
    BY <1>3, <2>1, <2>2 DEF ReconcileQuietly
<1>4. ASSUME Environment PROVE Goal
  <2>1. ASSUME NEW c \in Exports, CreateExport(c) \/ DeleteExport(c)
        PROVE  Goal
    BY <2>1 DEF CreateExport, DeleteExport, Kept, TypeOK
  <2>2. ASSUME NEW c \in Exports, CleanupEnds(c) PROVE Goal
    BY <2>2 DEF CleanupEnds, Kept, TypeOK
  <2>3. ASSUME NEW c \in Exports, SourceLost(c)
        PROVE  UNCHANGED <<obj, cleanup>>
    BY <2>3 DEF SourceLost
  <2>4. ASSUME NEW c \in Exports, NEW x \in Slots, NEW u \in AllUnits,
               \/ JobCompletes(c, x, u) \/ JobFails(c, x, u)
               \/ JobCollected(c, x, u) \/ ForeignJob(c, x, u)
               \/ OrphanEnds(c, x, u)
        PROVE  UNCHANGED <<obj, cleanup>>
    BY <2>4 DEF JobCompletes, JobFails, JobCollected, ForeignJob, OrphanEnds,
                Others
  <2>5. ASSUME NEW a \in Apps, AppChanges(a) PROVE UNCHANGED <<obj, cleanup>>
    BY <2>5 DEF AppChanges
  <2>6. ASSUME TearDown PROVE UNCHANGED <<obj, cleanup>>
    BY <2>6 DEF TearDown
  <2> HIDE DEF Goal
  <2> QED
    BY <1>1, <1>4, <2>1, <2>2, <2>3, <2>4, <2>5, <2>6 DEF Environment
<1>5. ASSUME UNCHANGED vars PROVE UNCHANGED <<obj, cleanup>>
  BY <1>5 DEF vars
<1> HIDE DEF Goal
<1>6. Goal
  BY <1>1, <1>2, <1>3, <1>4, <1>5 DEF Next
<1> QED
  BY <1>6 DEF Goal

----------------------------------------------------------------------------
(* What is recorded and listed is in the bundle. *)

\* The cleanup of a bundle is a matter of an export on its way out.
Uncleaned == \A e \in Exports : Kept(e) => cleanup[e] = "none"
\* A unit that is recorded, or whose Job is complete, has been uploaded.
Backed ==
    \A e \in Exports, x \in Slots, u \in AllUnits :
        Kept(e) /\ u \in Have(e, x) => <<x, u>> \in store[e]
\* An app is Ready when every unit of it is recorded.
Counted ==
    \A e \in Exports, a \in Apps :
        status[e].entry[a].phase = "Ready" =>
            Units \subseteq status[e].entry[a].done
\* What the manifest lists has been uploaded.
ListedThere ==
    \A e \in Exports, a \in Apps, u \in Units :
        Kept(e) /\ a \in listed[e] => <<a, u>> \in store[e]
\* The manifest is being written, or was, when what is the tenant's own has
\* been uploaded.
ManifestAfter ==
    \A e \in Exports, u \in Units :
        /\ Kept(e)
        /\ \/ <<TenantWide, Manifest>> \in store[e] \cup orphan[e]
           \/ job[e][TenantWide][Manifest] = "running"
        => <<TenantWide, u>> \in store[e]
BundleInv == Uncleaned /\ Backed /\ Counted /\ ListedThere /\ ManifestAfter

\* Every step keeps it so.
LEMMA BundleStep ==
    ASSUME TypeOK, BundleInv, [Next]_vars
    PROVE  BundleInv'
<1>1. \A e \in Exports : StepOver(e)
  BY NextOver
<1>2. TenantWide \in Slots /\ Manifest \in AllUnits
      /\ Units \subseteq AllUnits /\ Apps \subseteq Slots
  BY DEF Slots, AllUnits
<1>3. \A e \in Exports : Kept(e)' => Kept(e) /\ store[e] \subseteq store'[e]
  BY <1>1, LifeSteps DEF BundleInv, Uncleaned, StepOver
<1>4. Uncleaned'
  BY <1>3, LifeSteps DEF BundleInv, Uncleaned
<1>5. Backed'
  <2> SUFFICES ASSUME NEW e \in Exports, NEW x \in Slots, NEW u \in AllUnits,
                      Kept(e)', u \in Have(e, x)'
               PROVE  <<x, u>> \in store'[e]
    BY DEF Backed
  <2>1. \/ u \in status'[e].entry[x].done
        \/ job'[e][x][u] = "complete"
    BY DEF Have
  <2>2. \/ u \in Have(e, x)
        \/ <<x, u>> \in store'[e]
    <3>1. CASE u \in status'[e].entry[x].done
      BY <1>1, <3>1 DEF StepOver, StatusFrom, Grown
    <3>2. CASE job'[e][x][u] = "complete"
      BY <1>1, <3>2 DEF StepOver, Have
    <3> QED
      BY <2>1, <3>1, <3>2
  <2> QED
    BY <1>3, <2>2 DEF BundleInv, Backed
<1>6. Counted'
  <2> SUFFICES ASSUME NEW e \in Exports, NEW a \in Apps,
                      status'[e].entry[a].phase = "Ready"
               PROVE  Units \subseteq status'[e].entry[a].done
    BY DEF Counted
  <2>1. Grown(e, a, status'[e].entry[a])
    BY <1>1, <1>2 DEF StepOver, StatusFrom
  <2> QED
    BY <2>1 DEF Grown, BundleInv, Counted
<1>7. ListedThere'
  <2> SUFFICES ASSUME NEW e \in Exports, NEW a \in Apps, NEW u \in Units,
                      Kept(e)', a \in listed'[e]
               PROVE  <<a, u>> \in store'[e]
    BY DEF ListedThere
  <2>1. CASE a \in listed[e]
    BY <1>3, <2>1 DEF BundleInv, ListedThere
  <2>2. CASE a \in buildManifest(e)
    <3>1. u \in Have(e, a)
      BY <2>2 DEF buildManifest, BundleInv, Counted, Have
    <3> QED
      BY <1>2, <1>3, <3>1 DEF BundleInv, Backed
  <2> QED
    BY <1>1, <2>1, <2>2 DEF StepOver
<1>8. ManifestAfter'
  <2> SUFFICES ASSUME NEW e \in Exports, NEW u \in Units, Kept(e)',
                      \/ <<TenantWide, Manifest>> \in store'[e] \cup orphan'[e]
                      \/ job'[e][TenantWide][Manifest] = "running"
               PROVE  <<TenantWide, u>> \in store'[e]
    BY DEF ManifestAfter
  <2>1. \/ <<TenantWide, Manifest>> \in store[e] \cup orphan[e]
        \/ job[e][TenantWide][Manifest] = "running"
        \/ Begins(e)
    BY <1>1, <1>2 DEF StepOver, OrphansFrom
  <2>2. CASE Begins(e)
    <3>1. u \in Have(e, TenantWide)
      BY <2>2 DEF Begins
    <3> QED
      BY <1>2, <1>3, <3>1 DEF BundleInv, Backed
  <2>3. CASE \/ <<TenantWide, Manifest>> \in store[e] \cup orphan[e]
             \/ job[e][TenantWide][Manifest] = "running"
    BY <1>3, <2>3 DEF BundleInv, ManifestAfter
  <2> QED
    BY <2>1, <2>2, <2>3
<1> QED
  BY <1>4, <1>5, <1>6, <1>7, <1>8 DEF BundleInv

\* It holds at the start.
LEMMA BundleInit == Init => BundleInv
<1> SUFFICES ASSUME Init PROVE BundleInv
  OBVIOUS
<1>1. \A e \in Exports, x \in Slots :
          /\ status[e].entry[x].done = {}
          /\ status[e].entry[x].phase = "Pending"
  BY DEF Init, NewStatus, NewEntry
<1>2. \A e \in Exports, x \in Slots, u \in AllUnits : job[e][x][u] = "none"
  BY DEF Init
<1>3. \A e \in Exports : /\ store[e] = {} /\ orphan[e] = {}
                         /\ listed[e] = {} /\ cleanup[e] = "none"
  BY DEF Init
<1>4. TenantWide \in Slots /\ Manifest \in AllUnits /\ Apps \subseteq Slots
  BY DEF Slots, AllUnits
<1> QED
  BY <1>1, <1>2, <1>3, <1>4 DEF BundleInv, Uncleaned, Backed, Counted,
     ListedThere, ManifestAfter, Have

LEMMA BundleAlways == Spec => []BundleInv
<1>1. TypeOK /\ BundleInv /\ [Next]_vars => BundleInv'
  BY BundleStep
<1> QED
  BY <1>1, BundleInit, TypeCorrect, PTL DEF Spec

\* completedUnits never claims an artefact the object store does not have,
\* whichever write is lost, whichever Job is collected, taken by another or
\* outlives its deletion: the record, not the Job, decides whether a unit is
\* captured again.
THEOREM RecordBacked == Spec => []RecordIsBacked
<1>1. TypeOK /\ BundleInv => RecordIsBacked
  <2> SUFFICES ASSUME TypeOK, BundleInv, NEW e \in Exports, NEW x \in Slots,
                      obj[e] = "live", NEW u \in status[e].entry[x].done
               PROVE  <<x, u>> \in store[e]
    BY DEF RecordIsBacked
  <2>1. u \in AllUnits
    <3>1. status[e].entry[x] \in Entries
      BY PartTypes
    <3> QED
      BY <3>1 DEF Entries
  <2> QED
    BY <2>1 DEF BundleInv, Backed, Have, Kept
<1> QED
  BY <1>1, BundleAlways, TypeCorrect, PTL

\* The manifest is written last, however often its Job is made, fails, is
\* collected or lives on after its deletion: where the object store has one,
\* everything it lists is there, and so is what is the tenant's own.
THEOREM ManifestIsLast == Spec => []ManifestLast
<1>1. TypeOK /\ BundleInv => ManifestLast
  <2> SUFFICES ASSUME TypeOK, BundleInv, NEW e \in Exports, obj[e] = "live",
                      <<TenantWide, Manifest>> \in store[e],
                      NEW x \in listed[e] \cup {TenantWide}, NEW u \in Units
               PROVE  <<x, u>> \in store[e]
    BY DEF ManifestLast
  <2>1. CASE x \in listed[e]
    <3>1. x \in Apps
      BY <2>1 DEF TypeOK
    <3> QED
      BY <2>1, <3>1 DEF BundleInv, ListedThere, Kept
  <2>2. CASE x = TenantWide
    BY <2>2 DEF BundleInv, ManifestAfter, Kept
  <2> QED
    BY <2>1, <2>2
<1> QED
  BY <1>1, BundleAlways, TypeCorrect, PTL

----------------------------------------------------------------------------
(* What a Ready export holds. *)

\* No app is installed while the tenant is exported.
NoInstall == "install" \notin Faults

\* The apps an export still has to capture, or has captured.
Due(e) == exportAppSet(e) \cup retainedSet(e)
AllReady(e) == \A a \in Due(e) : status[e].entry[a].phase = "Ready"

\* The first of some apps is one of them, and none comes before it.
LEMMA FirstIsIn ==
    ASSUME NEW S, S \subseteq Apps, S # {}
    PROVE  First(S) \in S /\ \A b \in S : AppRank[First(S)] <= AppRank[b]
<1> DEFINE T == {AppRank[a] : a \in S}
           R == OpToRel(<, Nat)
<1>1. T \subseteq Nat /\ T # {}
  BY OrderAssumption
<1>2. IsWellFoundedOn(R, Nat)
  BY NatLessThanWellFounded
<1>3. PICK m \in T : \A n \in T : <<n, m>> \notin R
  <2> HIDE DEF R, T
  <2> QED
    BY <1>1, <1>2, WFMin
<1>4. \A n \in T : ~(n < m)
  <2> HIDE DEF T
  <2> QED
    BY <1>1, <1>3 DEF OpToRel
<1> HIDE DEF R
<1>5. \E a \in S : \A b \in S : AppRank[a] <= AppRank[b]
  <2>1. PICK a \in S : AppRank[a] = m
    OBVIOUS
  <2>2. \A b \in S : AppRank[b] \in T
    OBVIOUS
  <2> HIDE DEF T
  <2>3. m \in Nat /\ \A b \in S : AppRank[b] \in Nat /\ ~(AppRank[b] < m)
    BY <1>1, <1>4, <2>2
  <2> QED
    BY <2>1, <2>3
<1> QED
  BY <1>5 DEF First

\* nextPendingApp passes over what is Ready, and only over that.
LEMMA TurnOfNobody ==
    ASSUME TypeOK, NEW e \in Exports
    PROVE  nextPendingApp(e) = NoApp <=> AllReady(e)
<1> DEFINE pending(S) == {a \in S : status[e].entry[a].phase # "Ready"}
<1>1. exportAppSet(e) \subseteq Apps /\ retainedSet(e) \subseteq Apps
  BY DEF exportAppSet, retainedSet, TypeOK
<1>2. \A S : S \subseteq Apps /\ pending(S) # {} => First(pending(S)) # NoApp
  <2> SUFFICES ASSUME NEW S, S \subseteq Apps, pending(S) # {}
               PROVE  First(pending(S)) # NoApp
    OBVIOUS
  <2>1. pending(S) \subseteq Apps
    OBVIOUS
  <2> HIDE DEF pending
  <2>2. First(pending(S)) \in Apps
    BY <2>1, FirstIsIn
  <2> QED
    BY <2>2, ConfigAssumption DEF NoApp
<1>3. AllReady(e) <=> pending(exportAppSet(e)) = {} /\ pending(retainedSet(e)) = {}
  BY DEF AllReady, Due
<1>4. nextPendingApp(e) =
          IF pending(exportAppSet(e)) # {} THEN First(pending(exportAppSet(e)))
          ELSE IF pending(retainedSet(e)) # {}
               THEN First(pending(retainedSet(e)))
               ELSE NoApp
  BY DEF nextPendingApp
<1> HIDE DEF pending
<1>5. CASE pending(exportAppSet(e)) # {}
  <2>1. nextPendingApp(e) = First(pending(exportAppSet(e)))
    BY <1>4, <1>5
  <2> QED
    BY <1>1, <1>2, <1>3, <1>5, <2>1
<1>6. CASE pending(exportAppSet(e)) = {} /\ pending(retainedSet(e)) # {}
  <2>1. nextPendingApp(e) = First(pending(retainedSet(e)))
    BY <1>4, <1>6
  <2> QED
    BY <1>1, <1>2, <1>3, <1>6, <2>1
<1>7. CASE pending(exportAppSet(e)) = {} /\ pending(retainedSet(e)) = {}
  BY <1>3, <1>4, <1>7
<1> QED
  BY <1>5, <1>6, <1>7

\* The manifest's Job has been made, and is not known to have failed.
Drawn(e) ==
    \/ Manifest \in status[e].entry[TenantWide].done
    \/ job[e][TenantWide][Manifest] \in {"running", "complete"}
\* From then on nothing is left to capture, and the manifest lists all that
\* was captured.
DrawnUp ==
    \A e \in Exports :
        Drawn(e) => AllReady(e) /\ buildManifest(e) \subseteq listed[e]
\* A Ready export has its manifest recorded.
ReadyHasIt ==
    \A e \in Exports :
        status[e].phase = "Ready" =>
            Manifest \in status[e].entry[TenantWide].done
ReadyInv == DrawnUp /\ ReadyHasIt

\* Without installs the apps of a tenant only go.
LEMMA AppsOnlyGo ==
    ASSUME NoInstall, TypeOK, [Next]_vars
    PROVE  installed' \cup retained' \subseteq installed \cup retained
<1>1. CASE \E c \in Exports, ok \in Writes : Reconcile(c, ok)
  BY <1>1, ReconcileFrom
<1>2. CASE \E c \in Exports : ReconcileQuietly(c)
  BY <1>2, QuietFrom
<1>3. CASE \E a \in Apps : AppChanges(a)
  BY <1>3 DEF AppChanges, NoInstall
<1>4. CASE Environment /\ ~\E a \in Apps : AppChanges(a)
  <2>1. ASSUME NEW c \in Exports,
               \/ CreateExport(c) \/ DeleteExport(c) \/ SourceLost(c)
               \/ CleanupEnds(c)
        PROVE  UNCHANGED <<installed, retained>>
    BY <2>1 DEF CreateExport, DeleteExport, SourceLost, CleanupEnds
  <2>2. ASSUME NEW c \in Exports, NEW x \in Slots, NEW u \in AllUnits,
               \/ JobCompletes(c, x, u) \/ JobFails(c, x, u)
               \/ JobCollected(c, x, u) \/ ForeignJob(c, x, u)
               \/ OrphanEnds(c, x, u)
        PROVE  UNCHANGED <<installed, retained>>
    BY <2>2 DEF JobCompletes, JobFails, JobCollected, ForeignJob, OrphanEnds,
                Others
  <2>3. ASSUME TearDown PROVE UNCHANGED <<installed, retained>>
    BY <2>3 DEF TearDown
  <2>4. UNCHANGED <<installed, retained>>
    BY <1>4, <2>1, <2>2, <2>3 DEF Environment
  <2> QED
    BY <2>4
<1>5. CASE UNCHANGED vars
  BY <1>5 DEF vars
<1> QED
  BY <1>1, <1>2, <1>3, <1>4, <1>5 DEF Next

\* Every step keeps it so.
LEMMA ReadyStep ==
    ASSUME NoInstall, TypeOK, ReadyInv, [Next]_vars
    PROVE  ReadyInv'
<1>1. \A e \in Exports : StepOver(e)
  BY NextOver
<1>2. TenantWide \in Slots /\ Manifest \in AllUnits /\ Apps \subseteq Slots
      /\ TenantWide \notin Apps
  BY ConfigAssumption DEF Slots, AllUnits
<1>3. ASSUME NEW e \in Exports, Drawn(e)'
      PROVE  AllReady(e)' /\ buildManifest(e)' \subseteq listed'[e]
  <2>1. Drawn(e) \/ Begins(e)
    <3>1. CASE Manifest \in status'[e].entry[TenantWide].done
      <4>1. Manifest \in Have(e, TenantWide)
        BY <1>1, <1>2, <3>1 DEF StepOver, StatusFrom, Grown
      <4> QED
        BY <4>1 DEF Have, Drawn
    <3>2. CASE job'[e][TenantWide][Manifest] \in {"running", "complete"}
      BY <1>1, <1>2, <3>2 DEF StepOver, Drawn
    <3> QED
      BY <1>3, <3>1, <3>2 DEF Drawn
  <2>2. AllReady(e)
    BY <2>1, TurnOfNobody DEF Begins, Turn, ReadyInv, DrawnUp
  <2>3. nextPendingApp(e) = NoApp
    BY <2>2, TurnOfNobody
  <2>4. \A a \in Apps : status'[e].entry[a] = status[e].entry[a]
    BY <1>1, <1>2, <2>3 DEF StepOver, StatusFrom, Turn, NoApp
  <2>5. buildManifest(e)' = buildManifest(e)
    BY <2>4 DEF buildManifest
  <2>6. buildManifest(e) \subseteq listed'[e]
    BY <1>1, <2>1 DEF StepOver, Begins, ReadyInv, DrawnUp
  <2>7. AllReady(e)'
    <3>1. installed' \cup retained' \subseteq installed \cup retained
      BY AppsOnlyGo
    <3>2. Due(e)' \subseteq Due(e)
      <4> SUFFICES ASSUME NEW a \in Due(e)' PROVE a \in Due(e)
        OBVIOUS
      <4>1. \/ a \in installed' \cup retained' /\ Asked(e, a)
            \/ a \in Apps /\ status'[e].entry[a].retained
        BY DEF Due, exportAppSet, retainedSet, Asked
      <4>2. \/ a \in installed \cup retained /\ Asked(e, a)
            \/ a \in Apps /\ status[e].entry[a].retained
        BY <2>4, <3>1, <4>1
      <4> QED
        BY <4>2 DEF Due, exportAppSet, retainedSet
    <3>3. Due(e) \subseteq Apps
      BY DEF Due, exportAppSet, retainedSet, TypeOK
    <3> QED
      BY <2>2, <2>4, <3>2, <3>3 DEF AllReady
  <2> QED
    BY <2>5, <2>6, <2>7
<1>4. DrawnUp'
  BY <1>3 DEF DrawnUp
<1>5. ReadyHasIt'
  <2> SUFFICES ASSUME NEW e \in Exports, status'[e].phase = "Ready"
               PROVE  Manifest \in status'[e].entry[TenantWide].done
    BY DEF ReadyHasIt
  <2>1. status[e].entry[TenantWide].done
            \subseteq status'[e].entry[TenantWide].done
    BY <1>1, <1>2 DEF StepOver, StatusFrom, Grown
  <2> QED
    BY <1>1, <2>1 DEF StepOver, StatusFrom, ReadyInv, ReadyHasIt
<1> QED
  BY <1>4, <1>5 DEF ReadyInv

\* It holds throughout.
LEMMA ReadyAlways ==
    ASSUME NoInstall
    PROVE  Spec => []ReadyInv
<1>1. Init => ReadyInv
  <2> SUFFICES ASSUME Init PROVE ReadyInv
    OBVIOUS
  <2>1. \A e \in Exports :
            /\ status[e].phase = ""
            /\ status[e].entry[TenantWide].done = {}
    BY DEF Init, NewStatus, NewEntry, Slots
  <2>2. \A e \in Exports : job[e][TenantWide][Manifest] = "none"
    BY DEF Init, Slots, AllUnits
  <2> QED
    BY <2>1, <2>2 DEF ReadyInv, DrawnUp, ReadyHasIt, Drawn
<1>2. TypeOK /\ ReadyInv /\ [Next]_vars => ReadyInv'
  BY ReadyStep
<1> QED
  BY <1>1, <1>2, TypeCorrect, PTL DEF Spec

\* Ready means complete: the bundle of a Ready export has its manifest, and
\* the manifest lists every app the export captured, as long as no app is
\* installed meanwhile (one installed after the manifest's Job was made is
\* captured and not listed).
THEOREM ReadyComplete ==
    ASSUME NoInstall
    PROVE  Spec => []ReadyIsComplete
<1>1. BundleInv /\ ReadyInv => ReadyIsComplete
  <2> SUFFICES ASSUME BundleInv, ReadyInv, NEW e \in Exports,
                      status[e].phase = "Ready", obj[e] = "live"
               PROVE  /\ <<TenantWide, Manifest>> \in store[e]
                      /\ \A a \in Apps : status[e].entry[a].phase = "Ready"
                                             => a \in listed[e]
    BY DEF ReadyIsComplete
  <2>1. Manifest \in status[e].entry[TenantWide].done
    BY DEF ReadyInv, ReadyHasIt
  <2>2. <<TenantWide, Manifest>> \in store[e]
    BY <2>1 DEF BundleInv, Backed, Have, Kept, Slots, AllUnits
  <2>3. buildManifest(e) \subseteq listed[e]
    BY <2>1 DEF ReadyInv, DrawnUp, Drawn
  <2> QED
    BY <2>2, <2>3 DEF buildManifest
<1> QED
  BY <1>1, BundleAlways, ReadyAlways, PTL

\* retainedSet keeps what the export has begun: the data of an uninstalled
\* app that the export began to capture is listed by the manifest of the
\* Ready export, even when it was destroyed meanwhile.
THEOREM BegunCaptured ==
    ASSUME NoInstall
    PROVE  Spec => []BegunIsCaptured
<1>1. ReadyInv => BegunIsCaptured
  <2> SUFFICES ASSUME ReadyInv, NEW e \in Exports, NEW a \in Apps,
                      status[e].phase = "Ready", status[e].entry[a].retained
               PROVE  a \in listed[e]
    BY DEF BegunIsCaptured
  <2>1. AllReady(e) /\ buildManifest(e) \subseteq listed[e]
    BY DEF ReadyInv, ReadyHasIt, DrawnUp, Drawn
  <2>2. a \in Due(e)
    BY DEF Due, retainedSet
  <2> QED
    BY <2>1, <2>2 DEF AllReady, buildManifest
<1> QED
  BY <1>1, ReadyAlways, PTL

----------------------------------------------------------------------------
(* A deleted export takes its bundle with it. *)

\* Deleting a Job stops its upload, and the cleanup succeeds.
CleanDeletes == {"orphan", "cleanup"} \cap Faults = {}

NoneRuns(e) == \A x \in Slots, u \in AllUnits : job[e][x][u] # "running"

\* No upload outlives its Job, and no cleanup has failed.
NothingLeft ==
    \A e \in Exports :
        orphan[e] = {} /\ cleanup[e] \in {"none", "running", "complete"}
\* There is no bundle before there is a finalizer.
FinalizerFirst ==
    \A e \in Exports : Kept(e) /\ e \notin finalizer => ~status[e].bundle
\* The cleanup begins when every Job is gone, and none comes back.
CleanupLast ==
    \A e \in Exports :
        /\ cleanup[e] # "none" => ~Kept(e) /\ NoneRuns(e)
        /\ cleanup[e] = "complete" => store[e] = {}
\* DeletedBundleIsGone, and nothing is left that could add to the bundle.
GoneForGood ==
    \A e \in Exports :
        obj[e] = "gone" /\ status[e].bundle /\ tenant = "present" =>
            store[e] = {} /\ NoneRuns(e)
GoneInv == NothingLeft /\ FinalizerFirst /\ CleanupLast /\ GoneForGood

\* The ways an object, its finalizer and its cleanup change.
LifeStep(e) ==
    \/ /\ obj'[e] = obj[e] /\ cleanup'[e] = cleanup[e]
       /\ e \in finalizer => e \in finalizer'
    \/ /\ CreateExport(e) /\ obj'[e] = "live" /\ cleanup'[e] = cleanup[e]
       /\ e \in finalizer => e \in finalizer'
    \/ /\ DeleteExport(e) /\ UNCHANGED <<cleanup, finalizer, status>>
    \/ Finalize(e)
    \/ CleanupEnds(e)
\* A tenant begins to go, and there is no way back.
Tenancy == tenant' = tenant \/ (tenant = "present" /\ tenant' = "terminating")

LEMMA LifeCases ==
    ASSUME TypeOK, [Next]_vars, NEW e \in Exports
    PROVE  LifeStep(e) /\ Tenancy
<1> DEFINE Goal == LifeStep(e) /\ Tenancy
<1>1. ASSUME UNCHANGED <<obj, cleanup, finalizer, tenant>> PROVE Goal
  BY <1>1 DEF LifeStep, Tenancy
<1>2. ASSUME NEW c \in Exports, NEW ok, Reconcile(c, ok)
      PROVE  Goal
  BY <1>1, <1>2, ReconcileFrom
<1>3. ASSUME NEW c \in Exports, ReconcileQuietly(c) PROVE Goal
  <2>1. CASE AddFinalizer(c)
    BY <2>1 DEF AddFinalizer, LifeStep, Tenancy
  <2>2. CASE TidyEnded(c)
    BY <1>1, <2>2 DEF TidyEnded
  <2>3. CASE Finalize(c)
    <3>1. CASE e = c
      BY <2>3, <3>1 DEF LifeStep, Tenancy, Finalize
    <3>2. CASE e # c
      BY <2>3, <3>2 DEF LifeStep, Tenancy, Finalize, TypeOK
    <3> QED
      BY <3>1, <3>2
  <2> QED
    BY <1>3, <2>1, <2>2, <2>3 DEF ReconcileQuietly
<1>4. ASSUME Environment PROVE Goal
  <2>1. ASSUME NEW c \in Exports, CreateExport(c) PROVE Goal
    <3>1. /\ obj' = [obj EXCEPT ![c] = "live"]
          /\ UNCHANGED <<cleanup, finalizer, tenant>>
      BY <2>1 DEF CreateExport
    <3> QED
      BY <2>1, <3>1 DEF LifeStep, Tenancy, TypeOK
  <2>2. ASSUME NEW c \in Exports, DeleteExport(c) PROVE Goal
    <3>1. UNCHANGED <<cleanup, finalizer, tenant, status>>
      BY <2>2 DEF DeleteExport
    <3>2. e # c => obj'[e] = obj[e]
      BY <2>2 DEF DeleteExport, TypeOK
    <3> QED
      BY <2>2, <3>1, <3>2 DEF LifeStep, Tenancy
  <2>3. ASSUME NEW c \in Exports, CleanupEnds(c) PROVE Goal
    <3>1. UNCHANGED <<obj, finalizer, tenant>>
          /\ (e # c => cleanup'[e] = cleanup[e])
      BY <2>3 DEF CleanupEnds, TypeOK
    <3> QED
      BY <2>3, <3>1 DEF LifeStep, Tenancy
  <2>4. ASSUME NEW c \in Exports, SourceLost(c)
        PROVE  UNCHANGED <<obj, cleanup, finalizer, tenant>>
    BY <2>4 DEF SourceLost
  <2>5. ASSUME NEW c \in Exports, NEW x \in Slots, NEW u \in AllUnits,
               \/ JobCompletes(c, x, u) \/ JobFails(c, x, u)
               \/ JobCollected(c, x, u) \/ ForeignJob(c, x, u)
               \/ OrphanEnds(c, x, u)
        PROVE  UNCHANGED <<obj, cleanup, finalizer, tenant>>
    BY <2>5 DEF JobCompletes, JobFails, JobCollected, ForeignJob, OrphanEnds,
                Others
  <2>6. ASSUME NEW a \in Apps, AppChanges(a)
        PROVE  UNCHANGED <<obj, cleanup, finalizer, tenant>>
    BY <2>6 DEF AppChanges
  <2>7. ASSUME TearDown PROVE Goal
    BY <2>7 DEF TearDown, LifeStep, Tenancy
  <2> HIDE DEF Goal
  <2> QED
    BY <1>1, <1>4, <2>1, <2>2, <2>3, <2>4, <2>5, <2>6, <2>7 DEF Environment
<1>5. ASSUME UNCHANGED vars
      PROVE  UNCHANGED <<obj, cleanup, finalizer, tenant>>
  BY <1>5 DEF vars
<1> HIDE DEF Goal
<1>6. Goal
  BY <1>1, <1>2, <1>3, <1>4, <1>5 DEF Next
<1> QED
  BY <1>6 DEF Goal

\* What Finalize does to its own export.
LEMMA FinalizeFields ==
    ASSUME TypeOK, NEW e \in Exports, Finalize(e)
    PROVE  /\ obj[e] = "deleting" /\ obj'[e] \in {"deleting", "gone"}
           /\ status' = status /\ store' = store /\ tenant' = tenant
           /\ NoneRuns(e)'
           /\ cleanup'[e] \in {cleanup[e], "none", "running"}
           /\ obj'[e] = "gone" => \/ tenantTeardown \/ ~status[e].bundle
                                  \/ cleanup[e] \in Ended
<1>1. /\ obj[e] = "deleting"
      /\ UNCHANGED <<status, store, tenant>>
      /\ obj' \in {obj, [obj EXCEPT ![e] = "gone"]}
      /\ obj' # obj => \/ tenantTeardown \/ ~status[e].bundle
                       \/ cleanup[e] \in Ended
  BY DEF Finalize
<1>2. job'[e] = deleteExportJobs(job[e])
  BY DEF Finalize, TypeOK
<1>3. NoneRuns(e)'
  BY <1>2 DEF NoneRuns, deleteExportJobs
<1>4. cleanup'[e] \in {cleanup[e], "none", "running"}
  BY DEF Finalize, ensureBundleDeleted, TypeOK
<1>5. obj'[e] \in {"deleting", "gone"} /\ (obj'[e] = "gone" => obj' # obj)
  BY <1>1 DEF TypeOK
<1> QED
  BY <1>1, <1>3, <1>4, <1>5

\* Every step keeps it so.
LEMMA GoneStep ==
    ASSUME CleanDeletes, TypeOK, GoneInv, [Next]_vars
    PROVE  GoneInv'
<1>1. \A e \in Exports : StepOver(e)
  BY NextOver
<1>2. \A e \in Exports : LifeStep(e) /\ Tenancy
  BY LifeCases
<1>3. store' \in [Exports -> SUBSET (Slots \X AllUnits)]
  BY NextTypes DEF TypeOK
<1>4. \A e \in Exports, x \in Slots : Turn(e, x) => Kept(e) /\ e \in finalizer
  BY DEF Turn, Captures, Holds, Running, Kept
<1>5. \A e \in Exports : ~Kept(e) /\ NoneRuns(e) => NoneRuns(e)'
  BY <1>1, <1>4 DEF StepOver, NoneRuns
<1>6. \A e \in Exports :
          ~Kept(e) /\ NoneRuns(e) /\ store[e] = {} => store'[e] = {}
  <2> SUFFICES ASSUME NEW e \in Exports, NoneRuns(e), store[e] = {},
                      store'[e] # {}
               PROVE  FALSE
    OBVIOUS
  <2>1. PICK p \in store'[e] : TRUE
    OBVIOUS
  <2>2. PICK x \in Slots, u \in AllUnits : p = <<x, u>>
    BY <1>3, <2>1
  <2>3. orphan[e] = {}
    BY DEF GoneInv, NothingLeft
  <2> QED
    BY <1>1, <2>1, <2>2, <2>3 DEF StepOver, NoneRuns
<1>7. \A e \in Exports : /\ CleanupEnds(e) => /\ cleanup[e] = "running"
                                              /\ cleanup'[e] = "complete"
                                              /\ store'[e] = {}
                                              /\ obj' = obj
                                              /\ finalizer' = finalizer
  BY DEF CleanupEnds, CleanDeletes, TypeOK
<1>8. NothingLeft'
  <2> SUFFICES ASSUME NEW e \in Exports
               PROVE  /\ orphan'[e] = {}
                      /\ cleanup'[e] \in {"none", "running", "complete"}
    BY DEF NothingLeft
  <2>1. orphan'[e] = {}
    BY <1>1 DEF StepOver, OrphansFrom, GoneInv, NothingLeft, CleanDeletes
  <2>2. cleanup'[e] \in {"none", "running", "complete"}
    BY <1>2, <1>7, FinalizeFields DEF LifeStep, GoneInv, NothingLeft
  <2> QED
    BY <2>1, <2>2
<1>9. FinalizerFirst'
  <2> SUFFICES ASSUME NEW e \in Exports, Kept(e)', e \notin finalizer'
               PROVE  ~status'[e].bundle
    BY DEF FinalizerFirst
  <2>1. Kept(e)
    BY LifeSteps
  <2>2. e \notin finalizer
    BY <1>2, <1>7, <2>1, FinalizeFields DEF LifeStep, Kept
  <2> QED
    BY <1>1, <2>1, <2>2 DEF StepOver, StatusFrom, Running, GoneInv,
                            FinalizerFirst
<1>10. CleanupLast'
  <2> SUFFICES ASSUME NEW e \in Exports, cleanup'[e] # "none"
               PROVE  /\ ~Kept(e)' /\ NoneRuns(e)'
                      /\ cleanup'[e] = "complete" => store'[e] = {}
    BY DEF CleanupLast
  <2>1. CASE Finalize(e)
    BY <2>1, FinalizeFields DEF Kept, GoneInv, CleanupLast
  <2>2. CASE ~Finalize(e)
    <3>1. cleanup[e] # "none"
      BY <1>2, <1>7, <2>2 DEF LifeStep
    <3>2. ~Kept(e) /\ NoneRuns(e)
      BY <3>1 DEF GoneInv, CleanupLast
    <3>3. ~Kept(e)' /\ NoneRuns(e)'
      BY <1>5, <3>2, LifeSteps
    <3>4. cleanup'[e] = "complete" => store'[e] = {}
      BY <1>2, <1>6, <1>7, <2>2, <3>2 DEF LifeStep, GoneInv, CleanupLast
    <3> QED
      BY <3>3, <3>4
  <2> QED
    BY <2>1, <2>2
<1>11. GoneForGood'
  <2> SUFFICES ASSUME NEW e \in Exports, obj'[e] = "gone",
                      status'[e].bundle, tenant' = "present"
               PROVE  store'[e] = {} /\ NoneRuns(e)'
    BY DEF GoneForGood
  <2>1. tenant = "present" /\ ~tenantTeardown
    BY <1>2 DEF tenantTeardown, Tenancy
  <2>2. CASE obj[e] = "gone"
    <3>1. status[e].bundle
      BY <1>1, <2>2 DEF StepOver, StatusFrom, Running
    <3>2. store[e] = {} /\ NoneRuns(e) /\ ~Kept(e)
      BY <2>1, <2>2, <3>1 DEF GoneInv, GoneForGood, Kept
    <3> QED
      BY <1>5, <1>6, <3>2
  <2>3. CASE Finalize(e)
    <3>1. cleanup[e] = "complete"
      BY <2>1, <2>3, FinalizeFields DEF Ended, GoneInv, NothingLeft
    <3> QED
      BY <2>3, <3>1, FinalizeFields DEF GoneInv, CleanupLast
  <2>4. CASE DeleteExport(e) /\ UNCHANGED status
    <3>1. obj[e] = "live" /\ e \notin finalizer
      BY <2>4 DEF DeleteExport, TypeOK
    <3> QED
      BY <2>4, <3>1 DEF GoneInv, FinalizerFirst, Kept
  <2> QED
    BY <1>2, <1>7, <2>2, <2>3, <2>4 DEF LifeStep
<1> QED
  BY <1>8, <1>9, <1>10, <1>11 DEF GoneInv

\* The finalizer holds an export until its bundle is gone from the object
\* store and nothing is left that could add to it, when deleting a Job stops
\* its upload and the cleanup succeeds (a failed cleanup releases the export
\* too, and an upload that lives on writes to what was cleaned up).
THEOREM DeletedIsGone ==
    ASSUME CleanDeletes
    PROVE  Spec => []DeletedBundleIsGone
<1>1. Init => GoneInv
  <2> SUFFICES ASSUME Init PROVE GoneInv
    OBVIOUS
  <2>1. \A e \in Exports : ~status[e].bundle
    BY DEF Init, NewStatus
  <2>2. \A e \in Exports : orphan[e] = {} /\ cleanup[e] = "none"
    BY DEF Init
  <2> QED
    BY <2>1, <2>2 DEF GoneInv, NothingLeft, FinalizerFirst, CleanupLast,
                      GoneForGood
<1>2. TypeOK /\ GoneInv /\ [Next]_vars => GoneInv'
  BY GoneStep
<1>3. TypeOK /\ GoneInv => DeletedBundleIsGone
  BY DEF GoneInv, GoneForGood, DeletedBundleIsGone, tenantTeardown
<1> QED
  BY <1>1, <1>2, <1>3, TypeCorrect, PTL DEF Spec

----------------------------------------------------------------------------
(* A backup outlives its tenant. *)

\* The manifest is there and nobody is about to clean it up.
Safe(e) ==
    /\ tenant = "terminating" /\ cleanup[e] = "none"
    /\ <<TenantWide, Manifest>> \in store[e]

\* No step of a tenant on its way out changes that.
LEMMA SafeStays ==
    ASSUME NEW e \in Exports, TypeOK, Safe(e), [Next]_vars
    PROVE  Safe(e)'
<1>1. LifeStep(e) /\ tenant' = "terminating"
  BY LifeCases DEF Safe, Tenancy
<1>2. cleanup'[e] = "none"
  <2>1. CASE Finalize(e)
    BY <2>1 DEF Finalize, tenantTeardown, Safe, TypeOK
  <2>2. CASE ~Finalize(e)
    BY <1>1, <2>2 DEF LifeStep, CleanupEnds, Safe
  <2> QED
    BY <2>1, <2>2
<1>3. store[e] \subseteq store'[e]
  BY NextOver DEF StepOver, Safe
<1> QED
  BY <1>1, <1>2, <1>3 DEF Safe

\* Once a tenant is going, no step takes the manifest away from the bundle of
\* an export that nobody had deleted before, whether its object goes with the
\* namespace or not: finalize keeps the bundle, and the Jobs and uploads that
\* still run only add to it.
THEOREM BackupOutlives == Spec => BackupOutlivesTenant
<1>1. ASSUME NEW e \in Exports
      PROVE  Spec => [](/\ tenant = "terminating" /\ obj[e] = "live"
                        /\ <<TenantWide, Manifest>> \in store[e]
                        => [](<<TenantWide, Manifest>> \in store[e]))
  <2>1. TypeOK /\ Safe(e) /\ [Next]_vars => Safe(e)'
    BY SafeStays
  <2>2. BundleInv /\ tenant = "terminating" /\ obj[e] = "live"
        /\ <<TenantWide, Manifest>> \in store[e] => Safe(e)
    BY DEF BundleInv, Uncleaned, Kept, Safe
  <2>3. Safe(e) => <<TenantWide, Manifest>> \in store[e]
    BY DEF Safe
  <2> QED
    BY <2>1, <2>2, <2>3, TypeCorrect, BundleAlways, PTL DEF Spec
<1> QED
  BY <1>1 DEF BackupOutlivesTenant
----------------------------------------------------------------------------
(* Apps are captured under their pause, and come back. *)

\* What the pause depends on.  Exports are told apart by their stamps, status
\* writes land, commands are answered for what they did, and nobody takes the
\* requester's Secret or installs an app meanwhile.  Every other fault may
\* happen: commands that fail, Jobs, deletions, uninstalls, the teardown.
Undisturbed ==
    /\ DistinctStamps
    /\ Faults \cap {"lost", "lateHook", "resumeHook", "source", "install"} = {}

\* An export that says it paused something holds the tenant, and will be
\* called again.
Marked ==
    \A e \in Exports :
        status[e].quiesced # {} =>
            /\ Exists(e) /\ e \in finalizer
            /\ status[e].bundle /\ tenant # "gone"
\* A requester's Secret is there as long as the export may need it.
AtHand ==
    \A e \in Exports :
        obj[e] = "live" /\ ~IsTerminal(status[e]) => SecretAtHand(e)
\* No app is installed and uninstalled.
NotBoth ==
    \A a \in installed :
        a \notin retained /\ \A e \in Exports : ~status[e].entry[a].retained

\* It is the turn of a, as long as it is not Ready, and stays so.
Turned(e, a) ==
    /\ Asked(e, a)
    /\ \A b \in installed :
           Asked(e, b) /\ status[e].entry[b].phase # "Ready" =>
               AppRank[a] <= AppRank[b]
\* The workload w of a is one that a resume which goes by the mode brings
\* back.
Runs(a, w) == w.replicas = Replicas[a] /\ ~w.maint
PausedAs(a, w, mode) ==
    \/ mode = "none" /\ Runs(a, w)
    \/ mode = "command" /\ w.replicas = Replicas[a]
    \/ mode = "scaleDown" /\ ~w.maint
\* What it means that e says it paused a.
Pausing(e, a) ==
    /\ ~IsTerminal(status[e])
    /\ status[e].entry[a].started /\ status[e].entry[a].phase = "Running"
    /\ Turned(e, a)
    /\ PausedAs(a, work[a], status[e].entry[a].mode)
    /\ \/ Units \subseteq status[e].entry[a].done
       \/ QuiesceMode[a] = "none"
       \/ Frozen(work[a])
\* What e has begun with a it says, and its Jobs are of what is not done.
Open(e) == Kept(e) /\ ~IsTerminal(status[e])
Begun(e, a) ==
    Open(e) =>
        /\ status[e].entry[a].started /\ status[e].entry[a].phase # "Ready" =>
               a \in status[e].quiesced
        /\ \A u \in Units :
               job[e][a][u] = "running" =>
                   a \in status[e].quiesced /\ u \notin status[e].entry[a].done
SaidIsSo ==
    \A e \in Exports, a \in installed :
        (a \in status[e].quiesced => Pausing(e, a)) /\ Begun(e, a)
DownIsSaid ==
    \A a \in installed : ~Up(a) => \E e \in Exports : a \in status[e].quiesced
PauseInv == Marked /\ AtHand /\ NotBoth /\ SaidIsSo /\ DownIsSaid

\* What a pause, and a resume, do to a workload.
LEMMA PauseWork ==
    ASSUME Undisturbed, NEW a \in Apps, NEW w \in Works, Runs(a, w),
           NEW hook \in PreHook(w)
    PROVE  /\ PausedAs(a, quiesceApp(a, w, hook), quiesceMode(a, hook))
           /\ QuiesceMode[a] = "none" \/ Frozen(quiesceApp(a, w, hook))
<1> DEFINE in == QuiesceMode[a] = "command" /\ hook \in {"ok", "late"}
           v == [w EXCEPT !.maint = w.maint \/ in]
<1>1. w.replicas = Replicas[a] /\ w.maint = FALSE /\ hook \in {"ok", "error"}
  BY ConfigAssumption DEF Runs, PreHook, Undisturbed, Works
<1>2. QuiesceMode[a] \in Modes /\ Replicas[a] \in Nat
  BY ConfigAssumption
<1>3. PICK b \in BOOLEAN : b = in
  OBVIOUS
<1>4. v = [w EXCEPT !.maint = b]
  BY <1>1, <1>3
<1>5. v.replicas = w.replicas /\ v.maint = b
  BY <1>4 DEF Works
<1>6. CASE quiesceMode(a, hook) = "scaleDown"
  <2>1. b = FALSE
    BY <1>1, <1>3, <1>6 DEF quiesceMode
  <2>2. quiesceApp(a, w, hook) = ScaleToZero(v)
    BY <1>6 DEF quiesceApp
  <2>3. v \in Works
    BY <1>4 DEF Works
  <2> HIDE DEF v
  <2>4. ScaleToZero(v).replicas = 0 /\ ScaleToZero(v).maint = v.maint
    BY <2>3 DEF ScaleToZero, Works
  <2> QED
    BY <1>5, <1>6, <2>1, <2>2, <2>4 DEF PausedAs, Frozen
<1>7. CASE quiesceMode(a, hook) # "scaleDown"
  <2>1. quiesceApp(a, w, hook) = v
    BY <1>7 DEF quiesceApp
  <2>2. CASE QuiesceMode[a] = "none"
    <3>1. b = FALSE
      BY <1>3, <2>2
    <3>2. quiesceMode(a, hook) = "none"
      BY <2>2 DEF quiesceMode
    <3> HIDE DEF v
    <3> QED
      BY <1>1, <1>5, <2>1, <2>2, <3>1, <3>2 DEF PausedAs, Runs
  <2>3. CASE QuiesceMode[a] # "none"
    <3>1. quiesceMode(a, hook) = "command" /\ b = TRUE
      BY <1>2, <1>3, <1>7, <2>3 DEF quiesceMode, Modes
    <3> HIDE DEF v
    <3> QED
      BY <1>1, <1>5, <2>1, <3>1 DEF PausedAs, Frozen
  <2> QED
    BY <2>2, <2>3
<1> QED
  BY <1>6, <1>7

LEMMA ResumeWork ==
    ASSUME Undisturbed, NEW a \in Apps, NEW w \in Works, MemoOf(a, w),
           NEW mode, Runs(a, w) \/ PausedAs(a, w, mode),
           NEW hook \in PostHook(w)
    PROVE  Runs(a, unquiesceApp(w, mode, hook))
<1>1. Replicas[a] \in Nat /\ Replicas[a] > 0
  BY ConfigAssumption
<1>2. CASE mode = "command" /\ hook = "ok"
  <2>1. unquiesceApp(w, mode, hook) = [w EXCEPT !.maint = FALSE]
    BY <1>2 DEF unquiesceApp
  <2> QED
    BY <1>2, <2>1 DEF Runs, PausedAs, Works
<1>3. CASE ~(mode = "command" /\ hook = "ok")
  <2>1. unquiesceApp(w, mode, hook) = ScaleBack(w)
    BY <1>3 DEF unquiesceApp
  <2>2. ~w.maint
    BY <1>1, <1>3 DEF PausedAs, Runs, PostHook, Undisturbed
  <2>3. CASE w.memo = NoMemo
    BY <2>1, <2>2, <2>3 DEF ScaleBack, MemoOf, Runs
  <2>4. CASE w.memo # NoMemo
    <3>1. ScaleBack(w) = [w EXCEPT !.replicas = w.memo, !.memo = NoMemo]
      BY <2>4 DEF ScaleBack
    <3> QED
      BY <2>1, <2>2, <2>4, <3>1 DEF MemoOf, Runs, Works
  <2> QED
    BY <2>3, <2>4
<1> QED
  BY <1>2, <1>3

\* Whose turn it is: of an installed app, the first that is not Ready.
LEMMA TurnIsPending ==
    ASSUME TypeOK, NEW e \in Exports, NEW a \in Apps, nextPendingApp(e) = a
    PROVE  /\ status[e].entry[a].phase # "Ready"
           /\ a \notin retainedSet(e) => a \in installed /\ Turned(e, a)
<1> DEFINE pending(S) == {b \in S : status[e].entry[b].phase # "Ready"}
<1>1. exportAppSet(e) \subseteq Apps /\ retainedSet(e) \subseteq Apps
      /\ NoApp \notin Apps
  BY ConfigAssumption DEF exportAppSet, retainedSet, TypeOK, NoApp
<1>2. \A S : pending(S) \subseteq S
  OBVIOUS
<1>3. \/ pending(exportAppSet(e)) # {} /\ a = First(pending(exportAppSet(e)))
      \/ pending(retainedSet(e)) # {} /\ a = First(pending(retainedSet(e)))
  BY <1>1 DEF nextPendingApp
<1>4. \A b \in Apps : \A S : b \in pending(S) =>
          b \in S /\ status[e].entry[b].phase # "Ready"
  OBVIOUS
<1>5. \A b \in exportAppSet(e) : status[e].entry[b].phase # "Ready" =>
          b \in pending(exportAppSet(e))
  OBVIOUS
<1> HIDE DEF pending
<1>6. CASE pending(exportAppSet(e)) # {} /\ a = First(pending(exportAppSet(e)))
  <2>1. /\ a \in pending(exportAppSet(e))
        /\ \A b \in pending(exportAppSet(e)) : AppRank[a] <= AppRank[b]
    BY <1>1, <1>2, <1>6, FirstIsIn
  <2> QED
    BY <1>4, <1>5, <2>1 DEF exportAppSet, Turned
<1>7. CASE pending(retainedSet(e)) # {} /\ a = First(pending(retainedSet(e)))
  <2>1. a \in pending(retainedSet(e))
    BY <1>1, <1>2, <1>7, FirstIsIn
  <2> QED
    BY <1>4, <2>1
<1> QED
  BY <1>3, <1>6, <1>7

LEMMA TurnedIsNext ==
    ASSUME TypeOK, NEW e \in Exports, NEW a \in installed, Turned(e, a),
           status[e].entry[a].phase # "Ready"
    PROVE  nextPendingApp(e) = a
<1> DEFINE P == {b \in exportAppSet(e) : status[e].entry[b].phase # "Ready"}
<1>1. P \subseteq Apps /\ a \in P /\ a \in Apps
  BY DEF exportAppSet, Turned, TypeOK
<1>2. nextPendingApp(e) = First(P)
  BY <1>1 DEF nextPendingApp
<1>3. \A b \in P : AppRank[a] <= AppRank[b]
  BY DEF exportAppSet, Turned
<1> HIDE DEF P
<1>4. First(P) \in P /\ AppRank[First(P)] <= AppRank[a]
  BY <1>1, FirstIsIn
<1>5. AppRank[First(P)] = AppRank[a] /\ First(P) \in Apps
  BY <1>1, <1>3, <1>4, OrderAssumption
<1> QED
  BY <1>1, <1>2, <1>5, OrderAssumption

----------------------------------------------------------------------------
(* What a pass over c does to an app a, as far as the pause is concerned. *)

LeftAlone(c, a) ==
    /\ work'[a] = work[a]
    /\ status'[c].entry[a] = status[c].entry[a]
    /\ a \in status'[c].quiesced <=> a \in status[c].quiesced
    /\ \A u \in Units :
           job'[c][a][u] = "running" => job[c][a][u] = "running"
    /\ IsTerminal(status'[c]) =>
           IsTerminal(status[c]) \/ a \notin status[c].quiesced

Pauses(c, a) ==
    /\ Turn(c, a) /\ ~status[c].entry[a].started
    /\ \E hook \in PreHook(work[a]) :
           /\ work'[a] = quiesceApp(a, work[a], hook)
           /\ status'[c].entry[a].mode = quiesceMode(a, hook)
    /\ status'[c].entry[a].started /\ status'[c].entry[a].phase = "Running"
    /\ status'[c].entry[a].retained = status[c].entry[a].retained
    /\ status'[c].phase = status[c].phase
    /\ a \in status'[c].quiesced
    /\ job'[c] = job[c]

Waits(c, a) ==
    /\ Turn(c, a) /\ work'[a] = work[a]
    /\ status[c].entry[a].started /\ status'[c].entry[a].started
    /\ status'[c].entry[a].mode = status[c].entry[a].mode
    /\ status'[c].entry[a].phase = status[c].entry[a].phase
    /\ status'[c].entry[a].retained = status[c].entry[a].retained
    /\ status[c].entry[a].done \subseteq status'[c].entry[a].done
    /\ \A u \in Units : job'[c][a][u] = "running" =>
           \/ u \notin status'[c].entry[a].done
           \/ u \in status[c].entry[a].done /\ job[c][a][u] = "running"
    /\ status'[c].quiesced = status[c].quiesced
    /\ status'[c].phase = status[c].phase

\* Resumed for good, or resumed with its secrets still to be put aside.
Over(c, a) ==
    /\ a \notin status'[c].quiesced
    /\ IsTerminal(status'[c]) \/ ~Kept(c)
Through(c, a) ==
    /\ status[c].entry[a].started /\ status'[c].entry[a].started
    /\ status'[c].entry[a].mode = status[c].entry[a].mode
    /\ Units \subseteq status'[c].entry[a].done
    /\ \A u \in Units : job'[c][a][u] = "running" =>
           u \in status[c].entry[a].done /\ job[c][a][u] = "running"
    /\ status'[c].phase = status[c].phase
    /\ \/ /\ a \notin status'[c].quiesced
          /\ status'[c].entry[a].phase = "Ready"
       \/ /\ status'[c].quiesced = status[c].quiesced
          /\ status'[c].entry[a].phase = "Running"
ComesBack(c, a) ==
    /\ Turn(c, a) \/ a \in status[c].quiesced
    /\ \E hook \in PostHook(work[a]) :
           work'[a] = unquiesceApp(work[a], status[c].entry[a].mode, hook)
    /\ status'[c].entry[a].retained = status[c].entry[a].retained
    /\ Over(c, a) \/ Through(c, a)

AppView(c, a) ==
    LeftAlone(c, a) \/ Pauses(c, a) \/ Waits(c, a) \/ ComesBack(c, a)

\* A whole pass.  It gives up the requester's Secret only where it ends the
\* export, and marks an app only when it is at one.
PassView(c) ==
    /\ \/ source' = source
       \/ source' = source \ {c} /\ IsTerminal(status'[c])
    /\ status'[c].quiesced \subseteq status[c].quiesced \/ Captures(c)
    /\ \A a \in installed : AppView(c, a)

\* A status write that lands.
LEMMA Written ==
    ASSUME TypeOK, NEW c \in Exports, NEW t, persist(c, t, TRUE)
    PROVE  status'[c] = t
BY DEF persist, TypeOK

\* An export that fails, with its apps left as they are.
LEMMA FailView ==
    ASSUME TypeOK, NEW c \in Exports, NEW s \in Statuses, NEW js,
           fail(c, s, js, TRUE)
    PROVE  /\ IsTerminal(status'[c])
           /\ status'[c].quiesced = s.quiesced
           /\ source' = source \/ source' = source \ {c}
<1>1. status'[c] = setPhase(s, "Failed")
  BY Written DEF fail
<1>2. source' = source \/ source' = source \ {c}
  BY DEF fail, discardPassphrase
<1> QED
  BY <1>1, <1>2, MarkFields DEF IsTerminal

\* An export that fails at an app, which it resumes.
LEMMA FailAppView ==
    ASSUME TypeOK, NEW c \in Exports, NEW a \in Apps, Turn(c, a),
           NEW s \in Statuses, NEW js, failApp(c, a, s, js, TRUE),
           s.quiesced = status[c].quiesced,
           s.entry[a].mode = status[c].entry[a].mode,
           s.entry[a].retained = status[c].entry[a].retained
    PROVE  /\ ComesBack(c, a)
           /\ \A b \in Apps \ {a} : work'[b] = work[b]
           /\ status'[c].quiesced \subseteq status[c].quiesced
           /\ IsTerminal(status'[c])
           /\ source' = source \/ source' = source \ {c}
<1> DEFINE n == [s.entry[a] EXCEPT !.ended = s.entry[a].started,
                                   !.phase = "Failed"]
           q == unmarkQuiesced(s, {a})
           t == setEntry(q, a, n)
<1>1. a \in Slots /\ s.entry[a] \in Entries
  BY DEF Slots, Statuses
<1>2. n \in Entries /\ n.retained = s.entry[a].retained
  BY <1>1 DEF Entries, Phases
<1>3. q \in Statuses /\ q.quiesced = s.quiesced \ {a}
  BY QuiescedType, MarkFields
<1>4. fail(c, t, js, TRUE)
  BY DEF failApp
<1>5. PICK hook \in PostHook(work[a]) :
          work' = [work EXCEPT ![a] =
                      unquiesceApp(work[a], s.entry[a].mode, hook)]
  BY DEF failApp
<1> HIDE DEF n, q
<1>6. t \in Statuses /\ t.quiesced = q.quiesced /\ t.entry[a] = n
  BY <1>1, <1>2, <1>3, SetEntryType, SetEntryFields
<1> HIDE DEF t
<1>7. /\ IsTerminal(status'[c]) /\ status'[c].quiesced = t.quiesced
      /\ source' = source \/ source' = source \ {c}
  BY <1>4, <1>6, FailView
<1>8. status'[c].entry[a] = n
  <2>1. status'[c] = setPhase(t, "Failed")
    BY <1>4, Written DEF fail
  <2> QED
    BY <1>6, <2>1, MarkFields
<1>9. work'[a] = unquiesceApp(work[a], status[c].entry[a].mode, hook)
      /\ \A b \in Apps \ {a} : work'[b] = work[b]
  BY <1>5 DEF TypeOK
<1>10. ComesBack(c, a)
  BY <1>2, <1>3, <1>6, <1>7, <1>8, <1>9 DEF ComesBack, Over
<1> QED
  BY <1>3, <1>6, <1>7, <1>9, <1>10

\* A pass that is at slot x leaves every other app alone: none is marked.
LEMMA AtView ==
    ASSUME TypeOK, NEW c \in Exports, NEW x \in Slots, At(c, x), PassOver(c),
           \A b \in Apps \ {x} : work'[b] = work[b],
           status'[c].quiesced \subseteq status[c].quiesced \cup {x},
           \/ source' = source
           \/ source' = source \ {c} /\ IsTerminal(status'[c]),
           x \in installed => AppView(c, x)
    PROVE  PassView(c)
<1>1. Captures(c) /\ nextPendingApp(c) = x /\ status[c].quiesced \subseteq {x}
  BY DEF At, Stale
<1>2. ASSUME NEW a \in installed, a # x PROVE LeftAlone(c, a)
  <2>1. a \in Apps /\ a \in Slots /\ Units \subseteq AllUnits
    BY DEF TypeOK, Slots, AllUnits
  <2>2. ~Turn(c, a)
    BY <1>1, <1>2 DEF Turn
  <2>3. status'[c].entry[a] = status[c].entry[a]
    BY <2>1, <2>2 DEF PassOver, StatusFrom
  <2>4. \A u \in Units : job'[c][a][u] = "running" => job[c][a][u] = "running"
    BY <2>1, <2>2 DEF PassOver, JobsFrom
  <2>5. a \notin status[c].quiesced /\ a \notin status'[c].quiesced
    BY <1>1, <1>2
  <2> QED
    BY <1>2, <2>1, <2>3, <2>4, <2>5 DEF LeftAlone
<1> QED
  BY <1>1, <1>2 DEF PassView, AppView

\* The passes before the capture, and those that only resume.
LEMMA EarlyView ==
    ASSUME TypeOK, PauseInv, NEW c \in Exports,
           \/ ResumeEnded(c, TRUE) \/ FinalizeResume(c, TRUE)
           \/ FailNoTenant(c, TRUE) \/ Busy(c, TRUE) \/ AssignBundle(c, TRUE)
           \/ FailNoSecret(c, TRUE) \/ resumeStale(c, TRUE)
    PROVE  PassView(c)
<1>1. status[c] \in Statuses /\ \A a \in installed : a \in Apps /\ a \in Slots
  BY PartTypes DEF TypeOK
<1>2. Units \subseteq AllUnits
  BY DEF AllUnits
<1>3. PassOver(c)
  BY ReconcileFrom DEF Reconcile
<1>4. ASSUME NEW a \in installed, ~Turn(c, a) \/ ~Captures(c)
      PROVE  /\ status'[c].entry[a] = status[c].entry[a]
             /\ \A u \in Units :
                    job'[c][a][u] = "running" => job[c][a][u] = "running"
  BY <1>1, <1>2, <1>3, <1>4 DEF PassOver, StatusFrom, JobsFrom, Turn
<1>5. ASSUME fail(c, status[c], job[c], TRUE), status[c].quiesced = {},
             ~Captures(c), UNCHANGED work
      PROVE  PassView(c)
  <2>1. /\ IsTerminal(status'[c]) /\ status'[c].quiesced = status[c].quiesced
        /\ source' = source \/ source' = source \ {c}
    BY <1>1, <1>5, FailView
  <2> QED
    BY <1>4, <1>5, <2>1 DEF PassView, AppView, LeftAlone
<1>6. CASE FailNoTenant(c, TRUE)
  <2>1. status[c].quiesced = {} /\ ~Captures(c)
    BY <1>6 DEF FailNoTenant, PauseInv, Marked, Captures, Holds
  <2> QED
    BY <1>5, <1>6, <2>1 DEF FailNoTenant
<1>7. CASE FailNoSecret(c, TRUE)
  BY <1>7 DEF FailNoSecret, PauseInv, AtHand, Holds, Running
<1>8. CASE Busy(c, TRUE)
  <2>1. status'[c] = setPhase(status[c], "Pending")
    BY <1>8, Written DEF Busy
  <2>2. status'[c].quiesced = status[c].quiesced /\ ~IsTerminal(status'[c])
    BY <1>1, <2>1, MarkFields DEF IsTerminal
  <2>3. ~Captures(c) /\ UNCHANGED <<work, source>>
    BY <1>8 DEF Busy, Captures, Holds
  <2> QED
    BY <1>4, <2>2, <2>3 DEF PassView, AppView, LeftAlone
<1>9. CASE AssignBundle(c, TRUE)
  <2>1. ~Captures(c) /\ UNCHANGED work
    BY <1>9 DEF AssignBundle, Captures
  <2>2. status[c].quiesced = {}
    BY <1>9 DEF AssignBundle, PauseInv, Marked
  <2>3. CASE fail(c, status[c], job[c], TRUE)
    BY <1>5, <2>1, <2>2, <2>3
  <2>4. CASE ~fail(c, status[c], job[c], TRUE)
    <3> DEFINE t == [status[c] EXCEPT !.bundle = TRUE, !.phase = "Running"]
    <3>1. t.quiesced = status[c].quiesced /\ t.phase = "Running"
      BY <1>1 DEF Statuses
    <3>2. persist(c, t, TRUE) /\ UNCHANGED source
      BY <1>9, <2>4 DEF AssignBundle
    <3> HIDE DEF t
    <3>3. status'[c] = t
      BY <3>2, Written
    <3> QED
      BY <1>4, <2>1, <3>1, <3>2, <3>3
         DEF PassView, AppView, LeftAlone, IsTerminal
  <2> QED
    BY <2>3, <2>4
<1>10. ASSUME NEW Q, Q \subseteq status[c].quiesced,
              persist(c, unmarkQuiesced(status[c], Q), TRUE),
              NEW hook,
              \A a \in Q : hook[a] \in PostHook(work[a]),
              work' = [a \in Apps |->
                  IF a \in Q
                  THEN unquiesceApp(work[a], status[c].entry[a].mode, hook[a])
                  ELSE work[a]],
              Q \cap installed # {} => ~Kept(c),
              UNCHANGED <<source, job>>
       PROVE  PassView(c)
  <2>1. status'[c] = unmarkQuiesced(status[c], Q)
    BY <1>10, Written
  <2>2. /\ status'[c].quiesced = status[c].quiesced \ Q
        /\ status'[c].entry = status[c].entry
        /\ status'[c].phase = status[c].phase
    BY <1>1, <2>1, MarkFields
  <2>3. ASSUME NEW a \in installed, a \in Q PROVE ComesBack(c, a)
    <3>1. work'[a] = unquiesceApp(work[a], status[c].entry[a].mode, hook[a])
      BY <1>1, <1>10, <2>3
    <3> QED
      BY <1>10, <2>2, <2>3, <3>1 DEF ComesBack, Over
  <2>4. ASSUME NEW a \in installed, a \notin Q PROVE LeftAlone(c, a)
    <3>1. work'[a] = work[a]
      BY <1>1, <1>10, <2>4
    <3> QED
      BY <1>10, <2>2, <2>4, <3>1 DEF LeftAlone, IsTerminal
  <2> QED
    BY <1>10, <2>2, <2>3, <2>4 DEF PassView, AppView
<1>11. CASE ResumeEnded(c, TRUE) \/ FinalizeResume(c, TRUE)
  <2>1. resumeAll(c, TRUE) /\ UNCHANGED <<source, job>>
    BY <1>11 DEF ResumeEnded, FinalizeResume
  <2>2. status[c].quiesced \cap installed # {} => ~Kept(c)
    BY <1>11 DEF ResumeEnded, FinalizeResume, Kept, PauseInv, SaidIsSo, Pausing
  <2>3. PICK hook : /\ \A a \in status[c].quiesced : hook[a] \in PostHook(work[a])
                    /\ work' = [a \in Apps |->
                           IF a \in status[c].quiesced
                           THEN unquiesceApp(work[a], status[c].entry[a].mode,
                                             hook[a])
                           ELSE work[a]]
    BY <2>1 DEF resumeAll
  <2>4. persist(c, unmarkQuiesced(status[c], status[c].quiesced), TRUE)
    BY <2>1 DEF resumeAll
  <2> QED
    BY <1>10, <2>1, <2>2, <2>3, <2>4
<1>12. CASE resumeStale(c, TRUE)
  <2>1. UNCHANGED <<source, job>>
    BY <1>12 DEF resumeStale
  <2>2. Stale(c) \subseteq status[c].quiesced
    BY DEF Stale
  <2>3. Stale(c) \cap installed = {}
    <3> SUFFICES ASSUME NEW a \in installed, a \in Stale(c) PROVE FALSE
      OBVIOUS
    <3>1. Turned(c, a) /\ status[c].entry[a].phase # "Ready"
      BY <2>2 DEF PauseInv, SaidIsSo, Pausing
    <3> QED
      BY <3>1, TurnedIsNext DEF Stale
  <2>4. PICK hook : /\ \A a \in Stale(c) : hook[a] \in PostHook(work[a])
                    /\ work' = [a \in Apps |->
                           IF a \in Stale(c)
                           THEN unquiesceApp(work[a], status[c].entry[a].mode,
                                             hook[a])
                           ELSE work[a]]
    BY <1>12 DEF resumeStale
  <2>5. persist(c, unmarkQuiesced(status[c], Stale(c)), TRUE)
    BY <1>12 DEF resumeStale
  <2> QED
    BY <1>10, <2>1, <2>2, <2>3, <2>4, <2>5
<1> QED
  BY <1>6, <1>7, <1>8, <1>9, <1>11, <1>12

\* The passes at an installed app.
LEMMA CaptureView ==
    ASSUME TypeOK, NEW c \in Exports, NEW a \in Apps,
           \/ PauseApp(c, a, TRUE) \/ CaptureWaits(c, a, TRUE)
           \/ CaptureCannot(c, a, TRUE) \/ CaptureDone(c, a, TRUE)
    PROVE  PassView(c)
<1> DEFINE old == status[c].entry[a]
           en == ensureEntry(old, job[c][a], Units)
           js == [job[c] EXCEPT ![a] = ensureJobs(old, job[c][a], Units)]
<1>1. /\ status[c] \in Statuses /\ a \in Slots /\ old \in Entries
      /\ work[a] \in Works /\ Units \in SUBSET AllUnits
      /\ job[c] \in JobsOfRun
  BY PartTypes
<1>2. At(c, a) /\ Turn(c, a)
  BY DEF PauseApp, CaptureWaits, CaptureCannot, CaptureDone, AtInstalled, At,
         Turn
<1>3. PassOver(c)
  BY ReconcileFrom DEF Reconcile
<1>4. /\ en \in Entries
      /\ en.done = old.done \cup {u \in Units : job[c][a][u] = "complete"}
      /\ en.phase = old.phase /\ en.retained = old.retained
      /\ en.started = old.started /\ en.mode = old.mode
  BY <1>1, EnsureEntryType, EnsureFields
<1> HIDE DEF en
<1>5. ASSUME NEW s \in Statuses, NEW k, failApp(c, a, s, k, TRUE),
             s.quiesced = status[c].quiesced, s.entry[a].mode = old.mode,
             s.entry[a].retained = old.retained
      PROVE  PassView(c)
  <2>1. /\ ComesBack(c, a)
        /\ \A b \in Apps \ {a} : work'[b] = work[b]
        /\ status'[c].quiesced \subseteq status[c].quiesced
        /\ IsTerminal(status'[c])
        /\ source' = source \/ source' = source \ {c}
    BY <1>2, <1>5, FailAppView
  <2> QED
    BY <1>1, <1>2, <1>3, <2>1, AtView DEF AppView
<1>6. ASSUME NEW t, persist(c, t, TRUE), AppView(c, a),
             \A b \in Apps \ {a} : work'[b] = work[b],
             t.quiesced \subseteq status[c].quiesced \cup {a},
             UNCHANGED source
      PROVE  PassView(c)
  <2>1. status'[c] = t
    BY <1>6, Written
  <2> QED
    BY <1>1, <1>2, <1>3, <1>6, <2>1, AtView
<1>7. CASE PauseApp(c, a, TRUE)
  <2>1. CASE failApp(c, a, status[c], job[c], TRUE)
    BY <1>1, <1>5, <2>1
  <2>2. CASE ~failApp(c, a, status[c], job[c], TRUE)
    <3>1. PICK hook \in PreHook(work[a]) :
              /\ work' = [work EXCEPT ![a] = quiesceApp(a, work[a], hook)]
              /\ persist(c, setEntry(markQuiesced(status[c], a), a,
                     [old EXCEPT !.started = TRUE,
                                 !.mode = quiesceMode(a, hook),
                                 !.phase = "Running"]), TRUE)
      BY <1>7, <2>2 DEF PauseApp
    <3> DEFINE m == quiesceMode(a, hook)
               n == [old EXCEPT !.started = TRUE, !.mode = m,
                                !.phase = "Running"]
               q == markQuiesced(status[c], a)
               t == setEntry(q, a, n)
    <3>2. UNCHANGED <<job, source>> /\ ~old.started
      BY <1>7, <2>2 DEF PauseApp
    <3>3. m \in Modes
      BY QuiesceModeType
    <3> HIDE DEF m
    <3>4. n.started /\ n.mode = m /\ n.phase = "Running"
          /\ n.retained = old.retained
      BY <1>1, <3>3 DEF Entries
    <3>5. /\ q \in Statuses /\ q.quiesced = status[c].quiesced \cup {a}
          /\ q.phase = status[c].phase
      BY <1>1, QuiescedType, MarkFields
    <3> HIDE DEF n, q
    <3>6. t.entry[a] = n /\ t.quiesced = q.quiesced /\ t.phase = q.phase
      BY <1>1, <3>5, SetEntryFields
    <3>7. persist(c, t, TRUE)
      BY <3>1 DEF m, n, q
    <3> HIDE DEF t
    <3>8. status'[c] = t
      BY <3>7, Written
    <3>9. work'[a] = quiesceApp(a, work[a], hook)
          /\ \A b \in Apps \ {a} : work'[b] = work[b]
      BY <3>1 DEF TypeOK
    <3>10. status'[c].entry[a].mode = quiesceMode(a, hook)
      BY <3>4, <3>6, <3>8 DEF m
    <3>11. Pauses(c, a)
      BY <1>2, <3>2, <3>4, <3>5, <3>6, <3>8, <3>9, <3>10 DEF Pauses
    <3> QED
      BY <1>6, <3>2, <3>5, <3>6, <3>7, <3>9, <3>11 DEF AppView
  <2> QED
    BY <2>1, <2>2
<1>8. CASE CaptureWaits(c, a, TRUE)
  <2> DEFINE s == setEntry(status[c], a, en)
  <2>1. /\ s \in Statuses /\ s.entry[a] = en
        /\ s.quiesced = status[c].quiesced /\ s.phase = status[c].phase
    BY <1>1, <1>4, SetEntryType, SetEntryFields
  <2>2. old.started
    BY <1>8 DEF CaptureWaits
  <2>3. \/ failApp(c, a, s, js, TRUE)
        \/ /\ job' = [job EXCEPT ![c] = js]
           /\ persist(c, s, TRUE) /\ UNCHANGED <<source, work>>
    BY <1>8 DEF CaptureWaits, en
  <2> HIDE DEF s
  <2>4. CASE failApp(c, a, s, js, TRUE)
    BY <1>4, <1>5, <2>1, <2>4
  <2>5. CASE /\ job' = [job EXCEPT ![c] = js]
             /\ persist(c, s, TRUE) /\ UNCHANGED <<source, work>>
    <3>1. status'[c] = s
      BY <2>5, Written
    <3>2. \A u \in Units : job'[c][a][u] = ensureJobs(old, job[c][a], Units)[u]
      <4>1. job'[c] = js
        BY <2>5 DEF TypeOK
      <4>2. js[a] = ensureJobs(old, job[c][a], Units)
        BY <1>1 DEF JobsOfRun
      <4> QED
        BY <4>1, <4>2
    <3>3. \A u \in Units :
              ensureJobs(old, job[c][a], Units)[u] = "running" =>
                  job[c][a][u] \in {"none", "running"}
                  /\ (u \in old.done => job[c][a][u] = "running")
      BY DEF ensureJobs, AllUnits
    <3>4. \A u \in Units : job'[c][a][u] = "running" =>
              u \notin en.done \/ (u \in old.done /\ job[c][a][u] = "running")
      BY <1>4, <3>2, <3>3
    <3>5. Waits(c, a)
      BY <1>2, <1>4, <2>1, <2>2, <2>5, <3>1, <3>4 DEF Waits
    <3> QED
      BY <1>6, <2>1, <2>5, <3>5 DEF AppView
  <2> QED
    BY <2>3, <2>4, <2>5
<1>9. CASE CaptureCannot(c, a, TRUE)
  BY <1>1, <1>5, <1>9 DEF CaptureCannot
<1>10. CASE CaptureDone(c, a, TRUE)
  <2> DEFINE up == [en EXCEPT !.ended = TRUE, !.phase = "Ready"]
             bad == [en EXCEPT !.ended = TRUE, !.phase = "Running",
                               !.attempts = @ + 1]
             q == unmarkQuiesced(status[c], {a})
             ts == setEntry(q, a, up)
             tb == setEntry(status[c], a, bad)
  <2>1. old.started /\ Units \subseteq en.done
    BY <1>10 DEF CaptureDone, en
  <2>2. /\ up.phase = "Ready" /\ up.mode = en.mode /\ up.done = en.done
        /\ up.started = en.started /\ up.retained = en.retained
    BY <1>4 DEF Entries
  <2>3. /\ bad \in Entries
        /\ bad.phase = "Running" /\ bad.mode = en.mode /\ bad.done = en.done
        /\ bad.started = en.started /\ bad.retained = en.retained
    <3>1. bad \in Entries
      BY <1>4, EntryUpdates
    <3>2. /\ bad.phase = "Running" /\ bad.mode = en.mode /\ bad.done = en.done
          /\ bad.started = en.started /\ bad.retained = en.retained
      BY <1>4 DEF Entries
    <3> QED
      BY <3>1, <3>2
  <2>4. /\ q \in Statuses /\ q.quiesced = status[c].quiesced \ {a}
        /\ q.phase = status[c].phase
    BY <1>1, QuiescedType, MarkFields
  <2> HIDE DEF up, bad, q
  <2>5. ts.entry[a] = up /\ ts.quiesced = q.quiesced /\ ts.phase = q.phase
    BY <1>1, <2>4, SetEntryFields
  <2>6. /\ tb \in Statuses /\ tb.entry[a] = bad
        /\ tb.quiesced = status[c].quiesced /\ tb.phase = status[c].phase
    BY <1>1, <2>3, SetEntryType, SetEntryFields
  <2>7. \/ failApp(c, a, tb, job[c], TRUE)
        \/ /\ \E hook \in PostHook(work[a]) : work' =
                  [work EXCEPT ![a] = unquiesceApp(work[a], en.mode, hook)]
           /\ persist(c, ts, TRUE) \/ persist(c, tb, TRUE)
           /\ UNCHANGED <<job, source>>
    BY <1>10 DEF CaptureDone, en, up, bad, q
  <2> HIDE DEF ts, tb
  <2>8. CASE failApp(c, a, tb, job[c], TRUE)
    BY <1>4, <1>5, <2>3, <2>6, <2>8
  <2>9. CASE /\ \E hook \in PostHook(work[a]) : work' =
                    [work EXCEPT ![a] = unquiesceApp(work[a], en.mode, hook)]
             /\ persist(c, ts, TRUE) \/ persist(c, tb, TRUE)
             /\ UNCHANGED <<job, source>>
    <3>1. PICK hook \in PostHook(work[a]) : work' =
              [work EXCEPT ![a] = unquiesceApp(work[a], en.mode, hook)]
      BY <2>9
    <3>2. work'[a] = unquiesceApp(work[a], old.mode, hook)
          /\ \A b \in Apps \ {a} : work'[b] = work[b]
      BY <1>4, <3>1 DEF TypeOK
    <3>3. \A u \in Units : job'[c][a][u] = "running" =>
              u \in old.done /\ job[c][a][u] = "running"
      BY <1>4, <2>1, <2>9
    <3>4. CASE persist(c, ts, TRUE)
      <4>1. status'[c] = ts
        BY <3>4, Written
      <4>2. Through(c, a)
        BY <1>4, <2>1, <2>2, <2>4, <2>5, <3>3, <4>1 DEF Through
      <4>3. ComesBack(c, a)
        BY <1>2, <1>4, <2>2, <2>5, <3>2, <4>1, <4>2 DEF ComesBack
      <4> QED
        BY <1>6, <2>4, <2>5, <2>9, <3>2, <3>4, <4>3 DEF AppView
    <3>5. CASE persist(c, tb, TRUE)
      <4>1. status'[c] = tb
        BY <3>5, Written
      <4>2. Through(c, a)
        BY <1>4, <2>1, <2>3, <2>6, <3>3, <4>1 DEF Through
      <4>3. ComesBack(c, a)
        BY <1>2, <1>4, <2>3, <2>6, <3>2, <4>1, <4>2 DEF ComesBack
      <4> QED
        BY <1>6, <2>6, <2>9, <3>2, <3>5, <4>3 DEF AppView
    <3> QED
      BY <2>9, <3>4, <3>5
  <2> QED
    BY <2>7, <2>8, <2>9
<1> QED
  BY <1>7, <1>8, <1>9, <1>10

\* An entry of another slot is written, and the export goes on or fails.
LEMMA EntryView ==
    ASSUME TypeOK, NEW c \in Exports, NEW x \in Slots, At(c, x), PassOver(c),
           x \notin installed, UNCHANGED work, NEW n \in Entries, NEW js,
           \/ fail(c, setEntry(status[c], x, n), js, TRUE)
           \/ /\ persist(c, setEntry(status[c], x, n), TRUE)
              /\ UNCHANGED source
    PROVE  PassView(c)
<1> DEFINE t == setEntry(status[c], x, n)
<1>1. status[c] \in Statuses
  BY PartTypes
<1>2. t \in Statuses /\ t.quiesced = status[c].quiesced
  BY <1>1, SetEntryType, SetEntryFields
<1> HIDE DEF t
<1>3. CASE fail(c, t, js, TRUE)
  <2>1. /\ IsTerminal(status'[c]) /\ status'[c].quiesced = t.quiesced
        /\ source' = source \/ source' = source \ {c}
    BY <1>2, <1>3, FailView
  <2> QED
    BY <1>2, <2>1, AtView
<1>4. CASE persist(c, t, TRUE) /\ UNCHANGED source
  <2>1. status'[c] = t
    BY <1>4, Written
  <2> QED
    BY <1>2, <1>4, <2>1, AtView
<1> QED
  BY <1>3, <1>4 DEF t

\* The passes at an uninstalled app, and at what is the tenant's own.
LEMMA RestView ==
    ASSUME TypeOK, NotBoth, NEW c \in Exports,
           \/ \E a \in Apps : CaptureRetained(c, a, TRUE)
           \/ CaptureTenantWide(c, TRUE) \/ Complete(c, TRUE)
    PROVE  PassView(c)
<1>1. PassOver(c) /\ UNCHANGED work
  <2>1. Reconcile(c, TRUE)
    BY DEF Reconcile
  <2>2. UNCHANGED work
    BY DEF CaptureRetained, CaptureTenantWide, Complete
  <2> QED
    BY <2>1, <2>2, ReconcileFrom
<1>2. /\ status[c] \in Statuses /\ TenantWide \in Slots
      /\ Units \in SUBSET AllUnits /\ {Manifest} \in SUBSET AllUnits
      /\ \A x \in Slots : status[c].entry[x] \in Entries
      /\ \A a \in Apps : a \in Slots
  BY PartTypes
<1>3. TenantWide \notin installed /\ NoApp = TenantWide
  BY ConfigAssumption DEF TypeOK, NoApp
<1>4. ASSUME NEW a \in Apps, CaptureRetained(c, a, TRUE) PROVE PassView(c)
  <2> DEFINE en0 == [status[c].entry[a] EXCEPT !.retained = TRUE]
             ee == ensureEntry(en0, job[c][a], Units)
             en == [ee EXCEPT !.phase = "Running"]
             bad == [en EXCEPT !.attempts = @ + 1]
             js == [job[c] EXCEPT ![a] = ensureJobs(en0, job[c][a], Units)]
  <2>1. At(c, a) /\ a \notin installed
    BY <1>4 DEF CaptureRetained, retainedSet, NotBoth
  <2>2. en0 \in Entries
    BY <1>2, EntryUpdates
  <2>3. \E n \in Entries : \E k :
            \/ fail(c, setEntry(status[c], a, n), k, TRUE)
            \/ persist(c, setEntry(status[c], a, n), TRUE) /\ UNCHANGED source
    <3> HIDE DEF en0
    <3>1. ee \in Entries
      BY <1>2, <2>2, EnsureEntryType
    <3> HIDE DEF ee
    <3>2. en \in Entries /\ "Failed" \in Phases /\ "Ready" \in Phases
      BY <3>1, EntryUpdates DEF Phases
    <3> HIDE DEF en
    <3>3. bad \in Entries
      BY <3>2, EntryUpdates
    <3> HIDE DEF bad
    <3>4. /\ [en0 EXCEPT !.phase = "Failed"] \in Entries
          /\ [en EXCEPT !.phase = "Failed"] \in Entries
          /\ [en EXCEPT !.phase = "Ready"] \in Entries
          /\ [bad EXCEPT !.phase = "Failed"] \in Entries
      BY <2>2, <3>2, <3>3, EntryUpdates
    <3>5. \/ fail(c, setEntry(status[c], a, [en0 EXCEPT !.phase = "Failed"]),
                  job[c], TRUE)
          \/ fail(c, setEntry(status[c], a, [en EXCEPT !.phase = "Failed"]),
                  js, TRUE)
          \/ fail(c, setEntry(status[c], a, [bad EXCEPT !.phase = "Failed"]),
                  js, TRUE)
          \/ /\ \/ persist(c, setEntry(status[c], a, en), TRUE)
                \/ persist(c, setEntry(status[c], a, bad), TRUE)
                \/ persist(c, setEntry(status[c], a,
                                       [en EXCEPT !.phase = "Ready"]), TRUE)
             /\ UNCHANGED source
      BY <1>4, ZenonT(30) DEF CaptureRetained, en0, ee, en, bad
    <3> QED
      BY <3>2, <3>3, <3>4, <3>5
  <2> QED
    BY <1>1, <1>2, <2>1, <2>3, EntryView
<1>5. ASSUME NEW n \in Entries, NEW js, At(c, NoApp),
             tenantWideExhausted(c, n, js, TRUE)
      PROVE  PassView(c)
  <2>1. [n EXCEPT !.phase = "Failed"] \in Entries
    BY EntryUpdates DEF Phases
  <2>2. \/ fail(c, setEntry(status[c], TenantWide,
                            [n EXCEPT !.phase = "Failed"]), js, TRUE)
        \/ /\ persist(c, setEntry(status[c], TenantWide, n), TRUE)
           /\ UNCHANGED source
    BY <1>5 DEF tenantWideExhausted
  <2> QED
    BY <1>1, <1>2, <1>3, <1>5, <2>1, <2>2, EntryView
<1>6. CASE CaptureTenantWide(c, TRUE)
  <2> DEFINE old == status[c].entry[TenantWide]
             en == ensureEntry(old, job[c][TenantWide], Units)
  <2>1. en \in Entries /\ [old EXCEPT !.attempts = @ + 1] \in Entries
    BY <1>2, EnsureEntryType, EntryUpdates
  <2>2. /\ At(c, NoApp)
        /\ \E n \in {en, [old EXCEPT !.attempts = @ + 1]} : \E js :
               tenantWideExhausted(c, n, js, TRUE)
    BY <1>6 DEF CaptureTenantWide
  <2> HIDE DEF old, en
  <2> QED
    BY <1>5, <2>1, <2>2
<1>7. CASE Complete(c, TRUE)
  <2> DEFINE te == ensureEntry(status[c].entry[TenantWide],
                               job[c][TenantWide], Units)
             tw == [te EXCEPT !.phase = "Ready"]
             en == ensureEntry(tw, job[c][TenantWide], {Manifest})
             t == setEntry(status[c], TenantWide, en)
  <2>1. te \in Entries
    BY <1>2, EnsureEntryType
  <2> HIDE DEF te
  <2>2. tw \in Entries /\ [tw EXCEPT !.attempts = @ + 1] \in Entries
    <3>1. tw \in Entries
      BY <2>1, EntryUpdates DEF Phases
    <3> HIDE DEF tw
    <3> QED
      BY <3>1, EntryUpdates
  <2> HIDE DEF tw
  <2>3. en \in Entries
    BY <1>2, <2>2, EnsureEntryType
  <2> HIDE DEF en
  <2>4. /\ At(c, NoApp)
        /\ \/ \E n \in {en, [tw EXCEPT !.attempts = @ + 1]} : \E js :
                  tenantWideExhausted(c, n, js, TRUE)
           \/ /\ persist(c, setPhase(t, "Ready"), TRUE)
              /\ source' = source \ {c}
    BY <1>7 DEF Complete, te, tw, en, discardPassphrase
  <2>5. t \in Statuses /\ t.quiesced = status[c].quiesced
    BY <1>2, <2>3, SetEntryType, SetEntryFields
  <2> HIDE DEF t
  <2>6. CASE \E n \in {en, [tw EXCEPT !.attempts = @ + 1]} : \E js :
                 tenantWideExhausted(c, n, js, TRUE)
    BY <1>5, <2>2, <2>3, <2>4, <2>6
  <2>7. CASE persist(c, setPhase(t, "Ready"), TRUE) /\ source' = source \ {c}
    <3>1. status'[c] = setPhase(t, "Ready")
      BY <2>7, Written
    <3>2. status'[c].quiesced = status[c].quiesced /\ IsTerminal(status'[c])
      BY <2>5, <3>1, MarkFields DEF IsTerminal
    <3> QED
      BY <1>1, <1>2, <1>3, <2>4, <2>7, <3>2, AtView
  <2> QED
    BY <2>4, <2>6, <2>7
<1> QED
  BY <1>4, <1>6, <1>7

\* Every pass that writes the status.
LEMMA ReconcileView ==
    ASSUME Undisturbed, TypeOK, PauseInv, NEW c \in Exports,
           NEW ok \in Writes, Reconcile(c, ok)
    PROVE  PassView(c)
<1>1. Reconcile(c, TRUE)
  BY DEF Writes, Undisturbed
<1> QED
  BY <1>1, EarlyView, CaptureView, RestView DEF Reconcile, PauseInv

----------------------------------------------------------------------------
(* Every step keeps what is said of a pause true. *)

\* Only one export says that it paused an app, and one at whose turn the app
\* is finds it running unless it paused it itself.
LEMMA OneMarks ==
    ASSUME TypeOK, PauseInv, OneExportAtATime, NEW c \in Exports,
           NEW f \in Exports, NEW a \in installed,
           Turn(c, a) \/ a \in status[c].quiesced, a \in status[f].quiesced
    PROVE  f = c
<1>1. \A e \in Exports : a \in status[e].quiesced => Holding(e)
  BY DEF PauseInv, Marked, SaidIsSo, Pausing, Holding
<1>2. Turn(c, a) => Holding(c)
  BY DEF Turn, Captures, Holds, Running, Holding, Exists
<1> QED
  BY <1>1, <1>2 DEF OneExportAtATime

LEMMA RunsAtTurn ==
    ASSUME TypeOK, PauseInv, OneExportAtATime, NEW c \in Exports,
           NEW a \in installed, Turn(c, a), a \notin status[c].quiesced
    PROVE  Runs(a, work[a])
<1>1. Up(a)
  BY OneMarks DEF PauseInv, DownIsSaid
<1> QED
  BY <1>1 DEF Up, Runs

\* An app that is Ready stays so, and nobody comes before the one whose turn
\* it is.
LEMMA TurnedStays ==
    ASSUME TypeOK, [Next]_vars, installed' \subseteq installed,
           NEW e \in Exports, NEW a, Turned(e, a)
    PROVE  Turned(e, a)'
<1>1. ASSUME NEW b \in Apps, status[e].entry[b].phase = "Ready"
      PROVE  status'[e].entry[b].phase = "Ready"
  <2>1. b \in Slots
    BY DEF Slots
  <2>2. ~Turn(e, b)
    BY <1>1, TurnIsPending DEF Turn
  <2> QED
    BY <1>1, <2>1, <2>2, NextOver DEF StepOver, StatusFrom
<1>2. installed \subseteq Apps
  BY DEF TypeOK
<1> QED
  BY <1>1, <1>2 DEF Turned, Asked

\* An export that is still open was so before.
LEMMA OpenBefore ==
    ASSUME TypeOK, [Next]_vars, NEW e \in Exports
    PROVE  /\ Open(e)' => Open(e)
           /\ IsTerminal(status[e]) => IsTerminal(status'[e])
           /\ status[e].bundle => status'[e].bundle
<1>1. StatusStep(e)
  BY StatusNext DEF StatusSteps
<1>2. Kept(e)' => Kept(e)
  BY LifeSteps
<1> QED
  BY <1>1, <1>2 DEF StatusStep, Evolves, IsTerminal, Open

\* What holds of an app, and has to hold again.
Fine(a) ==
    /\ \A e \in Exports :
           (a \in status[e].quiesced => Pausing(e, a)) /\ Begun(e, a)
    /\ ~Up(a) => \E e \in Exports : a \in status[e].quiesced

\* A pass, seen from the export it is over.
LEMMA ViewKeeps ==
    ASSUME Undisturbed, TypeOK, PauseInv, OneExportAtATime, MemoSound,
           [Next]_vars, NEW c \in Exports, UNCHANGED <<obj, installed>>,
           NEW a \in installed, AppView(c, a)
    PROVE  /\ a \in status'[c].quiesced => Pausing(c, a)'
           /\ Begun(c, a)'
           /\ ~Up(a)' => \/ a \in status'[c].quiesced
                         \/ work'[a] = work[a] /\ a \notin status[c].quiesced
<1> DEFINE old == status[c].entry[a]
           new == status'[c].entry[a]
<1>1. /\ a \in Apps /\ work[a] \in Works /\ MemoOf(a, work[a])
      /\ Units \subseteq AllUnits
  BY PartTypes DEF TypeOK, MemoSound, MemoOf
<1>2. /\ a \in status[c].quiesced => Pausing(c, a)
      /\ Begun(c, a) /\ a \notin retainedSet(c)
  BY <1>1 DEF PauseInv, SaidIsSo, NotBoth, retainedSet
<1>3. /\ Open(c)' => Open(c)
      /\ IsTerminal(status[c]) => IsTerminal(status'[c])
  BY OpenBefore
<1>4. Turned(c, a) => Turned(c, a)'
  BY TurnedStays
<1>5. Turn(c, a) => /\ old.phase # "Ready" /\ Turned(c, a)
                    /\ Open(c)
  BY <1>1, <1>2, TurnIsPending DEF Turn, Captures, Holds, Running, Open, Kept
<1>6. CASE LeftAlone(c, a)
  BY <1>2, <1>3, <1>4, <1>6
     DEF LeftAlone, Pausing, Begun, PausedAs, Runs, Up
<1>7. CASE Pauses(c, a)
  <2>1. a \notin status[c].quiesced
    BY <1>2, <1>7 DEF Pauses, Pausing
  <2>2. Runs(a, work[a])
    BY <1>7, <2>1, RunsAtTurn DEF Pauses
  <2>3. PausedAs(a, work'[a], new.mode)
        /\ (QuiesceMode[a] = "none" \/ Frozen(work'[a]))
    BY <1>1, <1>7, <2>2, PauseWork DEF Pauses
  <2>4. ~IsTerminal(status'[c])
    BY <1>5, <1>7 DEF Pauses, Open, IsTerminal
  <2>5. Pausing(c, a)'
    BY <1>4, <1>5, <1>7, <2>3, <2>4 DEF Pauses, Pausing
  <2>6. Begun(c, a)'
    BY <1>2, <1>5, <1>7, <2>1 DEF Pauses, Begun
  <2> QED
    BY <1>7, <2>5, <2>6 DEF Pauses
<1>8. CASE Waits(c, a)
  <2>1. a \in status[c].quiesced /\ Pausing(c, a)
    BY <1>2, <1>5, <1>8 DEF Waits, Begun
  <2>2. Pausing(c, a)'
    <3>1. ~IsTerminal(status'[c])
      BY <1>5, <1>8 DEF Waits, Open, IsTerminal
    <3> QED
      BY <1>4, <1>8, <2>1, <3>1 DEF Waits, Pausing
  <2>3. Begun(c, a)'
    BY <1>2, <1>5, <1>8, <2>1 DEF Waits, Begun
  <2> QED
    BY <1>8, <2>1, <2>2, <2>3 DEF Waits
<1>9. CASE ComesBack(c, a)
  <2>1. Runs(a, work[a]) \/ PausedAs(a, work[a], old.mode)
    BY <1>2, <1>9, RunsAtTurn DEF ComesBack, Pausing
  <2>2. Runs(a, work'[a])
    BY <1>1, <1>9, <2>1, ResumeWork DEF ComesBack
  <2>3. Up(a)'
    BY <2>2 DEF Up, Runs
  <2>4. CASE Over(c, a)
    BY <2>3, <2>4 DEF Over, Begun, Open, Kept
  <2>5. CASE Through(c, a)
    <3>1. old.phase # "Ready"
      BY <1>2, <1>5, <1>9 DEF ComesBack, Pausing
    <3>2. Begun(c, a)'
      BY <1>2, <1>3, <2>5, <3>1 DEF Through, Begun
    <3>3. ASSUME a \in status'[c].quiesced PROVE Pausing(c, a)'
      <4>1. /\ status'[c].quiesced = status[c].quiesced
            /\ new.phase = "Running" /\ new.started /\ new.mode = old.mode
            /\ Units \subseteq new.done /\ status'[c].phase = status[c].phase
        BY <2>5, <3>3 DEF Through
      <4>2. Pausing(c, a)
        BY <1>2, <3>3, <4>1
      <4>3. PausedAs(a, work'[a], new.mode)
        BY <2>2, <4>1, <4>2 DEF Pausing, PausedAs, Runs
      <4> QED
        BY <1>4, <4>1, <4>2, <4>3 DEF Pausing, IsTerminal
    <3> QED
      BY <2>3, <3>2, <3>3
  <2> QED
    BY <1>9, <2>4, <2>5 DEF ComesBack
<1> QED
  BY <1>6, <1>7, <1>8, <1>9 DEF AppView

\* A pass, seen from everywhere.
LEMMA PassKeeps ==
    ASSUME Undisturbed, TypeOK, PauseInv, OneExportAtATime, MemoSound,
           [Next]_vars, NEW c \in Exports, UNCHANGED <<obj, installed>>,
           \A f \in Exports \ {c} : Same(f),
           NEW a \in installed, AppView(c, a)
    PROVE  Fine(a)'
<1>1. /\ a \in status'[c].quiesced => Pausing(c, a)'
      /\ Begun(c, a)'
      /\ ~Up(a)' => \/ a \in status'[c].quiesced
                    \/ work'[a] = work[a] /\ a \notin status[c].quiesced
  BY ViewKeeps
<1>2. ASSUME NEW e \in Exports, e # c
      PROVE  (a \in status'[e].quiesced => Pausing(e, a)') /\ Begun(e, a)'
  <2>1. status'[e] = status[e] /\ job'[e] = job[e]
    BY <1>2 DEF Same
  <2>2. (a \in status[e].quiesced => Pausing(e, a)) /\ Begun(e, a)
    BY DEF PauseInv, SaidIsSo
  <2>3. ASSUME a \in status[e].quiesced PROVE Pausing(e, a)'
    <3>1. work'[a] = work[a]
      BY <1>2, <2>3, OneMarks
         DEF AppView, LeftAlone, Pauses, Waits, ComesBack
    <3>2. Turned(e, a)'
      BY <2>2, <2>3, TurnedStays DEF Pausing
    <3> QED
      BY <2>1, <2>2, <2>3, <3>1, <3>2 DEF Pausing, IsTerminal
  <2>4. Begun(e, a)'
    BY <2>1, <2>2 DEF Begun, Open, Kept, IsTerminal
  <2> QED
    BY <2>1, <2>3, <2>4
<1>3. ~Up(a)' => \E e \in Exports : a \in status'[e].quiesced
  <2>1. ASSUME work'[a] = work[a], a \notin status[c].quiesced, ~Up(a)'
        PROVE  \E e \in Exports : a \in status'[e].quiesced
    <3>1. ~Up(a)
      BY <2>1 DEF Up
    <3>2. PICK e \in Exports : a \in status[e].quiesced
      BY <3>1 DEF PauseInv, DownIsSaid
    <3> QED
      BY <2>1, <3>2 DEF Same
  <2> QED
    BY <1>1, <2>1
<1> QED
  BY <1>1, <1>2, <1>3 DEF Fine

\* A step that is not a pass over what is paused: no status is written, no app
\* that stays is touched and no Job is started.
Calm ==
    /\ status' = status /\ installed' \subseteq installed
    /\ \A a \in installed' : work'[a] = work[a]
    /\ \A e \in Exports, x \in Slots, u \in AllUnits :
           job'[e][x][u] = "running" => job[e][x][u] = "running"

LEMMA CalmKeeps ==
    ASSUME TypeOK, PauseInv, [Next]_vars, Calm, NEW a \in installed'
    PROVE  Fine(a)'
<1>1. a \in installed /\ work'[a] = work[a] /\ status' = status
  BY DEF Calm
<1>2. a \in Slots /\ Units \subseteq AllUnits
  BY <1>1, PartTypes DEF TypeOK, Slots, AllUnits
<1>3. ASSUME NEW e \in Exports
      PROVE  (a \in status'[e].quiesced => Pausing(e, a)') /\ Begun(e, a)'
  <2>1. (a \in status[e].quiesced => Pausing(e, a)) /\ Begun(e, a)
    BY <1>1 DEF PauseInv, SaidIsSo
  <2>2. Open(e)' => Open(e)
    BY OpenBefore
  <2>3. Turned(e, a) => Turned(e, a)'
    BY TurnedStays DEF Calm
  <2>4. \A u \in Units : job'[e][a][u] = "running" => job[e][a][u] = "running"
    BY <1>2 DEF Calm
  <2>5. a \in status'[e].quiesced => Pausing(e, a)'
    BY <1>1, <2>1, <2>3 DEF Pausing, IsTerminal
  <2>6. Begun(e, a)'
    BY <1>1, <2>1, <2>2, <2>4 DEF Begun
  <2> QED
    BY <2>5, <2>6
<1>4. ~Up(a)' => \E e \in Exports : a \in status'[e].quiesced
  BY <1>1 DEF PauseInv, DownIsSaid, Up
<1> QED
  BY <1>3, <1>4 DEF Fine

\* The passes that write no status, and the world, are such steps; and they
\* keep the rest of the invariant.
Around == Marked /\ AtHand /\ NotBoth

LEMMA QuietCalm ==
    ASSUME TypeOK, PauseInv, NEW c \in Exports, ReconcileQuietly(c)
    PROVE  Calm /\ Around'
<1>1. UNCHANGED <<status, installed, retained, tenant, work>>
  BY DEF ReconcileQuietly, AddFinalizer, TidyEnded, Finalize
<1>2. Calm
  <2>1. ASSUME NEW e \in Exports, NEW x \in Slots, NEW u \in AllUnits,
               job'[e][x][u] = "running"
        PROVE  job[e][x][u] = "running"
    BY <2>1, QuietFrom DEF QuietOver, Same
  <2> QED
    BY <1>1, <2>1 DEF Calm
<1>3. NotBoth'
  BY <1>1 DEF PauseInv, NotBoth
<1>4. CASE AddFinalizer(c)
  BY <1>1, <1>2, <1>3, <1>4
     DEF AddFinalizer, Around, PauseInv, Marked, AtHand, Exists, IsTerminal,
         SecretAtHand
<1>5. CASE TidyEnded(c)
  <2>1. UNCHANGED <<obj, finalizer>> /\ source' = source \ {c}
        /\ IsTerminal(status[c])
    BY <1>5 DEF TidyEnded, discardPassphrase
  <2> QED
    BY <1>1, <1>2, <1>3, <2>1
       DEF Around, PauseInv, Marked, AtHand, Exists, IsTerminal, SecretAtHand
<1>6. CASE Finalize(c)
  <2>1. /\ obj[c] = "deleting" /\ status[c].quiesced = {}
        /\ \A e \in Exports \ {c} : obj'[e] = obj[e]
        /\ obj'[c] # "live"
        /\ finalizer \ {c} \subseteq finalizer'
        /\ source \ {c} \subseteq source'
    BY <1>6 DEF Finalize, discardPassphrase, TypeOK
  <2>2. Marked'
    BY <1>1, <2>1 DEF PauseInv, Marked, Exists
  <2>3. AtHand'
    BY <1>1, <2>1 DEF PauseInv, AtHand, IsTerminal, SecretAtHand
  <2> QED
    BY <1>2, <1>3, <2>2, <2>3 DEF Around
<1> QED
  BY <1>4, <1>5, <1>6 DEF ReconcileQuietly

LEMMA WorldCalm ==
    ASSUME Undisturbed, TypeOK, PauseInv, Environment \/ UNCHANGED vars
    PROVE  Calm /\ Around'
<1> DEFINE Goal == Calm /\ Around'
<1>1. ASSUME UNCHANGED <<status, installed, retained, work, job>> PROVE Calm
  BY <1>1 DEF Calm
<1>2. ASSUME UNCHANGED <<status, installed, retained>> PROVE NotBoth'
  BY <1>2 DEF PauseInv, NotBoth
<1>3. ASSUME UNCHANGED <<obj, finalizer, status, tenant, source>>
      PROVE  Marked' /\ AtHand'
  BY <1>3 DEF PauseInv, Marked, AtHand, Exists, IsTerminal, SecretAtHand
<1>4. ASSUME NEW c \in Exports, CreateExport(c) PROVE Goal
  <2>1. /\ UNCHANGED <<status, installed, retained, work, job, finalizer,
                       tenant>>
        /\ obj[c] = "absent" /\ obj'[c] = "live"
        /\ \A e \in Exports \ {c} : obj'[e] = obj[e]
        /\ source' = source \cup ({c} \cap NeedsSource)
    BY <1>4 DEF CreateExport, TypeOK
  <2>2. Marked'
    BY <2>1 DEF PauseInv, Marked, Exists
  <2>3. AtHand'
    BY <2>1 DEF PauseInv, AtHand, IsTerminal, SecretAtHand
  <2> QED
    BY <1>1, <1>2, <2>1, <2>2, <2>3 DEF Around
<1>5. ASSUME NEW c \in Exports, DeleteExport(c) PROVE Goal
  <2>1. /\ UNCHANGED <<status, installed, retained, work, job, finalizer,
                       tenant, source>>
        /\ c \in finalizer => obj'[c] = "deleting"
        /\ obj'[c] # "live"
        /\ \A e \in Exports \ {c} : obj'[e] = obj[e]
    BY <1>5 DEF DeleteExport, TypeOK
  <2>2. Marked'
    BY <2>1 DEF PauseInv, Marked, Exists
  <2>3. AtHand'
    BY <2>1 DEF PauseInv, AtHand, IsTerminal, SecretAtHand
  <2> QED
    BY <1>1, <1>2, <2>1, <2>2, <2>3 DEF Around
<1>6. ASSUME NEW c \in Exports, SourceLost(c) PROVE FALSE
  BY <1>6 DEF SourceLost, Undisturbed
<1>7. ASSUME NEW c \in Exports, CleanupEnds(c) PROVE Goal
  BY <1>1, <1>2, <1>3, <1>7 DEF CleanupEnds, Around
<1>8. ASSUME NEW c \in Exports, NEW y \in Slots, NEW v \in AllUnits,
             \/ JobCompletes(c, y, v) \/ JobFails(c, y, v)
             \/ JobCollected(c, y, v) \/ ForeignJob(c, y, v)
             \/ OrphanEnds(c, y, v)
      PROVE  Goal
  <2>1. UNCHANGED <<obj, Others>>
    BY <1>8 DEF JobCompletes, JobFails, JobCollected, ForeignJob, OrphanEnds
  <2>2. \A e \in Exports, x \in Slots, u \in AllUnits :
            job'[e][x][u] = "running" => job[e][x][u] = "running"
    <3>1. CASE OrphanEnds(c, y, v)
      BY <3>1 DEF OrphanEnds
    <3>2. CASE ~OrphanEnds(c, y, v)
      <4>1. PICK how \in {"complete", "failed", "stuck", "none", "foreign"} :
                job' = [job EXCEPT ![c][y][v] = how]
        BY <1>8, <3>2 DEF JobCompletes, JobFails, JobCollected, ForeignJob
      <4> QED
        BY <4>1 DEF TypeOK
    <3> QED
      BY <3>1, <3>2
  <2> QED
    BY <1>2, <1>3, <2>1, <2>2 DEF Others, Calm, Around
<1>9. ASSUME NEW b \in Apps, AppChanges(b) PROVE Goal
  <2>1. UNCHANGED <<obj, finalizer, status, tenant, source, job>>
    BY <1>9 DEF AppChanges
  <2>2. /\ installed' \subseteq installed /\ b \notin installed'
        /\ retained' \subseteq retained \cup {b}
    BY <1>9 DEF AppChanges, Undisturbed, PauseInv, NotBoth
  <2>3. \A a \in installed' : work'[a] = work[a]
    BY <1>9, <2>2 DEF AppChanges, TypeOK
  <2>4. NotBoth'
    BY <2>1, <2>2 DEF PauseInv, NotBoth
  <2> QED
    BY <1>3, <2>1, <2>2, <2>3, <2>4 DEF Calm, Around
<1>10. ASSUME TearDown PROVE Goal
  <2>1. /\ UNCHANGED <<obj, finalizer, status, source, job, work, installed,
                       retained>>
        /\ tenant' # "gone"
    BY <1>10 DEF TearDown
  <2>2. Marked' /\ AtHand'
    BY <2>1 DEF PauseInv, Marked, AtHand, Exists, IsTerminal, SecretAtHand
  <2> QED
    BY <1>1, <1>2, <2>1, <2>2 DEF Around
<1>11. ASSUME UNCHANGED vars PROVE Goal
  BY <1>1, <1>2, <1>3, <1>11 DEF vars, Around
<1> HIDE DEF Goal
<1>12. Goal
  BY <1>4, <1>5, <1>6, <1>7, <1>8, <1>9, <1>10, <1>11 DEF Environment
<1> QED
  BY <1>12 DEF Goal

LEMMA PauseStep ==
    ASSUME Undisturbed, TypeOK, PauseInv, OneExportAtATime, MemoSound,
           [Next]_vars
    PROVE  PauseInv'
<1>1. ASSUME Around', \A a \in installed' : Fine(a)' PROVE PauseInv'
  BY <1>1 DEF Around, PauseInv, Fine, SaidIsSo, DownIsSaid
<1>2. ASSUME Calm, Around' PROVE PauseInv'
  BY <1>1, <1>2, CalmKeeps
<1>3. ASSUME NEW c \in Exports, NEW ok \in Writes, Reconcile(c, ok)
      PROVE  PauseInv'
  <2>1. PassView(c)
    BY <1>3, ReconcileView
  <2>2. /\ \A f \in Exports \ {c} : Same(f)
        /\ UNCHANGED <<obj, finalizer, installed, retained, tenant>>
    BY <1>3, ReconcileFrom
  <2>3. \A a \in installed' : Fine(a)'
    <3>1. ASSUME NEW a \in installed PROVE Fine(a)'
      BY <2>1, <2>2, PassKeeps DEF PassView
    <3> QED
      BY <2>2, <3>1
  <2>4. NotBoth'
    <3>1. ASSUME NEW a \in installed, NEW e \in Exports
          PROVE  ~status'[e].entry[a].retained
      <4>1. ~status[e].entry[a].retained
        BY DEF PauseInv, NotBoth
      <4>2. CASE e = c
        <5>1. status'[c].entry[a].retained = status[c].entry[a].retained
          BY <2>1 DEF PassView, AppView, LeftAlone, Pauses, Waits, ComesBack
        <5> QED
          BY <4>1, <4>2, <5>1
      <4>3. CASE e # c
        BY <2>2, <4>1, <4>3 DEF Same
      <4> QED
        BY <4>2, <4>3
    <3> QED
      BY <2>2, <3>1 DEF PauseInv, NotBoth
  <2>5. Marked'
    <3>1. ASSUME NEW e \in Exports, status'[e].quiesced # {}
          PROVE  /\ Exists(e) /\ e \in finalizer
                 /\ status[e].bundle /\ tenant # "gone"
      <4>1. CASE status[e].quiesced # {}
        BY <4>1 DEF PauseInv, Marked
      <4>2. CASE status[e].quiesced = {}
        <5>1. e = c /\ Captures(c)
          BY <2>1, <2>2, <3>1, <4>2 DEF PassView, Same
        <5> QED
          BY <5>1 DEF Captures, Holds, Running, Exists
      <4> QED
        BY <4>1, <4>2
    <3> QED
      BY <2>2, <3>1, OpenBefore DEF Marked, Exists
  <2>6. AtHand'
    <3> SUFFICES ASSUME NEW e \in Exports, obj'[e] = "live",
                        ~IsTerminal(status'[e])
                 PROVE  SecretAtHand(e)'
      BY DEF AtHand, IsTerminal
    <3>1. SecretAtHand(e)
      BY <2>2, OpenBefore DEF PauseInv, AtHand
    <3> QED
      BY <2>1, <3>1 DEF PassView, SecretAtHand
  <2> QED
    BY <1>1, <2>3, <2>4, <2>5, <2>6 DEF Around
<1>4. ASSUME NEW c \in Exports, ReconcileQuietly(c) PROVE PauseInv'
  BY <1>2, <1>4, QuietCalm
<1>5. ASSUME Environment \/ UNCHANGED vars PROVE PauseInv'
  BY <1>2, <1>5, WorldCalm
<1> QED
  BY <1>3, <1>4, <1>5 DEF Next

LEMMA PauseInit == Init => PauseInv
<1> SUFFICES ASSUME Init PROVE PauseInv
  OBVIOUS
<1>1. /\ \A e \in Exports : obj[e] = "absent" /\ status[e] = NewStatus
      /\ \A e \in Exports, x \in Slots, u \in AllUnits : job[e][x][u] = "none"
      /\ \A a \in Apps : work[a] = Fresh(a)
      /\ installed = FirstApps /\ retained = {}
  BY DEF Init
<1>2. /\ NewStatus.quiesced = {}
      /\ \A x \in Slots : NewStatus.entry[x] = NewEntry
  BY DEF NewStatus
<1>3. NewEntry.retained = FALSE /\ NewEntry.started = FALSE
  BY DEF NewEntry
<1>4. \A a \in installed : a \in Apps /\ a \in Slots
  BY <1>1, ConfigAssumption DEF Slots
<1>5. \A a \in Apps : Up(a)
  <2> SUFFICES ASSUME NEW a \in Apps PROVE Up(a)
    OBVIOUS
  <2>1. Fresh(a).replicas = Replicas[a] /\ Fresh(a).maint = FALSE
    BY DEF Fresh
  <2>2. work[a] = Fresh(a)
    BY <1>1
  <2>3. work[a].replicas = Replicas[a] /\ ~work[a].maint
    BY <2>1, <2>2
  <2> QED
    BY <2>3 DEF Up
<1>6. Marked /\ AtHand
  BY <1>1, <1>2 DEF Marked, AtHand
<1>7. NotBoth /\ DownIsSaid
  BY <1>1, <1>2, <1>3, <1>4, <1>5 DEF NotBoth, DownIsSaid
<1>8. SaidIsSo
  <2>1. Units \subseteq AllUnits
    BY DEF AllUnits
  <2>2. ASSUME NEW e \in Exports, NEW a \in installed
        PROVE  /\ status[e].quiesced = {} /\ status[e].entry[a].started = FALSE
               /\ \A u \in Units : job[e][a][u] = "none"
    BY <1>1, <1>2, <1>3, <1>4, <2>1
  <2> QED
    BY <2>2 DEF SaidIsSo, Begun
<1> QED
  BY <1>6, <1>7, <1>8 DEF PauseInv

LEMMA PauseAlways ==
    ASSUME Undisturbed
    PROVE  Spec => []PauseInv
<1>1. TypeOK /\ OneExportAtATime /\ MemoSound /\ PauseInv /\ [Next]_vars
          => PauseInv'
  BY PauseStep
<1>2. Spec => []OneExportAtATime
  BY Exclusion DEF Undisturbed
<1> QED
  BY <1>1, <1>2, PauseInit, TypeCorrect, MemoCorrect, PTL DEF Spec

\* captureApp copies an app only while it is paused: while a Job of an export
\* that goes on copies an app that asks to be paused, the app is scaled to
\* nothing or its own command holds people out, for any exports, apps and
\* units, whatever else fails.
THEOREM CapturedUnderPause ==
    ASSUME Undisturbed
    PROVE  Spec => []CaptureUnderPause
<1>1. PauseInv => CaptureUnderPause
  <2> SUFFICES ASSUME PauseInv, NEW e \in Exports, NEW a \in installed,
                      NEW u \in Units, job[e][a][u] = "running", Running(e),
                      QuiesceMode[a] # "none"
               PROVE  Frozen(work[a])
    BY DEF CaptureUnderPause
  <2>1. Begun(e, a) /\ (a \in status[e].quiesced => Pausing(e, a)) /\ Open(e)
    BY DEF PauseInv, SaidIsSo, Running, Open, Kept
  <2> QED
    BY <2>1 DEF Begun, Pausing
<1> QED
  BY <1>1, PauseAlways, PTL

\* The record of what is paused is complete: an app that does not run is one
\* an export that exists says it paused, so that resumeAll or resumeStale will
\* put it back.
THEOREM PausesAreRecorded ==
    ASSUME Undisturbed
    PROVE  Spec => []PausedIsRecorded
<1>1. PauseInv => PausedIsRecorded
  BY DEF PauseInv, Marked, DownIsSaid, PausedIsRecorded
<1> QED
  BY <1>1, PauseAlways, PTL

=============================================================================
