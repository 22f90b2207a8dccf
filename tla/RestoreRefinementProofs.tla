----------------------- MODULE RestoreRefinementProofs -----------------------
(***************************************************************************)
(* TenantRestore implements RestorePromise, for any apps, units, bundles   *)
(* and almost any faults, when there is one restore of the tenant.         *)
(***************************************************************************)
EXTENDS RestoreRefinement, TenantRestoreProofs

\* What the promise depends on.  The restore is the only one, is not deleted
\* under way, its Jobs are gone when it has stopped them, and routes are not
\* first published behind its back.  Every other fault may happen.
Alone ==
    /\ Restores = {one}
    /\ Units # {}
    /\ Faults \cap {"delete", "orphan", "tidy"} = {}
    /\ Published \subseteq Routed

\* What is known of the restore when its status is s and its Jobs are js.
\* First: it has begun with an app once it has handed it secrets, paused it or
\* started Jobs, and with what it loaded.
Begun(s, js, a) ==
    \/ s.entry[a].started
    \/ s.entry[a].secrets \in {"applied", "delivered"}
    \/ \E u \in Units : js[a][u] \notin {"none", "foreign"}
    \/ \E u \in Units : data[a][u] # "old"

\* What it has begun with it planned, holds back, and nobody reaches.
Closed(s, a) == a \in s.plan /\ a \in s.heldBack /\ route[a] # "open"
ClosedWhileBegun(s, js) ==
    ~IsTerminal(s) => \A a \in Apps : Begun(s, js, a) => Closed(s, a)
\* A held route stays so: the pass over it, if there is one, read the hold.
HeldByRestore(s) ==
    ~IsTerminal(s) =>
        \A a \in Apps :
            /\ route[a] = "held" =>
                  a \in s.heldBack /\ (pass[a].at = "idle" \/ pass[a].held)
            /\ pass[a].at # "idle" /\ pass[a].held => a \in s.heldBack
\* A restore that is over runs no Jobs.
QuietWhenOver(s, js) ==
    IsTerminal(s) => \A x \in Slots, u \in Units : js[x][u] # "running"
\* What is recorded as done was done, and is what the bundle held.
DoneIsLoaded(s, js) ==
    \A x \in Slots, u \in Units :
        /\ u \in s.entry[x].done => js[x][u] = "complete"
        /\ js[x][u] = "complete" => data[x][u] = Bundle[one]
\* An app is ready, and rolls, when all of it is done; so is the restore.
ReadyIsDone(s) ==
    /\ ~s.started => s.plan = {}
    /\ \A a \in Apps : s.entry[a].phase = "Ready" \/ s.entry[a].rollout =>
           Units \subseteq s.entry[a].done
    /\ s.phase = "Ready" =>
           s.started /\ \A x \in s.plan \cup {TenantWide} :
               Units \subseteq s.entry[x].done

Good(s, js) ==
    /\ ClosedWhileBegun(s, js)
    /\ HeldByRestore(s)
    /\ QuietWhenOver(s, js)
    /\ DoneIsLoaded(s, js)
    /\ ReadyIsDone(s)

\* The inductive invariant.
AloneInv ==
    /\ obj[one] \in {"absent", "live"}
    /\ obj[one] = "absent" => status[one] = NewStatus
    /\ orphan = {}
    /\ \A a \in Apps : route[a] = "absent" => a \notin Routed
    /\ Good(status[one], job[one])

----------------------------------------------------------------------------
(* What keeps a status good, one operator at a time. *)

\* A change of the phase, of what is paused or of what is held back.
LEMMA SameGood ==
    ASSUME NEW s \in Statuses, NEW t \in Statuses, NEW js \in JobsOfRun,
           Good(s, js),
           t.entry = s.entry, t.plan = s.plan, t.started = s.started,
           s.heldBack \subseteq t.heldBack,
           \/ t.phase = s.phase
           \/ ~IsTerminal(s) /\ ~IsTerminal(t)
    PROVE  Good(t, js)
  <1> USE DEF Good
  <1>1. IsTerminal(t) <=> IsTerminal(s)
    BY DEF IsTerminal
  <1>2. \A a : Begun(t, js, a) <=> Begun(s, js, a)
    BY DEF Begun
  <1>3. ClosedWhileBegun(t, js)
    BY <1>1, <1>2 DEF ClosedWhileBegun, Closed
  <1>4. HeldByRestore(t)
    BY <1>1 DEF HeldByRestore
  <1>5. QuietWhenOver(t, js) /\ DoneIsLoaded(t, js)
    BY <1>1 DEF QuietWhenOver, DoneIsLoaded
  <1>6. ReadyIsDone(t)
    BY DEF ReadyIsDone, IsTerminal
  <1> QED
    BY <1>3, <1>4, <1>5, <1>6

\* Stopping the Jobs, and giving up once they are stopped.
LEMMA StopGood ==
    ASSUME NEW s \in Statuses, NEW js \in JobsOfRun, Good(s, js)
    PROVE  /\ Good(s, stopRunningRestoreJobs(js))
           /\ Good(failed(s), stopRunningRestoreJobs(js))
  <1> DEFINE k == stopRunningRestoreJobs(js)
             t == failed(s)
  <1>1. /\ \A x \in Slots, u \in Units :
              /\ k[x][u] # "running"
              /\ k[x][u] = "complete" <=> js[x][u] = "complete"
              /\ k[x][u] \notin {"none", "foreign"} =>
                     js[x][u] \notin {"none", "foreign"}
        /\ Apps \subseteq Slots
    BY DEF stopRunningRestoreJobs, JobsOfRun, JobStates, Slots
  <1>2. /\ t.entry = s.entry /\ t.plan = s.plan /\ t.started = s.started
        /\ t.phase = "Failed"
    BY DEF failed, Statuses
  <1> HIDE DEF k, t
  <1>3. \A a \in Apps : Begun(s, k, a) => Begun(s, js, a)
    BY <1>1 DEF Begun
  <1>4. Good(s, k)
    <2>1. ClosedWhileBegun(s, k)
      BY <1>3 DEF Good, ClosedWhileBegun
    <2>2. QuietWhenOver(s, k) /\ DoneIsLoaded(s, k)
      BY <1>1 DEF Good, QuietWhenOver, DoneIsLoaded
    <2> QED
      BY <2>1, <2>2 DEF Good
  <1>5. Good(t, k)
    <2>1. IsTerminal(t)
      BY <1>2 DEF IsTerminal
    <2>2. ClosedWhileBegun(t, k) /\ HeldByRestore(t)
      BY <2>1 DEF ClosedWhileBegun, HeldByRestore
    <2>3. QuietWhenOver(t, k) /\ DoneIsLoaded(t, k)
      BY <1>1, <1>2 DEF Good, QuietWhenOver, DoneIsLoaded
    <2>4. ReadyIsDone(t)
      BY <1>2 DEF Good, ReadyIsDone
    <2> QED
      BY <2>2, <2>3, <2>4 DEF Good
  <1> QED
    BY <1>4, <1>5 DEF k, t

\* Starting Jobs over a slot, which is closed if it is an app's.
LEMMA EnsureGood ==
    ASSUME NEW s \in Statuses, NEW js \in JobsOfRun, NEW x \in Slots,
           Good(s, js), ~IsTerminal(s), x \in Apps => Closed(s, x)
    PROVE  Good(s, [js EXCEPT ![x] = ensureJobs(s.entry[x], @, Units)])
  <1> DEFINE k == [js EXCEPT ![x] = ensureJobs(s.entry[x], js[x], Units)]
  <1>1. \A y \in Slots, u \in Units :
            k[y][u] = "complete" <=> js[y][u] = "complete"
    BY DEF ensureJobs, JobsOfRun, JobStates
  <1>2. \A y \in Slots : y # x => k[y] = js[y]
    BY DEF JobsOfRun
  <1> HIDE DEF k
  <1>3. ClosedWhileBegun(s, k)
    <2>1. \A a \in Apps : a # x /\ Begun(s, k, a) => Begun(s, js, a)
      BY <1>2 DEF Begun, Slots
    <2> QED
      BY <2>1 DEF Good, ClosedWhileBegun
  <1>4. QuietWhenOver(s, k) /\ DoneIsLoaded(s, k)
    BY <1>1 DEF Good, QuietWhenOver, DoneIsLoaded
  <1>5. Good(s, k)
    BY <1>3, <1>4 DEF Good
  <1> QED
    BY <1>5 DEF k

\* What an entry n of the slot x must be for the record to take it.
Entered(s, js, x, n) ==
    /\ \A u \in n.done : js[x][u] = "complete"
    /\ x \in Apps =>
        /\ n.started \/ n.secrets \in {"applied", "delivered"} =>
               Begun(s, js, x) \/ Closed(s, x)
        /\ n.phase = "Ready" \/ n.rollout => Units \subseteq n.done

LEMMA SetEntryGood ==
    ASSUME NEW s \in Statuses, NEW js \in JobsOfRun, NEW x \in Slots,
           NEW n \in Entries, Good(s, js), ~IsTerminal(s),
           Entered(s, js, x, n)
    PROVE  Good(setEntry(s, x, n), js)
  <1> DEFINE t == setEntry(s, x, n)
  <1>1. /\ t.plan = s.plan /\ t.started = s.started /\ t.phase = s.phase
        /\ t.heldBack = s.heldBack
    BY DEF setEntry, Statuses
  <1>2. \A y \in Slots : t.entry[y] = IF y = x THEN n ELSE s.entry[y]
    BY DEF setEntry, Statuses
  <1> HIDE DEF t
  <1>3. ~IsTerminal(t)
    BY <1>1 DEF IsTerminal
  <1>4. \A a \in Apps : a \in Slots
    BY DEF Slots
  <1>5. ClosedWhileBegun(t, js)
    <2>1. \A a \in Apps : Begun(t, js, a) => Begun(s, js, a) \/ Closed(s, a)
      BY <1>2, <1>4 DEF Begun, Entered
    <2> QED
      BY <1>1, <2>1 DEF Good, ClosedWhileBegun, Closed
  <1>6. HeldByRestore(t)
    BY <1>1 DEF Good, HeldByRestore
  <1>7. QuietWhenOver(t, js)
    BY <1>3 DEF QuietWhenOver
  <1>8. DoneIsLoaded(t, js)
    BY <1>2 DEF Good, DoneIsLoaded, Entered
  <1>9. ReadyIsDone(t)
    BY <1>1, <1>2, <1>3, <1>4 DEF Good, ReadyIsDone, Entered, IsTerminal
  <1>10. Good(t, js)
    BY <1>5, <1>6, <1>7, <1>8, <1>9 DEF Good
  <1> QED
    BY <1>10 DEF t

----------------------------------------------------------------------------
(* What a pass over the restore comes to. *)

\* How a status t can follow a status s: nothing the people of the tenant
\* notice, or a failure; the plan; the end.
Follows(s, t) ==
    \/ /\ t.plan = s.plan /\ t.started = s.started
       /\ t.phase = s.phase \/ (~IsTerminal(s) /\ t.phase # "Ready")
    \/ /\ ~s.started /\ t.started
       /\ ~IsTerminal(s) /\ ~IsTerminal(t)
    \/ /\ t.plan = s.plan /\ s.started /\ t.started
       /\ ~IsTerminal(s) /\ t.phase = "Ready"

Outcome ==
    /\ Good(status'[one], job'[one])
    /\ Follows(status[one], status'[one])

\* Written or not, what a pass leaves is good.
LEMMA Lands ==
    ASSUME CoreOK, NEW s \in Statuses, NEW js \in JobsOfRun, NEW ok,
           persist(one, s, ok), job' = [job EXCEPT ![one] = js],
           Good(s, js), Good(status[one], js),
           Follows(status[one], s)
    PROVE  Outcome
  <1>1. job'[one] = js
    BY OneIsARestore DEF CoreOK
  <1>2. status'[one] = s \/ status'[one] = status[one]
    BY OneIsARestore DEF CoreOK, persist
  <1>3. Follows(status[one], status[one])
    BY DEF Follows
  <1> QED
    BY <1>1, <1>2, <1>3 DEF Outcome

\* The same for a pass that leaves the Jobs.
LEMMA WriteLands ==
    ASSUME CoreOK, NEW s \in Statuses, NEW ok,
           persist(one, s, ok), UNCHANGED job,
           Good(s, job[one]), Good(status[one], job[one]),
           Follows(status[one], s)
    PROVE  Outcome
  <1>1. job[one] \in JobsOfRun /\ job' = [job EXCEPT ![one] = job[one]]
    BY OneIsARestore DEF CoreOK
  <1> QED
    BY <1>1, Lands

\* ... and for one that gives up.
LEMMA FailLands ==
    ASSUME CoreOK, Alone, NEW s \in Statuses, NEW js \in JobsOfRun, NEW ok,
           fail(one, s, js, ok), Good(s, js),
           Good(status[one], js), ~IsTerminal(status[one]),
           s.plan = status[one].plan, s.started = status[one].started
    PROVE  Outcome /\ UNCHANGED orphan
  <1> DEFINE k == stopRunningRestoreJobs(js)
  <1>1. /\ job' = [job EXCEPT ![one] = k] /\ UNCHANGED orphan
        /\ persist(one, failed(s), ok)
    BY DEF fail, Alone, Orphaned
  <1>2. k \in JobsOfRun
    BY StopJobsType, OneIsARestore
  <1>3. /\ Good(failed(s), k) /\ Good(status[one], k)
    BY StopGood, OneIsARestore DEF CoreOK
  <1>4. failed(s) \in Statuses
    BY PhaseOf
  <1>5. Follows(status[one], failed(s))
    <2>1. failed(s).plan = s.plan
      BY DEF failed, Statuses
    <2>2. failed(s).started = s.started
      BY DEF failed, Statuses
    <2>3. failed(s).phase = "Failed"
      BY PhaseOf
    <2> QED
      BY <2>1, <2>2, <2>3 DEF Follows
  <1> HIDE DEF k
  <1> QED
    BY <1>1, <1>2, <1>3, <1>4, <1>5, Lands

\* The entry of an app that fails.
LEMMA FailAppLands ==
    ASSUME CoreOK, Alone, NEW a \in Apps, NEW s \in Statuses,
           NEW js \in JobsOfRun, NEW ok,
           failApp(one, a, s, js, ok), Good(s, js),
           Good(status[one], js),
           ~IsTerminal(status[one]), s.phase = status[one].phase,
           s.plan = status[one].plan, s.started = status[one].started
    PROVE  Outcome /\ UNCHANGED orphan
  <1> DEFINE n == [s.entry[a] EXCEPT !.ended = @ \/ s.entry[a].started,
                                     !.phase = "Failed"]
             t == unmarkQuiesced(s, {a})
  <1>1. fail(one, setEntry(t, a, n), js, ok)
    BY DEF failApp
  <1>2. s.entry[a] \in Entries /\ a \in Slots
    BY DEF Statuses, Slots
  <1>3. n \in Entries
    BY <1>2, EntryUpdates
  <1>4. /\ n.done = s.entry[a].done /\ n.secrets = s.entry[a].secrets
        /\ n.replaced = s.entry[a].replaced /\ n.retained = s.entry[a].retained
        /\ n.started = s.entry[a].started /\ n.rollout = s.entry[a].rollout
        /\ n.phase = "Failed"
    BY <1>2 DEF Entries
  <1>5. t \in Statuses
    BY QuiescedType
  <1>6. /\ t.entry = s.entry /\ t.plan = s.plan /\ t.started = s.started
        /\ t.phase = s.phase /\ t.heldBack = s.heldBack
    BY DEF unmarkQuiesced, Statuses
  <1> HIDE DEF n, t
  <1>7. Good(t, js) /\ ~IsTerminal(t)
    BY <1>5, <1>6, SameGood DEF IsTerminal
  <1>8. Entered(t, js, a, n)
    <2>1. \A u \in n.done : js[a][u] = "complete"
      <3>1. s.entry[a].done \subseteq Units
        BY <1>2 DEF Entries
      <3> QED
        BY <1>2, <1>4, <3>1 DEF Good, DoneIsLoaded
    <2>2. n.started \/ n.secrets \in {"applied", "delivered"} => Begun(t, js, a)
      BY <1>4, <1>6 DEF Begun
    <2>3. n.phase = "Ready" \/ n.rollout => Units \subseteq n.done
      BY <1>4 DEF Good, ReadyIsDone
    <2> QED
      BY <2>1, <2>2, <2>3 DEF Entered
  <1>9. Good(setEntry(t, a, n), js)
    BY <1>2, <1>3, <1>5, <1>7, <1>8, SetEntryGood
  <1>10. setEntry(t, a, n) \in Statuses
    BY <1>2, <1>3, <1>5, SetEntryType
  <1>11. setEntry(t, a, n).plan = s.plan /\ setEntry(t, a, n).started = s.started
    BY <1>5, <1>6 DEF setEntry, Statuses
  <1> QED
    BY <1>1, <1>9, <1>10, <1>11, FailLands

----------------------------------------------------------------------------
(* The passes, one by one. *)

\* What every pass over the restore starts from.
LEMMA OneFacts ==
    ASSUME CoreOK, AloneInv
    PROVE  /\ one \in Restores
           /\ status[one] \in Statuses /\ job[one] \in JobsOfRun
           /\ \A x \in Slots : status[one].entry[x] \in Entries
           /\ Good(status[one], job[one])
  <1>1. one \in Restores
    BY OneIsARestore
  <1> QED
    BY <1>1, PartTypes DEF AloneInv

\* The app a pass comes to is one of the plan, and the restore runs.
LEMMA AtFacts ==
    ASSUME CoreOK, NEW x, At(one, x)
    PROVE  /\ ~IsTerminal(status[one]) /\ status[one].started
           /\ x \in Apps => x \in status[one].plan
           /\ x = NoApp => \A a \in status[one].plan :
                               status[one].entry[a].phase = "Ready"
  <1> DEFINE pending == {a \in status[one].plan : status[one].entry[a].phase # "Ready"}
  <1>1. ~IsTerminal(status[one]) /\ status[one].started
    BY DEF At, Works, Running
  <1>2. x = IF pending = {} THEN NoApp ELSE First(pending)
    BY DEF At, nextPendingApp
  <1>3. status[one].plan \subseteq Apps
    BY OneIsARestore, PartTypes DEF Statuses
  <1>4. pending # {} => First(pending) \in pending
    BY <1>3, FirstIsIn
  <1>5. NoApp \notin Apps
    BY RestoreConfig DEF NoApp
  <1> QED
    BY <1>1, <1>2, <1>3, <1>4, <1>5

\* The passes that change no entry.
LEMMA EarlyGood ==
    ASSUME CoreOK, Alone, AloneInv, NEW ok,
           \/ ResumeEnded(one, ok) \/ FinalizeResume(one, ok)
           \/ FailPreflight(one, ok) \/ Busy(one, ok) \/ FailUnusable(one, ok)
           \/ resumeStale(one, ok)
    PROVE  Outcome /\ UNCHANGED <<obj, orphan, data>>
  <1> DEFINE s == status[one]
  <1>1. /\ one \in Restores /\ s \in Statuses /\ job[one] \in JobsOfRun
        /\ Good(s, job[one])
    BY OneFacts
  <1>2. ASSUME NEW Q, resume(one, Q, ok), UNCHANGED job PROVE Outcome
    <2> DEFINE t == unmarkQuiesced(s, Q)
    <2>1. t \in Statuses
      BY <1>1, QuiescedType
    <2>2. /\ t.entry = s.entry /\ t.plan = s.plan /\ t.started = s.started
          /\ t.phase = s.phase /\ t.heldBack = s.heldBack
      BY <1>1 DEF unmarkQuiesced, Statuses
    <2>3. persist(one, t, ok)
      BY <1>2 DEF resume
    <2> HIDE DEF t
    <2>4. Good(t, job[one]) /\ Follows(s, t)
      BY <1>1, <1>2, <2>1, <2>2, SameGood DEF Follows
    <2> QED
      BY <1>1, <1>2, <2>1, <2>3, <2>4, WriteLands
  <1>3. CASE ResumeEnded(one, ok)
    BY <1>2, <1>3 DEF ResumeEnded, resumeAll
  <1>4. CASE resumeStale(one, ok)
    BY <1>2, <1>4 DEF resumeStale
  <1>5. CASE FinalizeResume(one, ok)
    BY <1>5 DEF FinalizeResume, AloneInv
  <1>6. CASE FailPreflight(one, ok) \/ FailUnusable(one, ok)
    <2>1. /\ fail(one, s, job[one], ok) /\ ~IsTerminal(s)
          /\ UNCHANGED <<obj, data>>
      BY <1>6 DEF FailPreflight, FailUnusable, Running, appState
    <2> QED
      BY <1>1, <2>1, FailLands
  <1>7. CASE Busy(one, ok)
    <2> DEFINE t == [s EXCEPT !.phase = "Pending"]
    <2>1. t \in Statuses
      BY <1>1 DEF Statuses, Phases
    <2>2. /\ t.entry = s.entry /\ t.plan = s.plan /\ t.started = s.started
          /\ t.heldBack = s.heldBack
      BY <1>1 DEF Statuses
    <2>3. t.phase = "Pending"
      BY <1>1 DEF Statuses
    <2>4. /\ persist(one, t, ok) /\ ~IsTerminal(s)
          /\ UNCHANGED <<job, obj, orphan, data>>
      BY <1>7 DEF Busy, Running, appState
    <2> HIDE DEF t
    <2>5. ~IsTerminal(t)
      BY <2>3 DEF IsTerminal
    <2>6. Good(t, job[one])
      BY <1>1, <2>1, <2>2, <2>4, <2>5, SameGood
    <2>7. Follows(s, t)
      BY <2>2, <2>3, <2>4 DEF Follows
    <2> QED
      BY <1>1, <2>1, <2>4, <2>6, <2>7, WriteLands
  <1> QED
    BY <1>3, <1>4, <1>5, <1>6, <1>7

\* The plan: nothing was begun before it.
LEMMA PlanGood ==
    ASSUME CoreOK, Alone, AloneInv, NEW ok, Plan(one, ok)
    PROVE  Outcome /\ UNCHANGED <<obj, orphan, data>>
  <1> DEFINE s == status[one]
  <1>1. /\ one \in Restores /\ s \in Statuses /\ job[one] \in JobsOfRun
        /\ Good(s, job[one])
    BY OneFacts
  <1>2. /\ ~s.started /\ ~IsTerminal(s)
        /\ UNCHANGED <<obj, data>>
    BY DEF Plan, Works, Running, appState
  <1>3. PICK O \in Omissions(one) :
            \/ fail(one, s, job[one], ok)
            \/ /\ persist(one, recordPlan(one, O), ok)
               /\ UNCHANGED <<job, orphan>>
    BY DEF Plan
  <1>4. CASE fail(one, s, job[one], ok)
    BY <1>1, <1>2, <1>4, FailLands
  <1>5. CASE persist(one, recordPlan(one, O), ok) /\ UNCHANGED <<job, orphan>>
    <2> DEFINE t == recordPlan(one, O)
    <2>1. t \in Statuses
      BY <1>1, PlanType
    <2>2. /\ t.started /\ t.phase = "Running" /\ t.heldBack = s.heldBack
      BY <1>1 DEF recordPlan, Statuses
    <2>3. \A x \in Slots : t.entry[x] \in {NewEntry, [NewEntry EXCEPT !.retained = TRUE]}
      BY <1>1 DEF recordPlan, Statuses
    <2>4. \A x \in Slots :
              /\ t.entry[x].started = FALSE /\ t.entry[x].rollout = FALSE
              /\ t.entry[x].secrets = "" /\ t.entry[x].done = {}
              /\ t.entry[x].phase = "Pending"
      <3>1. \A n \in {NewEntry, [NewEntry EXCEPT !.retained = TRUE]} :
                /\ n.started = FALSE /\ n.rollout = FALSE
                /\ n.secrets = "" /\ n.done = {} /\ n.phase = "Pending"
        <4>1. /\ NewEntry.started = FALSE /\ NewEntry.rollout = FALSE
              /\ NewEntry.secrets = "" /\ NewEntry.done = {}
              /\ NewEntry.phase = "Pending"
          BY DEF NewEntry
        <4>2. NewEntry \in Entries
          BY DEF NewEntry, Entries, Phases
        <4>3. LET n == [NewEntry EXCEPT !.retained = TRUE]
              IN  /\ n.started = NewEntry.started /\ n.rollout = NewEntry.rollout
                  /\ n.secrets = NewEntry.secrets /\ n.done = NewEntry.done
                  /\ n.phase = NewEntry.phase
          BY <4>2 DEF Entries
        <4> QED
          BY <4>1, <4>3
      <3> HIDE DEF t
      <3> QED
        BY <2>3, <3>1
    <2>5. \A a \in Apps : a \in Slots
      BY DEF Slots
    <2> HIDE DEF t
    <2>6. ~IsTerminal(t)
      BY <2>2 DEF IsTerminal
    <2>7. ClosedWhileBegun(t, job[one])
      <3>1. \A a \in Apps : ~Begun(s, job[one], a)
        BY <1>1, <1>2 DEF Good, ClosedWhileBegun, Closed, ReadyIsDone
      <3>2. \A a \in Apps : ~Begun(t, job[one], a)
        BY <2>4, <2>5, <3>1 DEF Begun
      <3> QED
        BY <3>2 DEF ClosedWhileBegun
    <2>8. HeldByRestore(t)
      BY <1>1, <1>2, <2>2 DEF Good, HeldByRestore
    <2>9. QuietWhenOver(t, job[one]) /\ DoneIsLoaded(t, job[one])
      BY <1>1, <2>4, <2>6 DEF Good, QuietWhenOver, DoneIsLoaded
    <2>10. ReadyIsDone(t)
      BY <2>2, <2>4, <2>5 DEF ReadyIsDone
    <2>11. Good(t, job[one])
      BY <2>7, <2>8, <2>9, <2>10 DEF Good
    <2>12. Follows(s, t)
      BY <1>2, <2>2, <2>6 DEF Follows
    <2> QED
      BY <1>1, <1>2, <1>5, <2>1, <2>11, <2>12, WriteLands DEF t
  <1> QED
    BY <1>3, <1>4, <1>5

\* A pass that writes an entry, and perhaps marks the app paused or not.
LEMMA EntryLands ==
    ASSUME CoreOK, NEW x \in Slots, NEW n \in Entries, NEW js \in JobsOfRun,
           NEW t \in Statuses, NEW ok,
           t \in {status[one]} \cup {markQuiesced(status[one], a) : a \in Apps}
                     \cup {unmarkQuiesced(status[one], {a}) : a \in Apps},
           persist(one, setEntry(t, x, n), ok), job' = [job EXCEPT ![one] = js],
           Good(status[one], js), ~IsTerminal(status[one]),
           Entered(status[one], js, x, n)
    PROVE  Outcome
  <1> DEFINE s == status[one]
             w == setEntry(t, x, n)
  <1>1. s \in Statuses
    BY OneIsARestore, PartTypes
  <1>2. /\ t.entry = s.entry /\ t.plan = s.plan /\ t.started = s.started
        /\ t.phase = s.phase /\ t.heldBack = s.heldBack
    <2>1. CASE t = s
      BY <2>1
    <2>2. ASSUME NEW a, t = markQuiesced(s, a) \/ t = unmarkQuiesced(s, {a})
          PROVE  /\ t.entry = s.entry /\ t.plan = s.plan /\ t.started = s.started
                 /\ t.phase = s.phase /\ t.heldBack = s.heldBack
      BY <1>1, <2>2 DEF markQuiesced, unmarkQuiesced, Statuses
    <2> QED
      BY <2>1, <2>2
  <1>3. w \in Statuses
    BY SetEntryType
  <1>4. w.plan = s.plan /\ w.started = s.started /\ w.phase = s.phase
    BY <1>2 DEF setEntry, Statuses
  <1>5. Good(t, js) /\ ~IsTerminal(t)
    BY <1>1, <1>2, SameGood DEF IsTerminal
  <1>6. Entered(t, js, x, n)
    BY <1>2 DEF Entered, Begun, Closed
  <1>7. Good(w, js)
    BY <1>5, <1>6, SetEntryGood
  <1>8. Follows(s, w)
    BY <1>4 DEF Follows
  <1> HIDE DEF w
  <1> QED
    BY <1>3, <1>7, <1>8, Lands DEF w

\* What ensureRestoreJob records as done is done, now and after it.
LEMMA Ensures ==
    ASSUME NEW old \in Entries, NEW j, \A u \in old.done : j[u] = "complete"
    PROVE  LET en == ensureEntry(old, j, Units)
           IN  /\ \A u \in en.done :
                     j[u] = "complete" /\ ensureJobs(old, j, Units)[u] = "complete"
               /\ old.done \subseteq en.done /\ en \in Entries
               /\ en.started = old.started /\ en.secrets = old.secrets
               /\ en.retained = old.retained /\ en.rollout = old.rollout
               /\ en.phase = old.phase
  <1> DEFINE en == ensureEntry(old, j, Units)
  <1>1. en \in Entries
    BY EnsureEntryType
  <1>2. en.done = old.done \cup {u \in Units : j[u] = "complete"}
    BY DEF ensureEntry, Entries
  <1>3. /\ en.started = old.started /\ en.secrets = old.secrets
        /\ en.retained = old.retained /\ en.rollout = old.rollout
        /\ en.phase = old.phase
    BY DEF ensureEntry, Entries
  <1>4. old.done \subseteq Units
    BY DEF Entries
  <1>5. \A u \in en.done : u \in Units /\ j[u] = "complete"
    BY <1>2, <1>4
  <1>6. \A u \in en.done : ensureJobs(old, j, Units)[u] = "complete"
    BY <1>5 DEF ensureJobs
  <1>7. old.done \subseteq en.done
    BY <1>2
  <1> QED
    BY <1>1, <1>3, <1>5, <1>6, <1>7

\* What was recorded of a slot of the restore is complete.
LEMMA DoneWas ==
    ASSUME NEW s \in Statuses, NEW js, NEW x \in Slots, Good(s, js)
    PROVE  \A u \in s.entry[x].done : js[x][u] = "complete"
  <1>1. s.entry[x].done \subseteq Units
    BY DEF Statuses, Entries
  <1> QED
    BY <1>1 DEF Good, DoneIsLoaded

\* An entry that differs from the one there is in how far its units are.
LEMMA FurtherEntered ==
    ASSUME NEW s \in Statuses, NEW js \in JobsOfRun, NEW x \in Slots,
           NEW n \in Entries, Good(s, js),
           \A u \in n.done : js[x][u] = "complete",
           n.phase = "Ready" \/ n.rollout => Units \subseteq n.done,
           n.started = s.entry[x].started, n.secrets = s.entry[x].secrets
    PROVE  Entered(s, js, x, n)
  <1>1. n.started \/ n.secrets \in {"applied", "delivered"} => Begun(s, js, x)
    BY DEF Begun
  <1> QED
    BY <1>1 DEF Entered

\* From the hold at the edge to the secrets, and the wait for the roll.
LEMMA HoldGood ==
    ASSUME CoreOK, Alone, AloneInv, NEW a \in Apps, NEW ok,
           \/ holdBack(one, a, ok) \/ PlanSecrets(one, a, ok)
           \/ ApplySecrets(one, a, ok) \/ AwaitSecrets(one, a, ok)
           \/ PodTimeout(one, a, ok) \/ awaitRollout(one, a, ok)
    PROVE  Outcome /\ UNCHANGED <<obj, orphan, data>>
  <1> DEFINE s == status[one]
             js == job[one]
             en == Entry(one, a)
  <1>1. /\ one \in Restores /\ s \in Statuses /\ js \in JobsOfRun
        /\ en \in Entries /\ a \in Slots /\ en = s.entry[a]
        /\ Good(s, js) /\ job = [job EXCEPT ![one] = js]
    BY OneFacts DEF Entry, Slots, CoreOK
  <1>2. /\ ~IsTerminal(s) /\ s.started /\ a \in s.plan
        /\ held(one, a) => Closed(s, a)
    BY AtFacts DEF holdBack, PlanSecrets, ApplySecrets, AwaitSecrets, PodTimeout,
                   awaitRollout, Loaded, AtInstalled, held, Closed,
                   Edge!restoreHoldInPlace
  <1> HIDE DEF js, en
  <1>3. ASSUME failApp(one, a, s, js, ok)
        PROVE  Outcome /\ UNCHANGED orphan
    BY <1>1, <1>2, <1>3, FailAppLands
  <1>4. ASSUME NEW n \in Entries, persist(one, setEntry(s, a, n), ok),
               UNCHANGED job, Entered(s, js, a, n)
        PROVE  Outcome
    BY <1>1, <1>2, <1>4, EntryLands
  <1>5. \A n \in Entries :
            /\ n.done = en.done /\ n.rollout = en.rollout /\ n.phase = en.phase
            /\ n.started = en.started
            /\ n.secrets \in {"applied", "delivered"} => Closed(s, a)
            => Entered(s, js, a, n)
    <2>1. en.done \subseteq Units
      BY <1>1 DEF Entries
    <2>2. \A u \in en.done : js[a][u] = "complete"
      BY <1>1, <2>1 DEF Good, DoneIsLoaded
    <2>3. en.phase = "Ready" \/ en.rollout => Units \subseteq en.done
      BY <1>1 DEF Good, ReadyIsDone
    <2>4. en.started => Begun(s, js, a)
      BY <1>1 DEF Begun
    <2> QED
      BY <2>2, <2>3, <2>4 DEF Entered
  <1>6. CASE holdBack(one, a, ok)
    <2> DEFINE t == [s EXCEPT !.heldBack = @ \cup {a}]
    <2>1. t \in Statuses
      BY <1>1 DEF Statuses
    <2>2. /\ t.entry = s.entry /\ t.plan = s.plan /\ t.started = s.started
          /\ t.phase = s.phase /\ t.heldBack = s.heldBack \cup {a}
      BY <1>1 DEF Statuses
    <2>3. /\ \/ persist(one, t, ok) /\ UNCHANGED <<job, orphan>>
             \/ failApp(one, a, s, js, ok)
          /\ UNCHANGED <<obj, data>>
      BY <1>6 DEF holdBack, Steady, js
    <2> HIDE DEF t
    <2>4. Good(t, js)
      BY <1>1, <2>1, <2>2, SameGood
    <2>5. Follows(s, t)
      BY <2>2 DEF Follows
    <2> QED
      BY <1>1, <1>3, <2>1, <2>3, <2>4, <2>5, WriteLands DEF js
  <1>7. CASE PlanSecrets(one, a, ok)
    <2> DEFINE n == [en EXCEPT !.secrets = "planned", !.replaced = appLacks(one, a)]
    <2>0. appLacks(one, a) \in BOOLEAN
      BY DEF appLacks
    <2>1. n \in Entries
      BY <1>1, <2>0, EntryUpdates
    <2>2. /\ n.done = en.done /\ n.rollout = en.rollout /\ n.phase = en.phase
          /\ n.started = en.started
      BY <1>1 DEF Entries
    <2>3. n.secrets = "planned"
      BY <1>1 DEF Entries
    <2>4. /\ \/ persist(one, setEntry(s, a, n), ok) /\ UNCHANGED <<job, orphan>>
             \/ failApp(one, a, s, js, ok)
          /\ ~en.started
          /\ UNCHANGED <<obj, data>>
      BY <1>7 DEF PlanSecrets, Steady, js, en
    <2> HIDE DEF n
    <2>5. Entered(s, js, a, n)
      BY <1>5, <2>1, <2>2, <2>3
    <2> QED
      BY <1>1, <1>3, <1>4, <2>1, <2>4, <2>5
  <1>8. CASE ApplySecrets(one, a, ok)
    <2> DEFINE z == IF en.secrets # "" /\ ~en.replaced THEN "delivered" ELSE "applied"
               n == [en EXCEPT !.secrets = z]
    <2>1. n \in Entries
      BY <1>1, EntryUpdates
    <2>2. /\ n.done = en.done /\ n.rollout = en.rollout /\ n.phase = en.phase
          /\ n.started = en.started
      BY <1>1 DEF Entries
    <2>3. persist(one, setEntry(s, a, n), ok)
      BY <1>1, <1>8 DEF ApplySecrets, en
    <2>4. UNCHANGED <<job, orphan, obj, data>> /\ Closed(s, a)
      BY <1>2, <1>8 DEF ApplySecrets, Steady, en
    <2> HIDE DEF n
    <2>5. Entered(s, js, a, n)
      BY <1>5, <2>1, <2>2, <2>4
    <2> QED
      BY <1>4, <2>1, <2>3, <2>4, <2>5
  <1>9. CASE AwaitSecrets(one, a, ok)
    <2> DEFINE n == [en EXCEPT !.secrets = "delivered"]
    <2>1. n \in Entries
      BY <1>1, EntryUpdates
    <2>2. /\ n.done = en.done /\ n.rollout = en.rollout /\ n.phase = en.phase
          /\ n.started = en.started
      BY <1>1 DEF Entries
    <2>3. /\ \/ persist(one, setEntry(s, a, n), ok) /\ UNCHANGED <<job, orphan>>
             \/ failApp(one, a, s, js, ok)
          /\ Closed(s, a)
          /\ UNCHANGED <<obj, data>>
      BY <1>2, <1>9 DEF AwaitSecrets, Steady, js, en
    <2> HIDE DEF n
    <2>4. Entered(s, js, a, n)
      BY <1>5, <2>1, <2>2, <2>3
    <2> QED
      BY <1>1, <1>3, <1>4, <2>1, <2>3, <2>4
  <1>10. CASE PodTimeout(one, a, ok)
    BY <1>3, <1>10 DEF PodTimeout, Steady, js
  <1>11. CASE awaitRollout(one, a, ok)
    <2> DEFINE n == [en EXCEPT !.phase = "Ready"]
    <2>1. n \in Entries
      BY <1>1, EntryUpdates DEF Phases
    <2>2. /\ n.done = en.done /\ n.rollout = en.rollout
          /\ n.started = en.started /\ n.secrets = en.secrets
          /\ n.replaced = en.replaced /\ n.retained = en.retained
      BY <1>1 DEF Entries
    <2>3. /\ persist(one, setEntry(s, a, n), ok) /\ en.rollout
          /\ UNCHANGED <<job, orphan, obj, data>>
      BY <1>11 DEF awaitRollout, Steady, appState, en
    <2> HIDE DEF n
    <2>4. Units \subseteq n.done /\ n.done \subseteq Units
      BY <1>1, <2>1, <2>2, <2>3 DEF Good, ReadyIsDone, Entries
    <2>5. \A u \in n.done : js[a][u] = "complete"
      BY <1>1, <2>2, <2>4 DEF Good, DoneIsLoaded
    <2>6. Entered(s, js, a, n)
      BY <1>1, <2>1, <2>2, <2>3, <2>4, <2>5, FurtherEntered
    <2> QED
      BY <1>1, <1>4, <2>1, <2>3, <2>6
  <1> QED
    BY <1>6, <1>7, <1>8, <1>9, <1>10, <1>11

\* restoreApp from the pause to the roll.
LEMMA LoadGood ==
    ASSUME CoreOK, Alone, AloneInv, NEW a \in Apps, NEW ok,
           \/ PauseApp(one, a, ok) \/ RestoreWaits(one, a, ok)
           \/ ResumeForCommands(one, a, ok) \/ Commands(one, a, ok)
    PROVE  Outcome /\ UNCHANGED <<obj, orphan, data>>
  <1> DEFINE s == status[one]
             js == job[one]
             old == Entry(one, a)
             en == ensureEntry(old, js[a], Units)
             k == [js EXCEPT ![a] = ensureJobs(old, @, Units)]
  <1>1. /\ one \in Restores /\ s \in Statuses /\ js \in JobsOfRun
        /\ old \in Entries /\ a \in Slots /\ old = s.entry[a]
        /\ Good(s, js) /\ job = [job EXCEPT ![one] = js]
    BY OneFacts DEF Entry, Slots, CoreOK
  <1>2. /\ ~IsTerminal(s) /\ s.started /\ a \in s.plan
        /\ held(one, a) => Closed(s, a)
        /\ UNCHANGED <<obj, data>>
    BY AtFacts DEF PauseApp, RestoreWaits, ResumeForCommands, Commands, Loaded,
                   AtInstalled, held, Closed, Edge!restoreHoldInPlace, Steady
  <1>3. /\ \A u \in en.done : js[a][u] = "complete" /\ k[a][u] = "complete"
        /\ old.done \subseteq en.done
        /\ en \in Entries /\ k \in JobsOfRun
        /\ en.started = old.started /\ en.secrets = old.secrets
        /\ en.rollout = old.rollout /\ en.phase = old.phase
    <2>1. k \in JobsOfRun
      BY <1>1, EnsureJobsType
    <2>2. k[a] = ensureJobs(old, js[a], Units)
      BY <1>1 DEF JobsOfRun
    <2>3. \A u \in old.done : js[a][u] = "complete"
      BY <1>1, DoneWas
    <2> HIDE DEF k, js, old
    <2> QED
      BY <1>1, <2>1, <2>2, <2>3, Ensures
  <1>4. PauseApp(one, a, ok) =>
            \/ failApp(one, a, s, js, ok)
            \/ /\ \E m \in Modes :
                     persist(one, setEntry(markQuiesced(s, a), a,
                         [old EXCEPT !.started = TRUE, !.mode = m,
                                     !.phase = "Running"]), ok)
               /\ held(one, a) /\ SecretsDelivered(one, a)
               /\ UNCHANGED <<job, orphan>>
    BY WorkType, PartTypes, OneIsARestore DEF PauseApp
  <1>5. RestoreWaits(one, a, ok) =>
            /\ old.started
            /\ \/ failApp(one, a, setEntry(s, a, en), k, ok)
               \/ failApp(one, a, s, js, ok)
               \/ /\ job' = [job EXCEPT ![one] = k] /\ UNCHANGED orphan
                  /\ persist(one, setEntry(s, a, en), ok)
    BY DEF RestoreWaits
  <1>6. ResumeForCommands(one, a, ok) =>
            /\ persist(one, setEntry(unmarkQuiesced(s, {a}), a,
                                     [en EXCEPT !.ended = TRUE]), ok)
            /\ UNCHANGED <<job, orphan>>
    BY DEF ResumeForCommands, Ensured
  <1>7. Commands(one, a, ok) =>
            \/ failApp(one, a, setEntry(s, a, en), js, ok)
            \/ /\ persist(one, setEntry(unmarkQuiesced(s, {a}), a,
                      [en EXCEPT !.ended = TRUE, !.rollout = TRUE]), ok)
               /\ Units \subseteq en.done
               /\ UNCHANGED <<job, orphan>>
    BY DEF Commands, Ensured, Loaded
  <1> HIDE DEF js, old, en, k
  <1>8. /\ Good(s, js)
        /\ s \in {status[one]} \cup {markQuiesced(status[one], b) : b \in Apps}
                     \cup {unmarkQuiesced(status[one], {b}) : b \in Apps}
        /\ markQuiesced(s, a) \in Statuses /\ unmarkQuiesced(s, {a}) \in Statuses
    BY <1>1, <1>2, QuiescedType
  <1>9. en.phase = "Ready" \/ en.rollout => Units \subseteq en.done
    BY <1>1, <1>3 DEF Good, ReadyIsDone
  <1>10. ASSUME NEW i \in JobsOfRun, Good(s, i),
                \A u \in en.done : i[a][u] = "complete"
         PROVE  /\ Good(setEntry(s, a, en), i)
                /\ Entered(s, i, a, en)
    <2>1. Entered(s, i, a, en)
      BY <1>1, <1>3, <1>9, <1>10, FurtherEntered
    <2> QED
      BY <1>1, <1>2, <1>3, <1>10, <2>1, SetEntryGood
  <1>11. ASSUME NEW i \in JobsOfRun, Good(s, i),
                \A u \in en.done : i[a][u] = "complete",
                failApp(one, a, setEntry(s, a, en), i, ok)
         PROVE  Outcome /\ UNCHANGED orphan
    <2>1. setEntry(s, a, en) \in Statuses
      BY <1>1, <1>3, SetEntryType
    <2>2. /\ setEntry(s, a, en).phase = s.phase /\ setEntry(s, a, en).plan = s.plan
          /\ setEntry(s, a, en).started = s.started
      BY <1>1 DEF setEntry, Statuses
    <2>3. Good(setEntry(s, a, en), i)
      BY <1>10, <1>11
    <2> QED
      BY <1>2, <1>11, <2>1, <2>2, <2>3, FailAppLands
  <1>12. ASSUME failApp(one, a, s, js, ok) PROVE Outcome /\ UNCHANGED orphan
    BY <1>1, <1>2, <1>8, <1>12, FailAppLands
  <1>13. CASE PauseApp(one, a, ok)
    <2>1. CASE failApp(one, a, s, js, ok)
      BY <1>2, <1>12, <2>1
    <2>2. CASE ~failApp(one, a, s, js, ok)
      <3>1. PICK m \in Modes :
                persist(one, setEntry(markQuiesced(s, a), a,
                    [old EXCEPT !.started = TRUE, !.mode = m,
                                !.phase = "Running"]), ok)
        BY <1>4, <1>13, <2>2
      <3>2. held(one, a) /\ SecretsDelivered(one, a) /\ UNCHANGED <<job, orphan>>
        BY <1>4, <1>13, <2>2
      <3> DEFINE n == [old EXCEPT !.started = TRUE, !.mode = m, !.phase = "Running"]
      <3>3. n \in Entries
        BY <1>1, EntryUpdates
      <3>4. /\ n.done = old.done /\ n.rollout = old.rollout /\ n.phase = "Running"
            /\ n.secrets = old.secrets /\ n.replaced = old.replaced
            /\ n.retained = old.retained /\ n.started = TRUE
        BY <1>1 DEF Entries
      <3> HIDE DEF n
      <3>5. old.done \subseteq Units
        BY <1>1 DEF Entries
      <3>6. \A u \in n.done : js[a][u] = "complete"
        BY <1>1, <3>4, <3>5 DEF Good, DoneIsLoaded
      <3>7. n.rollout => Units \subseteq n.done
        BY <1>1, <3>4 DEF Good, ReadyIsDone
      <3>8. Entered(s, js, a, n)
        BY <1>2, <3>2, <3>4, <3>6, <3>7 DEF Entered
      <3>9. persist(one, setEntry(markQuiesced(s, a), a, n), ok)
        BY <3>1 DEF n
      <3>10. Outcome
        <4>1. markQuiesced(s, a) \in {status[one]}
                  \cup {markQuiesced(status[one], b) : b \in Apps}
                  \cup {unmarkQuiesced(status[one], {b}) : b \in Apps}
          OBVIOUS
        <4>2. job' = [job EXCEPT ![one] = js]
          BY <1>1, <3>2
        <4> QED
          BY <1>1, <1>2, <1>8, <3>3, <3>8, <3>9, <4>1, <4>2, EntryLands
      <3> QED
        BY <1>2, <3>2, <3>10
    <2> QED
      BY <2>1, <2>2
  <1>14. CASE RestoreWaits(one, a, ok)
    <2>1. Closed(s, a)
      <3>1. Begun(s, js, a)
        BY <1>1, <1>5, <1>14 DEF Begun
      <3> QED
        BY <1>1, <1>2, <3>1 DEF Good, ClosedWhileBegun
    <2>2. Good(s, k)
      BY <1>1, <1>2, <1>8, <2>1, EnsureGood DEF k
    <2>3. CASE failApp(one, a, s, js, ok)
      BY <1>2, <1>12, <2>3
    <2>4. CASE failApp(one, a, setEntry(s, a, en), k, ok)
      BY <1>2, <1>3, <1>11, <2>2, <2>4
    <2>5. CASE /\ job' = [job EXCEPT ![one] = k] /\ UNCHANGED orphan
               /\ persist(one, setEntry(s, a, en), ok)
      <3>1. Entered(s, k, a, en)
        BY <1>3, <1>10, <2>2
      <3> QED
        BY <1>1, <1>2, <1>3, <1>8, <2>2, <2>5, <3>1, EntryLands
    <2> QED
      BY <1>5, <1>14, <2>3, <2>4, <2>5
  <1>15. ASSUME NEW n \in Entries,
                persist(one, setEntry(unmarkQuiesced(s, {a}), a, n), ok),
                UNCHANGED <<job, orphan>>,
                n.done = en.done, n.phase = en.phase, n.started = en.started,
                n.rollout => Units \subseteq en.done,
                n.secrets = en.secrets, n.replaced = en.replaced,
                n.retained = en.retained
         PROVE  Outcome
    <2>1. Entered(s, js, a, n)
      BY <1>1, <1>3, <1>8, <1>9, <1>15, FurtherEntered
    <2>2. unmarkQuiesced(s, {a}) \in {status[one]}
              \cup {markQuiesced(status[one], b) : b \in Apps}
              \cup {unmarkQuiesced(status[one], {b}) : b \in Apps}
      OBVIOUS
    <2>3. job' = [job EXCEPT ![one] = js]
      BY <1>1, <1>15
    <2> QED
      BY <1>1, <1>2, <1>8, <1>15, <2>1, <2>2, <2>3, EntryLands
  <1>16. CASE ResumeForCommands(one, a, ok)
    <2> DEFINE n == [en EXCEPT !.ended = TRUE]
    <2>1. n \in Entries
      BY <1>3, EntryUpdates
    <2>2. /\ n.done = en.done /\ n.phase = en.phase /\ n.started = en.started
          /\ n.rollout = en.rollout
          /\ n.secrets = en.secrets /\ n.replaced = en.replaced
          /\ n.retained = en.retained
      BY <1>3 DEF Entries
    <2>3. /\ persist(one, setEntry(unmarkQuiesced(s, {a}), a, n), ok)
          /\ UNCHANGED <<job, orphan>>
      BY <1>6, <1>16
    <2> HIDE DEF n
    <2> QED
      BY <1>2, <1>9, <1>15, <2>1, <2>2, <2>3
  <1>17. CASE Commands(one, a, ok)
    <2> DEFINE n == [en EXCEPT !.ended = TRUE, !.rollout = TRUE]
    <2>1. n \in Entries
      BY <1>3, EntryUpdates
    <2>2. /\ n.done = en.done /\ n.phase = en.phase /\ n.started = en.started
          /\ n.secrets = en.secrets /\ n.replaced = en.replaced
          /\ n.retained = en.retained
      BY <1>3 DEF Entries
    <2>3. \/ failApp(one, a, setEntry(s, a, en), js, ok)
          \/ /\ persist(one, setEntry(unmarkQuiesced(s, {a}), a, n), ok)
             /\ Units \subseteq en.done
             /\ UNCHANGED <<job, orphan>>
      BY <1>7, <1>17
    <2> HIDE DEF n
    <2>4. CASE failApp(one, a, setEntry(s, a, en), js, ok)
      BY <1>1, <1>2, <1>3, <1>8, <1>11, <2>4
    <2>5. CASE ~failApp(one, a, setEntry(s, a, en), js, ok)
      BY <1>2, <1>15, <2>1, <2>2, <2>3, <2>5
    <2> QED
      BY <2>4, <2>5
  <1> QED
    BY <1>13, <1>14, <1>16, <1>17

\* A restore that gives up with an entry of a slot marked failed.
LEMMA EntryFailLands ==
    ASSUME CoreOK, Alone, NEW x \in Slots, NEW n \in Entries,
           NEW js \in JobsOfRun, NEW ok,
           fail(one, setEntry(status[one], x, n), js, ok),
           Good(status[one], js), ~IsTerminal(status[one]),
           Entered(status[one], js, x, n)
    PROVE  Outcome /\ UNCHANGED orphan
  <1> DEFINE s == status[one]
             w == setEntry(s, x, n)
  <1>1. s \in Statuses
    BY OneIsARestore, PartTypes
  <1>2. w \in Statuses
    BY <1>1, SetEntryType
  <1>3. w.plan = s.plan /\ w.started = s.started
    BY <1>1 DEF setEntry, Statuses
  <1>4. Good(w, js)
    BY <1>1, SetEntryGood
  <1>5. fail(one, w, js, ok)
    OBVIOUS
  <1> HIDE DEF w
  <1> QED
    BY <1>2, <1>3, <1>4, <1>5, FailLands

\* A change of the phase of an entry is nothing else.
LEMMA PhaseUpdate ==
    ASSUME NEW e \in Entries, NEW ph \in Phases
    PROVE  LET n == [e EXCEPT !.phase = ph]
           IN  /\ n \in Entries /\ n.done = e.done /\ n.started = e.started
               /\ n.retained = e.retained /\ n.rollout = e.rollout
               /\ n.secrets = e.secrets /\ n.replaced = e.replaced
               /\ n.attempts = e.attempts /\ n.phase = ph
  <1> DEFINE n == [e EXCEPT !.phase = ph]
  <1>1. n \in Entries
    BY EntryUpdates
  <1>2. /\ n.done = e.done /\ n.started = e.started
        /\ n.retained = e.retained /\ n.rollout = e.rollout
        /\ n.secrets = e.secrets /\ n.replaced = e.replaced
        /\ n.attempts = e.attempts
    BY DEF Entries
  <1>3. n.phase = ph
    BY DEF Entries
  <1> QED
    BY <1>1, <1>2, <1>3

\* restoreRetained: held back, loaded with no pause.
LEMMA RetainedGood ==
    ASSUME CoreOK, Alone, AloneInv, NEW a \in Apps, NEW ok,
           RestoreRetained(one, a, ok)
    PROVE  Outcome /\ UNCHANGED <<obj, orphan, data>>
  <1> DEFINE s == status[one]
             js == job[one]
             old == Entry(one, a)
             e == ensureEntry(old, js[a], Units)
             k == [js EXCEPT ![a] = ensureJobs(old, @, Units)]
             en == [e EXCEPT !.phase = "Running", !.secrets = "delivered"]
  <1>1. /\ one \in Restores /\ s \in Statuses /\ js \in JobsOfRun
        /\ old \in Entries /\ a \in Slots /\ old = s.entry[a]
        /\ Good(s, js) /\ job = [job EXCEPT ![one] = js]
    BY OneFacts DEF Entry, Slots, CoreOK
  <1>2. /\ ~IsTerminal(s) /\ Closed(s, a) /\ old.retained
        /\ UNCHANGED <<obj, data>>
    BY AtFacts DEF RestoreRetained, held, Closed, Edge!restoreHoldInPlace, Steady
  <1>3. /\ \A u \in e.done : js[a][u] = "complete" /\ k[a][u] = "complete"
        /\ old.done \subseteq e.done
        /\ e \in Entries /\ k \in JobsOfRun
        /\ e.started = old.started
        /\ e.retained = old.retained
        /\ e.rollout = old.rollout
    <2>1. k \in JobsOfRun
      BY <1>1, EnsureJobsType
    <2>2. k[a] = ensureJobs(old, js[a], Units)
      BY <1>1 DEF JobsOfRun
    <2>3. \A u \in old.done : js[a][u] = "complete"
      BY <1>1, DoneWas
    <2> HIDE DEF k, js, old
    <2> QED
      BY <1>1, <2>1, <2>2, <2>3, Ensures
  <1>4. \/ fail(one, setEntry(s, a, [en EXCEPT !.phase = "Failed"]), k, ok)
        \/ /\ job' = [job EXCEPT ![one] = k] /\ UNCHANGED orphan
           /\ persist(one, setEntry(s, a,
                  IF Units \subseteq en.done
                  THEN [en EXCEPT !.phase = "Ready"] ELSE en), ok)
        \/ fail(one, setEntry(s, a, [old EXCEPT !.phase = "Failed"]), js, ok)
    BY DEF RestoreRetained
  <1> HIDE DEF js, old, e, k
  <1>5. /\ en \in Entries /\ en.done = e.done /\ en.started = e.started
        /\ en.retained = e.retained /\ en.rollout = e.rollout
    <2>1. en \in Entries
      BY <1>3, EntryUpdates
    <2>2. /\ en.done = e.done /\ en.started = e.started
          /\ en.retained = e.retained /\ en.rollout = e.rollout
      BY <1>3 DEF Entries
    <2> QED
      BY <2>1, <2>2
  <1>6. en.phase = "Running" /\ en.secrets = "delivered"
    BY <1>3 DEF Entries
  <1> HIDE DEF en
  <1>7. old.rollout => Units \subseteq old.done
    BY <1>1 DEF Good, ReadyIsDone
  <1>9. Good(s, js) /\ Good(s, k)
    BY <1>1, <1>2, EnsureGood DEF k
  \* The entry of a retained app, at whatever phase.
  <1>10. ASSUME NEW n \in Entries, n.done = en.done, n.started = en.started,
                n.retained = en.retained, n.rollout = en.rollout,
                n.secrets = en.secrets, n.phase = "Ready" => Units \subseteq n.done
         PROVE  Entered(s, k, a, n)
    <2>1. n.rollout => Units \subseteq n.done
      BY <1>3, <1>5, <1>7, <1>10
    <2>2. \A u \in n.done : k[a][u] = "complete"
      BY <1>3, <1>5, <1>10
    <2> QED
      BY <1>2, <1>10, <2>1, <2>2 DEF Entered
  <1>11. \A ph \in Phases :
            LET n == [en EXCEPT !.phase = ph]
            IN  /\ n \in Entries /\ n.done = en.done /\ n.started = en.started
                /\ n.retained = en.retained /\ n.rollout = en.rollout
                /\ n.secrets = en.secrets /\ n.phase = ph
    BY <1>5, PhaseUpdate
  <1>12. "Failed" \in Phases /\ "Ready" \in Phases
    BY DEF Phases
  <1>13. CASE fail(one, setEntry(s, a, [en EXCEPT !.phase = "Failed"]), k, ok)
    <2> DEFINE n == [en EXCEPT !.phase = "Failed"]
    <2>1. /\ n \in Entries /\ n.done = en.done /\ n.started = en.started
          /\ n.retained = en.retained /\ n.rollout = en.rollout
          /\ n.secrets = en.secrets /\ n.phase = "Failed"
      BY <1>11, <1>12
    <2>2. fail(one, setEntry(s, a, n), k, ok)
      BY <1>13
    <2> HIDE DEF n
    <2>3. Entered(s, k, a, n)
      BY <1>10, <2>1
    <2> QED
      BY <1>1, <1>2, <1>3, <1>9, <2>1, <2>2, <2>3, EntryFailLands
  <1>14. CASE /\ job' = [job EXCEPT ![one] = k] /\ UNCHANGED orphan
              /\ persist(one, setEntry(s, a,
                     IF Units \subseteq en.done
                     THEN [en EXCEPT !.phase = "Ready"] ELSE en), ok)
    <2> DEFINE n == IF Units \subseteq en.done
                    THEN [en EXCEPT !.phase = "Ready"] ELSE en
    <2>1. /\ n \in Entries /\ n.done = en.done /\ n.started = en.started
          /\ n.retained = en.retained /\ n.rollout = en.rollout
          /\ n.secrets = en.secrets /\ (n.phase = "Ready" => Units \subseteq en.done)
      <3>1. CASE Units \subseteq en.done
        BY <1>11, <1>12, <3>1
      <3>2. CASE ~(Units \subseteq en.done)
        BY <1>5, <1>6, <3>2
      <3> QED
        BY <3>1, <3>2
    <2>2. persist(one, setEntry(s, a, n), ok)
      BY <1>14
    <2> HIDE DEF n
    <2>3. Entered(s, k, a, n)
      BY <1>10, <2>1
    <2> QED
      BY <1>1, <1>2, <1>3, <1>9, <1>14, <2>1, <2>2, <2>3, EntryLands
  <1>15. CASE fail(one, setEntry(s, a, [old EXCEPT !.phase = "Failed"]), js, ok)
    <2> DEFINE n == [old EXCEPT !.phase = "Failed"]
    <2>1. /\ n \in Entries /\ n.done = old.done /\ n.started = old.started
          /\ n.retained = old.retained /\ n.rollout = old.rollout
          /\ n.secrets = old.secrets /\ n.replaced = old.replaced
          /\ n.phase = "Failed"
      BY <1>1, <1>12, PhaseUpdate
    <2>3. fail(one, setEntry(s, a, n), js, ok)
      BY <1>15
    <2> HIDE DEF n
    <2>4. \A u \in n.done : js[a][u] = "complete"
      BY <1>3, <2>1
    <2>5. Entered(s, js, a, n)
      BY <1>1, <1>7, <1>9, <2>1, <2>4, FurtherEntered
    <2> QED
      BY <1>1, <1>2, <1>9, <2>1, <2>3, <2>5, EntryFailLands
  <1> QED
    BY <1>4, <1>13, <1>14, <1>15

\* restoreTenantWide, and the end.
LEMMA LastGood ==
    ASSUME CoreOK, Alone, AloneInv, NEW ok,
           RestoreTenantWide(one, ok) \/ Finish(one, ok)
    PROVE  Outcome /\ UNCHANGED <<obj, orphan, data>>
  <1> DEFINE s == status[one]
             js == job[one]
             old == s.entry[TenantWide]
             en == ensureEntry(old, js[TenantWide], Units)
             k == [js EXCEPT ![TenantWide] = ensureJobs(old, @, Units)]
  <1>1. /\ one \in Restores /\ s \in Statuses /\ js \in JobsOfRun
        /\ old \in Entries /\ TenantWide \in Slots /\ TenantWide \notin Apps
        /\ Good(s, js) /\ job = [job EXCEPT ![one] = js]
    BY OneFacts, RestoreConfig DEF Slots, CoreOK
  <1>2. /\ ~IsTerminal(s) /\ s.started
        /\ \A a \in s.plan : s.entry[a].phase = "Ready"
        /\ UNCHANGED <<obj, data>>
    BY AtFacts DEF RestoreTenantWide, Finish, tenantWideDone, Steady, appState
  <1>3. /\ \A u \in en.done : js[TenantWide][u] = "complete"
                              /\ k[TenantWide][u] = "complete"
        /\ old.done \subseteq en.done
        /\ en \in Entries /\ k \in JobsOfRun
    <2>1. k \in JobsOfRun
      BY <1>1, EnsureJobsType
    <2>2. k[TenantWide] = ensureJobs(old, js[TenantWide], Units)
      BY <1>1 DEF JobsOfRun
    <2>3. \A u \in old.done : js[TenantWide][u] = "complete"
      BY <1>1, DoneWas
    <2> HIDE DEF k, js, old
    <2> QED
      BY <1>1, <2>1, <2>2, <2>3, Ensures
  <1>4. RestoreTenantWide(one, ok) =>
            \E n \in {en, [old EXCEPT !.attempts = @ + 1],
                      [en EXCEPT !.attempts = @ + 1]}, i \in {js, k} :
                \/ fail(one, setEntry(s, TenantWide, [n EXCEPT !.phase = "Failed"]),
                        i, ok)
                \/ /\ job' = [job EXCEPT ![one] = i] /\ UNCHANGED orphan
                   /\ persist(one, setEntry(s, TenantWide, n), ok)
    BY DEF RestoreTenantWide
  <1>5. Finish(one, ok) =>
            /\ Units \subseteq en.done /\ UNCHANGED orphan
            /\ job' = [job EXCEPT ![one] = stopRunningRestoreJobs(js)]
            /\ persist(one, [setEntry(s, TenantWide, [en EXCEPT !.phase = "Ready"])
                             EXCEPT !.phase = "Ready", !.heldBack = {},
                                    !.complete = s.omitted = {}], ok)
    BY DEF Finish, tenantWideDone, Alone
  <1> HIDE DEF js, old, en, k
  <1>6. Good(s, js) /\ Good(s, k)
    BY <1>1, <1>2, EnsureGood DEF k, old
  <1>7. \A i \in {js, k} : Good(s, i) /\ i \in JobsOfRun
    BY <1>1, <1>3, <1>6
  <1>8. CASE RestoreTenantWide(one, ok)
    <2>1. PICK n \in {en, [old EXCEPT !.attempts = @ + 1],
                      [en EXCEPT !.attempts = @ + 1]}, i \in {js, k} :
                \/ fail(one, setEntry(s, TenantWide, [n EXCEPT !.phase = "Failed"]),
                        i, ok)
                \/ /\ job' = [job EXCEPT ![one] = i] /\ UNCHANGED orphan
                   /\ persist(one, setEntry(s, TenantWide, n), ok)
      BY <1>4, <1>8
    <2>2. n \in Entries
      BY <1>1, <1>3, EntryUpdates
    <2>3. n.done \subseteq en.done
      <3>1. [old EXCEPT !.attempts = @ + 1].done = old.done
        BY <1>1 DEF Entries
      <3>2. [en EXCEPT !.attempts = @ + 1].done = en.done
        BY <1>3 DEF Entries
      <3> QED
        BY <1>3, <3>1, <3>2
    <2>4. \A m \in Entries : m.done = n.done => Entered(s, i, TenantWide, m)
      BY <1>1, <1>3, <2>3 DEF Entered
    <2>5. CASE /\ job' = [job EXCEPT ![one] = i] /\ UNCHANGED orphan
               /\ persist(one, setEntry(s, TenantWide, n), ok)
      <3>1. Entered(s, i, TenantWide, n)
        BY <2>2, <2>4
      <3> QED
        BY <1>1, <1>2, <1>7, <2>2, <2>5, <3>1, EntryLands
    <2>6. CASE fail(one, setEntry(s, TenantWide, [n EXCEPT !.phase = "Failed"]), i, ok)
      <3> DEFINE m == [n EXCEPT !.phase = "Failed"]
      <3>1. m \in Entries /\ m.done = n.done
        BY <2>2, PhaseUpdate DEF Phases
      <3>2. fail(one, setEntry(s, TenantWide, m), i, ok)
        BY <2>6
      <3> HIDE DEF m
      <3>3. Entered(s, i, TenantWide, m)
        BY <2>4, <3>1
      <3> QED
        BY <1>1, <1>2, <1>7, <3>1, <3>2, <3>3, EntryFailLands
    <2> QED
      BY <2>1, <2>5, <2>6
  <1>9. CASE Finish(one, ok)
    <2> DEFINE m == [en EXCEPT !.phase = "Ready"]
               w == setEntry(s, TenantWide, m)
               t == [w EXCEPT !.phase = "Ready", !.heldBack = {},
                              !.complete = s.omitted = {}]
               i == stopRunningRestoreJobs(js)
    <2>1. m \in Entries /\ m.done = en.done
      BY <1>3, PhaseUpdate DEF Phases
    <2>2. /\ Units \subseteq en.done /\ UNCHANGED orphan
          /\ job' = [job EXCEPT ![one] = i] /\ persist(one, t, ok)
      BY <1>5, <1>9
    <2>3. i \in JobsOfRun
      BY <1>1, StopJobsType
    <2>4. Good(s, i)
      BY <1>1, <1>6, StopGood
    <2>5. \A x \in Slots, u \in Units :
              /\ i[x][u] # "running"
              /\ js[x][u] = "complete" => i[x][u] = "complete"
      BY <1>1 DEF stopRunningRestoreJobs, JobsOfRun
    <2> HIDE DEF m, i
    <2>6. w \in Statuses
      BY <1>1, <2>1, SetEntryType
    <2>7. /\ w.plan = s.plan /\ w.started = s.started
          /\ \A x \in Slots : w.entry[x] = IF x = TenantWide THEN m ELSE s.entry[x]
      BY <1>1 DEF setEntry, Statuses
    <2> HIDE DEF w
    <2>8. t \in Statuses
      BY <2>6 DEF Statuses, Phases
    <2>9. t.plan = w.plan /\ t.started = w.started /\ t.entry = w.entry
      BY <2>6 DEF Statuses
    <2>10. t.phase = "Ready"
      BY <2>6 DEF Statuses
    <2> HIDE DEF t
    <2>11. Good(w, i)
      <3>1. en.done \subseteq Units
        BY <1>3 DEF Entries
      <3>2. Entered(s, i, TenantWide, m)
        BY <1>1, <1>3, <2>1, <2>5, <3>1 DEF Entered
      <3> QED
        BY <1>1, <1>2, <2>1, <2>3, <2>4, <3>2, SetEntryGood DEF w
    <2>12. Good(t, i)
      <3>1. IsTerminal(t)
        BY <2>10 DEF IsTerminal
      <3>2. ClosedWhileBegun(t, i) /\ HeldByRestore(t)
        BY <3>1 DEF ClosedWhileBegun, HeldByRestore
      <3>3. QuietWhenOver(t, i) /\ DoneIsLoaded(t, i)
        BY <2>5, <2>9, <2>11 DEF Good, QuietWhenOver, DoneIsLoaded
      <3>4. ReadyIsDone(t)
        <4>1. s.plan \subseteq Apps /\ Apps \subseteq Slots
          BY <1>1 DEF Statuses, Slots
        <4>2. \A a \in s.plan : Units \subseteq w.entry[a].done
          BY <1>1, <1>2, <2>7, <4>1 DEF Good, ReadyIsDone
        <4>3. Units \subseteq w.entry[TenantWide].done
          BY <1>1, <2>1, <2>2, <2>7
        <4> QED
          BY <1>2, <2>7, <2>9, <2>11, <4>2, <4>3 DEF Good, ReadyIsDone
      <3> QED
        BY <3>2, <3>3, <3>4 DEF Good
    <2>13. Follows(s, t)
      BY <1>2, <2>7, <2>9, <2>10 DEF Follows
    <2> QED
      BY <1>2, <2>2, <2>3, <2>4, <2>8, <2>12, <2>13, Lands
  <1> QED
    BY <1>8, <1>9

\* Any pass over the restore, quiet or not.
LEMMA PassGood ==
    ASSUME CoreOK, Alone, AloneInv,
           ReconcileQuietly(one) \/ \E ok \in Writes : Reconcile(one, ok)
    PROVE  /\ Outcome /\ UNCHANGED <<obj, orphan, data>>
           /\ obj[one] = "live"
  <1> DEFINE s == status[one]
  <1>1. /\ one \in Restores /\ s \in Statuses /\ job[one] \in JobsOfRun
        /\ Good(s, job[one])
    BY OneFacts
  <1>2. CASE AddFinalizer(one)
    <2>1. UNCHANGED <<obj, status, job, orphan, data>> /\ obj[one] = "live"
      BY <1>2 DEF AddFinalizer, appState
    <2> QED
      BY <1>1, <2>1 DEF Outcome, Follows
  <1>3. CASE TidyEnded(one)
    <2>1. /\ UNCHANGED <<obj, status, orphan, data>> /\ obj[one] = "live"
          /\ job' = [job EXCEPT ![one] = stopRunningRestoreJobs(job[one])]
      BY <1>3 DEF TidyEnded, appState, Orphaned, Alone
    <2>2. job'[one] = stopRunningRestoreJobs(job[one])
      BY <1>1, <2>1 DEF CoreOK
    <2>3. Good(s, stopRunningRestoreJobs(job[one]))
      BY <1>1, <2>1, StopGood
    <2> QED
      BY <2>1, <2>2, <2>3 DEF Outcome, Follows
  <1>4. ~Finalize(one)
    BY DEF Finalize, AloneInv
  <1>5. ASSUME NEW ok \in Writes, Reconcile(one, ok)
        PROVE  /\ Outcome /\ UNCHANGED <<obj, orphan, data>>
               /\ obj[one] = "live"
    <2>1. obj[one] # "absent"
      BY <1>5 DEF Reconcile, ResumeEnded, FailPreflight, Busy, FailUnusable, Plan,
           resumeStale, holdBack, PlanSecrets, ApplySecrets, AwaitSecrets,
           PauseApp, RestoreWaits, ResumeForCommands, PodTimeout, Commands,
           awaitRollout, RestoreRetained, RestoreTenantWide, Finish, tenantWideDone,
           FinalizeResume, Loaded, AtInstalled, At, Works, Running
    <2>2. CASE \/ ResumeEnded(one, ok) \/ FinalizeResume(one, ok)
               \/ FailPreflight(one, ok) \/ Busy(one, ok) \/ FailUnusable(one, ok)
               \/ resumeStale(one, ok)
      BY <2>1, <2>2, EarlyGood DEF AloneInv
    <2>3. CASE Plan(one, ok)
      BY <2>1, <2>3, PlanGood DEF AloneInv
    <2>4. CASE RestoreTenantWide(one, ok) \/ Finish(one, ok)
      BY <2>1, <2>4, LastGood DEF AloneInv
    <2>5. ASSUME NEW a \in Apps,
                 \/ holdBack(one, a, ok) \/ PlanSecrets(one, a, ok)
                 \/ ApplySecrets(one, a, ok) \/ AwaitSecrets(one, a, ok)
                 \/ PodTimeout(one, a, ok) \/ awaitRollout(one, a, ok)
          PROVE  Outcome /\ UNCHANGED <<obj, orphan, data>>
      BY <2>5, HoldGood
    <2>6. ASSUME NEW a \in Apps,
                 \/ PauseApp(one, a, ok) \/ RestoreWaits(one, a, ok)
                 \/ ResumeForCommands(one, a, ok) \/ Commands(one, a, ok)
          PROVE  Outcome /\ UNCHANGED <<obj, orphan, data>>
      BY <2>6, LoadGood
    <2>7. ASSUME NEW a \in Apps, RestoreRetained(one, a, ok)
          PROVE  Outcome /\ UNCHANGED <<obj, orphan, data>>
      BY <2>7, RetainedGood
    <2> QED
      BY <1>5, <2>1, <2>2, <2>3, <2>4, <2>5, <2>6, <2>7 DEF Reconcile, AloneInv
  <1> QED
    BY <1>2, <1>3, <1>4, <1>5 DEF ReconcileQuietly

----------------------------------------------------------------------------
(* The invariant. *)

\* What a step that leaves all the invariant is about does to it.
LEMMA SameAlone ==
    ASSUME AloneInv, UNCHANGED <<obj, status, job, orphan, data, route, pass>>
    PROVE  AloneInv'
BY DEF AloneInv, Good, ClosedWhileBegun, Begun, Closed, HeldByRestore,
       QuietWhenOver, DoneIsLoaded, ReadyIsDone

\* A pass that leaves a good status keeps the invariant.
LEMMA OutcomeKeeps ==
    ASSUME AloneInv, Outcome, UNCHANGED <<obj, orphan, data, route, pass>>,
           obj[one] = "live"
    PROVE  AloneInv'
  <1>1. Good(status[one], job[one])'
    BY DEF Outcome, Good, ClosedWhileBegun, Begun, Closed, HeldByRestore,
           QuietWhenOver, DoneIsLoaded, ReadyIsDone
  <1> QED
    BY <1>1 DEF AloneInv

\* A Job comes to its end, or another run's Job is found: one Job and one
\* store change, the store only under a Job that ran.
LEMMA JobStep ==
    ASSUME CoreOK, AloneInv, NEW x \in Slots, NEW u \in Units, NEW c,
           job' = [job EXCEPT ![one][x][u] = c],
           UNCHANGED <<obj, status, orphan, route, pass>>,
           job[one][x][u] # "complete", c # "running",
           c = "complete" => data'[x][u] = Bundle[one],
           c # "foreign" => job[one][x][u] = "running",
           c = "foreign" => UNCHANGED data,
           \A y \in Slots, w \in Units :
               y # x \/ w # u => data'[y][w] = data[y][w]
    PROVE  AloneInv' /\ (c # "foreign" => ~IsTerminal(status[one])
                                          /\ (x \in Apps => Closed(status[one], x)))
  <1> DEFINE s == status[one]
             js == job[one]
  <1>1. /\ one \in Restores /\ s \in Statuses /\ js \in JobsOfRun
        /\ Good(s, js)
    BY OneFacts
  <1>2. \A y \in Slots, w \in Units :
            job'[one][y][w] = IF y = x /\ w = u THEN c ELSE js[y][w]
    BY <1>1 DEF CoreOK, JobsOfRun
  <1>3. c # "foreign" => ~IsTerminal(s)
    BY <1>1 DEF Good, QuietWhenOver
  <1>4. c # "foreign" /\ x \in Apps => Begun(s, js, x)
    BY DEF Begun
  <1>5. c # "foreign" /\ x \in Apps => Closed(s, x)
    BY <1>1, <1>3, <1>4 DEF Good, ClosedWhileBegun
  <1>6. ASSUME NEW a \in Apps, Begun(s, js, a)'
        PROVE  Begun(s, js, a)
    <2>1. a \in Slots
      BY DEF Slots
    <2>2. CASE a = x /\ c # "foreign"
      BY <1>4, <2>2
    <2>3. CASE a # x \/ c = "foreign"
      BY <1>2, <1>6, <2>1, <2>3 DEF Begun
    <2> QED
      BY <2>2, <2>3
  <1>7. ClosedWhileBegun(s, js)'
    BY <1>1, <1>6 DEF Good, ClosedWhileBegun, Closed, IsTerminal
  <1>8. HeldByRestore(s)'
    BY <1>1 DEF Good, HeldByRestore, IsTerminal
  <1>9. QuietWhenOver(s, js)'
    BY <1>1, <1>2 DEF Good, QuietWhenOver, IsTerminal
  <1>10. DoneIsLoaded(s, js)'
    BY <1>1, <1>2 DEF Good, DoneIsLoaded
  <1>11. ReadyIsDone(s)'
    BY <1>1 DEF Good, ReadyIsDone
  <1> QED
    BY <1>3, <1>5, <1>7, <1>8, <1>9, <1>10, <1>11 DEF AloneInv, Good

\* What a Job that ends does, as JobStep has it.
LEMMA JobEndStep ==
    ASSUME CoreOK, NEW x \in Slots, NEW u \in Units, JobEnds(one, x, u)
    PROVE  /\ \E c \in {"complete", "failed", "stuck"} :
                 /\ job' = [job EXCEPT ![one][x][u] = c]
                 /\ c = "complete" => data'[x][u] = Bundle[one]
           /\ job[one][x][u] = "running"
           /\ UNCHANGED <<obj, status, orphan>>
           /\ \A y \in Slots, w \in Units :
                 y # x \/ w # u => data'[y][w] = data[y][w]
           /\ UNCHANGED data \/ data'[x][u] # "old"
  <1>0. Bundle[one] # "old"
    BY RestoreConfig, OneIsARestore
  <1>1. \A d : data' = [data EXCEPT ![x][u] = d] =>
            /\ data'[x][u] = d
            /\ \A y \in Slots, w \in Units :
                  y # x \/ w # u => data'[y][w] = data[y][w]
    BY DEF CoreOK
  <1>2. CASE JobCompletes(one, x, u)
    BY <1>0, <1>1, <1>2 DEF JobCompletes, Load, Steady
  <1>3. CASE JobFails(one, x, u)
    <2>1. CASE /\ job' = [job EXCEPT ![one][x][u] = "stuck"]
               /\ UNCHANGED <<Steady, status, orphan, appState>>
      BY <1>3, <2>1 DEF JobFails, Steady, appState
    <2>2. CASE /\ job' = [job EXCEPT ![one][x][u] = "failed"]
               /\ Load(one, x, u, "torn") /\ UNCHANGED orphan
      <3>1. /\ data' = [data EXCEPT ![x][u] = "torn"]
            /\ UNCHANGED <<obj, status, orphan>>
        BY <2>2 DEF Load, Steady
      <3>2. /\ data'[x][u] = "torn"
            /\ \A y \in Slots, w \in Units :
                  y # x \/ w # u => data'[y][w] = data[y][w]
        BY <1>1, <3>1
      <3>3. job[one][x][u] = "running"
        BY <1>3 DEF JobFails
      <3>4. \E c \in {"complete", "failed", "stuck"} :
                /\ job' = [job EXCEPT ![one][x][u] = c]
                /\ c = "complete" => data'[x][u] = Bundle[one]
        <4> WITNESS "failed" \in {"complete", "failed", "stuck"}
        <4> QED
          BY <2>2
      <3> QED
        BY <3>1, <3>2, <3>3, <3>4
    <2> QED
      BY <1>3, <2>1, <2>2 DEF JobFails
  <1> QED
    BY <1>2, <1>3 DEF JobEnds

\* The world around the controller.
LEMMA WorldKeeps ==
    ASSUME CoreOK, Alone, AloneInv, Environment, UNCHANGED <<route, pass>>
    PROVE  AloneInv'
  <1>1. one \in Restores /\ job[one] \in JobsOfRun
    BY OneFacts
  <1>2. CASE CreateRestore(one)
    <2>1. /\ obj[one] = "absent" /\ obj' = [obj EXCEPT ![one] = "live"]
          /\ UNCHANGED <<status, job, orphan, data>>
      BY <1>2 DEF CreateRestore, appState
    <2>2. obj'[one] = "live"
      BY <1>1, <2>1 DEF CoreOK
    <2>3. Good(status[one], job[one])'
      BY <2>1 DEF AloneInv, Good, ClosedWhileBegun, Begun, Closed, HeldByRestore,
           QuietWhenOver, DoneIsLoaded, ReadyIsDone
    <2> QED
      BY <2>1, <2>2, <2>3 DEF AloneInv
  <1>3. CASE OwnKey(one)
    BY <1>3, SameAlone DEF OwnKey, Steady, appState
  <1>4. CASE DeleteRestore(one)
    BY <1>4 DEF DeleteRestore, Alone
  <1>5. ASSUME NEW x \in Slots, NEW u \in Units, JobEnds(one, x, u) PROVE AloneInv'
    <2>1. PICK c \in {"complete", "failed", "stuck"} :
              /\ job' = [job EXCEPT ![one][x][u] = c]
              /\ c = "complete" => data'[x][u] = Bundle[one]
      BY <1>5, JobEndStep
    <2>2. /\ job[one][x][u] = "running"
          /\ UNCHANGED <<obj, status, orphan>>
          /\ \A y \in Slots, w \in Units :
                y # x \/ w # u => data'[y][w] = data[y][w]
      BY <1>5, JobEndStep
    <2> QED
      BY <2>1, <2>2, JobStep
  <1>6. ASSUME NEW x \in Slots, NEW u \in Units, ForeignJob(one, x, u) PROVE AloneInv'
    <2>1. /\ job' = [job EXCEPT ![one][x][u] = "foreign"] /\ job[one][x][u] = "none"
          /\ UNCHANGED <<obj, status, orphan, data>>
      BY <1>6 DEF ForeignJob, Steady, appState
    <2>2. \A y \in Slots, w \in Units : data'[y][w] = data[y][w]
      BY <2>1
    <2> DEFINE c == "foreign"
    <2>3. /\ job' = [job EXCEPT ![one][x][u] = c]
          /\ c = "foreign" /\ c # "running" /\ c # "complete"
      BY <2>1
    <2> HIDE DEF c
    <2> QED
      BY <2>1, <2>2, <2>3, JobStep
  <1>7. ASSUME NEW x \in Slots, NEW u \in Units, OrphanEnds(one, x, u) PROVE AloneInv'
    BY <1>7 DEF OrphanEnds, AloneInv
  <1>8. ASSUME NEW a \in Apps, PodsUp(a) \/ Uninstall(a) PROVE AloneInv'
    BY <1>8, SameAlone DEF PodsUp, Uninstall, Steady
  <1>9. ASSUME NEW a \in Apps, Handed(a) PROVE AloneInv'
    BY <1>9, SameAlone DEF Handed, Steady
  <1>10. CASE ExportStarts \/ ExportEnds
    BY <1>10, SameAlone DEF ExportStarts, ExportEnds, appState
  <1> QED
    BY <1>2, <1>3, <1>4, <1>5, <1>6, <1>7, <1>8, <1>9, <1>10
       DEF Environment, Alone

\* The component reconciler holds back what the restore, if it runs, does.
LEMMA HoldingIs ==
    ASSUME Alone, AloneInv, NEW a \in Apps
    PROVE  ~IsTerminal(status[one]) => (a \in holding <=> a \in status[one].heldBack)
  <1>1. NewStatus.heldBack = {}
    BY DEF NewStatus
  <1>2. obj[one] = "absent" => status[one].heldBack = {}
    BY <1>1 DEF AloneInv
  <1> QED
    BY <1>2 DEF holding, HoldsBack, Alone, AloneInv

\* What a pass over a component leaves of its routes: what an app was opened
\* with is a pass that read no hold.
LEMMA EdgeKeeps ==
    ASSUME CoreOK, EdgeOK, Alone, AloneInv, NEW a \in Apps,
           Edge!ComponentPass(a) \/ Edge!OtherEvent(a), UNCHANGED NotEdge
    PROVE  /\ AloneInv'
           /\ \A b \in Apps : b # a => route'[b] = route[b]
           /\ route'[a] = "open" /\ route[a] # "open" =>
                  IsTerminal(status[one]) \/ ~Begun(status[one], job[one], a)
  <1> DEFINE s == status[one]
             js == job[one]
             p == pass[a]
  <1>1. /\ UNCHANGED <<obj, status, job, orphan, data>>
        /\ Good(s, js) /\ p \in Edge!Passes /\ route[a] \in Edge!RouteStates
    BY OneFacts DEF NotEdge, EdgeOK
  <1>2. p.at \in {"idle", "read", "applied"} /\ p.held \in BOOLEAN
    BY <1>1 DEF Edge!Passes
  \* The six forms a step takes.
  <1>3. \/ /\ p.at = "idle" /\ UNCHANGED route
           /\ pass' = [pass EXCEPT ![a] = [at |-> "read", held |-> a \in holding]]
        \/ /\ p.at = "read" /\ pass' = [pass EXCEPT ![a].at = "applied"]
           /\ route' = [route EXCEPT ![a] = IF @ = "absent" THEN @
                                            ELSE Edge!routeFor(p.held)]
        \/ /\ p.at = "applied" /\ pass' = [pass EXCEPT ![a] = Edge!Idle]
           /\ \/ UNCHANGED route
              \/ /\ a \in Published
                 /\ route' = [route EXCEPT ![a] = Edge!routeFor(p.held)]
        \/ UNCHANGED <<route, pass>>
    BY DEF Edge!ComponentPass, Edge!OtherEvent, Edge!heldForRestore, EdgeOK,
           Edge!applyRestoreHold, Edge!withRestoreHold, Edge!EndsEarly
  <1>4. a \in Published => route[a] # "absent"
    BY DEF Alone, AloneInv
  <1>5. ~IsTerminal(s) => (a \in holding <=> a \in s.heldBack)
    BY HoldingIs
  <1>6. /\ \A b \in Apps : b # a => route'[b] = route[b] /\ pass'[b] = pass[b]
        /\ \/ /\ route'[a] = route[a]
              /\ \/ pass'[a] = p
                 \/ p.at = "idle" /\ pass'[a] = [at |-> "read", held |-> a \in holding]
                 \/ p.at # "idle" /\ pass'[a] \in {[p EXCEPT !.at = "applied"], Edge!Idle}
           \/ /\ p.at # "idle" /\ route[a] # "absent"
              /\ route'[a] = Edge!routeFor(p.held)
              /\ pass'[a] \in {[p EXCEPT !.at = "applied"], Edge!Idle}
    BY <1>3, <1>4 DEF EdgeOK
  <1>7. /\ Edge!Idle.at = "idle"
        /\ [p EXCEPT !.at = "applied"].held = p.held
    BY <1>1 DEF Edge!Idle, Edge!Passes
  \* What the pass writes, by what it read.
  <1>8. ASSUME ~IsTerminal(s)
        PROVE  /\ ClosedWhileBegun(s, js)' /\ HeldByRestore(s)'
               /\ route'[a] = "open" /\ route[a] # "open" => ~Begun(s, js, a)
    <2>1. ASSUME p.at # "idle", route[a] # "absent", ~p.held
          PROVE  ~Begun(s, js, a)
      BY <1>1, <1>8, <2>1 DEF Good, ClosedWhileBegun, Closed, HeldByRestore,
                              EdgeOK, Edge!RouteStates
    <2>2. p.at # "idle" /\ p.held => a \in s.heldBack
      BY <1>1, <1>8 DEF Good, HeldByRestore
    <2>3. route'[a] = "open" /\ route[a] # "open" => ~Begun(s, js, a)
      BY <1>2, <1>6, <2>1 DEF Edge!routeFor
    <2>4. route'[a] = "held" =>
              a \in s.heldBack /\ (pass'[a].at = "idle" \/ pass'[a].held)
      <3>1. route[a] = "held" => a \in s.heldBack /\ (p.at = "idle" \/ p.held)
        BY <1>1, <1>8 DEF Good, HeldByRestore
      <3>2. route'[a] = Edge!routeFor(p.held) /\ route'[a] = "held" => p.held
        BY DEF Edge!routeFor
      <3>3. pass'[a] = [at |-> "read", held |-> a \in holding] =>
                pass'[a].held = (a \in holding)
        OBVIOUS
      <3> QED
        BY <1>2, <1>5, <1>6, <1>7, <1>8, <2>2, <3>1, <3>2, <3>3
    <2>5. pass'[a].at # "idle" /\ pass'[a].held => a \in s.heldBack
      <3>1. pass'[a] = [at |-> "read", held |-> a \in holding] =>
                pass'[a].held = (a \in holding)
        OBVIOUS
      <3> QED
        BY <1>2, <1>5, <1>6, <1>7, <1>8, <2>2, <3>1
    <2>6. HeldByRestore(s)'
      BY <1>1, <1>6, <1>8, <2>4, <2>5 DEF Good, HeldByRestore, IsTerminal
    <2>7. \A b \in Apps : Begun(s, js, b)' <=> Begun(s, js, b)
      BY <1>1 DEF Begun
    <2>8. ClosedWhileBegun(s, js)'
      <3>1. \A b \in Apps : Begun(s, js, b) => Closed(s, b)
        BY <1>1, <1>8 DEF Good, ClosedWhileBegun
      <3>2. \A b \in Apps : Begun(s, js, b) => route'[b] # "open"
        BY <1>6, <2>3, <3>1 DEF Closed
      <3> QED
        BY <1>1, <2>7, <3>1, <3>2 DEF ClosedWhileBegun, Closed
    <2> QED
      BY <2>3, <2>6, <2>8
  <1>9. IsTerminal(s) => ClosedWhileBegun(s, js)' /\ HeldByRestore(s)'
    BY <1>1 DEF ClosedWhileBegun, HeldByRestore, IsTerminal
  <1>10. \A b \in Apps : route'[b] = "absent" => b \notin Routed
    BY <1>6 DEF AloneInv, Edge!routeFor
  <1>11. /\ QuietWhenOver(s, js)' /\ DoneIsLoaded(s, js)'
         /\ ReadyIsDone(s)'
    BY <1>1 DEF Good, QuietWhenOver, DoneIsLoaded, ReadyIsDone, IsTerminal
  <1>12. /\ ClosedWhileBegun(s, js)' /\ HeldByRestore(s)'
         /\ route'[a] = "open" /\ route[a] # "open" => IsTerminal(s) \/ ~Begun(s, js, a)
    BY <1>8, <1>9
  <1> QED
    BY <1>1, <1>6, <1>10, <1>11, <1>12 DEF AloneInv, Good

LEMMA AloneInit == ASSUME Alone, Init PROVE AloneInv
  <1>1. /\ obj[one] = "absent" /\ status[one] = NewStatus /\ orphan = {}
        /\ \A x \in Slots, u \in Units :
              job[one][x][u] = "none" /\ data[x][u] = "old"
        /\ \A a \in Apps : /\ route[a] = IF a \in Routed THEN "open" ELSE "absent"
                           /\ pass[a] = Edge!Idle
    BY OneIsARestore DEF Init, Edge!HoldInit
  <1>2. /\ NewStatus.started = FALSE /\ NewStatus.plan = {}
        /\ NewStatus.phase = "" /\ NewStatus.entry = [x \in Slots |-> NewEntry]
    BY DEF NewStatus
  <1>3. \A x \in Slots : NewStatus.entry[x] = NewEntry
    BY <1>2
  <1>4. /\ NewEntry.phase = "Pending" /\ NewEntry.started = FALSE
        /\ NewEntry.secrets = "" /\ NewEntry.rollout = FALSE /\ NewEntry.done = {}
    BY DEF NewEntry
  <1>5. Edge!Idle.at = "idle"
    BY DEF Edge!Idle
  <1>6. \A a \in Apps : a \in Slots
    BY DEF Slots
  <1> DEFINE s == status[one]
             js == job[one]
  <1>7. ClosedWhileBegun(s, js)
    BY <1>1, <1>3, <1>4, <1>6 DEF ClosedWhileBegun, Begun
  <1>8. HeldByRestore(s)
    BY <1>1, <1>5 DEF HeldByRestore
  <1>9. QuietWhenOver(s, js) /\ DoneIsLoaded(s, js)
    BY <1>1, <1>3, <1>4 DEF QuietWhenOver, DoneIsLoaded
  <1>10. ReadyIsDone(s)
    <2>1. \A a \in Apps : s.entry[a] = NewEntry
      BY <1>1, <1>3, <1>6
    <2>2. s.started = FALSE /\ s.plan = {} /\ s.phase = ""
      BY <1>1, <1>2
    <2> HIDE DEF s
    <2> QED
      BY <1>4, <2>1, <2>2 DEF ReadyIsDone
  <1> QED
    BY <1>1, <1>7, <1>8, <1>9, <1>10 DEF AloneInv, Good

LEMMA AloneStep ==
    ASSUME Alone, TypeOK, AloneInv, [Next]_vars
    PROVE  AloneInv'
  <1>1. CoreOK /\ EdgeOK
    BY TypeParts
  <1>2. CASE Watched(RestoreNext)
    <2>1. RestoreNext /\ UNCHANGED <<route, pass>>
      BY <1>2 DEF Watched
    <2>2. CASE Environment
      BY <1>1, <2>1, <2>2, WorldKeeps
    <2>3. CASE ~Environment
      <3>1. ReconcileQuietly(one) \/ \E ok \in Writes : Reconcile(one, ok)
        BY <2>1, <2>3 DEF RestoreNext, Alone
      <3> QED
        BY <1>1, <2>1, <3>1, PassGood, OutcomeKeeps
    <2> QED
      BY <2>2, <2>3
  <1>3. CASE EdgeNext /\ UNCHANGED NotEdge
    <2>1. PICK a \in Apps : Edge!ComponentPass(a) \/ Edge!OtherEvent(a)
      BY <1>3 DEF EdgeNext
    <2> QED
      BY <1>1, <1>3, <2>1, EdgeKeeps
  <1>4. CASE UNCHANGED vars
    BY <1>4, SameAlone DEF vars
  <1> QED
    BY <1>2, <1>3, <1>4 DEF Next

\* The invariant holds for ever, with the types it is about.
LEMMA AloneAlways == ASSUME Alone PROVE Spec => [](TypeOK /\ AloneInv)
  <1>1. Init => AloneInv
    BY AloneInit
  <1>2. TypeOK /\ AloneInv /\ [Next]_vars => AloneInv'
    BY AloneStep
  <1> QED
    BY <1>1, <1>2, RestoreTypeCorrect, PTL DEF Spec

----------------------------------------------------------------------------
(* What follows for one restore. *)

\* HeldWhileTouched: from before holdBack lets a pass touch an app until the
\* restore has ended, the app's routes answer 503, whatever the passes of the
\* component reconciler in between read.
THEOREM HeldThroughout == ASSUME Alone PROVE Spec => []HeldWhileTouched
  <1>1. AloneInv => HeldWhileTouched
    <2> SUFFICES ASSUME AloneInv, NEW r \in Restores, NEW a \in Apps,
                        Running(r), Touched(r, a)
                 PROVE  route[a] # "open"
      BY DEF HeldWhileTouched
    <2>1. r = one
      BY DEF Alone
    <2>2. Begun(status[one], job[one], a) /\ ~IsTerminal(status[one])
      BY <2>1 DEF Touched, Running, Begun, Entry
    <2> QED
      BY <2>2 DEF AloneInv, Good, ClosedWhileBegun, Closed
  <1> QED
    BY <1>1, AloneAlways, PTL

----------------------------------------------------------------------------
(* The promise. *)

\* How far a restore that is not deleted has come, as people see it.
LEMMA RunIs ==
    ASSUME obj[one] \in {"absent", "live"}
    PROVE  /\ runOf(one) = "done" <=> status[one].phase = "Ready"
           /\ runOf(one) = "stopped" <=> status[one].phase = "Failed"
           /\ runOf(one) = "working" <=>
                 ~IsTerminal(status[one]) /\ status[one].started
           /\ runOf(one) = "waiting" <=>
                 ~IsTerminal(status[one]) /\ ~status[one].started
BY DEF runOf, IsTerminal

\* What an app holds, as people see it.
LEMMA ContentIs ==
    ASSUME Alone, NEW a
    PROVE  /\ contentOf(one, a) \in {"old", "part", "back"}
           /\ (\A u \in Units : data[a][u] = Bundle[one]) => contentOf(one, a) = "back"
           /\ contentOf(one, a) = "old" <=> \A u \in Units : data[a][u] = "old"
  <1>1. Bundle[one] # "old"
    BY RestoreConfig, OneIsARestore
  <1> QED
    BY <1>1 DEF contentOf, Alone

\* The variables of the promise.
runs == runOf(one)
reaches == [a \in Apps |-> IF route[a] = "open" THEN "open" ELSE "closed"]
contents == [a \in Apps |-> contentOf(one, a)]

\* What changes none of what people see is no step of the promise.
LEMMA Unseen ==
    ASSUME UNCHANGED <<runs, status[one].plan, reaches, contents>>
    PROVE  [Promise!Next]_Promise!vars
BY DEF Promise!vars, runs, reaches, contents

LEMMA PassPromises ==
    ASSUME Alone, TypeOK, TypeOK', AloneInv, AloneInv', Outcome,
           UNCHANGED <<obj, data, route>>
    PROVE  [Promise!Next]_Promise!vars
  <1>1. UNCHANGED <<reaches, contents>>
    BY DEF reaches, contents, contentOf
  <1>2. /\ status[one] \in Statuses /\ status'[one] \in Statuses
    BY OneIsARestore DEF TypeOK
  <1>3. /\ runs = "done" <=> status[one].phase = "Ready"
        /\ runs = "stopped" <=> status[one].phase = "Failed"
        /\ runs = "working" <=> ~IsTerminal(status[one]) /\ status[one].started
        /\ runs = "waiting" <=> ~IsTerminal(status[one]) /\ ~status[one].started
    BY RunIs DEF AloneInv, runs
  <1>4. /\ runs' = "done" <=> status'[one].phase = "Ready"
        /\ runs' = "stopped" <=> status'[one].phase = "Failed"
        /\ runs' = "working" <=> ~IsTerminal(status'[one]) /\ status'[one].started
        /\ runs' = "waiting" <=> ~IsTerminal(status'[one]) /\ ~status'[one].started
    BY DEF AloneInv, runs, runOf, IsTerminal
  <1>5. \A s \in Statuses : IsTerminal(s) <=> s.phase = "Ready" \/ s.phase = "Failed"
    BY DEF IsTerminal
  <1> DEFINE s == status[one]
             t == status'[one]
  <1>6. s.started \in BOOLEAN /\ t.started \in BOOLEAN
    BY <1>2 DEF Statuses
  <1>7. CASE /\ t.plan = s.plan /\ t.started = s.started
             /\ t.phase = s.phase \/ (~IsTerminal(s) /\ t.phase # "Ready")
    <2>1. CASE t.phase = "Failed" /\ s.phase # "Failed"
      <3>1. runs \notin {"done", "stopped"} /\ runs' = "stopped"
        BY <1>2, <1>3, <1>4, <1>5, <1>7, <2>1
      <3>2. Promise!Stop
        BY <1>1, <1>7, <3>1 DEF Promise!Stop, Promise!Over, runs, reaches, contents
      <3> QED
        BY <3>2 DEF Promise!Next
    <2>2. CASE ~(t.phase = "Failed" /\ s.phase # "Failed")
      <3>1. UNCHANGED runs
        BY <1>2, <1>3, <1>4, <1>5, <1>6, <1>7, <2>2
      <3> QED
        BY <1>1, <1>7, <3>1, Unseen
    <2> QED
      BY <2>1, <2>2
  <1>8. CASE ~s.started /\ t.started /\ ~IsTerminal(s) /\ ~IsTerminal(t)
    <2>1. runs = "waiting" /\ runs' = "working" /\ t.plan \in SUBSET Apps
      BY <1>2, <1>3, <1>4, <1>8 DEF Statuses
    <2>2. Promise!Start
      BY <1>1, <2>1 DEF Promise!Start, runs, reaches, contents
    <2> QED
      BY <2>2 DEF Promise!Next
  <1>9. CASE /\ t.plan = s.plan /\ s.started /\ t.started
             /\ ~IsTerminal(s) /\ t.phase = "Ready"
    <2>1. runs = "working" /\ runs' = "done"
      BY <1>3, <1>4, <1>9
    <2>2. s.plan \subseteq Apps /\ Apps \subseteq Slots
      BY <1>2 DEF Statuses, Slots
    <2>3. \A a \in s.plan, u \in Units : data[a][u] = Bundle[one]
      <3>1. \A a \in s.plan, u \in Units : u \in t.entry[a].done
        BY <1>9 DEF AloneInv, Good, ReadyIsDone
      <3>2. \A a \in Slots, u \in Units :
                u \in t.entry[a].done => data'[a][u] = Bundle[one]
        BY DEF AloneInv, Good, DoneIsLoaded
      <3> QED
        BY <2>2, <3>1, <3>2
    <2>4. \A a \in s.plan : contents[a] = "back"
      BY <2>2, <2>3, ContentIs DEF contents
    <2>5. Promise!Finish
      BY <1>1, <1>9, <2>1, <2>4 DEF Promise!Finish, runs, reaches, contents
    <2> QED
      BY <2>5 DEF Promise!Next
  <1> QED
    BY <1>7, <1>8, <1>9 DEF Outcome, Follows

\* A Job loads one store of one app, behind the closed edge.
LEMMA JobPromises ==
    ASSUME Alone, TypeOK, TypeOK', AloneInv, AloneInv', NEW x \in Slots,
           NEW u \in Units, JobEnds(one, x, u), UNCHANGED <<route, pass>>
    PROVE  [Promise!Next]_Promise!vars
  <1>1. /\ CoreOK /\ UNCHANGED <<obj, status, orphan>>
        /\ \A y \in Slots, w \in Units :
              y # x \/ w # u => data'[y][w] = data[y][w]
        /\ UNCHANGED data \/ data'[x][u] # "old"
    BY TypeParts, JobEndStep
  <1>2. UNCHANGED <<runs, status[one].plan, reaches>>
    BY <1>1 DEF runs, runOf, reaches
  <1>3. CASE x \notin Apps \/ UNCHANGED data
    <2>1. \A a \in Apps, w \in Units : data'[a][w] = data[a][w]
      BY <1>1, <1>3 DEF Slots
    <2>2. UNCHANGED contents
      BY <2>1 DEF contents, contentOf
    <2> QED
      BY <1>2, <2>2, Unseen
  <1>4. CASE x \in Apps /\ data'[x][u] # "old"
    <2>1. ~IsTerminal(status[one]) /\ Closed(status[one], x)
      <3>1. PICK c \in {"complete", "failed", "stuck"} :
                /\ job' = [job EXCEPT ![one][x][u] = c]
                /\ c = "complete" => data'[x][u] = Bundle[one]
        BY <1>1, JobEndStep
      <3>2. job[one][x][u] = "running"
        BY <1>1, JobEndStep
      <3> QED
        BY <1>1, <1>4, <3>1, <3>2, JobStep
    <2>2. x \in status[one].plan /\ reaches[x] = "closed"
      BY <1>4, <2>1 DEF Closed, reaches
    <2>3. status[one].started
      BY <2>2 DEF AloneInv, Good, ReadyIsDone
    <2>4. runs = "working"
      BY <2>1, <2>3, RunIs DEF AloneInv, runs
    <2>5. \A a \in Apps : a # x => contentOf(one, a)' = contentOf(one, a)
      BY <1>1 DEF contentOf, Slots
    <2>6. contentOf(one, x)' \in {"part", "back"}
      BY <1>4 DEF contentOf
    <2>7. contents' = [contents EXCEPT ![x] = contentOf(one, x)']
      BY <1>4, <2>5 DEF contents
    <2>8. Promise!Replace(x)
      BY <1>2, <2>2, <2>4, <2>6, <2>7 DEF Promise!Replace, runs, reaches, contents
    <2> QED
      BY <1>4, <2>8 DEF Promise!Next
  <1> QED
    BY <1>1, <1>3, <1>4

\* The edge closes at any time, and opens on what is over or not begun.
LEMMA EdgePromises ==
    ASSUME Alone, TypeOK, TypeOK', AloneInv, AloneInv', NEW a \in Apps,
           Edge!ComponentPass(a) \/ Edge!OtherEvent(a), UNCHANGED NotEdge
    PROVE  [Promise!Next]_Promise!vars
  <1>1. /\ \A b \in Apps : b # a => route'[b] = route[b]
        /\ route'[a] = "open" /\ route[a] # "open" =>
               IsTerminal(status[one]) \/ ~Begun(status[one], job[one], a)
    BY TypeParts, EdgeKeeps
  <1>2. UNCHANGED <<runs, status[one].plan, contents>>
    BY DEF NotEdge, runs, runOf, contents, contentOf
  <1>3. /\ reaches' = [reaches EXCEPT ![a] =
                           IF route'[a] = "open" THEN "open" ELSE "closed"]
        /\ reaches[a] = IF route[a] = "open" THEN "open" ELSE "closed"
    BY <1>1 DEF reaches
  <1>4. CASE route'[a] = "open" /\ route[a] # "open"
    <2>1. runs \in {"done", "stopped"} \/ contents[a] = "old"
      <3>1. CASE IsTerminal(status[one])
        BY <3>1, RunIs DEF AloneInv, IsTerminal, runs
      <3>2. CASE ~Begun(status[one], job[one], a)
        BY <3>2, ContentIs DEF Begun, contents
      <3> QED
        BY <1>1, <1>4, <3>1, <3>2
    <2>2. Promise!Open(a)
      BY <1>2, <1>3, <1>4, <2>1 DEF Promise!Open, Promise!Over, runs, reaches, contents
    <2> QED
      BY <2>2 DEF Promise!Next
  <1>5. CASE route'[a] # "open" /\ route[a] = "open"
    <2>1. Promise!Close(a)
      BY <1>2, <1>3, <1>5 DEF Promise!Close, runs, reaches, contents
    <2> QED
      BY <2>1 DEF Promise!Next
  <1>6. CASE route'[a] = "open" <=> route[a] = "open"
    <2>1. UNCHANGED reaches
      BY <1>1, <1>6 DEF reaches
    <2> QED
      BY <1>2, <2>1, Unseen
  <1> QED
    BY <1>4, <1>5, <1>6

\* Every other step of the world is out of sight.
LEMMA WorldPromises ==
    ASSUME Alone, TypeOK, TypeOK', AloneInv, AloneInv', Environment,
           UNCHANGED <<route, pass>>
    PROVE  [Promise!Next]_Promise!vars
  <1>1. CASE \E x \in Slots, u \in Units : JobEnds(one, x, u)
    BY <1>1, JobPromises
  <1>2. CASE ~ \E x \in Slots, u \in Units : JobEnds(one, x, u)
    <2>1. UNCHANGED <<status, data>>
      <3>1. CASE \E r \in Restores : CreateRestore(r) \/ OwnKey(r) \/ DeleteRestore(r)
        BY <3>1 DEF CreateRestore, OwnKey, DeleteRestore, appState
      <3>2. CASE \E x \in Slots, u \in Units : ForeignJob(one, x, u) \/ OrphanEnds(one, x, u)
        BY <3>2 DEF ForeignJob, OrphanEnds, appState, AloneInv
      <3>3. CASE \E a \in Apps : PodsUp(a) \/ Handed(a) \/ Uninstall(a)
        BY <3>3 DEF PodsUp, Handed, Uninstall
      <3>4. CASE ExportStarts \/ ExportEnds
        BY <3>4 DEF ExportStarts, ExportEnds, appState
      <3> QED
        BY <1>2, <3>1, <3>2, <3>3, <3>4 DEF Environment, Alone
    <2>2. UNCHANGED <<reaches, contents>>
      BY <2>1 DEF reaches, contents, contentOf
    <2>3. UNCHANGED runs
      BY <2>1 DEF runs, runOf, IsTerminal, AloneInv
    <2> QED
      BY <2>1, <2>2, <2>3, Unseen
  <1> QED
    BY <1>1, <1>2

\* The initial state of the promise.
LEMMA PromiseInit == ASSUME Alone, Init, AloneInv PROVE Promise!Init
  <1>1. /\ NewStatus.phase = "" /\ NewStatus.started = FALSE /\ NewStatus.plan = {}
    BY DEF NewStatus
  <1>2. /\ status[one] = NewStatus
        /\ \A x \in Slots, u \in Units : data[x][u] = "old"
    BY OneIsARestore DEF Init
  <1>3. runs = "waiting" /\ status[one].plan = {}
    BY <1>1, <1>2, RunIs DEF AloneInv, runs, IsTerminal
  <1>4. contents = [a \in Apps |-> "old"]
    BY <1>2, ContentIs DEF contents, Slots
  <1>5. reaches \in [Apps -> {"open", "closed"}]
    BY DEF reaches
  <1> QED
    BY <1>3, <1>4, <1>5 DEF Promise!Init, runs, reaches, contents

\* KeepsPromise: the passes of the two controllers, the Jobs and the edge,
\* however they interleave, are steps of the promise of one restore: content
\* changes only behind a closed edge and only while the restore works, the
\* edge opens on nothing half restored, and Ready means the plan is back.
THEOREM PromiseIsKept == ASSUME Alone PROVE Spec => KeepsPromise
  <1>1. Init /\ AloneInv => Promise!Init
    BY PromiseInit
  <1>2. ASSUME TypeOK, TypeOK', AloneInv, AloneInv', [Next]_vars
        PROVE  [Promise!Next]_Promise!vars
    <2>1. CASE Watched(RestoreNext)
      <3>1. RestoreNext /\ UNCHANGED <<route, pass>>
        BY <2>1 DEF Watched
      <3>2. CASE Environment
        BY <1>2, <3>1, <3>2, WorldPromises
      <3>3. CASE ~Environment
        <4>1. ReconcileQuietly(one) \/ \E ok \in Writes : Reconcile(one, ok)
          BY <3>1, <3>3 DEF RestoreNext, Alone
        <4>2. Outcome /\ UNCHANGED <<obj, data>>
          BY <1>2, <4>1, TypeParts, PassGood
        <4> QED
          BY <1>2, <3>1, <4>2, PassPromises
      <3> QED
        BY <3>2, <3>3
    <2>2. CASE EdgeNext /\ UNCHANGED NotEdge
      <3>1. PICK a \in Apps : Edge!ComponentPass(a) \/ Edge!OtherEvent(a)
        BY <2>2 DEF EdgeNext
      <3> QED
        BY <1>2, <2>2, <3>1, EdgePromises
    <2>3. CASE UNCHANGED vars
      BY <2>3, Unseen DEF vars, runs, runOf, reaches, contents, contentOf, IsTerminal
    <2> QED
      BY <1>2, <2>1, <2>2, <2>3 DEF Next
  <1> QED
    BY <1>1, <1>2, AloneAlways, PTL DEF KeepsPromise, Promise!Spec, Spec

=============================================================================
