------------------------ MODULE MailboxRemovalProofs ------------------------
(***************************************************************************)
(* Theorems about MailboxRemoval, for any number of people who are given   *)
(* the address and of records about it.                                    *)
(***************************************************************************)
EXTENDS MailboxRemoval, TLAPS

RecPhases == {"", "Pending", "Failed", "Archived", "Deleted", "NoMailbox"}
Recs == [there : BOOLEAN, born : Nat, late : BOOLEAN, phase : RecPhases,
         refused : BOOLEAN, gone : {"no", "set", "read", "old"},
         attempts : Nat, failed : Nat, asked : BOOLEAN, restored : BOOLEAN]
Acts == {"archive", "delete", "delete-archive"}
Words == {"", "archived", "deleted", "none"}
Jobs == [state : {"none", "running", "complete", "failed"}, act : Acts,
         word : Words, run : Nat, going : BOOLEAN, failures : Nat]
ReqStates == {"idle", "read", "decided", "failed", "done"}

MailTypes ==
    /\ person \in Nat /\ people \in Nat
    /\ listed \in BOOLEAN /\ served \in BOOLEAN /\ refusing \in BOOLEAN
    /\ host \in {"here", "away", "none"}
    /\ live \in SUBSET Nat
    /\ kept \in [Records -> SUBSET Nat] /\ took \in [Records -> SUBSET Nat]
    /\ req \in [Records -> ReqStates] /\ whom \in [Records -> Nat]
    /\ rec \in [Records -> Recs] /\ job \in [Records -> Jobs]

----------------------------------------------------------------------------
(* One pass of the operator over a record. *)

\* What no pass changes of a record, and that none brings the settle time to
\* its end.
Same(x, y) ==
    /\ y.there = x.there /\ y.born = x.born /\ y.late = x.late
    /\ y.restored = x.restored /\ y.asked = x.asked
    /\ y.gone = "old" => x.gone = "old"

\* The ways a pass rewrites a record.
LEMMA RecUpdates ==
    ASSUME NEW x \in Recs
    PROVE  /\ refuse(x) \in Recs /\ Same(x, refuse(x))
           /\ refuse(x).phase = "Failed" /\ refuse(x).refused = TRUE
           /\ wait(x) \in Recs /\ Same(x, wait(x)) /\ wait(x).refused = x.refused
           /\ wait(x).phase = IF x.phase = "Archived" THEN x.phase ELSE "Pending"
  <1>1. refuse(x) \in Recs /\ Same(x, refuse(x))
    BY DEF refuse, Recs, RecPhases, Same
  <1>2. refuse(x).phase = "Failed" /\ refuse(x).refused = TRUE
    BY DEF refuse, Recs
  <1>3. wait(x) \in Recs /\ Same(x, wait(x))
    BY DEF wait, Recs, RecPhases, Same
  <1>4. wait(x).refused = x.refused
    BY DEF wait, Recs
  <1>5. wait(x).phase = IF x.phase = "Archived" THEN x.phase ELSE "Pending"
    BY DEF wait, Recs
  <1> QED
    BY <1>1, <1>2, <1>3, <1>4, <1>5

LEMMA GoneUpdates ==
    ASSUME NEW x \in Recs, NEW g \in {"no", "set", "read", "old"},
           g = "old" => x.gone = "old"
    PROVE  LET y == [x EXCEPT !.gone = g]
           IN  /\ y \in Recs /\ Same(x, y)
               /\ y.refused = x.refused /\ y.phase = x.phase
  <1> DEFINE y == [x EXCEPT !.gone = g]
  <1>1. y \in Recs
    BY DEF Recs
  <1>2. Same(x, y) /\ y.refused = x.refused /\ y.phase = x.phase
    BY DEF Recs, Same
  <1> QED
    BY <1>1, <1>2

LEMMA PhaseUpdates ==
    ASSUME NEW x \in Recs, NEW ph \in RecPhases
    PROVE  LET y == [x EXCEPT !.phase = ph]
           IN  /\ y \in Recs /\ Same(x, y)
               /\ y.refused = x.refused /\ y.phase = ph
  <1> DEFINE y == [x EXCEPT !.phase = ph]
  <1>1. y \in Recs
    BY DEF Recs
  <1>2. Same(x, y) /\ y.refused = x.refused
    BY DEF Recs, Same
  <1>3. y.phase = ph
    BY DEF Recs
  <1> QED
    BY <1>1, <1>2, <1>3

\* A failed Job is counted.
LEMMA CountUpdates ==
    ASSUME NEW x \in Recs, NEW n \in Nat
    PROVE  LET y == [x EXCEPT !.attempts = @ + 1, !.failed = n,
                              !.phase = IF @ = "Archived" THEN @ ELSE "Failed"]
           IN  /\ y \in Recs /\ Same(x, y) /\ y.refused = x.refused
               /\ y.phase = IF x.phase = "Archived" THEN x.phase ELSE "Failed"
  <1> DEFINE y == [x EXCEPT !.attempts = @ + 1, !.failed = n,
                            !.phase = IF @ = "Archived" THEN @ ELSE "Failed"]
  <1>0. x.attempts + 1 \in Nat
    <2>1. x.attempts \in Nat
      BY DEF Recs
    <2> QED
      BY <2>1
  <1>1. y \in Recs
    BY <1>0 DEF Recs, RecPhases
  <1>2. Same(x, y) /\ y.refused = x.refused
    BY DEF Recs, Same
  <1>3. y.phase = IF x.phase = "Archived" THEN x.phase ELSE "Failed"
    BY DEF Recs
  <1> QED
    BY <1>1, <1>2, <1>3

\* A status write lands or not.
LEMMA WriteIs ==
    ASSUME MailTypes, NEW r \in Records, NEW x, NEW ok, write(r, x, ok)
    PROVE  \E y \in {x, rec[r]} : rec' = [rec EXCEPT ![r] = y]
BY DEF MailTypes, write

\* The mailbox was emptied for the record, or its Job is about to say so.
Emptied(r) ==
    \/ kept[r] # {} \/ rec[r].phase \in {"Archived", "Deleted"}
    \/ job[r].state = "complete" /\ job[r].word \in {"archived", "deleted"}

\* What a pass makes of the record r, y, and of its Job, k.
Rewrites(r, y, k) ==
    /\ rec' = [rec EXCEPT ![r] = y] /\ job' = [job EXCEPT ![r] = k]
    /\ y \in Recs /\ k \in Jobs /\ Same(rec[r], y)
    /\ y.refused => y.phase = "Failed"
    /\ y.phase \in {"Archived", "Deleted"} => Emptied(r) \/ rec[r].restored
    /\ k.state = "complete" => job[r].state = "complete" /\ k.word = job[r].word
KeepsJob(r, k) ==
    k.run = job[r].run /\ k.state = job[r].state /\ k.act = job[r].act
MakesJob(r, k, act) ==
    k.state = "running" /\ k.word = "" /\ k.run = job[r].run + 1 /\ k.act = act
Unsettled(y) == ~y.refused /\ y.phase \notin {"Archived", "Deleted", "NoMailbox"}

\* A Job that goes, and one that is made.
LEMMA GoingJob ==
    ASSUME NEW j \in Jobs
    PROVE  LET k == [j EXCEPT !.going = TRUE]
           IN  /\ k \in Jobs /\ k.state = j.state /\ k.act = j.act
               /\ k.word = j.word /\ k.run = j.run
  <1> DEFINE k == [j EXCEPT !.going = TRUE]
  <1>1. k \in Jobs
    BY DEF Jobs
  <1>2. k.state = j.state /\ k.act = j.act /\ k.word = j.word /\ k.run = j.run
    BY DEF Jobs
  <1> QED
    BY <1>1, <1>2

LEMMA MadeJob ==
    ASSUME NEW j \in Jobs, NEW act \in Acts
    PROVE  LET k == [j EXCEPT !.state = "running", !.act = act, !.word = "",
                              !.run = @ + 1, !.going = FALSE]
           IN  /\ k \in Jobs /\ k.state = "running" /\ k.act = act
               /\ k.word = "" /\ k.run = j.run + 1
  <1> DEFINE k == [j EXCEPT !.state = "running", !.act = act, !.word = "",
                            !.run = @ + 1, !.going = FALSE]
  <1>1. j.run \in Nat
    BY DEF Jobs
  <1>2. j.run + 1 \in Nat
    BY <1>1
  <1>3. k \in Jobs
    BY <1>2 DEF Jobs, Words
  <1>4. k.state = "running" /\ k.act = act
    BY DEF Jobs
  <1>5. k.word = "" /\ k.run = j.run + 1
    BY DEF Jobs
  <1> QED
    BY <1>3, <1>4, <1>5

\* run: the Job is made, reported, or counted as failed and gone with.
LEMMA RunRewrites ==
    ASSUME MailTypes, NEW r \in Owed, NEW act \in Acts, NEW ok,
           run(r, rec[r], act, ok)
    PROVE  \E y, k :
              /\ Rewrites(r, y, k)
              /\ \/ KeepsJob(r, k)
                 \/ /\ MakesJob(r, k, act)
                    /\ rec[r].phase # "Archived" => Unsettled(y)
              /\ job[r].state = "running" /\ rec[r].phase # "Archived" => Unsettled(y)
  <1> DEFINE x == rec[r]
             j == job[r]
  <1>1. /\ r \in Records /\ x \in Recs /\ j \in Jobs /\ ~settled(x)
        /\ job = [job EXCEPT ![r] = j]
    BY DEF MailTypes, Owed, There
  <1>2. /\ ~x.refused /\ x.phase \notin {"Deleted", "NoMailbox"}
        /\ x.refused \in BOOLEAN
    BY <1>1 DEF settled, Recs
  <1>3. Same(x, x)
    BY DEF Same
  <1> HIDE DEF x, j
  <1>4. CASE start(r, x, act, ok)
    <2> DEFINE k == [j EXCEPT !.state = "running", !.act = act, !.word = "",
                              !.run = @ + 1, !.going = FALSE]
               w == IF x.attempts = 0 THEN wait(x) ELSE x
    <2>0. /\ k \in Jobs /\ k.state = "running" /\ k.act = act
          /\ k.word = "" /\ k.run = j.run + 1
      BY <1>1, MadeJob
    <2>1. job' = [job EXCEPT ![r] = k] /\ write(r, w, ok)
      <3>1. job' = [job EXCEPT ![r] = k]
        BY <1>1, <1>4 DEF start, j, MailTypes
      <3> QED
        BY <1>4, <3>1 DEF start
    <2> HIDE DEF k
    <2>2. k \in Jobs /\ MakesJob(r, k, act)
      BY <2>0 DEF MakesJob, j
    <2>3. PICK y \in {w, x} : rec' = [rec EXCEPT ![r] = y]
      BY <1>1, <2>1, WriteIs DEF x
    <2>4. /\ y \in Recs /\ Same(x, y) /\ ~y.refused
          /\ y.phase \in {x.phase, "Pending"}
      <3>1. CASE y = x
        BY <1>1, <1>2, <1>3, <3>1
      <3>2. CASE y = wait(x)
        BY <1>1, <1>2, <3>2, RecUpdates
      <3> QED
        BY <3>1, <3>2
    <2> HIDE DEF w
    <2>5. y.phase \in {"Archived", "Deleted"} => Emptied(r)
      BY <2>4 DEF Emptied, x
    <2>6. Rewrites(r, y, k)
      BY <2>1, <2>2, <2>3, <2>4, <2>5 DEF Rewrites, MakesJob, x
    <2>7. x.phase # "Archived" => Unsettled(y)
      BY <1>2, <2>4 DEF Unsettled
    <2> QED
      BY <2>2, <2>6, <2>7 DEF x
  <1>5. CASE complete(r, x, act, ok)
    <2>1. j.state = "complete"
      BY <1>5 DEF complete, j
    <2>2. \/ /\ job' = [job EXCEPT ![r] = [j EXCEPT !.going = TRUE]]
             /\ write(r, x, ok)
          \/ /\ j.word # "" /\ UNCHANGED job /\ write(r, report(x, j.word), ok)
      BY <1>1, <1>5 DEF complete, deleteJob, MailTypes, Jobs, j
    <2>3. PICK k \in {j, [j EXCEPT !.going = TRUE]} : job' = [job EXCEPT ![r] = k]
      BY <1>1, <2>2
    <2>4. k \in Jobs /\ KeepsJob(r, k) /\ k.word = j.word
      <3>1. /\ k \in Jobs /\ k.state = j.state /\ k.act = j.act
            /\ k.word = j.word /\ k.run = j.run
        BY <1>1, GoingJob
      <3> QED
        BY <3>1 DEF KeepsJob, j
    <2>5. /\ j.word # "" => j.word \in {"archived", "deleted", "none"}
      BY <1>1 DEF Jobs, Words
    <2>6. j.word # "" =>
              \E ph \in RecPhases :
                  /\ report(x, j.word) = [x EXCEPT !.phase = ph]
                  /\ ph \in {"Archived", "Deleted"} => Emptied(r)
      <3>1. CASE j.word \in {"archived", "deleted"}
        BY <2>1, <3>1 DEF report, Emptied, j, RecPhases
      <3>2. CASE j.word = "none"
        BY <3>2 DEF report, Emptied, x, RecPhases
      <3> QED
        BY <2>5, <3>1, <3>2
    <2>7. PICK y \in Recs :
              /\ rec' = [rec EXCEPT ![r] = y] /\ Same(x, y) /\ ~y.refused
              /\ y.phase \in {"Archived", "Deleted"} => Emptied(r)
      <3>1. x.phase \in {"Archived", "Deleted"} => Emptied(r)
        BY DEF Emptied, x
      <3>2. CASE rec' = [rec EXCEPT ![r] = x]
        BY <1>1, <1>2, <1>3, <3>1, <3>2
      <3>3. CASE j.word # "" /\ rec' = [rec EXCEPT ![r] = report(x, j.word)]
        <4>1. PICK ph \in RecPhases :
                  /\ report(x, j.word) = [x EXCEPT !.phase = ph]
                  /\ ph \in {"Archived", "Deleted"} => Emptied(r)
          BY <2>6, <3>3
        <4> DEFINE y == [x EXCEPT !.phase = ph]
        <4>2. y \in Recs /\ Same(x, y) /\ y.refused = x.refused /\ y.phase = ph
          BY <1>1, PhaseUpdates
        <4>3. rec' = [rec EXCEPT ![r] = y]
          BY <3>3, <4>1
        <4> HIDE DEF y
        <4> QED
          BY <1>2, <4>1, <4>2, <4>3
      <3> QED
        BY <1>1, <2>2, <3>2, <3>3, WriteIs DEF x
    <2>8. Rewrites(r, y, k)
      BY <2>1, <2>3, <2>4, <2>7 DEF Rewrites, x, j
    <2> QED
      BY <2>1, <2>4, <2>8 DEF j
  <1>6. CASE countFailure(r, x, act, ok)
    <2> DEFINE k == [j EXCEPT !.going = TRUE]
               w == [x EXCEPT !.attempts = @ + 1, !.failed = j.run,
                              !.phase = IF @ = "Archived" THEN @ ELSE "Failed"]
    <2>1. /\ j.state = "failed" /\ job' = [job EXCEPT ![r] = k]
          /\ write(r, IF counted(r) THEN x ELSE w, ok)
      BY <1>1, <1>6 DEF countFailure, deleteJob, MailTypes, Jobs, j
    <2>2. k \in Jobs /\ KeepsJob(r, k) /\ k.state = j.state
      <3>1. /\ k \in Jobs /\ k.state = j.state /\ k.act = j.act /\ k.run = j.run
        BY <1>1, GoingJob
      <3> QED
        BY <3>1 DEF KeepsJob, j
    <2>3. j.run \in Nat
      BY <1>1 DEF Jobs
    <2>4. /\ w \in Recs /\ Same(x, w) /\ w.refused = x.refused
          /\ w.phase = IF x.phase = "Archived" THEN x.phase ELSE "Failed"
      BY <1>1, <2>3, CountUpdates
    <2> HIDE DEF k, w
    <2>5. PICK y \in {x, w} : rec' = [rec EXCEPT ![r] = y]
      BY <1>1, <2>1, WriteIs DEF x
    <2>6. y.phase \in {"Archived", "Deleted"} => Emptied(r)
      BY <2>4, <2>5 DEF Emptied, x
    <2>7. Rewrites(r, y, k)
      BY <1>1, <1>2, <1>3, <2>1, <2>2, <2>4, <2>5, <2>6 DEF Rewrites, x
    <2> QED
      BY <2>1, <2>2, <2>7 DEF j
  <1> QED
    BY <1>4, <1>5, <1>6 DEF run, x

\* The records, the tenants and the people can be listed when the refused
\* addresses are written.
Listed == "unlisted" \notin Faults
Refusal == refusing' \in BOOLEAN /\ (Listed => refusing' \in {refusing, removedRecipients})

\* What is refused afterwards is one of these.
LEMMA RefusalIs == MailTypes /\ refusing' \in refusals =>
                       Refusal /\ (Listed => refusing' = removedRecipients)
  BY DEF Refusal, Listed, refusals, removedRecipients, MailTypes

\* A Job about the mailbox is made.
Opens(r, y, k) ==
    /\ \E act \in Acts : MakesJob(r, k, act)
    /\ Unsettled(y)
    /\ rec[r].phase # "Archived" /\ ~rec[r].restored /\ rec[r].gone = "old"
    /\ person = Nobody /\ host = "here" /\ ~laterDecision(r)
    /\ Listed => refusing'
Passed(r, y, k) ==
    /\ Rewrites(r, y, k)
    /\ \/ KeepsJob(r, k) \/ Opens(r, y, k)
       \/ MakesJob(r, k, "delete-archive") /\ rec[r].phase = "Archived"
    /\ /\ job[r].state = "running" /\ rec[r].phase # "Archived" /\ ~rec[r].restored
       /\ person = Nobody /\ host # "none" /\ ~laterDecision(r)
       => Unsettled(y)
    /\ Refusal
    /\ listed' \in BOOLEAN /\ served' \in BOOLEAN
    /\ UNCHANGED <<holder, mail, asking, host>>

\* Every pass is one of these.
LEMMA PassIs ==
    ASSUME MailTypes, NEW r \in Records, NEW ok, Reconcile(r, ok)
    PROVE  r \in Owed /\ \E y, k : Passed(r, y, k)
  <1> DEFINE x == rec[r]
             j == job[r]
  <1>1. r \in Owed
    BY DEF Reconcile, ReportRestored, Await, NoMailboxes, RunDeleteArchive, Mine,
           Superseded, PersonStays, Clear, About
  <1>2. /\ x \in Recs /\ j \in Jobs /\ job = [job EXCEPT ![r] = j] /\ Same(x, x)
        /\ ~x.refused /\ x.phase \notin {"Deleted", "NoMailbox"}
    BY <1>1 DEF MailTypes, Owed, settled, Same
  <1>3. listed \in BOOLEAN /\ served \in BOOLEAN
    BY DEF MailTypes
  <1>r. refusing' = refusing => Refusal
    BY DEF MailTypes, Refusal
  \* The passes that write the record as w and leave the Job.
  <1>4. ASSUME NEW w \in Recs, write(r, w, ok), UNCHANGED job, Same(x, w),
               w.refused => w.phase = "Failed",
               w.phase \in {"Archived", "Deleted"} => w.phase = x.phase \/ x.restored,
               Refusal, listed' \in BOOLEAN, served' \in BOOLEAN,
               UNCHANGED <<holder, mail, asking, host>>,
               \/ Unsettled(w) \/ x.phase = "Archived" \/ x.restored
               \/ person # Nobody \/ host = "none" \/ laterDecision(r)
        PROVE  \E y, k : Passed(r, y, k)
    <2>1. PICK y \in {w, x} : rec' = [rec EXCEPT ![r] = y]
      BY <1>4, WriteIs
    <2>2. x.phase \notin {"Archived", "Deleted"} =>
              Unsettled(x) \/ x.phase = "NoMailbox"
      BY <1>2 DEF Unsettled
    <2>3. /\ y \in Recs /\ Same(x, y) /\ (y.refused => y.phase = "Failed")
          /\ y.phase \in {"Archived", "Deleted"} => Emptied(r) \/ x.restored
      BY <1>2, <1>4, <2>1 DEF Emptied
    <2>4. \/ Unsettled(y) \/ x.phase = "Archived" \/ x.restored
          \/ person # Nobody \/ host = "none" \/ laterDecision(r)
      BY <1>2, <1>4, <2>1, <2>2
    <2> HIDE DEF x, j
    <2>5. KeepsJob(r, j)
      BY DEF KeepsJob, j
    <2>6. Rewrites(r, y, j)
      BY <1>2, <1>4, <2>1, <2>3 DEF Rewrites, x, j
    <2> QED
      BY <1>4, <2>4, <2>5, <2>6 DEF Passed, x
  <1>5. CASE ReportRestored(r, ok)
    <2> DEFINE w == [x EXCEPT !.phase = "Archived"]
    <2>1. w \in Recs /\ Same(x, w) /\ w.refused = x.refused /\ w.phase = "Archived"
      BY <1>2, PhaseUpdates DEF RecPhases
    <2>2. /\ write(r, w, ok) /\ x.restored
          /\ UNCHANGED <<job, holder, server, mail, asking>>
      BY <1>5 DEF ReportRestored
    <2> HIDE DEF w
    <2> QED
      BY <1>1, <1>2, <1>3, <1>r, <1>4, <2>1, <2>2 DEF server
  <1>6. CASE Await(r, ok)
    <2>1. /\ write(r, wait(x), ok) /\ UNCHANGED <<job, holder, server, mail, asking>>
      BY <1>6 DEF Await
    <2>2. /\ wait(x) \in Recs /\ Same(x, wait(x)) /\ ~wait(x).refused
          /\ wait(x).phase = IF x.phase = "Archived" THEN x.phase ELSE "Pending"
      BY <1>2, RecUpdates
    <2>3. x.phase # "Archived" => Unsettled(wait(x))
      BY <2>2 DEF Unsettled
    <2> QED
      BY <1>1, <1>2, <1>3, <1>r, <1>4, <2>1, <2>2, <2>3 DEF server
  <1>7. CASE NoMailboxes(r, ok)
    <2> DEFINE w == [x EXCEPT !.phase = "NoMailbox"]
    <2>1. w \in Recs /\ Same(x, w) /\ w.refused = x.refused /\ w.phase = "NoMailbox"
      BY <1>2, PhaseUpdates DEF RecPhases
    <2>2. /\ write(r, w, ok) /\ host = "none"
          /\ UNCHANGED <<job, holder, server, mail, asking>>
      BY <1>7 DEF NoMailboxes
    <2> HIDE DEF w
    <2> QED
      BY <1>1, <1>2, <1>3, <1>r, <1>4, <2>1, <2>2 DEF server
  <1>8. CASE Superseded(r, ok)
    <2>1. /\ write(r, refuse(x), ok) /\ laterDecision(r)
          /\ UNCHANGED <<job, holder, server, mail, asking>>
      BY <1>8 DEF Superseded
    <2> QED
      BY <1>1, <1>2, <1>3, <1>r, <1>4, <2>1, RecUpdates DEF server
  <1>9. CASE PersonStays(r, ok)
    <2>1. /\ write(r, IF x.late THEN refuse(x) ELSE wait(x), ok) /\ person # Nobody
          /\ UNCHANGED <<job, holder, server, mail, asking>>
      BY <1>9 DEF PersonStays, held
    <2>2. CASE x.late
      BY <1>1, <1>2, <1>3, <1>r, <1>4, <2>1, <2>2, RecUpdates DEF server
    <2>3. CASE ~x.late
      <3>1. write(r, wait(x), ok)
        BY <2>1, <2>3
      <3>2. /\ wait(x) \in Recs /\ Same(x, wait(x)) /\ ~wait(x).refused
            /\ wait(x).phase = IF x.phase = "Archived" THEN x.phase ELSE "Pending"
        BY <1>2, RecUpdates
      <3> QED
        BY <1>1, <1>2, <1>3, <1>r, <1>4, <2>1, <3>1, <3>2 DEF server
    <2> QED
      BY <2>2, <2>3
  <1>10. CASE RunDeleteArchive(r, ok)
    <2>1. /\ run(r, rec[r], "delete-archive", ok) /\ rec[r].phase = "Archived"
          /\ UNCHANGED <<holder, server, mail, asking>>
      BY <1>10 DEF RunDeleteArchive
    <2>2. PICK y, k : /\ Rewrites(r, y, k)
                      /\ KeepsJob(r, k) \/ MakesJob(r, k, "delete-archive")
      BY <1>1, <2>1, RunRewrites DEF Acts
    <2>3. Passed(r, y, k)
      BY <1>3, <1>r, <2>1, <2>2 DEF Passed, server
    <2> QED
      BY <1>1, <2>3
  <1>11. CASE Clear(r, ok)
    <2>1. /\ person = Nobody /\ ~laterDecision(r) /\ x.phase # "Archived"
          /\ ~x.restored /\ host = "here"
          /\ refusing' \in refusals /\ listed' \in BOOLEAN
          /\ UNCHANGED <<holder, served, host, mail, asking>>
      BY <1>3, <1>11 DEF Clear, About, Mine, held
    <2>a. Refusal /\ (Listed => refusing' = removedRecipients)
      BY <2>1, RefusalIs
    <2>2. Listed => refusing'
      BY <1>1, <1>2, <2>1, <2>a DEF removedRecipients, Owed
    <2>3. CASE /\ write(r, wait([rec[r] EXCEPT !.gone = "no"]), ok)
               /\ UNCHANGED job
      <3> DEFINE g == [x EXCEPT !.gone = "no"]
                 w == wait(g)
      <3>1. g \in Recs /\ Same(x, g) /\ g.refused = x.refused /\ g.phase = x.phase
        BY <1>2, GoneUpdates
      <3> HIDE DEF g
      <3>2. w \in Recs /\ Same(g, w) /\ ~w.refused /\ w.phase = "Pending"
        BY <1>2, <2>1, <3>1, RecUpdates
      <3>3. write(r, w, ok)
        BY <2>3 DEF g
      <3> HIDE DEF w
      <3>4. Same(x, w) /\ Unsettled(w)
        BY <3>1, <3>2 DEF Same, Unsettled
      <3> QED
        BY <1>1, <1>3, <1>4, <2>1, <2>a, <2>3, <3>2, <3>3, <3>4
    <2>4. CASE /\ write(r, wait([rec[r] EXCEPT !.gone =
                                     IF @ = "no" THEN "set" ELSE @]), ok)
               /\ UNCHANGED job
      <3> DEFINE z == IF x.gone = "no" THEN "set" ELSE x.gone
                 g == [x EXCEPT !.gone = z]
                 w == wait(g)
      <3>0. z \in {"no", "set", "read", "old"} /\ (z = "old" => x.gone = "old")
        BY <1>2 DEF Recs
      <3>3. write(r, w, ok)
        BY <2>4
      <3> HIDE DEF z
      <3>1. g \in Recs /\ Same(x, g) /\ g.refused = x.refused /\ g.phase = x.phase
        BY <1>2, <3>0, GoneUpdates
      <3> HIDE DEF g
      <3>2. w \in Recs /\ Same(g, w) /\ ~w.refused /\ w.phase = "Pending"
        BY <1>2, <2>1, <3>1, RecUpdates
      <3> HIDE DEF w
      <3>4. Same(x, w) /\ Unsettled(w)
        BY <3>1, <3>2 DEF Same, Unsettled
      <3> QED
        BY <1>1, <1>3, <1>4, <2>1, <2>a, <2>4, <3>2, <3>3, <3>4
    <2>5. CASE longGone(rec[r]) /\ run(r, rec[r], Choice[r], ok)
      <3>1. Choice[r] \in Acts
        BY MailboxConfig DEF Acts
      <3>2. PICK y, k : /\ Rewrites(r, y, k)
                        /\ \/ KeepsJob(r, k)
                           \/ /\ MakesJob(r, k, Choice[r])
                              /\ rec[r].phase # "Archived" => Unsettled(y)
                        /\ job[r].state = "running" /\ rec[r].phase # "Archived"
                              => Unsettled(y)
        BY <1>1, <2>5, <3>1, RunRewrites
      <3>3. KeepsJob(r, k) \/ Opens(r, y, k)
        BY <2>1, <2>2, <2>5, <3>1, <3>2 DEF Opens, longGone
      <3>4. Passed(r, y, k)
        BY <1>3, <2>1, <2>a, <3>2, <3>3 DEF Passed
      <3> QED
        BY <1>1, <3>4
    <2> QED
      BY <1>1, <1>11, <2>3, <2>4, <2>5 DEF Clear
  <1> QED
    BY <1>5, <1>6, <1>7, <1>8, <1>9, <1>10, <1>11 DEF Reconcile

----------------------------------------------------------------------------
(* Types. *)

NewestStands ==
    Records # {} => \E s \in Records : \A r \in Records : rec[r].born <= rec[s].born

LEMMA NewestIs ==
    ASSUME MailTypes, NewestStands, NEW q \in Records
    PROVE  Newest \in Nat /\ \A r \in Records : rec[r].born <= Newest
  <1> DEFINE B == {rec[r].born : r \in Records}
  <1>1. \A r \in Records : rec[r].born \in Nat
    BY DEF MailTypes, Recs
  <1>2. PICK s \in Records : \A r \in Records : rec[r].born <= rec[s].born
    BY DEF NewestStands
  <1>3. \E b \in B : \A c \in B : c <= b
    BY <1>2
  <1>4. Newest \in B /\ \A c \in B : c <= Newest
    BY <1>3 DEF Newest
  <1> QED
    BY <1>1, <1>4

\* What a Job leaves.
LEMMA ScriptIs ==
    ASSUME MailTypes, NEW r \in Records
    PROVE  LET s == script(r)
           IN  /\ s.live \in SUBSET Nat /\ s.live \subseteq live
               /\ s.kept \in SUBSET Nat
               /\ s.says \in {"archived", "deleted", "none"}
               /\ job[r].act = "delete-archive" => s.live = live
               /\ \/ s.live = {}
                  \/ s.live = live /\ kept[r] # {}
                  \/ s.live = live /\ s.kept = {} /\ s.says = "none"
  <1>1. live \in SUBSET Nat /\ kept[r] \in SUBSET Nat /\ job[r].act \in Acts
    BY DEF MailTypes, Jobs
  <1>2. CASE job[r].act = "archive"
    BY <1>1, <1>2 DEF script, archiveScript
  <1>3. CASE job[r].act = "delete"
    BY <1>1, <1>3 DEF script, deleteScript
  <1>4. CASE job[r].act = "delete-archive"
    BY <1>1, <1>4 DEF script, archivedDeleteScript
  <1> QED
    BY <1>1, <1>2, <1>3, <1>4 DEF Acts

\* How a Job ends: what becomes of it, and of the mail.
Ended(r, k) ==
    /\ job' = [job EXCEPT ![r] = k] /\ k \in Jobs
    /\ k.run = job[r].run /\ k.act = job[r].act /\ k.state \in {"complete", "failed"}
    /\ \/ k.state = "failed" /\ UNCHANGED mail
       \/ LET s == script(r)
          IN  /\ live' = s.live /\ kept' = [kept EXCEPT ![r] = s.kept]
              /\ took' = [took EXCEPT ![r] = @ \cup (live \ s.live)]
              /\ k.state = "complete" => k.word \in {"", s.says}
    /\ UNCHANGED <<holder, server, asking, rec>>

LEMMA JobEndsIs ==
    ASSUME MailTypes, NEW r \in Records, NEW how \in Endings, JobEnds(r, how)
    PROVE  job[r].state = "running" /\ \E k : Ended(r, k)
  <1> DEFINE j == job[r]
             says == IF how = "silent" THEN "" ELSE script(r).says
             k == IF how \in {"failed", "failedLate"}
                  THEN [j EXCEPT !.state = "failed", !.failures = @ + 1]
                  ELSE [j EXCEPT !.state = "complete", !.word = says]
  <1>1. j \in Jobs /\ says \in Words
    BY ScriptIs DEF MailTypes, Words
  <1>2. j.failures + 1 \in Nat
    <2>1. j.failures \in Nat
      BY <1>1 DEF Jobs
    <2> QED
      BY <2>1
  <1>3. job' = [job EXCEPT ![r] = k]
    BY DEF JobEnds
  <1> HIDE DEF j, says
  <1>4. /\ k \in Jobs /\ k.run = j.run /\ k.act = j.act
        /\ k.state = IF how \in {"failed", "failedLate"} THEN "failed" ELSE "complete"
    <2>1. CASE how \in {"failed", "failedLate"}
      BY <1>1, <1>2, <2>1 DEF Jobs
    <2>2. CASE ~(how \in {"failed", "failedLate"})
      <3>1. k \in Jobs
        BY <1>1, <2>2 DEF Jobs
      <3>2. k.run = j.run /\ k.act = j.act /\ k.state = "complete"
        BY <1>1, <2>2 DEF Jobs
      <3> QED
        BY <2>2, <3>1, <3>2
    <2> QED
      BY <2>1, <2>2
  <1>5. k.state = "complete" => k.word = says
    BY <1>1, <1>4 DEF Jobs
  <1> HIDE DEF k
  <1>6. Ended(r, k)
    <2>1. CASE how = "failed"
      <3>1. k.state = "failed" /\ UNCHANGED mail /\ UNCHANGED <<holder, server, asking, rec>>
        BY <1>4, <2>1 DEF JobEnds
      <3> QED
        BY <1>3, <1>4, <3>1 DEF Ended, j
    <2>2. CASE how # "failed"
      <3>1. LET s == script(r)
            IN  /\ live' = s.live /\ kept' = [kept EXCEPT ![r] = s.kept]
                /\ took' = [took EXCEPT ![r] = @ \cup (live \ s.live)]
        BY <2>2 DEF JobEnds
      <3>2. UNCHANGED <<holder, server, asking, rec>>
        BY DEF JobEnds
      <3>3. says \in {"", script(r).says}
        BY DEF says
      <3> QED
        BY <1>3, <1>4, <1>5, <3>1, <3>2, <3>3 DEF Ended, j
    <2> QED
      BY <2>1, <2>2
  <1>7. job[r].state = "running"
    BY DEF JobEnds
  <1> QED
    BY <1>6, <1>7

LEMMA TypesStart == Init => MailTypes
  <1> SUFFICES ASSUME Init PROVE MailTypes
    OBVIOUS
  <1>1. Fresh \in Recs
    BY DEF Fresh, Recs, RecPhases
  <1>2. NoJob \in Jobs
    BY DEF NoJob, Jobs, Acts, Words
  <1> QED
    BY <1>1, <1>2 DEF Init, MailTypes, ReqStates, Nobody

\* The operations that are no pass and no end of a Job.
Asks(r) ==
    \/ Ask(r) \/ Decide(r) \/ RestoreRecord(r)
    \/ \E ok \in BOOLEAN : RemovePerson(r, ok) \/ Withdraw(r, ok)
Others(r) ==
    \/ DeleteArchive(r) \/ GraceEnds(r) \/ SettleEnds(r) \/ JobGoes(r) \/ Forget(r)
Around ==
    \/ AddPerson \/ Deliver \/ TenantTurn \/ ServerReads \/ HostBack
    \/ \E h \in {"away", "none"} : HostGoes(h)

LEMMA NextIs ==
    ASSUME Next
    PROVE  \/ Around
           \/ \E r \in Records :
                 \/ Asks(r) \/ Others(r) \/ \E how \in Endings : JobEnds(r, how)
                 \/ \E ok \in BOOLEAN : Reconcile(r, ok)
  <1>1. \A f : Maybe(f) \subseteq BOOLEAN
    BY DEF Maybe
  <1> QED
    BY <1>1 DEF Next, Of, Requests, Around, Asks, Others

LEMMA AskTypes ==
    ASSUME MailTypes, NewestStands, NEW r \in Records, Asks(r)
    PROVE  MailTypes'
  <1>1. CASE Ask(r)
    BY <1>1 DEF Ask, MailTypes, ReqStates, holder, server, mail
  <1>2. Newest + 1 \in Nat
    BY NewestIs
  <1>3. CASE Decide(r)
    <2> DEFINE n == Newest + 1
               y == [rec[r] EXCEPT !.there = TRUE, !.born = n]
    <2>1. rec' = [rec EXCEPT ![r] = y]
      BY <1>3 DEF Decide, MailTypes
    <2> HIDE DEF n
    <2>2. y \in Recs
      BY <1>2 DEF MailTypes, Recs, n
    <2>3. rec' \in [Records -> Recs]
      BY <2>1, <2>2 DEF MailTypes
    <2> HIDE DEF y
    <2> QED
      BY <1>3, <2>3 DEF Decide, MailTypes, ReqStates, holder, server, mail
  <1>4. CASE RestoreRecord(r)
    <2> DEFINE n == Newest + 1
               y == [rec[r] EXCEPT !.there = TRUE, !.born = n, !.restored = TRUE]
    <2>1. rec' = [rec EXCEPT ![r] = y]
      BY <1>4 DEF RestoreRecord, MailTypes
    <2> HIDE DEF n
    <2>2. y \in Recs
      BY <1>2 DEF MailTypes, Recs, n
    <2>3. rec' \in [Records -> Recs]
      BY <2>1, <2>2 DEF MailTypes
    <2> HIDE DEF y
    <2> QED
      BY <1>4, <2>3 DEF RestoreRecord, MailTypes, ReqStates, holder, server, Nobody
  <1>5. ASSUME NEW ok \in BOOLEAN, RemovePerson(r, ok) PROVE MailTypes'
    BY <1>5 DEF RemovePerson, MailTypes, ReqStates, server, mail, Nobody
  <1>6. ASSUME NEW ok \in BOOLEAN, Withdraw(r, ok) PROVE MailTypes'
    <2> DEFINE t == rec[r].there /\ ~ok
    <2>1. rec' = [rec EXCEPT ![r].there = t] /\ t \in BOOLEAN
      BY <1>6 DEF Withdraw
    <2> HIDE DEF t
    <2>2. rec' \in [Records -> Recs]
      BY <2>1 DEF MailTypes, Recs
    <2> QED
      BY <1>6, <2>2 DEF Withdraw, MailTypes, ReqStates, holder, server, mail
  <1> QED
    BY <1>1, <1>3, <1>4, <1>5, <1>6 DEF Asks

LEMMA OtherTypes ==
    ASSUME MailTypes, NEW r \in Records, Others(r)
    PROVE  MailTypes'
  <1>1. /\ rec' \in [Records -> Recs] /\ UNCHANGED <<holder, server, mail, asking>>
        /\ job' \in [Records -> Jobs]
    <2>1. CASE DeleteArchive(r)
      BY <2>1 DEF DeleteArchive, MailTypes, Recs
    <2>2. CASE GraceEnds(r)
      <3> DEFINE y == [rec[r] EXCEPT !.late = TRUE]
      <3>1. y \in Recs
        BY DEF MailTypes, Recs
      <3>2. rec' = [rec EXCEPT ![r] = y] /\ UNCHANGED <<holder, server, mail, asking, job>>
        BY <2>2 DEF GraceEnds
      <3> HIDE DEF y
      <3> QED
        BY <3>1, <3>2 DEF MailTypes
    <2>3. CASE SettleEnds(r)
      BY <2>3 DEF SettleEnds, MailTypes, Recs
    <2>4. CASE JobGoes(r)
      BY <2>4 DEF JobGoes, MailTypes, Jobs
    <2>5. CASE Forget(r)
      BY <2>5 DEF Forget, MailTypes, Recs
    <2> QED
      BY <2>1, <2>2, <2>3, <2>4, <2>5 DEF Others
  <1> QED
    BY <1>1 DEF MailTypes, holder, server, mail, asking

LEMMA AroundTypes ==
    ASSUME MailTypes, Around
    PROVE  MailTypes'
  <1>1. CASE AddPerson
    BY <1>1 DEF AddPerson, MailTypes, server, mail, asking
  <1>2. CASE Deliver
    BY <1>2 DEF Deliver, MailTypes, holder, server, asking
  <1>3. CASE TenantTurn
    BY <1>3, RefusalIs DEF TenantTurn, Refusal, MailTypes, holder, mail, asking
  <1>4. CASE ServerReads
    <2>1. rec' \in [Records -> Recs]
      <3>1. ASSUME NEW s \in Records PROVE [rec[s] EXCEPT !.gone = "read"] \in Recs
        BY <3>1 DEF MailTypes, Recs
      <3> QED
        BY <1>4, <3>1 DEF ServerReads, MailTypes
    <2> QED
      BY <1>4, <2>1 DEF ServerReads, MailTypes, holder, mail, asking
  <1>5. CASE HostBack \/ \E h \in {"away", "none"} : HostGoes(h)
    BY <1>5 DEF HostBack, HostGoes, MailTypes, holder, mail, asking
  <1> QED
    BY <1>1, <1>2, <1>3, <1>4, <1>5 DEF Around

LEMMA JobTypes ==
    ASSUME MailTypes, NEW r \in Records, NEW k, Ended(r, k)
    PROVE  MailTypes'
  <1>1. job' \in [Records -> Jobs]
    BY DEF Ended, MailTypes
  <1>2. live' \in SUBSET Nat /\ kept' \in [Records -> SUBSET Nat]
    BY ScriptIs DEF Ended, MailTypes, mail
  <1>3. took' \in [Records -> SUBSET Nat]
    <2>1. live \ script(r).live \in SUBSET Nat
      BY DEF MailTypes
    <2> HIDE DEF script
    <2> QED
      BY <2>1 DEF Ended, MailTypes, mail
  <1> QED
    BY <1>1, <1>2, <1>3 DEF Ended, MailTypes, holder, server, asking

LEMMA PassTypes ==
    ASSUME MailTypes, NEW r \in Records, NEW y, NEW k, Passed(r, y, k)
    PROVE  MailTypes'
  <1>1. rec' \in [Records -> Recs] /\ job' \in [Records -> Jobs]
    BY DEF Passed, Rewrites, MailTypes
  <1>2. refusing' \in BOOLEAN
    BY DEF Passed, Refusal
  <1> QED
    BY <1>1, <1>2 DEF Passed, MailTypes, holder, mail, asking

----------------------------------------------------------------------------
(* Nothing in the mailbox for the next person. *)

\* The address is one person's after the other, and a request is about the
\* one who holds it.
HoldersInOrder ==
    /\ person \in {Nobody, people}
    /\ \A r \in Records : whom[r] <= people
\* A record is not there before its request has been decided.
NotYet ==
    \A r \in Records : req[r] \in {"idle", "read"} =>
        rec[r] = Fresh /\ job[r] = NoJob /\ kept[r] = {}
\* Without a Job nothing is done for a record, unless a restore made it.
NoRun ==
    \A r \in Records : job[r].run = 0 =>
        /\ job[r].state = "none"
        /\ ~rec[r].restored =>
               kept[r] = {} /\ rec[r].phase \notin {"Archived", "Deleted"}
RefusedFailed == \A r \in Records : rec[r].refused => rec[r].phase = "Failed"
\* Once a Job was made for a record, and until the address is given to the
\* next person, the address takes no mail, and what was emptied stays empty.
Behind ==
    \A r \in There :
        /\ Listed
        /\ ~rec[r].restored /\ ~rec[r].refused /\ job[r].run > 0 /\ people = whom[r]
        => person = Nobody /\ refusing /\ (Emptied(r) => live = {})

ServedInv ==
    /\ MailTypes /\ NewestStands /\ HoldersInOrder /\ NotYet /\ NoRun
    /\ RefusedFailed /\ Behind

\* The invariant is what is wanted: a record in phase Archived or Deleted had
\* a Job, and is not refused.
LEMMA ServedIsEnough ==
    ASSUME Listed
    PROVE  ServedInv => NothingForTheNext
  <1> SUFFICES ASSUME ServedInv, NEW r \in There,
                      rec[r].phase \in {"Archived", "Deleted"}, ~rec[r].restored,
                      people = whom[r]
               PROVE  live = {}
    BY DEF NothingForTheNext
  <1>1. r \in Records /\ job[r].run \in Nat
    BY DEF There, ServedInv, MailTypes, Jobs
  <1>2. job[r].run > 0 /\ ~rec[r].refused
    BY <1>1 DEF ServedInv, NoRun, RefusedFailed
  <1>3. Emptied(r)
    BY DEF Emptied
  <1> QED
    BY <1>2, <1>3 DEF ServedInv, Behind

LEMMA ServedStart == Init => ServedInv
  <1> SUFFICES ASSUME Init PROVE ServedInv
    OBVIOUS
  <1>1. MailTypes
    BY TypesStart
  <1>2. \A r \in Records : rec[r] = Fresh /\ job[r] = NoJob /\ kept[r] = {}
    BY DEF Init
  <1> DEFINE f == Fresh
             n == NoJob
  <1>a. /\ ~f.there /\ f.born = 0 /\ ~f.refused /\ f.phase = "" /\ ~f.restored
        /\ n.run = 0 /\ n.state = "none"
    BY DEF Fresh, NoJob
  <1>b. \A r \in Records :
           /\ ~rec[r].there /\ rec[r].born = 0 /\ ~rec[r].refused
           /\ rec[r].phase = "" /\ ~rec[r].restored
           /\ job[r].run = 0 /\ job[r].state = "none"
    BY <1>a, <1>2
  <1>3. There = {}
    BY <1>b DEF There
  <1>4. NewestStands
    <2>1. ASSUME NEW r \in Records, NEW s \in Records
          PROVE  rec[r].born <= rec[s].born
      <3>1. rec[r].born = 0 /\ rec[s].born = 0
        BY <1>b
      <3> QED
        BY <3>1
    <2> QED
      BY <2>1 DEF NewestStands
  <1>5. HoldersInOrder
    BY DEF HoldersInOrder, Init, Nobody
  <1>6. NotYet /\ NoRun /\ RefusedFailed
    BY <1>2, <1>b DEF NotYet, NoRun, RefusedFailed
  <1> QED
    BY <1>1, <1>3, <1>4, <1>5, <1>6 DEF ServedInv, Behind

\* A step that leaves alone what is done for the records and takes no mail in.
Kept(s) ==
    /\ rec'[s].there => rec[s].there
    /\ rec'[s].born = rec[s].born /\ rec'[s].restored = rec[s].restored
    /\ rec'[s].refused = rec[s].refused /\ rec'[s].phase = rec[s].phase
    /\ job'[s].run = job[s].run /\ job'[s].state \in {job[s].state, "none"}
    /\ job'[s].word = job[s].word
    /\ req'[s] \in {"idle", "read"} =>
           /\ req[s] \in {"idle", "read"}
           /\ rec'[s] = rec[s] /\ job'[s] = job[s]
    /\ whom'[s] = whom[s] \/ (whom'[s] = person /\ job[s].run = 0)
Calm ==
    /\ \A s \in Records : Kept(s)
    /\ kept' = kept /\ people' = people /\ person' \in {person, Nobody}
    /\ Listed => \/ refusing' = refusing
                 \/ refusing' = removedRecipients /\ person' = person
    /\ refusing => live' = live

LEMMA CalmStep ==
    ASSUME ServedInv, MailTypes', Calm
    PROVE  ServedInv'
  <1> USE DEF Calm
  <1>0. \A s \in Records : Kept(s)
    OBVIOUS
  <1>1. NewestStands'
    BY <1>0 DEF ServedInv, NewestStands, Kept
  <1>2. HoldersInOrder'
    <2>1. person <= people /\ people <= people
      BY DEF ServedInv, MailTypes, HoldersInOrder, Nobody
    <2> QED
      BY <1>0, <2>1 DEF ServedInv, HoldersInOrder, Kept
  <1>3. NotYet'
    BY <1>0 DEF ServedInv, NotYet, Kept
  <1>4. NoRun'
    BY <1>0 DEF ServedInv, NoRun, Kept
  <1>5. RefusedFailed'
    BY <1>0 DEF ServedInv, RefusedFailed, Kept
  <1>6. Behind'
    <2> SUFFICES ASSUME NEW r \in There', ~rec'[r].restored, ~rec'[r].refused,
                        job'[r].run > 0, people' = whom'[r], Listed
                 PROVE  person' = Nobody /\ refusing' /\ (Emptied(r)' => live' = {})
      BY DEF Behind
    <2>1. r \in Records /\ r \in There /\ Kept(r)
      BY <1>0 DEF There, Kept
    <2>2. ~rec[r].restored /\ ~rec[r].refused /\ job[r].run > 0 /\ people = whom[r]
      BY <2>1 DEF Kept
    <2>3. person = Nobody /\ refusing /\ (Emptied(r) => live = {})
      BY <2>1, <2>2 DEF ServedInv, Behind
    <2>4. removedRecipients
      BY <2>1, <2>2, <2>3 DEF removedRecipients
    <2>5. Emptied(r)' => Emptied(r)
      BY <2>1 DEF Emptied, Kept
    <2> QED
      BY <2>3, <2>4, <2>5
  <1> QED
    BY <1>1, <1>2, <1>3, <1>4, <1>5, <1>6 DEF ServedInv

\* One field of a record is written.
LEMMA RecordField ==
    ASSUME MailTypes, NEW r \in Records, NEW y \in Recs, rec' = [rec EXCEPT ![r] = y],
           y.there => rec[r].there, y.born = rec[r].born,
           y.restored = rec[r].restored, y.refused = rec[r].refused,
           y.phase = rec[r].phase, req'[r] \notin {"idle", "read"},
           \A s \in Records \ {r} : req'[s] = req[s],
           UNCHANGED <<whom, job>>
    PROVE  \A s \in Records : Kept(s)
  <1> SUFFICES ASSUME NEW s \in Records PROVE Kept(s)
    OBVIOUS
  <1>1. CASE s = r
    <2>1. rec'[s] = y
      BY <1>1 DEF MailTypes
    <2> QED
      BY <1>1, <2>1 DEF Kept
  <1>2. CASE s # r
    <2>1. rec'[s] = rec[s]
      BY <1>2 DEF MailTypes
    <2> QED
      BY <1>2, <2>1 DEF Kept
  <1> QED
    BY <1>1, <1>2

\* A record that is there, or whose request was decided, is past NotYet.
LEMMA PastDeciding ==
    ASSUME ServedInv, NEW r \in Records, rec[r].there
    PROVE  req[r] \notin {"idle", "read"}
  <1> DEFINE f == Fresh
  <1>1. ~f.there
    BY DEF Fresh
  <1> HIDE DEF f
  <1>2. req[r] \in {"idle", "read"} => rec[r] = f
    BY DEF ServedInv, NotYet, f
  <1> QED
    BY <1>1, <1>2

LEMMA UnmadeJob ==
    ASSUME ServedInv, NEW r \in Records, req[r] \in {"idle", "read"}
    PROVE  /\ job[r].run = 0 /\ job[r].state = "none" /\ ~job[r].going
           /\ ~rec[r].there /\ ~rec[r].refused /\ rec[r].gone = "no"
           /\ rec[r].phase = "" /\ kept[r] = {} /\ ~rec[r].late
  <1> DEFINE n == NoJob
             f == Fresh
  <1>1. /\ n.run = 0 /\ n.state = "none" /\ ~n.going
        /\ ~f.there /\ ~f.refused /\ f.gone = "no" /\ f.phase = "" /\ ~f.late
    BY DEF NoJob, Fresh
  <1> HIDE DEF n, f
  <1>2. job[r] = n /\ rec[r] = f /\ kept[r] = {}
    BY DEF ServedInv, NotYet, n, f
  <1> QED
    BY <1>1, <1>2

LEMMA CalmAsks ==
    ASSUME ServedInv, NEW r \in Records,
           \/ Ask(r) \/ \E ok \in BOOLEAN : RemovePerson(r, ok) \/ Withdraw(r, ok)
    PROVE  Calm
  <1>0. MailTypes
    BY DEF ServedInv
  <1>1. CASE Ask(r)
    <2>1. job[r].run = 0
      BY <1>1, UnmadeJob DEF Ask
    <2>2. UNCHANGED <<rec, job, kept, person, people, refusing, live>>
      BY <1>1 DEF Ask, holder, server, mail
    <2>3. ASSUME NEW s \in Records PROVE Kept(s)
      BY <1>0, <1>1, <2>1, <2>2 DEF Ask, Kept, MailTypes
    <2> QED
      BY <2>2, <2>3 DEF Calm
  <1>2. ASSUME NEW ok \in BOOLEAN, RemovePerson(r, ok) PROVE Calm
    <2>1. UNCHANGED <<rec, job, kept, people, refusing, live, whom>>
      BY <1>2 DEF RemovePerson, server, mail
    <2>2. person' \in {person, Nobody}
      BY <1>2 DEF RemovePerson
    <2>3. ASSUME NEW s \in Records PROVE Kept(s)
      BY <1>0, <1>2, <2>1 DEF RemovePerson, Kept, MailTypes
    <2>4. kept' = kept /\ people' = people /\ refusing' = refusing /\ live' = live
      BY <2>1
    <2> QED
      BY <2>2, <2>3, <2>4, Zenon DEF Calm
  <1>3. ASSUME NEW ok \in BOOLEAN, Withdraw(r, ok) PROVE Calm
    <2> DEFINE t == rec[r].there /\ ~ok
               y == [rec[r] EXCEPT !.there = t]
    <2>1. rec' = [rec EXCEPT ![r] = y] /\ t \in BOOLEAN /\ (t => rec[r].there)
      BY <1>3 DEF Withdraw
    <2> HIDE DEF t
    <2>2. y \in Recs
      BY <1>0, <2>1 DEF MailTypes, Recs
    <2>3. /\ y.there = t /\ y.born = rec[r].born /\ y.restored = rec[r].restored
          /\ y.refused = rec[r].refused /\ y.phase = rec[r].phase
      BY <1>0 DEF MailTypes, Recs
    <2> HIDE DEF y
    <2>4. /\ req'[r] = "done" /\ \A s \in Records \ {r} : req'[s] = req[s]
          /\ UNCHANGED <<whom, job, kept, person, people, refusing, live>>
      BY <1>0, <1>3 DEF Withdraw, MailTypes, holder, server, mail
    <2>5. \A s \in Records : Kept(s)
      BY <1>0, <2>1, <2>2, <2>3, <2>4, RecordField
    <2> QED
      BY <2>4, <2>5 DEF Calm
  <1> QED
    BY <1>1, <1>2, <1>3

LEMMA CalmOthers ==
    ASSUME ServedInv, NEW r \in Records, Others(r)
    PROVE  Calm
  <1>0. MailTypes
    BY DEF ServedInv
  <1>1. ASSUME NEW y \in Recs, rec' = [rec EXCEPT ![r] = y], rec[r].there,
               y.there => rec[r].there, y.born = rec[r].born,
               y.restored = rec[r].restored, y.refused = rec[r].refused,
               y.phase = rec[r].phase,
               UNCHANGED <<holder, server, mail, asking, job>>
        PROVE  Calm
    <2>1. UNCHANGED <<whom, job, kept, person, people, refusing, live, req>>
      BY <1>1 DEF holder, server, mail, asking
    <2>2. req'[r] \notin {"idle", "read"}
      BY <1>1, <2>1, PastDeciding
    <2>3. \A s \in Records : Kept(s)
      BY <1>0, <1>1, <2>1, <2>2, RecordField
    <2> QED
      BY <2>1, <2>3 DEF Calm
  <1>2. CASE DeleteArchive(r)
    <2> DEFINE y == [rec[r] EXCEPT !.asked = TRUE]
    <2>1. /\ rec' = [rec EXCEPT ![r] = y] /\ rec[r].there
          /\ UNCHANGED <<holder, server, mail, asking, job>>
      BY <1>2 DEF DeleteArchive, There
    <2>2. y \in Recs
      BY <1>0 DEF MailTypes, Recs
    <2>3. /\ y.there = rec[r].there /\ y.born = rec[r].born /\ y.phase = rec[r].phase
          /\ y.restored = rec[r].restored /\ y.refused = rec[r].refused
      BY <1>0 DEF MailTypes, Recs
    <2> HIDE DEF y
    <2> QED
      BY <1>1, <2>1, <2>2, <2>3
  <1>3. CASE GraceEnds(r)
    <2> DEFINE y == [rec[r] EXCEPT !.late = TRUE]
    <2>1. /\ rec' = [rec EXCEPT ![r] = y] /\ rec[r].there
          /\ UNCHANGED <<holder, server, mail, asking, job>>
      BY <1>3 DEF GraceEnds, Owed, There
    <2>2. y \in Recs
      BY <1>0 DEF MailTypes, Recs
    <2>3. /\ y.there = rec[r].there /\ y.born = rec[r].born /\ y.phase = rec[r].phase
          /\ y.restored = rec[r].restored /\ y.refused = rec[r].refused
      BY <1>0 DEF MailTypes, Recs
    <2> HIDE DEF y
    <2> QED
      BY <1>1, <2>1, <2>2, <2>3
  <1>4. CASE SettleEnds(r)
    <2> DEFINE y == [rec[r] EXCEPT !.gone = "old"]
    <2>1. /\ rec' = [rec EXCEPT ![r] = y] /\ rec[r].there
          /\ UNCHANGED <<holder, server, mail, asking, job>>
      BY <1>4 DEF SettleEnds, Owed, There
    <2>2. y \in Recs
      BY <1>0 DEF MailTypes, Recs
    <2>3. /\ y.there = rec[r].there /\ y.born = rec[r].born /\ y.phase = rec[r].phase
          /\ y.restored = rec[r].restored /\ y.refused = rec[r].refused
      BY <1>0 DEF MailTypes, Recs
    <2> HIDE DEF y
    <2> QED
      BY <1>1, <2>1, <2>2, <2>3
  <1>5. CASE Forget(r)
    <2> DEFINE y == [rec[r] EXCEPT !.there = FALSE]
    <2>1. /\ rec' = [rec EXCEPT ![r] = y] /\ rec[r].there
          /\ UNCHANGED <<holder, server, mail, asking, job>>
      BY <1>5 DEF Forget, There
    <2>2. y \in Recs
      BY <1>0 DEF MailTypes, Recs
    <2>3. /\ ~y.there /\ y.born = rec[r].born /\ y.phase = rec[r].phase
          /\ y.restored = rec[r].restored /\ y.refused = rec[r].refused
      BY <1>0 DEF MailTypes, Recs
    <2> HIDE DEF y
    <2> QED
      BY <1>1, <2>1, <2>2, <2>3
  <1>6. CASE JobGoes(r)
    <2> DEFINE k == [job[r] EXCEPT !.state = "none", !.going = FALSE]
    <2>1. job' = [job EXCEPT ![r] = k] /\ job[r].going
      BY <1>0, <1>6 DEF JobGoes, MailTypes
    <2>2. k.run = job[r].run /\ k.state = "none" /\ k.word = job[r].word
      BY <1>0 DEF MailTypes, Jobs
    <2> HIDE DEF k
    <2>3. UNCHANGED <<rec, whom, kept, person, people, refusing, live, req>>
      BY <1>6 DEF JobGoes, holder, server, mail, asking
    <2>4. req[r] \notin {"idle", "read"}
      BY <2>1, UnmadeJob
    <2>5. ASSUME NEW s \in Records PROVE Kept(s)
      <3>1. job'[s] = IF s = r THEN k ELSE job[s]
        BY <1>0, <2>1 DEF MailTypes
      <3> QED
        BY <2>2, <2>3, <2>4, <3>1 DEF Kept
    <2> QED
      BY <2>3, <2>5 DEF Calm
  <1> QED
    BY <1>2, <1>3, <1>4, <1>5, <1>6 DEF Others

LEMMA CalmAround ==
    ASSUME ServedInv, Around, ~AddPerson
    PROVE  Calm
  <1>0. MailTypes
    BY DEF ServedInv
  <1>1. ASSUME UNCHANGED <<rec, job, req, whom>> PROVE \A s \in Records : Kept(s)
    BY <1>1 DEF Kept
  <1>2. CASE Deliver
    <2>1. /\ ~refusing
          /\ UNCHANGED <<rec, job, req, whom, kept, people, person, refusing>>
      BY <1>2 DEF Deliver, holder, server, asking
    <2> QED
      BY <1>1, <2>1 DEF Calm
  <1>3. CASE TenantTurn
    <2>1. /\ Listed => refusing' = removedRecipients
          /\ UNCHANGED <<rec, job, req, whom, kept, people, person, live>>
      BY <1>0, <1>3, RefusalIs DEF TenantTurn, holder, mail, asking
    <2> QED
      BY <1>1, <2>1 DEF Calm
  <1>4. CASE HostBack \/ \E h \in {"away", "none"} : HostGoes(h)
    <2>1. UNCHANGED <<rec, job, req, whom, kept, people, person, live, refusing>>
      BY <1>4 DEF HostBack, HostGoes, holder, mail, asking
    <2> QED
      BY <1>1, <2>1 DEF Calm
  <1>5. CASE ServerReads
    <2>1. UNCHANGED <<job, req, whom, kept, people, person, live, refusing>>
      BY <1>5 DEF ServerReads, holder, mail, asking
    <2>2. ASSUME NEW s \in Records PROVE Kept(s)
      <3> DEFINE y == [rec[s] EXCEPT !.gone = "read"]
      <3>1. rec'[s] = IF rec[s].gone = "set" THEN y ELSE rec[s]
        BY <1>5 DEF ServerReads
      <3>2. /\ y.there = rec[s].there /\ y.born = rec[s].born
            /\ y.phase = rec[s].phase /\ y.restored = rec[s].restored
            /\ y.refused = rec[s].refused
        BY <1>0 DEF MailTypes, Recs
      <3> HIDE DEF y
      <3>3. req[s] \in {"idle", "read"} => rec[s].gone = "no"
        BY UnmadeJob
      <3> QED
        BY <2>1, <3>1, <3>2, <3>3 DEF Kept
    <2> QED
      BY <2>1, <2>2 DEF Calm
  <1> QED
    BY <1>2, <1>3, <1>4, <1>5 DEF Around

\* The address is given to the next person.
LEMMA AddPersonServed ==
    ASSUME ServedInv, AddPerson
    PROVE  ServedInv'
  <1>0. MailTypes /\ MailTypes'
    BY AroundTypes DEF ServedInv, Around
  <1>1. /\ UNCHANGED <<rec, job, req, whom, kept, live, refusing>>
        /\ people' = people + 1 /\ person' = people'
    BY DEF AddPerson, server, mail, asking
  <1>2. NewestStands' /\ NotYet' /\ NoRun' /\ RefusedFailed'
    BY <1>1 DEF ServedInv, NewestStands, NotYet, NoRun, RefusedFailed
  <1>3. \A r \in Records : whom'[r] <= people' /\ whom'[r] # people'
    BY <1>0, <1>1 DEF ServedInv, HoldersInOrder, MailTypes
  <1>4. HoldersInOrder'
    BY <1>1, <1>3 DEF HoldersInOrder
  <1>5. Behind'
    BY <1>3 DEF Behind, There
  <1> QED
    BY <1>0, <1>2, <1>4, <1>5 DEF ServedInv

\* A record that is made is the newest.
LEMMA MadeNewest ==
    ASSUME MailTypes, NewestStands, MailTypes', NEW r \in Records,
           rec'[r].born = Newest + 1,
           \A s \in Records \ {r} : rec'[s] = rec[s]
    PROVE  NewestStands'
  <1>1. Newest \in Nat /\ \A s \in Records : rec[s].born <= Newest /\ rec[s].born \in Nat
    BY NewestIs DEF MailTypes, Recs
  <1>2. \A s \in Records : rec'[s].born <= rec'[r].born
    BY <1>1
  <1> QED
    BY <1>2 DEF NewestStands

\* It has no Job, and the others are left alone.
LEMMA MadeBehind ==
    ASSUME ServedInv, NEW r \in Records, job[r].run = 0,
           \A s \in Records \ {r} : rec'[s] = rec[s] /\ kept'[s] = kept[s],
           UNCHANGED <<person, people, refusing, live, whom, job>>
    PROVE  Behind'
  <1> SUFFICES ASSUME NEW s \in There', ~rec'[s].restored, ~rec'[s].refused,
                      job'[s].run > 0, people' = whom'[s], Listed
               PROVE  person' = Nobody /\ refusing' /\ (Emptied(s)' => live' = {})
    BY DEF Behind
  <1>1. s \in Records /\ s # r
    BY DEF There
  <1>2. rec'[s] = rec[s] /\ kept'[s] = kept[s] /\ s \in There
    BY <1>1 DEF There
  <1>3. person = Nobody /\ refusing /\ (Emptied(s) => live = {})
    BY <1>2 DEF ServedInv, Behind
  <1> QED
    BY <1>2, <1>3 DEF Emptied

\* A request that decides, or a restore that puts a record there.
LEMMA MadeRecord ==
    ASSUME ServedInv, MailTypes', NEW r \in Records, NEW y \in Recs,
           rec' = [rec EXCEPT ![r] = y], y.born = Newest + 1,
           ~y.refused, y.phase = "",
           req[r] \in {"idle", "read"}, req'[r] \notin {"idle", "read"},
           \A s \in Records \ {r} : req'[s] = req[s] /\ kept'[s] = kept[s],
           y.restored \/ kept'[r] = kept[r],
           UNCHANGED <<holder, server, live, whom, job>>
    PROVE  ServedInv'
  <1>0. MailTypes
    BY DEF ServedInv
  <1>1. rec'[r] = y /\ \A s \in Records \ {r} : rec'[s] = rec[s]
    BY <1>0 DEF MailTypes
  <1>2. /\ UNCHANGED <<person, people, refusing, live, whom, job>>
    BY DEF holder, server
  <1>3. /\ job[r].run = 0 /\ job[r].state = "none" /\ kept[r] = {}
    BY UnmadeJob
  <1>4. NewestStands'
    BY <1>0, <1>1, MadeNewest DEF ServedInv
  <1>5. HoldersInOrder'
    BY <1>2 DEF ServedInv, HoldersInOrder
  <1>6. NotYet'
    BY <1>1, <1>2 DEF ServedInv, NotYet
  <1>7. NoRun'
    BY <1>1, <1>2, <1>3 DEF ServedInv, NoRun
  <1>8. RefusedFailed'
    BY <1>1 DEF ServedInv, RefusedFailed
  <1>9. Behind'
    <2>1. job[r].run = 0
      BY <1>3
    <2>2. \A s \in Records \ {r} : rec'[s] = rec[s] /\ kept'[s] = kept[s]
      BY <1>1
    <2> QED
      BY <1>2, <2>1, <2>2, MadeBehind
  <1> QED
    BY <1>4, <1>5, <1>6, <1>7, <1>8, <1>9 DEF ServedInv

LEMMA AsksServed ==
    ASSUME ServedInv, NEW r \in Records, Asks(r)
    PROVE  ServedInv'
  <1>0. MailTypes /\ MailTypes'
    BY AskTypes DEF ServedInv
  <1>1. CASE Decide(r)
    <2> DEFINE n == Newest + 1
               y == [rec[r] EXCEPT !.there = TRUE, !.born = n]
    <2>1. /\ rec' = [rec EXCEPT ![r] = y] /\ req[r] = "read"
          /\ UNCHANGED <<holder, server, live, whom, job, kept>>
      BY <1>0, <1>1 DEF Decide, MailTypes, mail
    <2>2. rec'[r] = y /\ rec'[r] \in Recs
      BY <1>0, <2>1 DEF MailTypes
    <2> HIDE DEF n
    <2>3. y.born = n /\ y.refused = rec[r].refused /\ y.phase = rec[r].phase
      BY <1>0 DEF MailTypes, Recs
    <2>4. /\ req'[r] = "decided" /\ \A s \in Records \ {r} : req'[s] = req[s]
      BY <1>0, <1>1 DEF Decide, MailTypes
    <2>5. ~rec[r].refused /\ rec[r].phase = ""
      BY <2>1, UnmadeJob
    <2> HIDE DEF y
    <2> QED
      BY <1>0, <2>1, <2>2, <2>3, <2>4, <2>5, MadeRecord DEF n
  <1>2. CASE RestoreRecord(r)
    <2> DEFINE n == Newest + 1
               y == [rec[r] EXCEPT !.there = TRUE, !.born = n, !.restored = TRUE]
    <2>1. /\ rec' = [rec EXCEPT ![r] = y] /\ req[r] = "idle"
          /\ UNCHANGED <<holder, server, live, whom, job>>
      BY <1>0, <1>2 DEF RestoreRecord, MailTypes
    <2>2. rec'[r] = y /\ rec'[r] \in Recs
      BY <1>0, <2>1 DEF MailTypes
    <2> HIDE DEF n
    <2>3. /\ y.born = n /\ y.refused = rec[r].refused /\ y.phase = rec[r].phase
          /\ y.restored
      BY <1>0 DEF MailTypes, Recs
    <2>4. /\ req'[r] = "done"
          /\ \A s \in Records \ {r} : req'[s] = req[s] /\ kept'[s] = kept[s]
      BY <1>0, <1>2 DEF RestoreRecord, MailTypes
    <2>5. ~rec[r].refused /\ rec[r].phase = ""
      BY <2>1, UnmadeJob
    <2> HIDE DEF y
    <2> QED
      BY <1>0, <2>1, <2>2, <2>3, <2>4, <2>5, MadeRecord DEF n
  <1>3. CASE ~Decide(r) /\ ~RestoreRecord(r)
    BY <1>0, <1>3, CalmAsks, CalmStep DEF Asks
  <1> QED
    BY <1>1, <1>2, <1>3

\* A Job ends: it adds no mail, and what it says it emptied it emptied.
LEMMA JobServed ==
    ASSUME ServedInv, NEW r \in Records, NEW k, Ended(r, k), job[r].state = "running"
    PROVE  ServedInv'
  <1>0. MailTypes /\ MailTypes'
    BY JobTypes DEF ServedInv
  <1>1. /\ UNCHANGED <<rec, req, whom, person, people, refusing>>
        /\ job'[r] = k /\ k.run = job[r].run /\ k.state \in {"complete", "failed"}
        /\ \A s \in Records \ {r} : job'[s] = job[s]
    BY <1>0 DEF Ended, MailTypes, holder, server, asking
  <1>2. /\ \A s \in Records \ {r} : kept'[s] = kept[s]
        /\ live' \subseteq live
    <2>1. CASE UNCHANGED mail
      BY <2>1 DEF mail
    <2>2. CASE live' = script(r).live /\ kept' = [kept EXCEPT ![r] = script(r).kept]
      <3>1. script(r).live \subseteq live
        BY <1>0, ScriptIs
      <3> HIDE DEF script
      <3> QED
        BY <1>0, <2>2, <3>1 DEF MailTypes
    <2> QED
      BY <2>1, <2>2 DEF Ended
  <1>3. job[r].run # 0
    BY DEF ServedInv, NoRun
  <1>4. req[r] \notin {"idle", "read"}
    BY <1>3, UnmadeJob
  <1>5. NewestStands' /\ HoldersInOrder' /\ RefusedFailed'
    BY <1>1 DEF ServedInv, NewestStands, HoldersInOrder, RefusedFailed
  <1>6. NotYet'
    BY <1>1, <1>2, <1>4 DEF ServedInv, NotYet
  <1>7. NoRun'
    BY <1>1, <1>2, <1>3 DEF ServedInv, NoRun
  <1>8. Behind'
    <2> SUFFICES ASSUME NEW s \in There', ~rec'[s].restored, ~rec'[s].refused,
                        job'[s].run > 0, people' = whom'[s], Listed
                 PROVE  person' = Nobody /\ refusing' /\ (Emptied(s)' => live' = {})
      BY DEF Behind
    <2>1. s \in Records /\ s \in There /\ job[s].run > 0
      BY <1>1 DEF There
    <2>2. person = Nobody /\ refusing /\ (Emptied(s) => live = {})
      BY <1>1, <2>1 DEF ServedInv, Behind
    <2>3. Emptied(s)' => live' = {}
      <3>1. CASE s # r
        <4>1. Emptied(s)' => Emptied(s)
          BY <1>1, <1>2, <2>1, <3>1 DEF Emptied
        <4> QED
          BY <1>2, <2>2, <4>1
      <3>2. CASE s = r
        <4>1. CASE k.state = "failed" /\ UNCHANGED mail
          <5>1. Emptied(s)' => Emptied(s)
            BY <1>1, <3>2, <4>1 DEF Emptied, mail
          <5> QED
            BY <2>2, <4>1, <5>1 DEF mail
        <4>2. CASE /\ live' = script(r).live /\ kept' = [kept EXCEPT ![r] = script(r).kept]
                   /\ k.state = "complete" => k.word \in {"", script(r).says}
          <5>1. \/ script(r).live = {}
                \/ script(r).live = live /\ kept[r] # {}
                \/ /\ script(r).live = live /\ script(r).kept = {}
                   /\ script(r).says = "none"
            BY <1>0, ScriptIs
          <5>2. kept'[r] = script(r).kept
            BY <1>0, <4>2 DEF MailTypes
          <5> HIDE DEF script
          <5>3. CASE script(r).live = {}
            BY <4>2, <5>3
          <5>4. CASE script(r).live = live /\ kept[r] # {}
            BY <2>2, <3>2, <4>2, <5>4 DEF Emptied
          <5>5. CASE /\ script(r).live = live /\ script(r).kept = {}
                     /\ script(r).says = "none"
            <6>1. Emptied(s)' => Emptied(s)
              BY <1>1, <3>2, <4>2, <5>2, <5>5 DEF Emptied
            <6> QED
              BY <2>2, <4>2, <5>5, <6>1
          <5> QED
            BY <5>1, <5>3, <5>4, <5>5
        <4> QED
          BY <4>1, <4>2 DEF Ended
      <3> QED
        BY <3>1, <3>2
    <2> QED
      BY <1>1, <2>2, <2>3
  <1> QED
    BY <1>0, <1>5, <1>6, <1>7, <1>8 DEF ServedInv

\* A pass of the operator.
LEMMA PassServed ==
    ASSUME ServedInv, NEW r \in Owed, NEW y, NEW k, Passed(r, y, k)
    PROVE  ServedInv'
  <1>0. MailTypes /\ MailTypes' /\ r \in Records /\ r \in There
    BY PassTypes DEF ServedInv, Owed, There
  <1>1. /\ rec'[r] = y /\ job'[r] = k
        /\ \A s \in Records \ {r} : rec'[s] = rec[s] /\ job'[s] = job[s]
    BY <1>0 DEF Passed, Rewrites, MailTypes
  <1>2. UNCHANGED <<req, whom, person, people, kept, live>>
    BY DEF Passed, holder, mail, asking
  <1>3. y.there = rec[r].there /\ y.born = rec[r].born /\ y.restored = rec[r].restored
    BY DEF Passed, Rewrites, Same
  <1>4. ~rec[r].refused /\ rec[r].there /\ job[r].run \in Nat
    BY <1>0 DEF Owed, settled, There, MailTypes, Jobs
  <1>5. req[r] \notin {"idle", "read"}
    BY <1>0, <1>4, PastDeciding
  <1>6. y.phase \in {"Archived", "Deleted"} => Emptied(r) \/ rec[r].restored
    BY DEF Passed, Rewrites
  <1>7. job[r].run = 0 /\ ~rec[r].restored =>
            /\ kept[r] = {} /\ ~Emptied(r) /\ rec[r].phase # "Archived"
            /\ job[r].state = "none"
    BY <1>0 DEF ServedInv, NoRun, Emptied
  <1>8. k.run = job[r].run \/ k.run = job[r].run + 1
    BY DEF Passed, KeepsJob, Opens, MakesJob
  <1>9. NewestStands' /\ HoldersInOrder'
    BY <1>1, <1>2, <1>3 DEF ServedInv, NewestStands, HoldersInOrder
  <1>10. NotYet'
    BY <1>1, <1>2, <1>5 DEF ServedInv, NotYet
  <1>11. NoRun'
    <2>1. k.run = 0 => /\ k.state = "none"
                       /\ ~y.restored => kept'[r] = {} /\ y.phase \notin {"Archived", "Deleted"}
      <3> HAVE k.run = 0
      <3>a. k.run # job[r].run + 1
        BY <1>4
      <3>b. KeepsJob(r, k)
        BY <3>a DEF Passed, Opens, MakesJob
      <3>1. job[r].run = 0 /\ KeepsJob(r, k)
        BY <3>b DEF KeepsJob
      <3>2. job[r].state = "none"
        BY <1>0, <3>1 DEF ServedInv, NoRun
      <3> QED
        BY <1>2, <1>3, <1>6, <1>7, <3>1, <3>2 DEF KeepsJob
    <2> QED
      BY <1>1, <1>2, <2>1 DEF ServedInv, NoRun
  <1>12. RefusedFailed'
    <2>1. y.refused => y.phase = "Failed"
      BY DEF Passed, Rewrites
    <2> QED
      BY <1>1, <2>1 DEF ServedInv, RefusedFailed
  <1>13. Behind'
    <2> SUFFICES ASSUME NEW s \in There', ~rec'[s].restored, ~rec'[s].refused,
                        job'[s].run > 0, people' = whom'[s], Listed
                 PROVE  person' = Nobody /\ refusing' /\ (Emptied(s)' => live' = {})
      BY DEF Behind
    <2>1. s \in Records /\ s \in There
      BY <1>1, <1>3 DEF There
    <2>2. ~rec[s].restored /\ ~rec[s].refused
      BY <1>1, <1>3, <1>4, <2>1
    \* A record a Job was made for before.
    <2>3. ASSUME job[s].run > 0 PROVE person = Nobody /\ refusing' /\ (Emptied(s) => live = {})
      <3>1. person = Nobody /\ refusing /\ (Emptied(s) => live = {})
        BY <1>2, <2>1, <2>2, <2>3 DEF ServedInv, Behind
      <3>2. removedRecipients
        BY <2>1, <2>2, <3>1 DEF removedRecipients
      <3> QED
        BY <3>1, <3>2 DEF Passed, Refusal
    <2>4. CASE s # r
      <3>1. rec'[s] = rec[s] /\ job'[s] = job[s]
        BY <1>1, <2>1, <2>4
      <3>2. job[s].run > 0 /\ (Emptied(s)' => Emptied(s))
        BY <1>2, <3>1 DEF Emptied
      <3> QED
        BY <1>2, <2>3, <3>2
    <2>5. CASE s = r /\ job[r].run > 0
      <3>1. Emptied(r)' => Emptied(r)
        <4>1. k.state = "complete" => job[r].state = "complete" /\ k.word = job[r].word
          BY DEF Passed, Rewrites
        <4> QED
          BY <1>1, <1>2, <1>6, <2>2, <2>5, <4>1 DEF Emptied
      <3> QED
        BY <1>2, <2>3, <2>5, <3>1
    <2>6. CASE s = r /\ job[r].run = 0
      <3>1. k.run # job[r].run
        BY <1>1, <2>6
      <3>2. Opens(r, y, k)
        <4>1. rec[r].phase # "Archived"
          BY <1>7, <2>2, <2>6
        <4>2. \/ KeepsJob(r, k) \/ Opens(r, y, k)
              \/ MakesJob(r, k, "delete-archive") /\ rec[r].phase = "Archived"
          BY DEF Passed
        <4>3. ~KeepsJob(r, k)
          BY <3>1 DEF KeepsJob
        <4> QED
          BY <4>1, <4>2, <4>3
      <3>3. person = Nobody /\ refusing' /\ k.state = "running"
        BY <3>2 DEF Opens, MakesJob
      <3>4. ~Emptied(r)'
        BY <1>1, <1>2, <1>6, <1>7, <2>2, <2>6, <3>3 DEF Emptied
      <3> QED
        BY <1>2, <2>6, <3>3, <3>4
    <2> QED
      BY <1>4, <2>4, <2>5, <2>6
  <1> QED
    BY <1>0, <1>9, <1>10, <1>11, <1>12, <1>13 DEF ServedInv

LEMMA ServedStep == ServedInv /\ [Next]_vars => ServedInv'
  <1> SUFFICES ASSUME ServedInv, [Next]_vars PROVE ServedInv'
    OBVIOUS
  <1>0. MailTypes
    BY DEF ServedInv
  <1>1. CASE AddPerson
    BY <1>1, AddPersonServed
  <1>2. CASE Around /\ ~AddPerson
    BY <1>0, <1>2, AroundTypes, CalmAround, CalmStep
  <1>3. ASSUME NEW r \in Records, Asks(r) PROVE ServedInv'
    BY <1>3, AsksServed
  <1>4. ASSUME NEW r \in Records, Others(r) PROVE ServedInv'
    BY <1>0, <1>4, OtherTypes, CalmOthers, CalmStep
  <1>5. ASSUME NEW r \in Records, NEW how \in Endings, JobEnds(r, how)
        PROVE  ServedInv'
    BY <1>0, <1>5, JobEndsIs, JobServed
  <1>6. ASSUME NEW r \in Records, NEW ok \in BOOLEAN, Reconcile(r, ok)
        PROVE  ServedInv'
    <2>1. r \in Owed /\ \E y, k : Passed(r, y, k)
      BY <1>0, <1>6, PassIs
    <2> QED
      BY <2>1, PassServed
  <1>7. CASE UNCHANGED vars
    <2>1. /\ UNCHANGED <<person, people, listed, served, refusing, host, live>>
          /\ UNCHANGED <<kept, took, req, whom, rec, job>>
      BY <1>7 DEF vars
    <2>2. Calm
      BY <2>1 DEF Calm, Kept
    <2>3. MailTypes'
      BY <1>0, <2>1 DEF MailTypes
    <2> QED
      BY <2>2, <2>3, CalmStep
  <1> QED
    BY <1>1, <1>2, <1>3, <1>4, <1>5, <1>6, <1>7, NextIs

\* While the record of a mailbox that was dealt with stands and nobody holds
\* the address, the mailbox is empty: for whoever is given the address next
\* there is no mail of the one before.  Whatever else goes wrong, the races
\* between requests, restores and additions among it, the refusal list ensures
\* it, as long as what the list is made from can be listed.  Without the
\* hypothesis it need not: removedRecipients keeps the list that stands and
\* answers no error, the Job is made, and mail still comes in behind it.
THEOREM NextFindsNothing ==
    ASSUME Listed
    PROVE  Spec => []NothingForTheNext
BY ServedStart, ServedStep, ServedIsEnough, PTL DEF Spec

----------------------------------------------------------------------------
(* Whose mail a Job may take. *)

\* Requests about the address come one after the other, nobody is added while
\* a record about it is carried out, and a restore runs when there is none.
Orderly == {"race", "twice", "restoreLate"} \cap Faults = {}

\* The grace is longer than a request, and the settle time ends after it.
Late ==
    \A r \in Records : /\ rec[r].late => req[r] = "done"
                       /\ rec[r].gone = "old" => rec[r].late
\* A request is the only one, and knows who holds the address until it has
\* decided.
OneRequest ==
    /\ \A r, s \in Busy : r = s
    /\ \A r \in Records : req[r] = "read" => person = whom[r] /\ person # Nobody
\* Meanwhile of a Job about the mailbox, all the operator found out before it
\* made the Job stays true.
Working(r) == job[r].state = "running" /\ job[r].act # "delete-archive"
AtWork ==
    \A r \in Records : Working(r) =>
        /\ r \in Begun /\ rec[r].late /\ ~rec[r].restored
        /\ person = Nobody /\ host # "none" /\ ~laterDecision(r)
WorkInv == Late /\ OneRequest /\ AtWork

LEMMA WorkStart == Init => WorkInv
  <1> SUFFICES ASSUME Init PROVE WorkInv
    OBVIOUS
  <1> DEFINE f == Fresh
             n == NoJob
  <1>1. ~f.late /\ f.gone = "no" /\ n.state = "none"
    BY DEF Fresh, NoJob
  <1>2. \A r \in Records : rec[r] = f /\ job[r] = n /\ req[r] = "idle"
    BY DEF Init
  <1> HIDE DEF f, n
  <1>3. Late
    BY <1>1, <1>2 DEF Late
  <1>4. Busy = {} /\ \A r \in Records : req[r] # "read"
    BY <1>2 DEF Busy
  <1>5. AtWork
    BY <1>1, <1>2 DEF AtWork, Working
  <1> QED
    BY <1>3, <1>4, <1>5 DEF WorkInv, OneRequest

\* While no Job about the mailbox runs, nothing is asked of the rest.
LEMMA NoneAtWork ==
    ASSUME UNCHANGED job, \A s \in Records : ~Working(s)
    PROVE  AtWork'
BY DEF AtWork, Working

\* The record of a Job at work is left alone, and no other is made.
WorkKept(s) ==
    /\ rec'[s].there /\ rec'[s].late
    /\ rec'[s].refused = rec[s].refused /\ rec'[s].phase = rec[s].phase
    /\ rec'[s].asked = rec[s].asked /\ rec'[s].restored = rec[s].restored
    /\ job'[s].run = job[s].run
LEMMA StaysAtWork ==
    ASSUME AtWork, NEW r \in Records,
           \A s \in Records : rec'[s].there => rec[s].there,
           \A s \in Records : rec'[s].born = rec[s].born,
           person = Nobody => person' = Nobody, host # "none" => host' # "none",
           Working(r), WorkKept(r)
    PROVE  /\ r \in Begun' /\ rec'[r].late /\ ~rec'[r].restored
           /\ person' = Nobody /\ host' # "none" /\ ~laterDecision(r)'
  <1>1. /\ r \in Begun /\ rec[r].late /\ ~rec[r].restored
        /\ person = Nobody /\ host # "none" /\ ~laterDecision(r)
    BY DEF AtWork
  <1>2. r \in Begun'
    BY <1>1 DEF Begun, Owed, There, settled, WorkKept
  <1>3. ~laterDecision(r)'
    BY <1>1 DEF laterDecision, There
  <1> QED
    BY <1>1, <1>2, <1>3 DEF WorkKept

\* A record is written, and its request may end.
LEMMA WorkField ==
    ASSUME MailTypes, WorkInv, NEW r \in Records, NEW y \in Recs,
           rec' = [rec EXCEPT ![r] = y],
           y.there => rec[r].there, y.born = rec[r].born,
           y.late => req'[r] = "done", y.gone = "old" => y.late,
           Working(r) => /\ y.there /\ y.late /\ y.refused = rec[r].refused
                         /\ y.phase = rec[r].phase /\ y.asked = rec[r].asked
                         /\ y.restored = rec[r].restored,
           \A s \in Records \ {r} : req'[s] = req[s], req'[r] \in {req[r], "done"},
           UNCHANGED <<holder, server, whom, job>>
    PROVE  WorkInv'
  <1>1. rec'[r] = y /\ \A s \in Records \ {r} : rec'[s] = rec[s]
    BY DEF MailTypes
  <1>2. UNCHANGED <<person, host, whom, job>>
    BY DEF holder, server
  <1>3. Late'
    BY <1>1 DEF WorkInv, Late
  <1>4. OneRequest'
    <2>1. Busy' \subseteq Busy
      BY DEF Busy
    <2>2. \A s \in Records : req'[s] = "read" => req[s] = "read"
      OBVIOUS
    <2> QED
      BY <1>2, <2>1, <2>2 DEF WorkInv, OneRequest
  <1>5. AtWork'
    <2> SUFFICES ASSUME NEW s \in Records, Working(s)'
                 PROVE  /\ s \in Begun' /\ rec'[s].late /\ ~rec'[s].restored
                        /\ person' = Nobody /\ host' # "none" /\ ~laterDecision(s)'
      BY DEF AtWork
    <2>1. Working(s) /\ job'[s].run = job[s].run
      BY <1>2 DEF Working
    <2>2. rec[s].there /\ rec[s].late
      BY <2>1 DEF WorkInv, AtWork, Begun, Owed, There
    <2>3. WorkKept(s)
      BY <1>1, <2>1, <2>2 DEF WorkKept
    <2>4. \A q \in Records : (rec'[q].there => rec[q].there) /\ rec'[q].born = rec[q].born
      BY <1>1
    <2> QED
      BY <1>2, <2>1, <2>3, <2>4, StaysAtWork DEF WorkInv
  <1> QED
    BY <1>3, <1>4, <1>5 DEF WorkInv

\* A Job stops, and nothing else changes that is not mail.
LEMMA JobStops ==
    ASSUME WorkInv, NEW r \in Records, job'[r].state # "running",
           \A s \in Records \ {r} : job'[s] = job[s],
           UNCHANGED <<rec, person, host, req, whom>>
    PROVE  WorkInv'
  <1>1. Late' /\ OneRequest'
    BY DEF WorkInv, Late, OneRequest, Busy
  <1>2. AtWork'
    <2> SUFFICES ASSUME NEW s \in Records, Working(s)'
                 PROVE  /\ s \in Begun' /\ rec'[s].late /\ ~rec'[s].restored
                        /\ person' = Nobody /\ host' # "none" /\ ~laterDecision(s)'
      BY DEF AtWork
    <2>1. s # r /\ job'[s] = job[s]
      BY DEF Working
    <2>2. Working(s)
      BY <2>1 DEF Working
    <2>3. WorkKept(s)
      BY <2>1, <2>2 DEF WorkKept, WorkInv, AtWork, Begun, Owed, There
    <2> QED
      BY <2>2, <2>3, StaysAtWork DEF WorkInv
  <1> QED
    BY <1>1, <1>2 DEF WorkInv

LEMMA OthersWork ==
    ASSUME ServedInv, WorkInv, NEW r \in Records, Others(r)
    PROVE  WorkInv'
  <1>0. /\ MailTypes /\ (rec[r].late => req[r] = "done")
        /\ (rec[r].gone = "old" => rec[r].late) /\ rec[r] \in Recs
    BY DEF ServedInv, WorkInv, Late, MailTypes
  <1>1. Working(r) => r \in Owed /\ rec[r].phase # "Archived" /\ rec[r].late
    BY DEF WorkInv, AtWork, Begun
  <1>2. r \in Owed => rec[r].there /\ ~settled(rec[r])
    BY DEF Owed, There
  <1>3. CASE DeleteArchive(r)
    <2> DEFINE y == [rec[r] EXCEPT !.asked = TRUE]
    <2>1. y \in Recs
      BY <1>0 DEF Recs
    <2>2. /\ y.there = rec[r].there /\ y.born = rec[r].born /\ y.late = rec[r].late
          /\ y.gone = rec[r].gone
      BY <1>0 DEF Recs
    <2>3. /\ rec' = [rec EXCEPT ![r] = y] /\ rec[r].phase = "Archived"
          /\ UNCHANGED <<holder, server, req, whom, job>>
      BY <1>3 DEF DeleteArchive, asking
    <2> HIDE DEF y
    <2> QED
      BY <1>0, <1>1, <2>1, <2>2, <2>3, WorkField
  <1>4. CASE GraceEnds(r)
    <2> DEFINE y == [rec[r] EXCEPT !.late = TRUE]
    <2>1. y \in Recs
      BY <1>0 DEF Recs
    <2>2. /\ y.there = rec[r].there /\ y.born = rec[r].born /\ y.late = TRUE
          /\ y.refused = rec[r].refused /\ y.phase = rec[r].phase
          /\ y.asked = rec[r].asked /\ y.restored = rec[r].restored
      BY <1>0 DEF Recs
    <2>3. /\ rec' = [rec EXCEPT ![r] = y] /\ r \in Owed /\ Busy = {}
          /\ UNCHANGED <<holder, server, req, whom, job>>
      BY <1>4 DEF GraceEnds, asking
    <2>4. req[r] = "done"
      <3>1. req[r] \notin {"idle", "read"}
        BY <1>2, <2>3, PastDeciding
      <3>2. req[r] \notin {"read", "decided", "failed"}
        BY <2>3 DEF Busy
      <3>3. req[r] \in ReqStates
        BY <1>0 DEF MailTypes
      <3> QED
        BY <3>1, <3>2, <3>3 DEF ReqStates
    <2> HIDE DEF y
    <2> QED
      BY <1>0, <1>2, <2>1, <2>2, <2>3, <2>4, WorkField
  <1>5. CASE SettleEnds(r)
    <2> DEFINE y == [rec[r] EXCEPT !.gone = "old"]
    <2>1. y \in Recs
      BY <1>0 DEF Recs
    <2>2. /\ y.there = rec[r].there /\ y.born = rec[r].born /\ y.late = rec[r].late
          /\ y.refused = rec[r].refused /\ y.phase = rec[r].phase
          /\ y.asked = rec[r].asked /\ y.restored = rec[r].restored
      BY <1>0 DEF Recs
    <2>3. /\ rec' = [rec EXCEPT ![r] = y] /\ r \in Owed /\ rec[r].late
          /\ UNCHANGED <<holder, server, req, whom, job>>
      BY <1>5 DEF SettleEnds, asking
    <2> HIDE DEF y
    <2> QED
      BY <1>0, <1>2, <2>1, <2>2, <2>3, WorkField
  <1>6. CASE Forget(r)
    <2> DEFINE y == [rec[r] EXCEPT !.there = FALSE]
    <2>1. y \in Recs
      BY <1>0 DEF Recs
    <2>2. /\ ~y.there /\ y.born = rec[r].born /\ y.late = rec[r].late
          /\ y.gone = rec[r].gone
      BY <1>0 DEF Recs
    <2>3. /\ rec' = [rec EXCEPT ![r] = y] /\ settled(rec[r])
          /\ UNCHANGED <<holder, server, req, whom, job>>
      BY <1>6 DEF Forget, asking
    <2> HIDE DEF y
    <2> QED
      BY <1>0, <1>1, <1>2, <2>1, <2>2, <2>3, WorkField
  <1>7. CASE JobGoes(r)
    <2> DEFINE k == [job[r] EXCEPT !.state = "none", !.going = FALSE]
    <2>1. job' = [job EXCEPT ![r] = k]
      BY <1>0, <1>7 DEF JobGoes, MailTypes
    <2>2. k.state = "none"
      BY <1>0 DEF MailTypes, Jobs
    <2> HIDE DEF k
    <2>3. UNCHANGED <<rec, person, host, req, whom>>
      BY <1>7 DEF JobGoes, holder, server, asking
    <2>4. job'[r] = k /\ \A s \in Records \ {r} : job'[s] = job[s]
      BY <1>0, <2>1 DEF MailTypes
    <2> QED
      BY <2>2, <2>3, <2>4, JobStops
  <1> QED
    BY <1>3, <1>4, <1>5, <1>6, <1>7 DEF Others

LEMMA AsksWork ==
    ASSUME ServedInv, WorkInv, Orderly, NEW r \in Records, Asks(r)
    PROVE  WorkInv'
  <1>0. /\ MailTypes /\ MailTypes' /\ (rec[r].late => req[r] = "done")
        /\ (rec[r].gone = "old" => rec[r].late) /\ rec[r] \in Recs
    BY AskTypes DEF ServedInv, WorkInv, Late, MailTypes
  <1>1. person # Nobody => \A s \in Records : ~Working(s)
    BY DEF WorkInv, AtWork
  <1>2. CASE Ask(r)
    <2>1. /\ req[r] = "idle" /\ person # Nobody /\ Busy = {}
          /\ req' = [req EXCEPT ![r] = "read"] /\ whom' = [whom EXCEPT ![r] = person]
          /\ UNCHANGED <<person, rec, job>>
      BY <1>2 DEF Ask, Orderly, holder
    <2>2. ~rec[r].late
      BY <2>1, UnmadeJob
    <2>3. req'[r] = "read" /\ \A s \in Records \ {r} : req'[s] = req[s]
      BY <1>0, <2>1 DEF MailTypes
    <2>4. Late'
      BY <2>1, <2>2, <2>3 DEF WorkInv, Late
    <2>5. OneRequest'
      <3>1. Busy' \subseteq {r}
        BY <2>1, <2>3 DEF Busy
      <3>2. whom'[r] = person
        BY <1>0, <2>1 DEF MailTypes
      <3>3. \A s \in Records : req'[s] = "read" => s = r
        BY <3>1 DEF Busy
      <3> QED
        BY <2>1, <3>1, <3>2, <3>3 DEF OneRequest
    <2>6. AtWork'
      BY <1>1, <2>1, NoneAtWork
    <2> QED
      BY <2>4, <2>5, <2>6 DEF WorkInv
  <1>3. CASE Decide(r)
    <2> DEFINE n == Newest + 1
               y == [rec[r] EXCEPT !.there = TRUE, !.born = n]
    <2>1. /\ rec' = [rec EXCEPT ![r] = y] /\ req[r] = "read"
          /\ UNCHANGED <<person, whom, job>>
      BY <1>0, <1>3 DEF Decide, MailTypes, holder
    <2>2. y.late = rec[r].late /\ y.gone = rec[r].gone
      BY <1>0 DEF Recs
    <2> HIDE DEF y
    <2>3. /\ req'[r] = "decided" /\ \A s \in Records \ {r} : req'[s] = req[s]
          /\ rec'[r] = y /\ \A s \in Records \ {r} : rec'[s] = rec[s]
      BY <1>0, <1>3, <2>1 DEF Decide, MailTypes
    <2>4. Late'
      BY <1>0, <2>1, <2>2, <2>3 DEF WorkInv, Late
    <2>5. OneRequest'
      <3>1. r \in Busy /\ Busy' \subseteq Busy
        BY <2>1, <2>3 DEF Busy
      <3>2. \A s \in Records : req'[s] = "read" => req[s] = "read"
        BY <2>3
      <3> QED
        BY <2>1, <3>1, <3>2 DEF WorkInv, OneRequest
    <2>6. AtWork'
      <3>1. person # Nobody
        BY <2>1 DEF WorkInv, OneRequest
      <3> QED
        BY <1>1, <2>1, <3>1, NoneAtWork
    <2> QED
      BY <2>4, <2>5, <2>6 DEF WorkInv
  <1>4. CASE RestoreRecord(r)
    <2> DEFINE n == Newest + 1
               y == [rec[r] EXCEPT !.there = TRUE, !.born = n, !.restored = TRUE]
    <2>1. /\ rec' = [rec EXCEPT ![r] = y] /\ req[r] = "idle" /\ Busy = {} /\ Owed = {}
          /\ UNCHANGED <<person, whom, job>>
      BY <1>0, <1>4 DEF RestoreRecord, MailTypes, holder, Orderly
    <2>2. y.late = rec[r].late /\ y.gone = rec[r].gone
      BY <1>0 DEF Recs
    <2> HIDE DEF y
    <2>3. /\ req'[r] = "done" /\ \A s \in Records \ {r} : req'[s] = req[s]
          /\ rec'[r] = y /\ \A s \in Records \ {r} : rec'[s] = rec[s]
      BY <1>0, <1>4, <2>1 DEF RestoreRecord, MailTypes
    <2>4. Late'
      BY <1>0, <2>1, <2>2, <2>3 DEF WorkInv, Late
    <2>5. OneRequest'
      <3>1. Busy' = {} /\ \A s \in Records : req'[s] # "read"
        BY <2>1, <2>3 DEF Busy
      <3> QED
        BY <3>1 DEF OneRequest
    <2>6. \A s \in Records : ~Working(s)
      BY <2>1 DEF WorkInv, AtWork, Begun
    <2>7. AtWork'
      BY <2>1, <2>6, NoneAtWork
    <2> QED
      BY <2>4, <2>5, <2>7 DEF WorkInv
  <1>5. ASSUME NEW ok \in BOOLEAN, RemovePerson(r, ok) PROVE WorkInv'
    <2>1. /\ UNCHANGED <<rec, job, whom, host>> /\ req[r] = "decided"
          /\ person' \in {person, Nobody}
      BY <1>5 DEF RemovePerson, server
    <2>2. /\ req'[r] \in {"done", "failed"}
          /\ \A s \in Records \ {r} : req'[s] = req[s]
      BY <1>0, <1>5 DEF RemovePerson, MailTypes
    <2>3. Late'
      BY <1>0, <2>1, <2>2 DEF WorkInv, Late
    <2>4. OneRequest'
      <3>1. r \in Busy /\ Busy' \subseteq Busy
        BY <2>1, <2>2 DEF Busy
      <3>2. Busy \subseteq {r}
        BY <3>1 DEF WorkInv, OneRequest
      <3>3. \A s \in Records : req'[s] # "read"
        BY <2>2, <3>1, <3>2 DEF Busy
      <3> QED
        BY <3>1, <3>2, <3>3 DEF OneRequest
    <2>5. AtWork'
      <3> SUFFICES ASSUME NEW s \in Records, Working(s)'
                   PROVE  /\ s \in Begun' /\ rec'[s].late /\ ~rec'[s].restored
                          /\ person' = Nobody /\ host' # "none" /\ ~laterDecision(s)'
        BY DEF AtWork
      <3>1. Working(s)
        BY <2>1 DEF Working
      <3>2. WorkKept(s)
        BY <2>1, <3>1 DEF WorkKept, WorkInv, AtWork, Begun, Owed, There
      <3> QED
        BY <2>1, <3>1, <3>2, StaysAtWork DEF WorkInv
    <2> QED
      BY <2>3, <2>4, <2>5 DEF WorkInv
  <1>6. ASSUME NEW ok \in BOOLEAN, Withdraw(r, ok) PROVE WorkInv'
    <2> DEFINE t == rec[r].there /\ ~ok
               y == [rec[r] EXCEPT !.there = t]
    <2>1. /\ rec' = [rec EXCEPT ![r] = y] /\ t \in BOOLEAN /\ (t => rec[r].there)
          /\ req[r] = "failed"
      BY <1>6 DEF Withdraw
    <2> HIDE DEF t
    <2>2. y \in Recs
      BY <1>0, <2>1 DEF Recs
    <2>3. /\ y.there = t /\ y.born = rec[r].born /\ y.late = rec[r].late
          /\ y.gone = rec[r].gone
      BY <1>0 DEF Recs
    <2> HIDE DEF y
    <2>4. /\ req'[r] = "done" /\ \A s \in Records \ {r} : req'[s] = req[s]
          /\ UNCHANGED <<whom, job, holder, server>>
      BY <1>0, <1>6 DEF Withdraw, MailTypes
    <2>5. ~Working(r)
      BY <1>0, <2>1 DEF WorkInv, AtWork
    <2> QED
      BY <1>0, <2>1, <2>2, <2>3, <2>4, <2>5, WorkField
  <1> QED
    BY <1>2, <1>3, <1>4, <1>5, <1>6 DEF Asks

LEMMA AroundWork ==
    ASSUME ServedInv, WorkInv, Orderly, Around
    PROVE  WorkInv'
  <1>0. MailTypes
    BY DEF ServedInv
  <1>1. CASE AddPerson
    <2>1. /\ person = Nobody /\ Begun = {} /\ UNCHANGED <<req, whom, rec, job>>
      BY <1>1 DEF AddPerson, Orderly, asking
    <2>2. \A s \in Records : ~Working(s) /\ req[s] # "read"
      BY <2>1 DEF WorkInv, AtWork, OneRequest
    <2>3. AtWork'
      BY <2>1, <2>2, NoneAtWork
    <2>4. Late' /\ OneRequest'
      BY <2>1, <2>2 DEF WorkInv, Late, OneRequest, Busy
    <2> QED
      BY <2>3, <2>4 DEF WorkInv
  <1>2. CASE Deliver \/ TenantTurn \/ HostBack \/ HostGoes("away")
    <2>1. /\ UNCHANGED <<req, whom, rec, job, person>>
          /\ host # "none" => host' # "none"
      BY <1>2 DEF Deliver, TenantTurn, HostBack, HostGoes, holder, server, asking
    <2>2. Late' /\ OneRequest'
      BY <2>1 DEF WorkInv, Late, OneRequest, Busy
    <2>3. AtWork'
      <3> SUFFICES ASSUME NEW s \in Records, Working(s)'
                   PROVE  /\ s \in Begun' /\ rec'[s].late /\ ~rec'[s].restored
                          /\ person' = Nobody /\ host' # "none" /\ ~laterDecision(s)'
        BY DEF AtWork
      <3>1. Working(s)
        BY <2>1 DEF Working
      <3>2. WorkKept(s)
        BY <2>1, <3>1 DEF WorkKept, WorkInv, AtWork, Begun, Owed, There
      <3> QED
        BY <2>1, <3>1, <3>2, StaysAtWork DEF WorkInv
    <2> QED
      BY <2>2, <2>3 DEF WorkInv
  <1>3. CASE HostGoes("none")
    <2>1. Begun = {} /\ UNCHANGED <<req, whom, rec, job, person>>
      BY <1>3 DEF HostGoes, Orderly, holder, asking
    <2>2. \A s \in Records : ~Working(s)
      BY <2>1 DEF WorkInv, AtWork
    <2>3. AtWork'
      BY <2>1, <2>2, NoneAtWork
    <2>4. Late' /\ OneRequest'
      BY <2>1 DEF WorkInv, Late, OneRequest, Busy
    <2> QED
      BY <2>3, <2>4 DEF WorkInv
  <1>4. CASE ServerReads
    <2>1. UNCHANGED <<req, whom, job, person, host>>
      BY <1>4 DEF ServerReads, holder, asking
    <2>2. ASSUME NEW s \in Records
          PROVE  /\ rec'[s].there = rec[s].there /\ rec'[s].born = rec[s].born
                 /\ rec'[s].late = rec[s].late /\ rec'[s].refused = rec[s].refused
                 /\ rec'[s].phase = rec[s].phase /\ rec'[s].asked = rec[s].asked
                 /\ rec'[s].restored = rec[s].restored
                 /\ rec'[s].gone = "old" => rec[s].gone = "old"
      <3> DEFINE y == [rec[s] EXCEPT !.gone = "read"]
      <3>1. rec'[s] = IF rec[s].gone = "set" THEN y ELSE rec[s]
        BY <1>4 DEF ServerReads
      <3>2. /\ y.there = rec[s].there /\ y.born = rec[s].born /\ y.late = rec[s].late
            /\ y.refused = rec[s].refused /\ y.phase = rec[s].phase
            /\ y.asked = rec[s].asked /\ y.restored = rec[s].restored
            /\ y.gone = "read"
        BY <1>0 DEF MailTypes, Recs
      <3> HIDE DEF y
      <3> QED
        BY <3>1, <3>2
    <2>3. Late'
      BY <2>1, <2>2 DEF WorkInv, Late
    <2>4. OneRequest'
      BY <2>1 DEF WorkInv, OneRequest, Busy
    <2>5. AtWork'
      <3> SUFFICES ASSUME NEW s \in Records, Working(s)'
                   PROVE  /\ s \in Begun' /\ rec'[s].late /\ ~rec'[s].restored
                          /\ person' = Nobody /\ host' # "none" /\ ~laterDecision(s)'
        BY DEF AtWork
      <3>1. Working(s)
        BY <2>1 DEF Working
      <3>2. rec[s].there /\ rec[s].late
        BY <3>1 DEF WorkInv, AtWork, Begun, Owed, There
      <3>3. WorkKept(s)
        BY <2>1, <2>2, <3>2 DEF WorkKept
      <3> QED
        BY <2>1, <2>2, <3>1, <3>3, StaysAtWork DEF WorkInv
    <2> QED
      BY <2>3, <2>4, <2>5 DEF WorkInv
  <1> QED
    BY <1>1, <1>2, <1>3, <1>4 DEF Around

\* A pass: what it starts it found in order, and what runs it leaves alone.
LEMMA PassWork ==
    ASSUME ServedInv, WorkInv, NEW r \in Owed, NEW y, NEW k, Passed(r, y, k)
    PROVE  WorkInv'
  <1>0. MailTypes /\ r \in Records /\ rec[r].there /\ job[r].run \in Nat
    BY DEF ServedInv, Owed, There, MailTypes, Jobs
  <1>1. /\ rec'[r] = y /\ job'[r] = k
        /\ \A s \in Records \ {r} : rec'[s] = rec[s] /\ job'[s] = job[s]
    BY <1>0 DEF Passed, Rewrites, MailTypes
  <1>2. UNCHANGED <<req, whom, person, host>>
    BY DEF Passed, holder, asking
  <1>3. /\ y.there = rec[r].there /\ y.born = rec[r].born
        /\ y.late = rec[r].late /\ y.restored = rec[r].restored
        /\ y.gone = "old" => rec[r].gone = "old"
    BY DEF Passed, Rewrites, Same
  <1>4. Late'
    BY <1>0, <1>1, <1>2, <1>3 DEF WorkInv, Late
  <1>5. OneRequest'
    BY <1>2 DEF WorkInv, OneRequest, Busy
  <1>6. \A s \in Records : rec'[s].there = rec[s].there /\ rec'[s].born = rec[s].born
    BY <1>1, <1>3
  <1>7. AtWork'
    <2> SUFFICES ASSUME NEW s \in Records, Working(s)'
                 PROVE  /\ s \in Begun' /\ rec'[s].late /\ ~rec'[s].restored
                        /\ person' = Nobody /\ host' # "none" /\ ~laterDecision(s)'
      BY DEF AtWork
    <2>1. CASE s # r
      <3>1. rec'[s] = rec[s] /\ job'[s] = job[s]
        BY <1>1, <2>1
      <3>2. Working(s)
        BY <3>1 DEF Working
      <3>3. WorkKept(s)
        BY <3>1, <3>2 DEF WorkKept, WorkInv, AtWork, Begun, Owed, There
      <3> QED
        BY <1>2, <1>6, <3>2, <3>3, StaysAtWork DEF WorkInv
    <2>2. CASE s = r
      <3>0. k.state = "running" /\ k.act # "delete-archive"
        BY <1>1, <2>2 DEF Working
      <3>1. /\ rec[r].late /\ ~rec[r].restored /\ Unsettled(y) /\ k.run > 0
            /\ person = Nobody /\ host # "none" /\ ~laterDecision(r)
        <4>1. CASE KeepsJob(r, k)
          <5>1. Working(r)
            BY <3>0, <4>1 DEF KeepsJob, Working
          <5>2. /\ r \in Begun /\ rec[r].late /\ ~rec[r].restored
                /\ person = Nobody /\ host # "none" /\ ~laterDecision(r)
            BY <1>0, <5>1 DEF WorkInv, AtWork
          <5>3. rec[r].phase # "Archived" /\ job[r].run > 0
            BY <5>2 DEF Begun
          <5>4. Unsettled(y)
            BY <5>1, <5>2, <5>3 DEF Passed, Working
          <5> QED
            BY <4>1, <5>2, <5>3, <5>4 DEF KeepsJob
        <4>2. CASE Opens(r, y, k)
          <5>1. /\ k.run = job[r].run + 1 /\ Unsettled(y) /\ rec[r].gone = "old"
                /\ ~rec[r].restored /\ person = Nobody /\ host = "here"
                /\ ~laterDecision(r)
            BY <4>2 DEF Opens, MakesJob
          <5>2. rec[r].late
            BY <1>0, <5>1 DEF WorkInv, Late
          <5>3. k.run > 0
            BY <1>0, <5>1
          <5> QED
            BY <5>1, <5>2, <5>3
        <4>3. CASE MakesJob(r, k, "delete-archive")
          BY <3>0, <4>3 DEF MakesJob
        <4> QED
          BY <4>1, <4>2, <4>3 DEF Passed
      <3>2. r \in Begun'
        BY <1>0, <1>1, <1>3, <3>1 DEF Begun, Owed, There, settled, Unsettled
      <3>3. ~laterDecision(r)'
        BY <1>0, <1>6, <3>1 DEF laterDecision, There
      <3> QED
        BY <1>1, <1>2, <1>3, <2>2, <3>1, <3>2, <3>3
    <2> QED
      BY <2>1, <2>2
  <1> QED
    BY <1>4, <1>5, <1>7 DEF WorkInv

LEMMA WorkStep ==
    ASSUME Orderly
    PROVE  ServedInv /\ WorkInv /\ [Next]_vars => WorkInv'
  <1> SUFFICES ASSUME ServedInv, WorkInv, [Next]_vars PROVE WorkInv'
    OBVIOUS
  <1>0. MailTypes
    BY DEF ServedInv
  <1>1. CASE Around
    BY <1>1, AroundWork
  <1>2. ASSUME NEW r \in Records, Asks(r) PROVE WorkInv'
    BY <1>2, AsksWork
  <1>3. ASSUME NEW r \in Records, Others(r) PROVE WorkInv'
    BY <1>3, OthersWork
  <1>4. ASSUME NEW r \in Records, NEW how \in Endings, JobEnds(r, how)
        PROVE  WorkInv'
    <2>1. PICK k : Ended(r, k)
      BY <1>0, <1>4, JobEndsIs
    <2>2. /\ job'[r].state # "running" /\ \A s \in Records \ {r} : job'[s] = job[s]
          /\ UNCHANGED <<rec, person, host, req, whom>>
      BY <1>0, <2>1 DEF Ended, MailTypes, holder, server, asking
    <2> QED
      BY <2>2, JobStops
  <1>5. ASSUME NEW r \in Records, NEW ok \in BOOLEAN, Reconcile(r, ok)
        PROVE  WorkInv'
    <2>1. r \in Owed /\ \E y, k : Passed(r, y, k)
      BY <1>0, <1>5, PassIs
    <2> QED
      BY <2>1, PassWork
  <1>6. CASE UNCHANGED vars
    BY <1>6 DEF vars, WorkInv, Late, OneRequest, AtWork, Busy, Working, Begun, Owed,
                There, laterDecision
  <1> QED
    BY <1>1, <1>2, <1>3, <1>4, <1>5, <1>6, NextIs

\* Only a Job takes mail out of the mailbox, and it is at work on it.
LEMMA OnlyJobsTake ==
    ASSUME ServedInv, [Next]_vars
    PROVE  \/ live \subseteq live' /\ took' = took
           \/ \E r \in Records : /\ Working(r) /\ UNCHANGED <<person, rec>>
                                 /\ \A s \in Records \ {r} : took'[s] = took[s]
  <1>0. MailTypes
    BY DEF ServedInv
  <1>1. CASE Around
    BY <1>1 DEF Around, AddPerson, Deliver, TenantTurn, ServerReads, HostBack, HostGoes,
                mail
  <1>2. ASSUME NEW r \in Records, Asks(r) PROVE live' = live /\ took' = took
    BY <1>2 DEF Asks, Ask, Decide, RestoreRecord, RemovePerson, Withdraw, mail
  <1>3. ASSUME NEW r \in Records, Others(r) PROVE live' = live /\ took' = took
    BY <1>3 DEF Others, DeleteArchive, GraceEnds, SettleEnds, JobGoes, Forget, mail
  <1>4. ASSUME NEW r \in Records, NEW ok \in BOOLEAN, Reconcile(r, ok)
        PROVE  live' = live /\ took' = took
    BY <1>0, <1>4, PassIs DEF Passed, mail
  <1>5. ASSUME NEW r \in Records, NEW how \in Endings, JobEnds(r, how)
        PROVE  \/ live \subseteq live' /\ took' = took
               \/ /\ Working(r) /\ UNCHANGED <<person, rec>>
                  /\ \A s \in Records \ {r} : took'[s] = took[s]
    <2>1. PICK k : Ended(r, k)
      BY <1>0, <1>5, JobEndsIs
    <2>2. job[r].state = "running" /\ UNCHANGED <<person, rec>>
      BY <1>0, <1>5, <2>1, JobEndsIs DEF Ended, holder
    <2>3. CASE UNCHANGED mail
      BY <2>3 DEF mail
    <2>4. CASE /\ live' = script(r).live
               /\ took' = [took EXCEPT ![r] = @ \cup (live \ script(r).live)]
      <3>1. CASE job[r].act = "delete-archive"
        <4>1. script(r).live = live
          BY <1>0, <3>1, ScriptIs
        <4> HIDE DEF script
        <4>2. took' = [took EXCEPT ![r] = took[r]]
          <5>1. took[r] \cup (live \ live) = took[r]
            OBVIOUS
          <5> QED
            BY <2>4, <4>1, <5>1
        <4>3. took' = took
          BY <1>0, <4>2 DEF MailTypes
        <4> QED
          BY <2>4, <4>1, <4>3
      <3>2. CASE job[r].act # "delete-archive"
        <4>1. Working(r)
          BY <2>2, <3>2 DEF Working
        <4>2. \A s \in Records \ {r} : took'[s] = took[s]
          BY <1>0, <2>4 DEF MailTypes
        <4> QED
          BY <2>2, <4>1, <4>2
      <3> QED
        BY <3>1, <3>2
    <2> QED
      BY <2>1, <2>3, <2>4 DEF Ended
  <1>6. CASE UNCHANGED vars
    BY <1>6 DEF vars
  <1> QED
    BY <1>1, <1>2, <1>3, <1>4, <1>5, <1>6, NextIs

\* The mail of who holds the address stays in the mailbox.  Without the
\* hypothesis it need not: a person added between the operator's look at the
\* directory and the end of the Job is not seen by it.
THEOREM HolderIsUntouched ==
    ASSUME Orderly
    PROVE  Spec => HolderUntouched
  <1>1. ServedInv /\ WorkInv /\ [Next]_vars =>
            [(person \in live /\ person # Nobody) => person \in live']_vars
    <2> SUFFICES ASSUME ServedInv, WorkInv, [Next]_vars, person \in live,
                        person # Nobody
                 PROVE  person \in live'
      OBVIOUS
    <2>1. \A r \in Records : ~Working(r)
      BY DEF WorkInv, AtWork
    <2> QED
      BY <2>1, OnlyJobsTake
  <1> QED
    BY <1>1, ServedStart, ServedStep, WorkStart, WorkStep, PTL DEF Spec, HolderUntouched

\* What a record takes out of the mailbox it takes while no later decision
\* stands, however many requests there are, one after the other.
THEOREM LastOneDecides ==
    ASSUME Orderly
    PROVE  Spec => LastDecisionDecides
  <1>1. ServedInv /\ WorkInv /\ [Next]_vars =>
            [\A r \in Records : took'[r] # took[r] =>
                \A s \in There : rec[s].born <= rec[r].born]_vars
    <2> SUFFICES ASSUME ServedInv, WorkInv, [Next]_vars, NEW r \in Records,
                        took'[r] # took[r], NEW s \in There
                 PROVE  rec[s].born <= rec[r].born
      OBVIOUS
    <2>1. Working(r)
      BY OnlyJobsTake
    <2>2. ~laterDecision(r)
      BY <2>1 DEF WorkInv, AtWork
    <2>3. rec[s].born \in Nat /\ rec[r].born \in Nat
      BY DEF ServedInv, MailTypes, Recs, There
    <2> QED
      BY <2>2, <2>3 DEF laterDecision
  <1> QED
    BY <1>1, ServedStart, ServedStep, WorkStart, WorkStep, PTL
       DEF Spec, LastDecisionDecides

=============================================================================
