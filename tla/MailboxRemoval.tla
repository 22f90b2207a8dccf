--------------------------- MODULE MailboxRemoval ---------------------------
(***************************************************************************)
(* What becomes of a removed person's mailbox.  The registrar writes the   *)
(* answer down as a record and removes the person; the operator carries    *)
(* the record out by a Job beside the mail server's volume.  One address   *)
(* of one tenant, the people who hold it one after the other, and every    *)
(* record about it.                                                        *)
(*                                                                         *)
(* Two of the code's waits are times.  The settle time is longer than the  *)
(* mail server takes to read its passwords, and both it and the grace are  *)
(* longer than a request to the registrar lasts.                           *)
(***************************************************************************)
EXTENDS Naturals, FiniteSets

CONSTANTS
    Records,        \* what there may be, of a request or of a restore
    Choice,         \* [Records -> {"archive", "delete"}]
    MaxPeople,      \* people who are given the address in all
    MaxRuns,        \* Jobs of one record that may fail, plus one
    Faults          \* what may go wrong here, see FaultKinds

FaultKinds ==
    {"removal", "withdraw", "jobs", "word", "lost", "host", "unsynced", "race",
     "twice", "restore", "restoreLate", "unlisted"}

ASSUME MailboxConfig ==
    /\ Choice \in [Records -> {"archive", "delete"}]
    /\ {MaxPeople, MaxRuns} \subseteq Nat \ {0}
    /\ Faults \subseteq FaultKinds

People == 1..MaxPeople
Nobody == 0

VARIABLES
    person,     \* who holds the address, or Nobody
    people,     \* how many have been given it
    listed,     \* a mail password of the address is in the server's Secret
    served,     \* and in the files the server has read
    refusing,   \* Postfix refuses mail to the address
    host,       \* the tenant and its mail: "here", "away" or "none"
    live,       \* whose mail is in the mailbox; {}: there is no directory
    kept,       \* whose mail is in the archive of a record
    took,       \* whose mail the Jobs of a record took out of the mailbox
    req,        \* the request behind a record
    whom,       \* the person it is about
    rec,        \* the record and its status
    job         \* the record's Job

vars == <<person, people, listed, served, refusing, host, live, kept, took, req,
          whom, rec, job>>
holder == <<person, people>>
server == <<listed, served, refusing, host>>
mail == <<live, kept, took>>
asking == <<req, whom>>

\* born: the order of creation, 0 before it; gone: SignInGoneAt, "read" once
\* the server has read the files since, "old" once the settle time is over;
\* failed: the number of the Job LastFailureAt counted.
Fresh == [there |-> FALSE, born |-> 0, late |-> FALSE, phase |-> "",
          refused |-> FALSE, gone |-> "no", attempts |-> 0, failed |-> 0,
          asked |-> FALSE, restored |-> FALSE]
NoJob == [state |-> "none", act |-> "archive", word |-> "", run |-> 0,
          going |-> FALSE, failures |-> 0]

There == {r \in Records : rec[r].there}
Newest == LET B == {rec[r].born : r \in Records}
          IN  CHOOSE b \in B : \A c \in B : c <= b

----------------------------------------------------------------------------
(* The registrar, removePerson, and the people. *)

Busy == {r \in Records : req[r] \in {"read", "decided", "failed"}}

\* The person is looked up before anything is written.
Ask(r) ==
    /\ req[r] = "idle" /\ person # Nobody
    /\ "twice" \in Faults \/ Busy = {}
    /\ req' = [req EXCEPT ![r] = "read"] /\ whom' = [whom EXCEPT ![r] = person]
    /\ UNCHANGED <<holder, server, mail, rec, job>>

Decide(r) ==
    /\ req[r] = "read"
    /\ rec' = [rec EXCEPT ![r].there = TRUE, ![r].born = Newest + 1]
    /\ req' = [req EXCEPT ![r] = "decided"]
    /\ UNCHANGED <<holder, server, mail, whom, job>>

\* ok: the provider removed them; a second removal finds nobody.
RemovePerson(r, ok) ==
    /\ req[r] = "decided"
    /\ IF ok THEN person = whom[r] ELSE person # whom[r] \/ "removal" \in Faults
    /\ person' = IF ok THEN Nobody ELSE person
    /\ req' = [req EXCEPT ![r] = IF ok THEN "done" ELSE "failed"]
    /\ UNCHANGED <<people, server, mail, whom, rec, job>>

Withdraw(r, ok) ==
    /\ req[r] = "failed"
    /\ rec' = [rec EXCEPT ![r].there = @ /\ ~ok]
    /\ req' = [req EXCEPT ![r] = "done"]
    /\ UNCHANGED <<holder, server, mail, whom, job>>

DeleteArchive(r) ==
    /\ r \in There /\ rec[r].phase = "Archived" /\ ~rec[r].asked
    /\ rec' = [rec EXCEPT ![r].asked = TRUE]
    /\ UNCHANGED <<holder, server, mail, asking, job>>

settled(x) == \/ x.refused \/ x.phase \in {"Deleted", "NoMailbox"}
              \/ x.phase = "Archived" /\ ~x.asked
Owed == {r \in There : ~settled(rec[r])}
\* Records a Job was started for that is about the mailbox itself.
Begun == {r \in Owed : rec[r].phase # "Archived" /\ job[r].run > 0}

\* Race: while a record is being carried out.
AddPerson ==
    /\ person = Nobody /\ people < MaxPeople
    /\ Begun = {} \/ "race" \in Faults
    /\ people' = people + 1 /\ person' = people'
    /\ UNCHANGED <<server, mail, asking, rec, job>>

----------------------------------------------------------------------------
(* The mail server and the tenant. *)

\* Every address of the domain is accepted that is not refused.
Deliver ==
    /\ host = "here" /\ ~refusing
    /\ live' = live \cup {person}
    /\ UNCHANGED <<holder, server, kept, took, asking, rec, job>>

\* Wrong: the record of a mailbox that was dealt with refuses no mail.
removedUntilDone == person = Nobody /\ \E r \in Owed : TRUE
removedRecipients == person = Nobody /\ \E r \in There : ~rec[r].refused
\* Unlisted: the records, the tenants or the people cannot be listed.  What is
\* refused stays as it is, or goes where the map cannot be read either, and no
\* error says so.
refusals ==
    {removedRecipients} \cup (IF "unlisted" \in Faults THEN {refusing, FALSE} ELSE {})

\* The tenant's own turn writes both of the server's lists.
TenantTurn ==
    /\ host = "here"
    /\ listed' = (person # Nobody) /\ refusing' \in refusals
    /\ UNCHANGED <<holder, served, host, mail, asking, rec, job>>

\* The files reach the server through a mounted Secret.
ServerReads ==
    /\ served' = listed
    /\ rec' = [r \in Records |->
                 IF rec[r].gone = "set" THEN [rec[r] EXCEPT !.gone = "read"]
                 ELSE rec[r]]
    /\ UNCHANGED <<holder, listed, refusing, host, mail, asking, job>>

\* The tenant is retired and comes back; its domain is hosted elsewhere.
HostGoes(h) ==
    /\ "host" \in Faults /\ host = "here" /\ host' = h
    /\ Owed # {}
    /\ h = "away" \/ Begun = {} \/ "race" \in Faults
    /\ UNCHANGED <<holder, listed, served, refusing, mail, asking, rec, job>>
HostBack ==
    /\ host = "away" /\ host' = "here"
    /\ UNCHANGED <<holder, listed, served, refusing, mail, asking, rec, job>>

\* A restore puts an archived mailbox back and on record.
RestoreRecord(r) ==
    /\ "restore" \in Faults /\ req[r] = "idle"
    /\ (Busy = {} /\ Owed = {}) \/ "restoreLate" \in Faults
    /\ req' = [req EXCEPT ![r] = "done"]
    /\ rec' = [rec EXCEPT ![r].there = TRUE, ![r].born = Newest + 1,
                          ![r].restored = TRUE]
    /\ kept' = [kept EXCEPT ![r] = {Nobody}]
    /\ UNCHANGED <<holder, server, live, took, whom, job>>

(* The times that pass. *)

GraceEnds(r) ==
    /\ r \in Owed /\ ~rec[r].late /\ Busy = {}
    /\ rec' = [rec EXCEPT ![r].late = TRUE]
    /\ UNCHANGED <<holder, server, mail, asking, job>>
\* It began no earlier than the grace, and is as long.
SettleEnds(r) ==
    /\ r \in Owed /\ rec[r].gone = "read" /\ rec[r].late
    /\ rec' = [rec EXCEPT ![r].gone = "old"]
    /\ UNCHANGED <<holder, server, mail, asking, job>>

----------------------------------------------------------------------------
(* The Job: the three scripts. *)

\* What the script of act finds and leaves, and what it says.
archiveScript(r) ==
    IF kept[r] # {} THEN [live |-> live, kept |-> kept[r], says |-> "archived"]
    ELSE IF live = {} THEN [live |-> {}, kept |-> {}, says |-> "none"]
    ELSE [live |-> {}, kept |-> live, says |-> "archived"]
deleteScript(r) ==
    [live |-> {}, kept |-> kept[r], says |-> IF live = {} THEN "none" ELSE "deleted"]
archivedDeleteScript(r) ==
    [live |-> live, kept |-> {}, says |-> IF kept[r] = {} THEN "none" ELSE "deleted"]
script(r) ==
    CASE job[r].act = "archive" -> archiveScript(r)
      [] job[r].act = "delete" -> deleteScript(r)
      [] job[r].act = "delete-archive" -> archivedDeleteScript(r)

\* It ends well, or well and without a word, or fails before or after its work.
JobEnds(r, how) ==
    /\ job[r].state = "running"
    /\ how \in {"failed", "failedLate"} =>
           "jobs" \in Faults /\ job[r].run < MaxRuns
    /\ how = "silent" => "word" \in Faults /\ job[r].run < MaxRuns
    /\ LET s == script(r) IN
       /\ job' = [job EXCEPT ![r] =
             IF how \in {"failed", "failedLate"}
             THEN [job[r] EXCEPT !.state = "failed", !.failures = @ + 1]
             ELSE [job[r] EXCEPT !.state = "complete",
                            !.word = IF how = "silent" THEN "" ELSE s.says]]
       /\ IF how = "failed" THEN UNCHANGED mail
          ELSE /\ live' = s.live /\ kept' = [kept EXCEPT ![r] = s.kept]
               /\ took' = [took EXCEPT ![r] = @ \cup (live \ s.live)]
    /\ UNCHANGED <<holder, server, asking, rec>>

JobGoes(r) ==
    /\ job[r].going
    /\ job' = [job EXCEPT ![r].state = "none", ![r].going = FALSE]
    /\ UNCHANGED <<holder, server, mail, asking, rec>>

----------------------------------------------------------------------------
(* The operator: one pass over a record.  A pass whose status write is lost *)
(* has done the rest.                                                       *)

write(r, x, ok) == rec' = IF ok THEN [rec EXCEPT ![r] = x] ELSE rec

refuse(x) == [x EXCEPT !.phase = "Failed", !.refused = TRUE]
wait(x) == [x EXCEPT !.phase = IF @ = "Archived" THEN @ ELSE "Pending"]

\* What a Job said it did.
report(x, word) ==
    [x EXCEPT !.phase =
        CASE word = "archived" -> "Archived"
          [] word = "deleted" -> "Deleted"
          [] word = "none" -> IF @ = "Archived" THEN "Deleted" ELSE "NoMailbox"]

deleteJob(r) == job' = [job EXCEPT ![r].going = TRUE]

\* It is being deleted, or LastFailureAt is not before it was made.
counted(r) == job[r].going \/ rec[r].failed >= job[r].run

\* The Job of another act has another name.
current(r, act) == job[r].state # "none" /\ job[r].act = act
start(r, x, act, ok) ==
    /\ ~current(r, act)
    /\ job' = [job EXCEPT ![r] =
           [job[r] EXCEPT !.state = "running", !.act = act, !.word = "",
                          !.run = @ + 1, !.going = FALSE]]
    /\ write(r, IF x.attempts = 0 THEN wait(x) ELSE x, ok)
complete(r, x, act, ok) ==
    /\ current(r, act) /\ job[r].state = "complete"
    /\ IF job[r].word = "" THEN deleteJob(r) /\ write(r, x, ok)
       ELSE write(r, report(x, job[r].word), ok) /\ UNCHANGED job
countFailure(r, x, act, ok) ==
    /\ current(r, act) /\ job[r].state = "failed"
    /\ deleteJob(r)
    /\ write(r, IF counted(r) THEN x
                ELSE [x EXCEPT !.attempts = @ + 1, !.failed = job[r].run,
                               !.phase = IF @ = "Archived" THEN @ ELSE "Failed"],
             ok)
run(r, x, act, ok) ==
    \/ start(r, x, act, ok) \/ complete(r, x, act, ok)
    \/ countFailure(r, x, act, ok)

\* Wrong: the earlier of two decisions is the one that stands.
earlierDecision(r) == \E s \in There \ {r} : rec[s].born < rec[r].born
\* Wrong: the order is not looked at.
otherDecision(r) == \E s \in There \ {r} : rec[s].born # rec[r].born
laterDecision(r) == \E s \in There \ {r} : rec[s].born > rec[r].born

\* The record of a restored archive is reported, and no Job is run for it.
ReportRestored(r, ok) ==
    /\ r \in Owed /\ rec[r].restored /\ rec[r].phase # "Archived"
    /\ write(r, [rec[r] EXCEPT !.phase = "Archived"], ok)
    /\ UNCHANGED <<holder, server, mail, asking, job>>

Mine(r) == r \in Owed /\ (rec[r].restored => rec[r].phase = "Archived")

\* No tenant, or one that is being removed; or an archive and no volume.
Await(r, ok) ==
    /\ Mine(r)
    /\ host = "away" \/ (host = "none" /\ rec[r].phase = "Archived")
    /\ write(r, wait(rec[r]), ok)
    /\ UNCHANGED <<holder, server, mail, asking, job>>

NoMailboxes(r, ok) ==
    /\ Mine(r) /\ host = "none" /\ rec[r].phase # "Archived"
    /\ write(r, [rec[r] EXCEPT !.phase = "NoMailbox"], ok)
    /\ UNCHANGED <<holder, server, mail, asking, job>>

\* The archive is where the record says it was put.
RunDeleteArchive(r, ok) ==
    /\ Mine(r) /\ host = "here" /\ rec[r].phase = "Archived"
    /\ run(r, rec[r], "delete-archive", ok)
    /\ UNCHANGED <<holder, server, mail, asking>>

About(r) == Mine(r) /\ host = "here" /\ rec[r].phase # "Archived"

Superseded(r, ok) ==
    /\ About(r) /\ laterDecision(r)
    /\ write(r, refuse(rec[r]), ok)
    /\ UNCHANGED <<holder, server, mail, asking, job>>

\* Wrong: whoever holds the address is not looked at.
heldByNobody == FALSE
held == person # Nobody
\* Wrong: the person is waited for and the record never refused.
PersonAwaited(r, ok) ==
    /\ About(r) /\ ~laterDecision(r) /\ held
    /\ write(r, wait(rec[r]), ok)
    /\ UNCHANGED <<holder, server, mail, asking, job>>
PersonStays(r, ok) ==
    /\ About(r) /\ ~laterDecision(r) /\ held
    /\ write(r, IF rec[r].late THEN refuse(rec[r]) ELSE wait(rec[r]), ok)
    /\ UNCHANGED <<holder, server, mail, asking, job>>

longGone(x) == x.gone = "old"
\* Both lists are written again first.
Clear(r, ok) ==
    /\ About(r) /\ ~laterDecision(r) /\ ~held
    /\ listed' \in {FALSE} \cup (IF "unsynced" \in Faults THEN {listed} ELSE {})
    /\ refusing' \in refusals
    /\ \/ /\ listed'
          /\ write(r, wait([rec[r] EXCEPT !.gone = "no"]), ok)
          /\ UNCHANGED job
       \/ /\ ~listed' /\ ~longGone(rec[r])
          /\ write(r, wait([rec[r] EXCEPT !.gone = IF @ = "no" THEN "set" ELSE @]), ok)
          /\ UNCHANGED job
       \/ ~listed' /\ longGone(rec[r]) /\ run(r, rec[r], Choice[r], ok)
    /\ UNCHANGED <<holder, served, host, mail, asking>>

\* After mailboxRecordKept; the record of an archive stays.
Forget(r) ==
    /\ r \in There /\ settled(rec[r]) /\ rec[r].phase # "Archived"
    /\ rec' = [rec EXCEPT ![r].there = FALSE]
    /\ UNCHANGED <<holder, server, mail, asking, job>>

Reconcile(r, ok) ==
    \/ ReportRestored(r, ok) \/ Await(r, ok) \/ NoMailboxes(r, ok)
    \/ RunDeleteArchive(r, ok) \/ Superseded(r, ok) \/ PersonStays(r, ok)
    \/ Clear(r, ok)

----------------------------------------------------------------------------

Init ==
    /\ person = 1 /\ people = 1
    /\ listed = TRUE /\ served = TRUE /\ refusing = FALSE /\ host = "here"
    /\ live = {} /\ kept = [r \in Records |-> {}] /\ took = kept
    /\ req = [r \in Records |-> "idle"] /\ whom = [r \in Records |-> Nobody]
    /\ rec = [r \in Records |-> Fresh] /\ job = [r \in Records |-> NoJob]

Maybe(fault) == IF fault \in Faults THEN BOOLEAN ELSE {TRUE}
Requests(r) ==
    \/ Decide(r) \/ \E ok \in BOOLEAN : RemovePerson(r, ok)
    \/ \E ok \in Maybe("withdraw") : Withdraw(r, ok)
Endings == {"well", "silent", "failed", "failedLate"}
Of(r) ==
    \/ Ask(r) \/ Requests(r) \/ DeleteArchive(r) \/ RestoreRecord(r)
    \/ GraceEnds(r) \/ SettleEnds(r) \/ JobGoes(r) \/ Forget(r)
    \/ \E how \in Endings : JobEnds(r, how)
    \/ \E ok \in Maybe("lost") : Reconcile(r, ok)

Next ==
    \/ AddPerson \/ Deliver \/ TenantTurn \/ ServerReads
    \/ HostBack \/ \E h \in {"away", "none"} : HostGoes(h)
    \/ \E r \in Records : Of(r)

Spec == Init /\ [][Next]_vars

\* A request is answered, time passes, a Job and its deletion end; a waiting
\* pass asks for another and a write that is tried again is not lost for ever;
\* the server reads its files, and a tenant that went away comes back.
Advance(r) ==
    \/ Requests(r) \/ GraceEnds(r) \/ SettleEnds(r) \/ JobGoes(r)
    \/ \E how \in Endings : JobEnds(r, how)
FairSpec ==
    /\ Spec
    /\ WF_vars(ServerReads) /\ WF_vars(HostBack)
    /\ SF_vars(\E r \in Records : Advance(r))
    /\ \A r \in Records : SF_vars(Reconcile(r, TRUE))

----------------------------------------------------------------------------
(* Properties. *)

\* "A mailbox that still has a person is never touched, whatever asked": the
\* mail of who holds the address stays in the mailbox.
HolderUntouched ==
    [][(person \in live /\ person # Nobody) => person \in live']_vars

\* "One decision per mailbox: the last one made": what a record took out of
\* the mailbox, it took when no later record about the person stood.
LastDecisionDecides ==
    [][\A r \in Records : took'[r] # took[r] =>
          \A s \in There : rec[s].born <= rec[r].born]_vars

\* "Mail to a removed person's address is refused": while the record of a
\* mailbox that was dealt with stands and nobody holds the address, there is
\* nothing in the mailbox for whoever is given the address later.
NothingForTheNext ==
    \A r \in There :
        /\ rec[r].phase \in {"Archived", "Deleted"} /\ ~rec[r].restored
        /\ person = Nobody /\ Owed = {} /\ ~laterDecision(r)
        /\ people = whom[r]
        => live = {}

\* A record is not pending for ever, unless its archive is out of reach.
RecordsSettle ==
    \A r \in Records : r \in Owed ~> r \notin Owed \/ host = "none"

\* Nobody's mail stays in the mailbox of an address nobody holds: a removal
\* is followed by what was decided.
MailDealtWith ==
    <>[](person = Nobody /\ host = "here" => live \cap People = {})

\* "A refusal changes nothing and is final for that record."
RefusedChangesNothing == \A r \in Records : rec[r].refused => took[r] = {}

=============================================================================
