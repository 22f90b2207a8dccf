# A verification project for Gentian OS

Gentian OS is a Kubernetes operator and a set of services that give each tenant
of a cluster its own apps, identity realm, storage, mail and network edge. This
directory holds TLA+ models of its core protocols, the TLC configurations that
check them on small instances, and TLAPS proofs of what holds for every
instance. It models the parts where a mistake costs somebody their data: backing
a tenant up, putting a backup back, moving an app to another build, taking an app
over from the composite that installed it, and dealing with the mailbox of
somebody who was removed. All of them run over many passes, in a cluster where
any write can be lost and anything can be deleted in between.

| File | What it is |
| --- | --- |
| `AppPause.tla` | how an app is paused and resumed, for exports and restores alike |
| `TenantExport.tla` | the TenantExport controller, its Jobs and the world around them |
| `RestoreHold.tla` | the edge's hold on an app that is being restored |
| `TenantRestore.tla` | the TenantRestore controller, its Jobs, the vault and the workloads; uses `RestoreHold` |
| `RestorePromise.tla` | what one restore promises the people of a tenant |
| `RestoreRefinement.tla` | how the controller's state maps to that promise |
| `TenantRuns.tla` | exports and restores of one tenant together, over the same workloads |
| `ComponentMove.tla` | the move of an app to another build |
| `ComponentHandoff.tla` | the takeover of an app from its Crossplane composite |
| `MailboxRemoval.tla` | the removal of a person with a mailbox: registrar, records, Jobs, mail server |
| `MC*.tla` | small instances of the module of that name |
| `TenantExportProofs.tla`, `ExportCaptureProofs.tla` | theorems about exports: types, memo, ends, exclusion; bundle and pause |
| `TenantRestoreProofs.tla`, `RestoreRefinementProofs.tla`, `RestorePromiseProofs.tla` | theorems about restores: types, exclusion, secrets, data, pause and what is served; the hold and the refinement; what the promise is worth |
| `ComponentMoveProofs.tla`, `ComponentHandoffProofs.tla`, `MailboxRemovalProofs.tla` | theorems about the module of that name |
| `Export*.cfg`, `Restore*.cfg`, `RunsOverlap.cfg`, `Move.cfg`, `Handoff.cfg`, `Mailbox*.cfg` | one configuration per run |
| `PROJECT.json` | components, runs, the map from definitions to source lines, findings, hazards, theorems |

To check one run, or the proofs of one module:

    tlc -config RestoreOne.cfg MCTenantRestore
    tlapm ComponentHandoffProofs.tla

A definition whose comment begins with "Wrong" is not part of a specification:
it is a plausible mistake in the code, which `PROJECT.json` pairs with the
property that it would break.

## Inventory

The operator (`cmd/main.go`, `internal/controller`) is a set of
controller-runtime reconcilers over custom resources (`api/v1alpha1`). Each
reads an object, compares it with the cluster, acts, writes the object's status
and returns; it is called again on a change, after an error, or when it asks to
be. All their memory is in the API server: an operator that restarts knows what
the objects say and nothing else.

| Component | State it keeps | Operations | What is hard | What makes it correct |
| --- | --- | --- | --- | --- |
| TenantExport controller (`tenantexport_*.go`) | `TenantExportStatus`: phase, bundle, the entry of each app, `quiesced`; a finalizer | one pass: add the finalizer, wait for an older export, assign a bundle, pause an app, run its capture Jobs, resume it, capture uninstalled apps and what is the tenant's own, write the manifest; finalize | status writes lost after their side effects; apps that come and go; deletion at any moment; hooks that fail or succeed late | one export at a time; an app is copied only while paused and always comes back; Ready means complete; deleted means gone |
| Capture and cleanup Jobs (`internal/backup/jobs.go`) | Job conditions, objects in the bucket | dump, upload, delete a prefix | TTL collection, pods that do not start, names shared with other runs, pods that outlive their Job | a recorded unit is in the store |
| TenantRestore controller (`tenantrestore_*.go`) | `TenantRestoreStatus`: the plan, the apps held back, the entry of each app, `quiesced`; a finalizer | one pass: wait, plan, hold an app back, hand it its secrets, pause it, load it by Jobs, run its commands, roll it; then uninstalled apps, then what is the tenant's own; finalize | who holds the tenant is decided by another rule than the export's; data half replaced in front of people; pods that serve what they started on; a key made by three writes | no app is reached half restored; apps come back; Ready means put back; no key is left |
| Restore hold (`restore_hold.go`) | the rules of an app's routes | a pass of the component reconciler reads who is held, then writes the routes twice | what was read first is written last | held before the app is touched, let go when the restore is over |
| BackupPolicy schedule (`backuppolicy_controller.go`) | the last run, the kept bundles | create an export, prune old ones | clock, missed runs, pruning what is in use | never prunes the last good backup |
| Bundle sources, fetch and store (`bundlesource_controller.go`, `bundlefetch_controller.go`, `internal/bundlestore`) | uploaded bundles | register, fetch, remove | a bundle removed while a restore reads it | a bundle stays while it is used |
| Purge and residue (`internal/applifecycle`, `internal/backup/teardown.go`) | what an uninstalled app left | find, purge | an install or a backup at the same time | purges what was named and no more |
| Tenant controller (`tenant_controller.go`, `tenant_reconcile_stages.go`) | conditions by stage | provision by stages, tear down | partial provisioning, the order of teardown | stages in order; teardown ends |
| Move of an app (`component_move.go`) | `status.rollout`; the exports taken before moves | export, roll out, verify, roll back | a pin moved again meanwhile; status writes lost; a release that reports the build before | the data is exported before a new build touches it; the record says what runs |
| Handoff of an app (`component_handoff.go`) | annotations on the Component and the composite; owner references | pause the composite, take its references off, delete its claim, let it go, render | a pass of Crossplane under way; a takeover that fails half way; an uninstall in the middle | nothing is lost while the app lives, nothing is left when it goes |
| Component reconciler (`component_reconciler.go` and others) | conditions, the inventory of a release | render, routes, grants | level-triggered | what it renders is what is asked |
| MailboxRemoval (`mailboxremoval_controller.go`, `internal/registrar`) | one record for each decision; a Job; the mail server's two lists | decide, remove the person, withdraw; wait, archive, delete, forget | the address given to somebody else meanwhile; Jobs that fail after their work or lose their word; decisions that contradict | a holder's mailbox is never touched; the last decision decides; no mail is left for the next holder |
| Mail (`mail_reconciler.go`) | passwords, keys, relays | render | level-triggered | - |
| Authorization projection, arbiter (`authz_projection_reconciler.go`, `internal/arbiter`, `internal/authz`) | tuples in a rights store | project, check | stale projections | the store follows the objects |
| Director (`internal/director`) | the Git repository that is the cluster's desired state | commit, retry, import | concurrent writers, a restart in an import | commits are not lost |
| Gateway, edge, DNS, identity, branding, tiles | rendered objects | level-triggered projection | little order | - |
| Registrar, custodian, bouncer, usher | request state | request handlers | - | - |
| Profile bundles, catalogue, schema check | none | parsing, validation | - | pure functions |
| Charts, compositions, install scripts | none | declarative | - | - |

How they interact. The export and the restore controller pause and resume apps
through the Tenant reconciler (`quiesceApp`, `unquiesceApp`); both write the
replicas of workloads that Helm and the App reconciler own. Exports and
restores find out about each other only by listing each other's objects. The
Jobs run in shared namespaces, get their Secrets as staged copies, and report
through Job conditions, which the next pass reads. A restore asks the component
reconciler to hold an app back by naming it in its status, and finds out that it
has by looking at the routes. A move takes an export before it rolls out, and
waits for it by name. The registrar tells the operator what becomes of a mailbox
by an object and removes the person itself; the operator asks the identity
provider who holds the address. Deleting a tenant deletes its namespace and with
it the exports, whose finalizers run while the tenant goes.

The hazards that follow from this are listed with their source lines in
`PROJECT.json`; each names the properties that would catch it, or says why none
does.

## Conventions of the models

An action is one pass of a reconciler, or the part of it between two writes of
the status. That cut is sound: at a write the object in memory and the stored one
agree, so a pass that goes on and a pass that starts there do the same. The
parameter `ok` of an action is whether its status write landed: `FALSE` keeps the
side effects before it and drops the write. This covers a crash of the operator,
a `Conflict`, and an API error later in the pass. Each controller has one worker
(`SetupWithManager` sets no concurrency), so the passes of one controller do not
overlap; everything else may happen between any two of them. Reads see the latest
write: the lag of the informer's cache is not modelled.

Each module has a constant `Faults`, the faults of the environment an instance
allows. Every run names those its properties are claimed under, and a theorem those
it excludes, as a named hypothesis; a theorem without one holds for every set of
them. What happens with the excluded ones is said module by module below.

## TenantExport

### State

| Variable | In the code |
| --- | --- |
| `obj`, `finalizer` | the TenantExport objects: absent, live, with a deletion timestamp, gone; `exportFinalizer` |
| `status` | what the API server holds of `TenantExportStatus`: `phase`, whether `bundle` is set, `quiesced`, and by app (and for `gentian-tenant`) `phase`, whether `quiesceStart` and `quiesceEnd` are set, `quiesceMode`, `retained`, `attempts`, `completedUnits` |
| `job`, `orphan` | the Jobs by slot and unit, and pods still running whose Job was deleted |
| `cleanup` | the bundle-cleanup Job |
| `source`, `staged` | the requester's own Secret; the copies beside the Jobs |
| `store`, `listed` | the objects in the bundle; the apps whose artefacts its manifest lists |
| `work` | by app: the replica count, the memo annotation `gentianos.io/pre-export-replicas`, and whether the app is in maintenance |
| `installed`, `retained`, `tenant` | App claims and `spec.apps`; apps uninstalled with their data kept; the Tenant and its namespace |

### Actions

| Action | Part of the code |
| --- | --- |
| `AddFinalizer`, `ResumeEnded`, `TidyEnded`, `FailNoTenant`, `Busy`, `AssignBundle`, `FailNoSecret` | `Reconcile` from the top to the encryption, in its order of returns |
| `resumeStale` | the resume of what is paused and not current |
| `PauseApp`, `CaptureCannot`, `CaptureWaits`, `CaptureDone` | `captureApp`: the pause and its record, enumeration and staging, `ensureCaptureJob` over the units, the resume with what follows it |
| `CaptureRetained` | `captureRetained` |
| `CaptureTenantWide`, `Complete` | `captureTenantWide`, `complete` |
| `FinalizeResume`, `Finalize` | `finalize` |
| `CreateExport`, `DeleteExport`, `SourceLost`, `AppChanges`, `TearDown` | administrators and the rest of the platform |
| `JobCompletes`, `JobFails`, `JobCollected`, `ForeignJob`, `OrphanEnds`, `CleanupEnds` | the Job controller and the containers |

`failApp`, `fail`, `resumeAll`, `ensureEntry`, `ensureJobs` and the other helpers
keep the code's names and are operators on the status or the Jobs of one slot.
What is done to one workload (`ScaleToZero`, `ScaleBack`, `quiesceApp`,
`unquiesceApp`, with the results a hook can have) is in `AppPause`.

### What is abstracted

* An artefact is a name; a bundle is a set of them. What a dump contains, how
  it is encrypted and where its bucket is are left out. That the destination
  cannot be resolved is the fault `destination`.
* One workload stands for all those of an app; `scaleAppWorkloads` treats each
  alike. One failing after another was scaled is the fault `pause`, with none
  scaled: `failApp` then scales back whatever has a memo.
* The namespace that is not a tenant's, and a Tenant that names another
  namespace, fail the export as `FailNoTenant` does and are not told apart.
* The Secret of a requester carries the export's label, as the console makes
  it; one without the label is never discarded and is not modelled.
* `resolveProfile` fails for ever only for an app with a claim that
  `spec.apps` does not name (`ClaimOnly`); other API errors are passes that do
  nothing and are tried again.

### Faults

| Fault | What may happen |
| --- | --- |
| `lost` | a status write does not land, its side effects do |
| `hook`, `resumeHook` | a pause, or a resume, command fails with no effect |
| `lateHook` | a pause command takes effect and is reported failed |
| `pause`, `enumerate`, `secrets`, `rights`, `destination` | scaling, finding or staging the units, putting the app's secrets in the bundle, reading the rights store, resolving the destination fails |
| `source` | the requester's Secret is removed |
| `tidy`, `cleanup` | the best-effort tidying up, the cleanup Job fails |
| `ttl`, `foreign`, `orphan` | an ended Job is collected; a Job of another run has the name; a pod outlives its Job |
| `install`, `uninstall`, `delete`, `teardown` | apps come, go and are purged; exports are deleted; the tenant goes |

Jobs that fail or do not start are always possible.

What the properties do not survive:

* `PausedIsRecorded` fails with `lost`: the app is paused, the write that says so
  does not land, the export is deleted, and `finalize` resumes what the status
  names. It fails with `resumeHook` (the fallback scales back a workload that was
  never scaled, and the app stays in maintenance) and with `lateHook` (a hook that
  timed out and then took effect: the recorded mode is scaleDown), and with
  `source` and `hook` (an export that paused by command fails for want of its
  Secret, the next one falls back to scaling, neither finds a pod for the command
  that ends the maintenance, and both take the app off their records).
* `DeletedBundleIsGone` fails with `orphan`, a pod that uploads after the cleanup,
  and with `cleanup`, which the code says it accepts.
* `OneExportAtATime` fails when two exports share a creation second: stamps are
  whole seconds, and one created later with an earlier name overtakes one that runs.
* `CaptureUnderPause` fails when an app that sorts first is installed during a
  capture: it becomes current, and the app being copied is resumed under its Job.
  It fails with `lost` (an app that was resumed is still on record as paused, and
  its Job is started again) and with `source` (the export fails with the app still
  on its record, the next export pauses the app, and the first one's next pass
  resumes it while the second one copies).
* `ReadyIsComplete` and `BegunIsCaptured` fail when an app is installed while the
  manifest's Job runs: it is captured, the export is Ready, the manifest does not
  list it.
* `EveryExportEnds` fails with an app in `ClaimOnly`: `resolveProfile` errs on
  every pass.
* With `lost`, an export whose bundle is complete may end Failed: `complete`
  discards the passphrase before it records Ready, and the next pass misses it.
* With `tidy` and `delete`, staged Secrets may outlive their export: the copies
  have no owner reference, in spite of the comment at
  `tenantexport_encryption.go:217`.
* An export that fails is Failed before its apps are back: `fail` does not resume,
  the next pass does (`AppsComeBack` covers that).

## TenantRestore and RestoreHold

A restore makes a plan once. Then, one app at a time, it names the app as held
back and waits until the edge holds it; writes down which secrets will change,
writes the vault and waits until the app runs with them; pauses the app, loads
each of its stores by a Job, runs its post-restore commands, resumes it and rolls
its pods. Uninstalled apps whose data was kept are loaded without a pause, then
what is the tenant's own, and only then are the apps let through.

| Variable | In the code |
| --- | --- |
| `obj`, `finalizer`, `status` | the TenantRestore objects and `TenantRestoreStatus`: the plan, what it left out, `heldBack`, `quiesced`, and by app the phase, the secrets (planned, applied, delivered), the pause, the rollout, the attempts and the units that are done |
| `job`, `orphan`, `key`, `staged` | Jobs; pods that outlive them; the Secret with the key of a bundle (made, then owned, then gone); its copy beside the Jobs |
| `bundles`, `data`, `vault`, `handed` | the bundles in the object store; what each store holds (`"old"`, `"torn"` or a bundle); the app's secrets in the vault; those it was started with |
| `work`, `pods` | the workloads, as in `AppPause`; the pods against the data they were started on |
| `route`, `pass`, `queue` | of `RestoreHold`: what the app's routes do, how far the component reconciler's pass is and what it read, and the components waiting for one |

| Action | Part of the code |
| --- | --- |
| `AddFinalizer`, `ResumeEnded`, `TidyEnded`, `FailPreflight`, `Busy`, `FailUnusable` | `Reconcile` to the plan |
| `Plan`, `resumeStale` | the plan and its record; the resume of what is paused and not current |
| `holdBack`, `PlanSecrets`, `ApplySecrets`, `AwaitSecrets`, `PauseApp`, `RestoreWaits`, `ResumeForCommands`, `PodTimeout`, `Commands`, `awaitRollout` | `restoreApp` between its writes |
| `RestoreRetained`, `RestoreTenantWide`, `Finish` | the rest of the restore |
| `FinalizeResume`, `Finalize` | `finalize` |
| `CreateRestore`, `OwnKey`, `DeleteRestore` | `StartRestore` of the app lifecycle service (the key's Secret is given its owner last), and deletion |
| `heldForRestore`, `applyRestoreHold`, `withRestoreHold`, `EndsEarly`, `OtherEvent` | a pass of the component reconciler as far as the hold is concerned: it reads, writes the routes that exist, and much later writes them whole by what it read |
| `JobCompletes`, `JobFails`, `ForeignJob`, `OrphanEnds`, `PodsUp`, `Handed`, `Uninstall`, `ExportStarts`, `ExportEnds` | Jobs, pods, the release that is upgraded to the vault's secrets, the platform |

Abstracted: which apps a plan leaves out by the rules on versions, domains and
claims (with the fault `omit`, any); what an artefact holds (a Job that completes
puts the bundle's content there, one that fails leaves it torn); timeouts, each
of which is a fault; the routes of an app, which are one. The data of an app that
is paused by a command may have been captured in maintenance, so loading it may
put the app back there; that is why the resume command is owed.

`RestorePromise` is the abstract specification: content changes only behind a
closed edge, the edge opens only when the restore is over, and a restore that is
done has brought back all it planned. `RestoreRefinement` instantiates it with the
restore's phase and deletion as `run`, the plan, the routes as `reach`, and what
the stores of an app hold against the bundle as `content`; `KeepsPromise` is its
`Spec`, a property of the run `restore_one` and, for one restore, a theorem.
`RestorePromiseProofs` proves what the promise is worth.

What the properties do not survive:

* `LoadUnderPause` fails with `lost`: `failApp` resumes the app, the write that
  says so does not land, and the next pass, for which the app is still paused,
  starts its Job again. With two restores it fails under `unusable` or `tenant`:
  a restore refused in the middle is over while the app it paused is still on its
  record; its successor pauses the app too, and the first one's next pass resumes
  it under the Job.
* `ReadyServesRestored` fails with `resumeHook`; with `lost`, where an app that
  was brought back is loaded again by the next pass, for which it is paused
  still; and with two restores under `unusable`, `tenant`, `orphan` or `tidy`.
* `ReadyIsRestored` fails with two restores of different bundles under `orphan` or
  `tidy`: what is left of the first goes on loading its bundle after the second
  has loaded its own.
* With two restores of one creation second each takes itself for the oldest:
  `SecretsBeforeData`, `LoadUnderPause`, `ReadyIsRestored` and
  `ReadyServesRestored` all fail.
* `AppsComeBack` fails with `hook`: an app that could not be put into maintenance
  is scaled down, its data was captured in maintenance, the Job fails, and
  `failApp` scales it back without the resume command that is owed. It fails with
  `tidy` and a failing step: a Job that was not stopped ends after the resume and
  puts the app back into maintenance.
* `KeepsPromise` fails with `delete`, since the Job of a restore that is being
  deleted loads until `finalize` stops it, and with `orphan`, for the same reason.
* `EveryRestoreEnds` fails with `uninstall` (`resolveProfile` errs on every pass)
  and when exports keep coming.
* `HeldWhileTouched` fails with two restores in succession, and with `wake` and a
  published app that had no routes: a pass that read before the hold began writes
  the routes after the restore looked (`restore_hold.go:41-43`).
* `Finish` discards the key before Ready is recorded: with `lost`, the next pass
  misses it and the restore, which put everything back, ends Failed.
* `removeImportedBundle` of an ended restore removes the bundle that a second
  restore of the same upload has planned from (`tenantrestore_controller.go:1379-1392`);
  no pass looks for it again, and the Jobs that come too late for it fail. In the
  model a Job may fail at any time, and one that came too late may also complete,
  which is more than the code does and which no property needs excluded.

`lateHook`, `resumeHook`, `unusable`, `omit` and `rollout` are faults of no
passing restore run. The last three, one at a time, leave all that `restore_one`
checks true.

## TenantRuns

`TenantRuns` instantiates both controllers over the same `work` and `installed`.
A step of an export moves the pods, and the `exporting` that a restore looks at is
what the exports really do. It answers one question, who waits for whom, in the
run `runs_overlap` below.

## ComponentMove

| Variable | In the code |
| --- | --- |
| `pin` | the build the Component's spec asks for, and the number of the request |
| `ro`, `late` | `status.rollout`; whether `moveDeadline` has passed since it began to roll |
| `exports` | the TenantExports taken before moves: name, phase, order of creation |
| `rendered`, `runs`, `up` | the build the release was written for, the one deployed, whether that has rolled out |
| `before`, `deleted` | two histories: the export on record when the rendered build was rendered first, and the export somebody deleted |

`StartMove` and `AwaitExport` are `beginMove` up to the rendering, with
`ensureMoveExport` and `pruneMoveExports`; `Pass` is the rest, with `effective`,
which build it renders, and `finishMove`. `HeldPass` is a pass that returns between
`beginMove` and `finishMove` (`component_reconciler.go:322-868`): the bundle, an
add-on or the profile is refused, a privilege is not granted, a host, sign-in or
engine cannot be had, values are pending, all before the release is written, or a
zone is not ready, after. Which of these it is makes no difference to the move. A
build in `Refused` is held so by every pass that comes to it; with the fault
`held` any pass may be. `Pin`, `ExportEnds`, `DeleteExport`, `Deploy`, `RollOut`
and `DeadlinePasses` are the director, the exports, the provider and time. An
export is a name and a phase (its own life is `TenantExport`); the verification of
a build is its result (the fault `verify` makes it fail). An export, whatever its
phase, is deleted at most once, a bound.

`ExportFirst` speaks of every build that is rendered and is not the one on record:
one that rolls out, one that was rolled back and is rendered still, and one that
was overtaken by a later request, whose own move is on record no longer. It was
rendered when its export was Ready, and that export stays until `moveExportsKept`
later requests have pruned it (with one request more the formula is violated: the
bound is tight) or somebody deletes it.

What the properties do not survive: a build that every pass is held at. It is
`Rolling` for as long as it is asked for, since neither the build nor
`moveDeadline` is looked at, although `component_move.go:48-50` and
`docs/concepts/versioning.md:176-179` say of a build that does not come up in time
that it is rolled back; and if another build was rolling out when it was asked
for, that one stays rendered under a record that does not name it. `InstanceSettles`
and `RequestAnswered` except it by name (`Held`), and `move` finds both violated
without the exception. A request for the build that runs while
another is rolling out (`back`) breaks `RequestAnswered`
(`component_move.go:50-51`); a release that still reports the build before as
ready (`staleReady`) breaks `InstanceSettles`; two moves that fail in a row leave
only their own exports, and the copies of older moves are pruned (67-70).

## ComponentHandoff

| Variable | In the code |
| --- | --- |
| `comp`, `noted`, `taken`, `rendered` | the Component; its annotation that names the composite; its record of what it took over; whether it was rendered |
| `claim`, `xr`, `paused`, `synced`, `inflight` | the claim, the composite, its pause annotation, Crossplane's word that it has stopped, a pass of Crossplane under way |
| `there`, `ref`, `orphan` | the composed objects, those owned by the composite, those that leave behind what they manage |
| `thing`, `mine` | what the objects manage; what of it the Component owns |

`Note`, `Pause`, `Release`, `LetGo` and `Render` are the branches of `handOff` and
the pass after it; `UninstallHandoff` and `Uninstall` are `handOffOnDelete` and the
finalizer. `ReleasePart` is `releaseComposed` failing on the way: some objects
dealt with, nothing recorded. The rest is Crossplane, its providers and the
garbage collector, modelled from what the code expects of them (external).
Composed objects are of five kinds, by what the code does to them: managed by
name, wrapped inside or outside the namespace, only watched, or a seeder.
`recordHelmRelease`, which keeps a name, and a claim that is somebody else's are
left out.

`NothingLeft` does not survive `lateUninstall`, an uninstall while a composite
that has been let go is still there (`component_handoff.go:226`; the comment at
232-233 expects otherwise). The comment at 276-279 has each object written into
the inventory before it is taken off; the code records after the loop, which is
harmless because the next pass records what is there, owned or not
(`TakenIsRecorded`).

## MailboxRemoval

One address of one tenant, the people who hold it one after the other, and every
record about it.

| Variable | In the code |
| --- | --- |
| `person`, `people` | who holds the address at the identity provider; how many have |
| `listed`, `served`, `refusing` | the password list in the Secret, what the server has read of it, the list of refused recipients |
| `host` | the tenant and its mail: here, away, or without mailboxes |
| `live`, `kept`, `took` | whose mail is in the mailbox, in the archive of a record, and what the Jobs of a record took out (a history) |
| `req`, `whom` | the registrar's request behind a record |
| `rec`, `job` | the MailboxRemoval and its status; its Job |

`Ask`, `Decide`, `RemovePerson` and `Withdraw` are the registrar's `removePerson`
between its calls; `ReportRestored`, `Await`, `NoMailboxes`, `RunDeleteArchive`,
`Superseded`, `PersonStays` and `Clear` are the branches of `step` in its order,
and `start`, `complete` and `countFailure` those of `run`. The three scripts are
what they find, leave and say. A Job ends well, well and without its word, or
fails before or after its work. `TenantTurn`, `ServerReads` and `Deliver` are the
mail server. The list of refused recipients is made anew by both passes that write
it (`refusals`); with the fault `unlisted` it may stay as it is, or lose the
address where even the standing list cannot be read, and nobody is told
(`mail_removed_recipients.go:102-114`, `139-144`, `157-161`). Two waits are times: the settle time is longer than the server takes
to read its passwords, and it and the grace are longer than a request lasts.
Names, sizes, messages, and a change of domain that refuses a record are left out.

What the properties do not survive: a list of records, tenants or people that
cannot be read while a Job is made (`unlisted`, not in `mailbox`) breaks
`NothingForTheNext`: the mailbox is emptied, takes mail again, and the next holder
finds it. Somebody who is given the address, or a host
that goes, while a record is carried out (`race`), and a restore that brings a
record while another is owed (`restoreLate`), break `HolderUntouched` and
`LastDecisionDecides`; `restoreLate` and two requests about one person at once
(`twice`) break `MailDealtWith`; a delete Job that is run again because its
word was lost reports that there was no mailbox (`mailboxremoval_controller.go:402`);
`SignInGoneAt` is not reset when the person is seen again (294-321); a removal that
reports an error after its effect is withdrawn, and the mail is left.

## Runs

| Run | Instance | Distinct states | Checks |
| --- | --- | --- | --- |
| `capture` | 2 exports, 2 apps; hooks, pauses, captures and secrets fail; deletion | 646 000 | `CaptureUnderPause`, `PausedIsRecorded`, `ReadyIsComplete`, `DeletedBundleIsGone`, `TypeOK` |
| `faults` | 2 exports, 1 app; all of those, and lost writes, lost Secrets, failed tidying and cleanup | 1 100 000 | `OneExportAtATime`, `MemoSound`, `RecordIsBacked`, `EndIsFinal` |
| `bundles` | 1 export, 1 app that goes; orphaned, foreign and collected Jobs, hooks that lie; teardown | 154 000 | `ManifestLast`, `BegunIsCaptured`, `BackupOutlivesTenant` |
| `live` | 2 exports, 1 app that is installed meanwhile, fairness; failed tidying and cleanup; deletion | 52 000 | `EveryExportEnds`, `AppsComeBack`, `SecretsDiscarded`, `DeletionEnds` |
| `restore_one` | 1 restore of 3 apps (paused by command, scaled, uninstalled) with key, secrets and commands, fairness; every step of it fails | 24 000 | `HeldWhileTouched`, `LoadUnderPause`, `ReadyServesRestored`, `KeepsPromise`, `EveryRestoreEnds`, `AppsComeBack`, `RoutesReleased`, `KeyDiscarded`, `TypeOK` |
| `restore_two` | 2 restores of 1 app from the same upload; lost writes, hooks, deletion, uninstall, orphans, other events at the edge | 942 000 | `OneRestoreAtATime`, `SecretsBeforeData`, `ReadyIsRestored` |
| `move` | 4 builds, 1 of them broken, 1 refused, 3 requests, fairness; lost writes, failed verification, held passes, a deleted export | 157 000 | `ExportFirst`, `InstanceSettles`, `RequestAnswered` |
| `handoff` | 5 objects, one of each kind, one not composed yet, fairness; uninstall and passes that fail half way | 4 300 | `TakenIsRecorded`, `NothingLost`, `HandoffEnds`, `NothingLeft` |
| `mailbox` | 2 records, 2 people; failed removals and withdrawals, Jobs, host, unsynced lists, a restore | 600 000 | `NothingForTheNext`, `HolderUntouched`, `LastDecisionDecides` |
| `mailbox_live` | 2 records, 1 person, fairness; the same, and lists that cannot be read, lost writes and lost words | 72 000 | `RecordsSettle`, `MailDealtWith` |

`PROJECT.json` says of each property which mistake in the code it was seen to
catch under the run's own configuration.

Why the bounds are enough. Who waits for whom among exports and among restores is
a comparison of pairs, so two show it; two apps are enough for the order of apps
and for a stale pause beside a current one, and the third of `restore_one` is
there because an uninstalled app goes another way. One artefact per slot is
enough because units go through `ensureCaptureJob` and `ensureRestoreJob`
independently and are joined only by "all done" and the count of attempts.
Attempts are bounded by 1 or 0 where the code has 2: the bound separates a
failure that is retried from the one that ends the run. Three requests let a move
be overtaken, fail and be asked for again, and give a third export so that the
pruning has something to prune. Two records are enough for the last decision to
differ from the first, two people for an address that is given away. Deadlock is
not checked: each system stops when all that was asked for is done.

### Where the code and its documentation disagree

Two runs end in a counterexample. Each checks what a comment states;
`PROJECT.json` quotes it.

* `runs_overlap` (`NoCaptureWhileLoading`, module `MCTenantRuns`, no faults at
  all): a restore waits for an export that has started, but
  `blockedByAnotherExport` lists exports only. An export that starts while a
  restore runs pauses the same app and copies it while the restore's Job loads
  it; `tenantexport_controller.go:231` says "One export or restore at a time per
  tenant".
* `mailbox_refused` (`RefusedChangesNothing`): the address is given to somebody
  while the Job of a record runs. The Job archives or deletes the mailbox, and
  the next pass refuses the record with "Nothing was changed".

A third disagreement has no run of its own: the move that is held and not rolled
back, in the section ComponentMove.

## Fairness

* Exports: weak fairness of a pass that has something to write and of one that
  has not: controller-runtime keeps an object in its queue until a pass succeeds
  and asks for nothing, and every waiting pass asks to be called again. A Job
  ends, well or badly, and so does the cleanup Job. The code bounds a pod that
  does not start (`capturePodStartDeadline`) and one that fails (the backoff
  limit); that a container which has started comes to an end is an assumption
  about it, since `newJob` sets no `activeDeadlineSeconds`.
* Restores: the same of passes and Jobs; the service that made a key's Secret
  gives it its owner; pods come up; the tenant reconciler hands an app what the
  vault holds; a component in the queue gets its pass; an export ends (which is
  `EveryExportEnds`).
* Moves: a pass that is not held and whose write lands is taken while there is
  something to do (`moveRequeue`, `componentRequeue`, or the event of its own
  write): what holds a pass at a build that is not `Refused` is put right in the
  end. Exports end; the provider deploys, sound builds come up, time passes.
  Nothing says that a broken build comes up or that an export succeeds.
* Handoffs: a pass that does not fail half way is taken (`componentRequeue`);
  Crossplane ends its pass, says that it has stopped, deletes what it is asked to,
  and the garbage collector collects. Nothing says that Crossplane begins a pass.
* Mailboxes: the server reads its files, a tenant that is away comes back, and
  strong fairness of "some record gets on": its request is answered, time passes,
  a Job ends. It is one condition over all records, so it says only that the world
  is not idle for ever while there is work. A pass whose write lands is made for
  each record, for a pass over one may do no more than write the list of refused
  recipients again. Both are strong because a tenant that goes away, or a lost
  write, interrupts that work.

Nothing is assumed of administrators, tenants or the other faults, and no Job is
assumed to succeed (in `mailbox_live`, the last of `MaxRuns` Jobs of a record
does: a Job that fails for ever leaves its record owed, as the code intends).

## Proofs

Each theorem is for every value of the constants under the assumptions of the
model's module, and for every set of faults unless a hypothesis is named.

| Module | Theorem | Statement | Hypothesis |
| --- | --- | --- | --- |
| `TenantExportProofs` | `TypeCorrect` | `Spec => []TypeOK` | |
| | `MemoCorrect` | `Spec => []MemoSound` | |
| | `EndStays` | `Spec => EndIsFinal` | |
| | `Exclusion` | `Spec => []OneExportAtATime` | `DistinctStamps` |
| `ExportCaptureProofs` | `RecordBacked` | `Spec => []RecordIsBacked` | |
| | `ManifestIsLast` | `Spec => []ManifestLast` | |
| | `BackupOutlives` | `Spec => BackupOutlivesTenant` | |
| | `ReadyComplete`, `BegunCaptured` | `Spec => []ReadyIsComplete`, `[]BegunIsCaptured` | `NoInstall` |
| | `DeletedIsGone` | `Spec => []DeletedBundleIsGone` | `CleanDeletes` |
| | `CapturedUnderPause`, `PausesAreRecorded` | `Spec => []CaptureUnderPause`, `[]PausedIsRecorded` | `Undisturbed` |
| `TenantRestoreProofs` | `RestoreTypeCorrect` | `Spec => []TypeOK` | |
| | `RestoreExclusion` | `Spec => []OneRestoreAtATime` | `DistinctStamps` |
| | `SecretsAreFirst` | `Spec => []SecretsBeforeData` | `DistinctStamps` |
| | `ReadyHoldsTheBundle` | `Spec => []ReadyIsRestored` | `DistinctStamps`, `Undivided` |
| | `LoadsUnderPause` | `Spec => []LoadUnderPause` | `DistinctStamps`, `Undisturbed` |
| | `ReadyIsServed` | `Spec => []ReadyServesRestored` | `DistinctStamps`, `Calm` |
| `RestoreRefinementProofs` | `HeldThroughout` | `Spec => []HeldWhileTouched` | `Alone` |
| | `PromiseIsKept` | `Spec => KeepsPromise`: the refinement | `Alone` |
| `RestorePromiseProofs` | `Promise` | `Spec => []NeverHalfRestored`, of `RestorePromise` | |
| `ComponentMoveProofs` | `Exported` | `Spec => []ExportFirst` | |
| `ComponentHandoffProofs` | `Recorded` | `Spec => []TakenIsRecorded` | |
| | `Kept` | `Spec => NothingLost` | |
| `MailboxRemovalProofs` | `NextFindsNothing` | `Spec => []NothingForTheNext` | `Listed` |
| | `HolderIsUntouched`, `LastOneDecides` | `Spec => HolderUntouched`, `LastDecisionDecides` | `Orderly` |

**Exports: types, memo, end, exclusion.** The assumptions are `OrderAssumption`
(stamps and ranks are natural numbers; names differ) and `ConfigAssumption` (the
types of the others; an app that is scaled has at least one replica).
`TypeCorrect` is inductive as it stands, and the long part: lemmas give the type
of what each helper returns, then one lemma per group of actions, then
`NextTypes`.

`MemoCorrect` rests on `WorkSteps`: whatever a step does to a workload is
nothing, a new installation, or a composition of scaling down, scaling back and
setting or clearing the maintenance flag; `RescaledMemo` says each of those
keeps the memo sound. This is why a retry, a second pause or a lost write in
between cannot lose a count.

`EndStays` rests on `StatusNext`: in every step the status of every export
evolves, that is, keeps an end and keeps a bundle, and gets a bundle only while
the export exists and no older one is in its way. That every write comes from a
pass over an export that has not ended, or only unmarks apps (`RunningStep`,
`AnnotatingStep`), is the argument.

`Exclusion` needs a strengthening: `OneExportAtATime` says nothing of an older
export that has no bundle yet and could take the tenant next to a younger
holder. The inductive invariant `ExclusionInv` says that an export that was
never created has no bundle, and that every older export than a holder, if it
exists, has ended. A new export is younger than all that exist, as stamps do not
go back and differ; an ended export stays ended (`StatusNext`); a bundle is
assigned only to one with no older rival. The hypothesis is necessary: TLC finds
two exports of one second that both hold the tenant.

**Exports: the bundle.** `StepOver` is the one view of a step that these proofs
share: what it may add to a record, which Jobs it may make or find complete, what
may reach the object store and when the manifest is fixed. `NextOver` says that
every step of `Spec` is such a step for every export. `BundleInv` then has five
parts: no cleanup before a deletion; a unit that is recorded, or whose Job is
complete, was uploaded; an app is Ready when all of its units are recorded; what
the manifest lists was uploaded; and a manifest that is written, is being
written, or is on its way in an orphaned pod, comes after what is the tenant's
own. The part about Jobs is what makes `RecordIsBacked` inductive: a write that
was lost is made again from the Job.

`ReadyComplete` and `BegunCaptured` need `ReadyInv`: from the moment the
manifest's Job is made, nothing is left to capture and the manifest lists all that
was captured. Only an install adds to what is left, which is `NoInstall`.
`DeletedIsGone` needs `GoneInv`: there is no bundle before the finalizer, the
cleanup begins when the last Job is gone, and no Job comes back. `CleanDeletes`
excludes a pod that uploads after its Job was deleted and a cleanup Job that
fails; the code says that it lets such a deletion pass. `BackupOutlives` needs
that an export nobody had deleted when the teardown began runs no cleanup.

**Exports: the pause.** `PauseInv` says that an export with a pause on record
holds the tenant and will be called again (`Marked`), that its Secret is there
(`AtHand`), that no app is both installed and uninstalled (`NotBoth`), that what
is on record is so (`SaidIsSo`: the export goes on, it is this app's turn, the
workload is in a state which a resume by the recorded mode brings back, and it is
frozen until all units are done; conversely what was begun is on record, and a
running Job is of such an app), and that an app that is down is on record
(`DownIsSaid`). The steps of a pass are classified by what they do to one app
(`AppView`: left alone, paused, waited for, brought back). That two exports do
not take turns with one app is `Exclusion`; that a resume finds the count is
`MemoCorrect`. TLC checked `PauseInv` on three instances, of up to four million
states, before it was proved. `Undisturbed` excludes the creation second that two
exports share, and the five faults under which one of the two properties fails
(see TenantExport, Faults). Failing commands, scalings, Jobs and secrets, foreign,
collected and orphaned Jobs, deletions, uninstalls, purges and the teardown are
all in.

**Restores.** `RestoreExclusion` is as `Exclusion`, with the phase Running in the
place of the bundle: a restore that runs is the oldest that has not ended.

Four properties are proved for any number of restores, one after the other or
waiting for each other, with deletions, uninstalls and exports in between. A
restore of many steps is too long for one invariant, so every step of `Next` is
first given one of seven forms (`Stepped`): a pass that writes a status, one that
writes none, a unit that ends, another run's Job that is found, a step of one
restore object, of one app, or of the edge and the exports. Each invariant is then
shown to survive the forms, and rests on those before it:

* `HoldInv`: a restore that has begun is the oldest of those that have not ended
  (`StartedIsOldest`), one that has not begun has touched nothing (`Untouched`),
  and one that holds the tenant has its finalizer, so that it is not gone before
  it was stopped (`HolderIsKept`). It needs `DistinctStamps`.
* `SecretsInv` relates what an entry says of an app's secrets to the vault and to
  what the app was handed. It survives every fault; with it, `SecretsAreFirst`.
* `DataInv`: what is recorded as done is complete, what is complete is in the
  store, what still loads is of the restore that holds the tenant, and an app that
  was rolled, or is Ready, is done. A pod that outlives its Job, or a stop that
  fails, would load under the next restore: `Undivided` excludes both, unless
  there is only one restore. With it, `ReadyHoldsTheBundle`; lost writes are in.
* `MemoInv`, with every fault: a workload is at its own count, or at zero with the
  memo of it; only an app with a command is in maintenance; no pods run at zero.
* `PauseInv`: an app on record as paused is paused by the mode on record, from its
  first unit until it is resumed, and Jobs run only over such an app
  (`PausesRight`); it is the app whose turn it is (`PausesInTurn`), of the restore
  that holds the tenant (`PauserHolds`), whose key is there (`KeyKept`).
  `Undisturbed` excludes lost writes, and an end from outside (`tenant`,
  `unusable`) where another restore waits. With it, `LoadsUnderPause`; commands
  that fail, or are answered for what they did not do, are in.
* `ServeInv`: a pod that outlived its Job is of a restore that is over, and an app
  that was rolled is up and serves what was loaded. `Calm` is both hypotheses, and
  that no resume command fails. With it, `ReadyIsServed`.

TLC checked all six before they were proved, on five instances with one restore
(up to 700 000 states, all 22 faults in one of them) and four with two (up to six
million). It also showed each hypothesis to be needed: for every fault that one of
them names there is a behaviour, listed above under TenantRestore, in which the
property fails.

The hold, and the refinement, are for a restore that is `Alone`: the only one
of its tenant, of at least one unit, not deleted while it runs, whose Jobs
are gone when it stopped them, and with no app whose first routes are published
while it runs. A deletion stops a restore wherever it is and lets the apps
through, and a pod that outlives its Job, or a stop that fails, loads data after
the apps were let through: the promise is about what happens otherwise. Lost
writes, failing commands, Jobs, secrets and rollouts, Jobs of other runs, other
events at the edge and uninstalls are all in.
Its inductive invariant `AloneInv` says of the status and the Jobs (`Good`) that
an app with which the restore has begun is planned, held back and not open; that
a held route stays so, because the pass over it, if there is one, read the hold;
that a restore that is over runs no Jobs; that what is recorded as done was done
by a Job, which left what the bundle held; and that an app is Ready, and the
restore is, when all of it is done. `Good` is a predicate on a status and Jobs
rather than on the state, so that the lemmas say of each operator on a status
that it keeps it, whether the write then lands or is lost. `PromiseIsKept` shows
that initial states map to initial states and every step to one of the promise,
or to none.

**The promise.** `PromiseInv` says that only what was planned was replaced, that an
open app is untouched until the restore is over, and that a restore that is done
left nothing half way; with it, whoever reaches an app finds all of the old
content or all of the restored one unless the restore was stopped. With
`PromiseIsKept`, the controller keeps it.

**Moves.** For any builds, requests and faults. `ExportFirst` speaks of the build
that is rendered; that its export is Ready was decided in the phase before, and
that it is kept, in prunings long after, when other moves are on record.
`RecordInv` says that the export on record is the one of its target and request,
and that the export before the rendered build is of no later request. `ListInv`
says in which order exports were made: one per request, and newer than the export
of a request only those of later requests, although writes are lost and exports
are deleted and made again. So the exports that are newer than the one before the
rendered build can be counted by the requests after it (`PruneBound`, an injection
into an interval), and a pruning takes that one only once there were
`moveExportsKept` of them. `CopyInv` is what is to be shown, and that a move that
rolls out or was rolled back has its export; a pruning spares the export on record.

**Handoffs.** For any composed objects of any kinds (`HandoffConfig`), with passes
that fail half way and an uninstall at any point, the late one included.
`TakenIsRecorded` is not inductive: it speaks of the time after the composite was
let go, and holds because of what was done before. `Inv` adds that the claim goes
only in a handoff on record and under the pause (`ClaimFirst`), that Crossplane's
word means it is not at work (`Stopped`), that while the Component lives the claim
goes only after that word (`UnderPause`), and that a composite which was let go
owns nothing (`OwnsNothing`). The last is what `Kept` needs: the garbage collector
takes what the composite owns, and by then that is nothing. The order of the code
(pause, word, release, claim, release again, let go) is what these four conjuncts
say.

**Mailboxes.** `NextFindsNothing` holds if people, tenants and records can be
listed (`Listed`: no fault `unlisted`, under which TLC finds the property
violated), with every other fault, races included; the other two theorems need no
such hypothesis. Its invariant `ServedInv` says, besides types and that people come in order, that
once a Job was made for a record, and until the address is given away, nobody
holds it, the server refuses its mail, and what a Job emptied stays empty
(`Behind`). `HolderIsUntouched` and `LastOneDecides` are about the moment a Job
takes mail out; all the operator found out before it made the Job has to be true
still (`AtWork` of `WorkInv`), for which requests must be `Orderly`: one at a
time, nobody given the address while a record is carried out, and no restore then.

**Only model-checked.** Every liveness property: the prover does not handle
fairness or ENABLED. Of safety, `NoCaptureWhileLoading`, which is violated, and
what the table's hypotheses exclude: where a property fails there, the section of
its module says so. `HeldWhileTouched` and `KeepsPromise` are for one restore;
with two in succession the first fails. No module uses recursion, so induction
over data is not needed anywhere.

## Plan

1. A theorem about exports and restores together (`TenantRuns`): which pauses of
   one a run of the other may undo, given that they do overlap.
2. `BackupPolicy`: due runs, missed runs, and what is pruned while it is in use.
3. The purge of an uninstalled app against an install and a backup at the same
   time; the stages of a tenant's teardown.
4. The authorization projection and the arbiter's staleness; the director's commit
   loop and the states of an import.
5. An informer's cache that lags, for the two questions where it matters: who
   holds the tenant, and whether a route is held.

## Not modelled

* BackupPolicy, the purge, teardown, the authorization projection, the custodian
  and the director's commit loop: not reached yet (the plan has them, by weight).
* The Tenant controller's provisioning, rendering and Helm releases, gateways, DNS
  and identity: level-triggered projections to other systems, where each pass
  looks anew and the code has little state of its own. A Helm sync that rescales a
  paused app is a hazard with no property, because what Helm does then is not in
  this code.
* Scripts inside Jobs, the bundle's format, encryption and signatures, parsing,
  the catalogue, the schema check and the generated API code: data, not control.
* Bouncer and usher, the admission webhook, usage statistics and the vault
  migration: single requests, reports, and a one-off copy.
* Charts, compositions and install scripts: declarative, and run by other programs.

These make up most of the repository's lines; the models cover the protocols whose
steps can be interrupted or interleaved with loss of data.
