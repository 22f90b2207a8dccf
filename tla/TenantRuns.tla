----------------------------- MODULE TenantRuns -----------------------------
(***************************************************************************)
(* The export and the restore controller over the workloads of one tenant. *)
(* Each pauses apps, loads or copies them and resumes them; a restore asks *)
(* whether an export holds the tenant, an export asks only other exports.  *)
(***************************************************************************)
EXTENDS AppPause, FiniteSets

CONSTANTS
    Exports, ExportStamp, ExportRank, ExportApps, NeedsSource, ClaimOnly,
    Restores, RestoreStamp, RestoreRank, RestoreApps, Bundles, Bundle,
    Uploaded, BundleApps, BundleRetained, WithKey, WithSecrets, WithCommands,
    Routed, Published,
    Units, TenantWide, Manifest, AppRank, FirstApps, exportMaxAttempts

VARIABLES
    work, installed, exporting,                          \* of both
    xobj, xfinalizer, xstatus, xjob, xorphan, cleanup, source, xstaged,
    store, listed, retained, tenant,                     \* of TenantExport
    robj, rfinalizer, rstatus, rjob, rorphan, key, rstaged, bundles, data,
    vault, handed, pods, route, pass, queue              \* of TenantRestore

exportVars == <<xobj, xfinalizer, xstatus, xjob, xorphan, cleanup, source,
                xstaged, store, listed, retained, tenant>>
restoreVars == <<robj, rfinalizer, rstatus, rjob, rorphan, key, rstaged,
                 bundles, data, vault, handed, route, pass, queue>>
vars == <<work, installed, exporting, exportVars, restoreVars, pods>>

X == INSTANCE TenantExport WITH
         Stamp <- ExportStamp, NameRank <- ExportRank, Requested <- ExportApps,
         obj <- xobj, finalizer <- xfinalizer, status <- xstatus, job <- xjob,
         orphan <- xorphan, staged <- xstaged
R == INSTANCE TenantRestore WITH
         Stamp <- RestoreStamp, NameRank <- RestoreRank,
         Requested <- RestoreApps, obj <- robj, finalizer <- rfinalizer,
         status <- rstatus, job <- rjob, orphan <- rorphan, staged <- rstaged

Init == X!Init /\ R!Init

\* What tenantBusy of the restore sees of exports.
ExportStep ==
    /\ X!Next
    /\ pods' = [a \in Apps |-> R!podsOf(work'[a], pods[a])]
    /\ exporting' = (\E e \in Exports : X!Holding(e))'
    /\ UNCHANGED restoreVars
RestoreStep ==
    /\ R!Next
    /\ UNCHANGED <<exporting, exportVars>>

Next == ExportStep \/ RestoreStep
Spec == Init /\ [][Next]_vars

\* "One export or restore at a time per tenant": an app is never copied by a
\* Job of an export while a Job of a restore is loading it.
NoCaptureWhileLoading ==
    \A a \in Apps, e \in Exports, r \in Restores, u, v \in Units :
        ~(xjob[e][a][u] = "running" /\ rjob[r][a][v] = "running")
=============================================================================
