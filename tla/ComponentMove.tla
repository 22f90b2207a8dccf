--------------------------- MODULE ComponentMove ---------------------------
(***************************************************************************)
(* The move of an installed app from the build it runs to the build it is  *)
(* pinned to: its data is exported first, the pinned build is rolled out   *)
(* and verified, and one that does not come up is rolled back.             *)
(*                                                                         *)
(* A pass of the component reconciler renders one build.  An action is the *)
(* part of a pass up to a write of the status; `ok' is FALSE where that    *)
(* write did not land after what the pass had done before it.              *)
(***************************************************************************)
EXTENDS Naturals, FiniteSets, FiniteSetsExt

CONSTANTS
    Builds,             \* digests an app can be pinned to
    FirstBuild,         \* the one it is installed at
    Broken,             \* builds whose workloads never roll out
    Refused,            \* builds every pass is held at before it renders them
    MaxRequests,        \* bound on how often the pin is moved
    moveExportsKept,    \* 2 in the code
    Faults              \* what may go wrong here, see FaultKinds

NoBuild == "none"
FaultKinds == {"lost", "verify", "staleReady", "back", "delete", "held"}

ASSUME MoveConfig ==
    /\ NoBuild \notin Builds
    /\ FirstBuild \in Builds \ (Broken \cup Refused)
    /\ MaxRequests \in Nat
    /\ moveExportsKept \in Nat
    /\ Faults \subseteq FaultKinds

VARIABLES
    pin,        \* spec: the build asked for, and which request it was
    ro,         \* status.rollout
    late,       \* StartedAt is more than moveDeadline ago
    exports,    \* the exports taken before moves
    rendered,   \* the build the release was last rendered from
    runs,       \* the build its workloads were last brought to
    up,         \* those workloads have rolled out
    before,     \* history: the export on record when that was rendered first
    deleted     \* the export somebody deleted: at most one, a bound

vars == <<pin, ro, late, exports, rendered, runs, up, before, deleted>>
world == <<pin, runs, up>>

moveEnded(p) == p \in {"Done", "RolledBack", "Failed"}

moveExportName(b, at) == [build |-> b, at |-> at]
NoExport == moveExportName(NoBuild, 0)
Remade == moveExportName(NoBuild, 1)
NoRollout ==
    [digest |-> NoBuild, previous |-> NoBuild, target |-> NoBuild, phase |-> "",
     export |-> NoExport, at |-> 0]

Recorded == ro.digest # NoBuild
Writes == IF "lost" \in Faults THEN BOOLEAN ELSE {TRUE}
persist(n, ok) == ro' = IF ok THEN n ELSE ro

----------------------------------------------------------------------------
(* The exports taken before moves. *)

Named(name) == {e \in exports : e.name = name}
IsTerminal(e) == e.phase \in {"ready", "failed"}
\* The newest finished ones are kept, and the last move's own.
pruneMoveExports ==
    LET finished == {e \in exports : IsTerminal(e)}
        goes == {e \in finished :
                    /\ e.name # ro.export
                    /\ Cardinality({f \in finished : f.born > e.born})
                           >= moveExportsKept}
    IN  IF moveEnded(ro.phase) THEN exports \ goes ELSE exports

\* Created once: a name that is there is left alone.
ensureMoveExport(E, name) ==
    IF \E e \in E : e.name = name THEN E
    ELSE E \cup {[name |-> name, phase |-> "pending",
                  born |-> 1 + Max({0} \cup {e.born : e \in E})]}
remade(name) == deleted' = IF deleted = name THEN Remade ELSE deleted

----------------------------------------------------------------------------
(* beginMove: which build a pass renders, and the phases before it does. *)

Moving == Recorded /\ ro.digest # pin.build
newTarget == ro.target # pin.build
\* Wrong: a request for the build that failed is the one that failed.
neverRetried == FALSE
retried == ro.phase \in {"RolledBack", "Failed"} /\ pin.at # ro.at
Asked == Moving /\ (newTarget \/ retried)

StartMove(ok) ==
    /\ Asked
    /\ LET name == moveExportName(pin.build, pin.at)
       IN  /\ exports' = ensureMoveExport(pruneMoveExports, name) /\ remade(name)
           /\ persist([ro EXCEPT !.target = pin.build, !.phase = "Exporting",
                                 !.export = name, !.at = pin.at], ok)
    /\ UNCHANGED <<world, late, rendered, before>>

\* Wrong: an export that has ended is enough.
AwaitExportEnd(ok) ==
    /\ Moving /\ ~Asked /\ ro.phase = "Exporting"
    /\ \E e \in Named(ro.export) : IsTerminal(e)
    /\ persist([ro EXCEPT !.phase = "Rolling"], ok)
    /\ late' = (late /\ ~ok)
    /\ UNCHANGED <<world, exports, rendered, before, deleted>>
AwaitExport(ok) ==
    /\ Moving /\ ~Asked /\ ro.phase = "Exporting"
    /\ \/ /\ Named(ro.export) = {}
          /\ exports' = ensureMoveExport(exports, ro.export) /\ remade(ro.export)
          /\ UNCHANGED <<ro, late>>
       \/ \E e \in Named(ro.export) :
          /\ UNCHANGED <<exports, deleted>>
          /\ \/ /\ e.phase = "ready"
                /\ persist([ro EXCEPT !.phase = "Rolling"], ok)
                /\ late' = (late /\ ~ok)
             \/ /\ e.phase = "failed"
                /\ persist([ro EXCEPT !.phase = "Failed"], ok)
                /\ UNCHANGED late
    /\ UNCHANGED <<world, rendered, before>>

\* Wrong: what is pinned is rendered, whatever became of the move.
pinned == pin.build
\* The pinned build, or the one the instance runs while a move was rolled
\* back or has failed.
effective ==
    IF ~Moving \/ ro.phase = "Rolling" THEN pin.build ELSE ro.digest
Renders == ~Asked /\ ~(Moving /\ ro.phase = "Exporting")

----------------------------------------------------------------------------
(* The rest of a pass: render, and finishMove. *)

\* A release written on this pass is not ready whatever it reported before.
\* On a later one its condition may still be that of the build before.
releaseUp ==
    /\ rendered = effective
    /\ up
    /\ runs = rendered \/ "staleReady" \in Faults

recordFirst ==
    [NoRollout EXCEPT !.digest = pin.build, !.target = pin.build,
                      !.phase = "Done", !.at = pin.at]
done == [ro EXCEPT !.previous = ro.digest, !.digest = pin.build, !.phase = "Done"]
rollBack == [ro EXCEPT !.phase = "RolledBack"]

\* The possible records at the end of a pass.
finishMove ==
    CASE ~Recorded -> {IF releaseUp THEN recordFirst ELSE ro}
      [] Recorded /\ ro.phase = "Rolling" /\ effective = pin.build ->
            IF releaseUp
            THEN {done} \cup (IF "verify" \in Faults THEN {rollBack} ELSE {})
            ELSE {IF late THEN rollBack ELSE ro}
      [] OTHER -> {ro}

\* What is rendered from b on.
Render(b) ==
    /\ rendered' = b
    /\ before' = IF b # rendered /\ b # ro.digest THEN ro.export ELSE before

Pass(ok) ==
    /\ Renders /\ effective \notin Refused
    /\ Render(effective)
    /\ exports' = pruneMoveExports
    /\ \E n \in finishMove : persist(n, ok)
    /\ UNCHANGED <<world, late, deleted>>

\* A pass that ends between beginMove and finishMove: a bundle or an add-on
\* that is refused, a privilege nobody granted, a host, sign-in, model or
\* engine it cannot have, values that are pending; or, once it has rendered, a
\* zone that is not ready.  Neither its build nor the deadline is looked at.
HeldPass ==
    /\ Renders
    /\ \/ effective \in Refused /\ Render(rendered)
       \/ "held" \in Faults /\ \E b \in {rendered, effective} \ Refused : Render(b)
    /\ exports' = pruneMoveExports
    /\ UNCHANGED <<world, ro, late, deleted>>

----------------------------------------------------------------------------
(* The world around the reconciler. *)

\* The director moves the pin, or asks again for the build it is at.
Pin(b) ==
    /\ pin.at < MaxRequests
    /\ Recorded
    /\ b = ro.digest => "back" \in Faults
    /\ pin' = [build |-> b, at |-> pin.at + 1]
    /\ UNCHANGED <<ro, late, exports, rendered, runs, up, before, deleted>>

ExportEnds(e) ==
    /\ e.phase = "pending"
    /\ \E p \in {"ready", "failed"} :
          exports' = (exports \ {e}) \cup {[e EXCEPT !.phase = p]}
    /\ UNCHANGED <<world, ro, late, rendered, before, deleted>>
DeleteExport(e) ==
    /\ "delete" \in Faults
    /\ deleted = NoExport /\ deleted' = e.name
    /\ exports' = exports \ {e}
    /\ UNCHANGED <<world, ro, late, rendered, before>>

\* The provider deploys what was rendered; then the workloads roll out.
Deploy ==
    /\ runs # rendered
    /\ runs' = rendered /\ up' = FALSE
    /\ UNCHANGED <<pin, ro, late, exports, rendered, before, deleted>>
RollOut ==
    /\ ~up /\ runs \in Builds \ Broken
    /\ up' = TRUE
    /\ UNCHANGED <<pin, ro, late, exports, rendered, runs, before, deleted>>
DeadlinePasses ==
    /\ ro.phase = "Rolling" /\ ~late
    /\ late' = TRUE
    /\ UNCHANGED <<world, ro, exports, rendered, before, deleted>>

----------------------------------------------------------------------------

Init ==
    /\ pin = [build |-> FirstBuild, at |-> 0]
    /\ ro = NoRollout
    /\ late = FALSE
    /\ exports = {}
    /\ rendered = NoBuild
    /\ runs = NoBuild
    /\ up = FALSE
    /\ before = NoExport
    /\ deleted = NoExport

Reconcile(ok) == StartMove(ok) \/ AwaitExport(ok) \/ Pass(ok)
Next ==
    \/ \E ok \in Writes : Reconcile(ok)
    \/ HeldPass
    \/ \E b \in Builds : Pin(b)
    \/ \E e \in exports : ExportEnds(e) \/ DeleteExport(e)
    \/ Deploy \/ RollOut \/ DeadlinePasses

Spec == Init /\ [][Next]_vars

\* A pass that has not settled asks for another (moveRequeue, componentRequeue,
\* or the event of its own status write), a write that is lost is retried, and
\* what holds a pass at a build that is not Refused is put right in the end;
\* exports end, the provider deploys, sound builds come up and time passes.
FairSpec ==
    /\ Spec
    /\ WF_vars(Reconcile(TRUE))
    /\ WF_vars(\E e \in exports : ExportEnds(e))
    /\ WF_vars(Deploy) /\ WF_vars(RollOut) /\ WF_vars(DeadlinePasses)

----------------------------------------------------------------------------
(* Properties. *)

\* "The app's data is exported first": the build rendered over an app's data
\* that is not the build on record was exported for when it was first rendered,
\* whatever was asked for since.  That export is Ready and stays, until
\* moveExportsKept later requests have pruned it or somebody deletes it; and
\* the export of the move on record is not pruned at all.
Copied(name) == deleted = name \/ \E e \in Named(name) : e.phase = "ready"
ExportFirst ==
    Recorded /\ rendered # ro.digest =>
        /\ before.build = rendered
        /\ \/ Copied(before)
           \/ before # ro.export /\ pin.at >= before.at + moveExportsKept
        /\ ro.phase \in {"Rolling", "RolledBack"} =>
               Copied(ro.export) /\ ro.export.build = ro.target

\* A build every pass is held at is neither verified nor rolled back.
Held == ro.phase = "Rolling" /\ ro.target = pin.build /\ pin.build \in Refused

\* "The rollout says what is": whatever fails, and however the pin is moved
\* meanwhile, the instance comes to rest up and on the build on record, unless
\* the build last asked for is one no pass gets beyond.
InstanceSettles ==
    <>[](Held \/ (up /\ runs = ro.digest /\ rendered = ro.digest))

\* The last request is answered: the pinned build runs, or the record says of
\* this very target that it was rolled back or did not start; or the pass says
\* what holds it.
Answered ==
    \/ ro.digest = pin.build
    \/ /\ ro.target = pin.build /\ ro.at = pin.at
       /\ ro.phase \in {"RolledBack", "Failed"}
RequestAnswered == <>[](Held \/ Answered)

=============================================================================
