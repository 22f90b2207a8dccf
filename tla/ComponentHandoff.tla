-------------------------- MODULE ComponentHandoff --------------------------
(***************************************************************************)
(* An app that a Crossplane composite installed is taken over in place by  *)
(* its Component: the composite is paused, its owner reference is taken    *)
(* off everything it composed, its claim is deleted, and the composite is  *)
(* let go.  The Component may be uninstalled at any point of this.         *)
(*                                                                         *)
(* A composed object manages a thing: a release its Helm release, a        *)
(* wrapper what it wraps, a seeder the path it seeded.                     *)
(***************************************************************************)
EXTENDS Naturals, FiniteSets

CONSTANTS
    Objects,        \* what the Composition composes for the app
    Kind,           \* [Objects -> Kinds]
    Late,           \* objects a pass of the composite is yet to compose
    Faults          \* what may go wrong here, see FaultKinds

\* "direct": managed by name, like a release; "inside" and "outside": wrapped,
\* in the component's namespace or not; "watched": wrapped, only observed;
\* "seeder": a vault path that was seeded.
Kinds == {"direct", "inside", "outside", "watched", "seeder"}
FaultKinds == {"uninstall", "lateUninstall", "partial"}
Wrappers == {o \in Objects : Kind[o] \in {"inside", "outside", "watched"}}
\* What is set to orphan its thing, and what is written into the inventory.
Orphans == {o \in Objects : Kind[o] # "direct"}
Inventoried == {o \in Objects : Kind[o] \in {"direct", "outside"}}
\* What goes with the app when it is uninstalled.
Own == {o \in Objects : Kind[o] \in {"direct", "inside", "outside"}}

ASSUME HandoffConfig ==
    /\ Kind \in [Objects -> Kinds]
    /\ Late \subseteq Objects
    /\ Faults \subseteq FaultKinds

VARIABLES
    comp,       \* the Component: live, deleting or gone
    noted,      \* its compositeAnnotation names the composite
    taken,      \* its takenAnnotation, and what a render put beside it
    rendered,   \* it has been rendered
    claim,      \* the App claim
    xr,         \* the composite
    paused,     \* the composite's pausedAnnotation
    synced,     \* Crossplane says that it has stopped: ReconcilePaused
    inflight,   \* a pass of Crossplane over the composite is under way
    there,      \* composed objects there are
    ref,        \* those that carry the composite's owner reference
    orphan,     \* those set to orphan what they manage
    thing,      \* what they manage, in being
    mine        \* wrapped things in the namespace owned by the Component

vars == <<comp, noted, taken, rendered, claim, xr, paused, synced, inflight,
          there, ref, orphan, thing, mine>>
crossplane == <<claim, xr, paused, synced, inflight>>
composed == <<there, ref, orphan, thing, mine>>

----------------------------------------------------------------------------
(* What a pass of the component reconciler does. *)

\* releaseComposed over the objects S: a pass that fails on the way has dealt
\* with some, and recorded none.
released(S) ==
    /\ ref' = ref \ S
    /\ orphan' = orphan \cup (S \cap Orphans \cap there)
    /\ mine' = mine \cup {o \in S \cap there \cap thing : Kind[o] = "inside"}
\* Wrong: what an earlier pass took off already is not recorded.
takenNow == taken \cup (Inventoried \cap ref)
recordTaken == taken \cup (Inventoried \cap there)
releaseComposed ==
    released(Objects) /\ taken' = recordTaken
ReleasePart ==
    /\ \E S \in SUBSET there : released(S)
    /\ UNCHANGED <<taken, there, thing, comp, noted, rendered, crossplane>>

deleteClaim == claim' = IF claim = "bound" THEN "deleting" ELSE claim

Note ==
    /\ comp = "live" /\ claim # "gone" /\ ~noted
    /\ noted' = TRUE
    /\ UNCHANGED <<comp, taken, rendered, crossplane, composed>>

Pause ==
    /\ comp = "live" /\ noted /\ xr = "live" /\ ~paused
    /\ paused' = TRUE
    /\ UNCHANGED <<comp, noted, taken, rendered, claim, xr, synced, inflight,
                   composed>>

\* Wrong: the annotation alone is taken for the pause.
compositeAnnotated == paused
\* Not before Crossplane says it has stopped.
compositePaused == synced
Release(ok) ==
    /\ comp = "live" /\ noted /\ xr = "live" /\ paused /\ compositePaused
    /\ \/ ~ok /\ ReleasePart
       \/ /\ ok /\ releaseComposed /\ deleteClaim
          /\ UNCHANGED <<comp, noted, rendered, xr, paused, synced, inflight,
                         there, thing>>

\* Wrong: a composite being deleted is left paused.
LeavePaused(ok) ==
    /\ comp = "live" /\ noted /\ xr = "deleting" /\ paused
    /\ releaseComposed
    /\ UNCHANGED <<comp, noted, rendered, crossplane, there, thing>>
\* Taken off once more, then let go so that Crossplane drops its finalizer.
LetGo(ok) ==
    /\ comp = "live" /\ noted /\ xr = "deleting" /\ paused
    /\ \/ ~ok /\ ReleasePart
       \/ /\ ok /\ releaseComposed /\ paused' = FALSE
          /\ UNCHANGED <<comp, noted, rendered, claim, xr, synced, inflight,
                         there, thing>>

\* Wrappers and seeders go without what they manage; one that is still owned,
\* or would take it along, is left.
Droppable == {o \in there \cap Orphans : o \notin ref /\ o \in orphan}
Dropped == there \ Droppable

\* Nothing of the composite is left to take over: the app is rendered under
\* the names it had, and what is missing is made.
Render ==
    /\ comp = "live" /\ noted /\ xr = "gone" /\ claim = "gone"
    /\ rendered' = TRUE
    /\ taken' = taken \cup Inventoried
    /\ there' = Dropped \cup {o \in Objects : Kind[o] = "direct"}
    /\ orphan' = orphan \cap there' /\ ref' = ref \cap there'
    /\ thing' = thing \cup Own
    /\ mine' = mine \cup {o \in Objects : Kind[o] = "inside"}
    /\ UNCHANGED <<comp, noted, crossplane>>

----------------------------------------------------------------------------
(* A Component that is being removed. *)

\* What the inventory names is deleted, and what manages it by name with it.
deleteRendered(th, T) ==
    /\ there' = th \ {o \in T : Kind[o] = "direct"}
    /\ thing' = thing \ (T \cap Own)

\* Wrong: a handoff that was begun is not finished.
UninstallAtOnce ==
    /\ comp = "deleting"
    /\ deleteRendered(there, taken)
    /\ comp' = "gone"
    /\ UNCHANGED <<noted, taken, rendered, crossplane, ref, orphan, mine>>
\* handOffOnDelete with nothing begun or nothing left, then the finalizer.
Uninstall ==
    /\ comp = "deleting"
    /\ ~noted \/ xr = "gone" \/ ~paused
    /\ LET th == IF noted /\ xr = "gone" THEN Dropped ELSE there
       IN  deleteRendered(th, taken)
    /\ ref' = ref \cap there' /\ orphan' = orphan \cap there'
    /\ comp' = "gone"
    /\ UNCHANGED <<noted, taken, rendered, crossplane, mine>>
UninstallHandoff(ok) ==
    /\ comp = "deleting" /\ noted /\ xr \in {"live", "deleting"} /\ paused
    /\ \/ ~ok /\ ReleasePart
       \/ /\ ok /\ ref' = {} /\ taken' = recordTaken
          /\ mine' = mine \cup {o \in there \cap thing : Kind[o] = "inside"}
          /\ orphan' = {}
          /\ IF xr = "live"
             THEN /\ there' = there \ Orphans
                  /\ deleteClaim
                  /\ UNCHANGED <<comp, paused, thing>>
             ELSE /\ paused' = FALSE
                  /\ deleteRendered(there \ Orphans, taken')
                  /\ comp' = "gone"
                  /\ UNCHANGED claim
          /\ UNCHANGED <<noted, rendered, xr, synced, inflight>>

----------------------------------------------------------------------------
(* Crossplane, its providers and the garbage collector. *)

\* A pass over the composite starts unless it is paused, and composes.
ComposeBegins ==
    /\ xr = "live" /\ ~paused /\ ~inflight
    /\ inflight' = TRUE /\ synced' = FALSE
    /\ UNCHANGED <<comp, noted, taken, rendered, claim, xr, paused, composed>>
Compose(o) ==
    /\ inflight
    /\ there' = there \cup {o} /\ ref' = ref \cup {o}
    /\ orphan' = orphan \ {o} /\ thing' = thing \cup {o}
    /\ UNCHANGED <<comp, noted, taken, rendered, crossplane, mine>>
ComposeEnds ==
    /\ inflight /\ inflight' = FALSE
    /\ UNCHANGED <<comp, noted, taken, rendered, claim, xr, paused, synced,
                   composed>>
SaysPaused ==
    /\ xr \in {"live", "deleting"} /\ paused /\ ~inflight /\ ~synced
    /\ synced' = TRUE
    /\ UNCHANGED <<comp, noted, taken, rendered, claim, xr, paused, inflight,
                   composed>>

\* The claim's deletion deletes the composite; the claim then goes.
DeletesComposite ==
    /\ claim = "deleting" /\ xr = "live"
    /\ xr' = "deleting"
    /\ UNCHANGED <<comp, noted, taken, rendered, claim, paused, synced,
                   inflight, composed>>
ClaimGoes ==
    /\ claim = "deleting" /\ xr # "live"
    /\ claim' = "gone"
    /\ UNCHANGED <<comp, noted, taken, rendered, xr, paused, synced, inflight,
                   composed>>
CompositeGoes ==
    /\ xr = "deleting" /\ ~paused /\ ~inflight
    /\ xr' = "gone"
    /\ UNCHANGED <<comp, noted, taken, rendered, claim, paused, synced,
                   inflight, composed>>

\* An object whose owner is gone is deleted, and what it manages with it
\* unless it is set to orphan that.
Collect(o) ==
    /\ xr = "gone" /\ o \in ref
    /\ there' = there \ {o} /\ ref' = ref \ {o} /\ orphan' = orphan \ {o}
    /\ thing' = IF o \in orphan \/ Kind[o] = "watched" THEN thing ELSE thing \ {o}
    /\ UNCHANGED <<comp, noted, taken, rendered, crossplane, mine>>
\* The Component's own references: the claim, and what was marked its own.
CollectOwned ==
    /\ comp = "gone" /\ (claim = "bound" \/ mine \cap thing # {})
    /\ deleteClaim /\ thing' = thing \ mine
    /\ UNCHANGED <<comp, noted, taken, rendered, xr, paused, synced, inflight,
                   there, ref, orphan, mine>>
\* A wrapper makes what it wraps again.
Remake(o) ==
    /\ o \in (there \cap Own) \ thing
    /\ thing' = thing \cup {o}
    /\ UNCHANGED <<comp, noted, taken, rendered, crossplane, there, ref, orphan,
                   mine>>

\* Late: while a composite that has been let go is still there.
DeleteComponent ==
    /\ comp = "live"
    /\ IF xr = "deleting" /\ ~paused THEN "lateUninstall" \in Faults
       ELSE "uninstall" \in Faults
    /\ comp' = "deleting"
    /\ UNCHANGED <<noted, taken, rendered, crossplane, composed>>

----------------------------------------------------------------------------

Init ==
    /\ comp = "live" /\ noted = FALSE /\ taken = {} /\ rendered = FALSE
    /\ claim = "bound" /\ xr = "live" /\ paused = FALSE /\ synced = FALSE
    /\ inflight = FALSE
    /\ there = Objects \ Late /\ ref = there
    /\ orphan = {} /\ thing = there /\ mine = {}

Passes == IF "partial" \in Faults THEN BOOLEAN ELSE {TRUE}
Reconcile(ok) == \/ Note \/ Pause \/ Release(ok) \/ LetGo(ok) \/ Render
                 \/ Uninstall \/ UninstallHandoff(ok)
Providers ==
    \/ ComposeEnds \/ SaysPaused
    \/ DeletesComposite \/ ClaimGoes \/ CompositeGoes \/ CollectOwned
Objectwise(o) == Collect(o) \/ Remake(o)

Next ==
    \/ \E ok \in Passes : Reconcile(ok)
    \/ Providers \/ DeleteComponent \/ ComposeBegins
    \/ \E o \in Objects : Compose(o) \/ Objectwise(o)

Spec == Init /\ [][Next]_vars

\* A pass that waits asks for another (componentRequeue), and one that failed
\* on the way is not the last; Crossplane, its providers and the garbage
\* collector do what is theirs to do.
FairSpec ==
    /\ Spec
    /\ WF_vars(Reconcile(TRUE))
    /\ WF_vars(ComposeEnds) /\ WF_vars(SaysPaused)
    /\ WF_vars(DeletesComposite) /\ WF_vars(ClaimGoes)
    /\ WF_vars(CompositeGoes) /\ WF_vars(CollectOwned)
    /\ \A o \in Objects : WF_vars(Collect(o)) /\ WF_vars(Remake(o))

----------------------------------------------------------------------------
(* Properties. *)

\* "What the composite composed stays where it is ... Nothing is installed
\* again": while the Component is not uninstalled, nothing that was composed
\* for the app goes.
NothingLost ==
    [][comp = "live" => thing \subseteq thing']_vars

\* A composed object that nothing owns is one the Component knows of, so that
\* it goes with it whatever ends the handoff: once the composite has been let
\* go, there is no second chance to record it.
TakenIsRecorded ==
    noted /\ xr # "live" /\ ~paused /\ comp # "gone" =>
        \A o \in there \cap Inventoried : o \in ref \/ o \in taken

\* The handoff comes to its end: the app is rendered, or the Component gone.
HandoffEnds == <>(rendered \/ comp # "live")

\* What was composed for the app goes with the Component, and nothing makes it
\* again; what was only watched, and paths that were seeded, stay.
NothingLeft == <>[](comp # "live" => comp = "gone" /\ thing \cap Own = {})

=============================================================================
