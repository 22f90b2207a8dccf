----------------------- MODULE ComponentHandoffProofs -----------------------
(***************************************************************************)
(* For any composed objects of any kinds, and with a Component uninstalled *)
(* and passes failing at any point: nothing that was composed for the app  *)
(* goes while its Component lives, and a composite that has been let go    *)
(* leaves nothing that is unknown to the Component.                        *)
(*                                                                         *)
(* Both rest on the order of the handoff: the claim is deleted only under  *)
(* a pause that Crossplane has confirmed, and the pause is lifted only     *)
(* once nothing is owned any more.                                         *)
(***************************************************************************)
EXTENDS ComponentHandoff, TLAPS

\* What is owned is one of the composed objects.
Shape == ref \subseteq Objects /\ there \subseteq Objects

\* The claim goes first, and only in a handoff that is on record.
ClaimFirst ==
    /\ xr # "live" => claim # "bound"
    /\ comp # "gone" /\ claim # "bound" => noted
    /\ comp # "gone" /\ claim # "bound" /\ xr = "live" => paused

\* The word that it has stopped: Crossplane is not at work.
Stopped == synced => ~inflight
\* While the Component lives, the claim goes only once that was confirmed.
UnderPause ==
    comp = "live" /\ claim # "bound" =>
        ~inflight /\ (xr = "live" => paused /\ synced)
\* The composite is let go when it owns nothing.
OwnsNothing ==
    comp = "live" /\ xr # "live" /\ (xr = "gone" \/ ~paused) => ref = {}

Inv == Shape /\ ClaimFirst /\ Stopped /\ UnderPause /\ OwnsNothing
           /\ TakenIsRecorded

LEMMA InitInv == Init => Inv
  BY DEF Init, Inv, Shape, ClaimFirst, Stopped, UnderPause, OwnsNothing,
         TakenIsRecorded

\* A pass that failed on the way has taken off some references, under a pause.
LEMMA PartInv ==
    ASSUME Inv, ReleasePart, paused
    PROVE  Inv'
  <1>1. PICK S \in SUBSET there : released(S)
    BY DEF ReleasePart
  <1>2. ref' = ref \ S
    BY <1>1 DEF released
  <1>3. UNCHANGED <<taken, there, thing, comp, noted, rendered, claim, xr,
                    paused, synced, inflight>>
    BY DEF ReleasePart, crossplane
  <1> QED
    BY <1>2, <1>3 DEF Inv, Shape, ClaimFirst, Stopped, UnderPause, OwnsNothing,
                      TakenIsRecorded

\* Everything is taken off, and all that is to be recorded is.
LEMMA ReleasedAll ==
    ASSUME Inv, releaseComposed
    PROVE  ref' = {} /\ taken' = taken \cup (Inventoried \cap there)
  BY DEF Inv, Shape, releaseComposed, released, recordTaken

\* A pass of the reconciler while the Component lives.
LEMMA LiveInv ==
    ASSUME Inv, NEW ok, Note \/ Pause \/ Release(ok) \/ LetGo(ok) \/ Render
    PROVE  Inv'
  <1>1. CASE Note
    BY <1>1 DEF Note, crossplane, composed, Inv, Shape, ClaimFirst, Stopped,
                UnderPause, OwnsNothing, TakenIsRecorded
  <1>2. CASE Pause
    BY <1>2 DEF Pause, composed, Inv, Shape, ClaimFirst, Stopped, UnderPause,
                OwnsNothing, TakenIsRecorded
  <1>3. CASE Release(ok)
    <2>1. paused /\ synced /\ xr = "live" /\ comp = "live" /\ noted
      BY <1>3 DEF Release, compositePaused
    <2>2. CASE ReleasePart
      BY <2>1, <2>2, PartInv
    <2>3. CASE /\ releaseComposed /\ deleteClaim
               /\ UNCHANGED <<comp, noted, rendered, xr, paused, synced,
                              inflight, there, thing>>
      BY <2>1, <2>3, ReleasedAll
      DEF deleteClaim, Inv, Shape, ClaimFirst, Stopped, UnderPause,
          OwnsNothing, TakenIsRecorded
    <2> QED
      BY <1>3, <2>2, <2>3 DEF Release
  <1>4. CASE LetGo(ok)
    <2>1. paused /\ xr = "deleting" /\ comp = "live" /\ noted
      BY <1>4 DEF LetGo
    <2>2. CASE ReleasePart
      BY <2>1, <2>2, PartInv
    <2>3. CASE /\ releaseComposed /\ paused' = FALSE
               /\ UNCHANGED <<comp, noted, rendered, claim, xr, synced,
                              inflight, there, thing>>
      BY <2>1, <2>3, ReleasedAll
      DEF Inv, Shape, ClaimFirst, Stopped, UnderPause, OwnsNothing,
          TakenIsRecorded
    <2> QED
      BY <1>4, <2>2, <2>3 DEF LetGo
  <1>5. CASE Render
    <2>1. /\ comp = "live" /\ xr = "gone" /\ ref' = ref \cap there'
          /\ taken' = taken \cup Inventoried
          /\ UNCHANGED <<comp, noted, claim, xr, paused, synced, inflight>>
      BY <1>5 DEF Render, crossplane
    <2>2. there' \subseteq Objects
      BY <1>5 DEF Render, Dropped, Inv, Shape
    <2> QED
      BY <2>1, <2>2 DEF Inv, Shape, ClaimFirst, Stopped, UnderPause,
                        OwnsNothing, TakenIsRecorded
  <1> QED
    BY <1>1, <1>2, <1>3, <1>4, <1>5

\* A pass over a Component that is being removed, and the wish to remove it.
LEMMA RemovalInv ==
    ASSUME Inv, NEW ok, Uninstall \/ UninstallHandoff(ok) \/ DeleteComponent
    PROVE  Inv'
  <1>1. CASE Uninstall
    <2>1. /\ comp' = "gone" /\ ref' = ref \cap there'
          /\ UNCHANGED <<noted, claim, xr, paused, synced, inflight>>
      BY <1>1 DEF Uninstall, crossplane
    <2>2. there' \subseteq there
      BY <1>1 DEF Uninstall, deleteRendered, Dropped
    <2> QED
      BY <2>1, <2>2 DEF Inv, Shape, ClaimFirst, Stopped, UnderPause,
                        OwnsNothing, TakenIsRecorded
  <1>2. CASE UninstallHandoff(ok)
    <2>1. comp = "deleting" /\ noted /\ paused /\ xr \in {"live", "deleting"}
      BY <1>2 DEF UninstallHandoff
    <2>2. CASE ReleasePart
      BY <2>1, <2>2, PartInv
    <2>3. CASE ~ReleasePart
      <3>1. ref' = {} /\ UNCHANGED <<noted, xr, synced, inflight>>
        BY <1>2, <2>3 DEF UninstallHandoff
      <3>2. CASE xr = "live"
        <4>1. /\ there' = there \ Orphans /\ deleteClaim
              /\ UNCHANGED <<comp, paused>>
          BY <1>2, <2>3, <3>2 DEF UninstallHandoff
        <4> QED
          BY <2>1, <3>1, <3>2, <4>1
          DEF deleteClaim, Inv, Shape, ClaimFirst, Stopped, UnderPause,
              OwnsNothing, TakenIsRecorded
      <3>3. CASE xr = "deleting"
        <4>1. /\ paused' = FALSE /\ comp' = "gone" /\ claim' = claim
              /\ there' \subseteq there
          BY <1>2, <2>3, <3>3 DEF UninstallHandoff, deleteRendered
        <4> QED
          BY <2>1, <3>1, <3>3, <4>1
          DEF Inv, Shape, ClaimFirst, Stopped, UnderPause, OwnsNothing,
              TakenIsRecorded
      <3> QED
        BY <2>1, <3>2, <3>3
    <2> QED
      BY <2>2, <2>3
  <1>3. CASE DeleteComponent
    BY <1>3 DEF DeleteComponent, crossplane, composed, Inv, Shape, ClaimFirst,
                Stopped, UnderPause, OwnsNothing, TakenIsRecorded
  <1> QED
    BY <1>1, <1>2, <1>3

\* A step of Crossplane or of the garbage collector on the composite.
LEMMA ProvidersInv ==
    ASSUME Inv, Providers \/ ComposeBegins
    PROVE  Inv'
  <1> USE DEF composed, Inv, Shape, ClaimFirst, Stopped, UnderPause,
              OwnsNothing, TakenIsRecorded
  <1>1. CASE ComposeBegins
    BY <1>1 DEF ComposeBegins
  <1>2. CASE ComposeEnds
    BY <1>2 DEF ComposeEnds
  <1>3. CASE SaysPaused
    BY <1>3 DEF SaysPaused
  <1>4. CASE DeletesComposite
    BY <1>4 DEF DeletesComposite
  <1>5. CASE ClaimGoes
    BY <1>5 DEF ClaimGoes
  <1>6. CASE CompositeGoes
    BY <1>6 DEF CompositeGoes
  <1>7. CASE CollectOwned
    BY <1>7 DEF CollectOwned, deleteClaim
  <1> QED
    BY <1>1, <1>2, <1>3, <1>4, <1>5, <1>6, <1>7 DEF Providers

\* A step on one composed object.
LEMMA ObjectInv ==
    ASSUME Inv, NEW o \in Objects, Compose(o) \/ Collect(o) \/ Remake(o)
    PROVE  Inv'
  <1> USE DEF crossplane, Inv, Shape, ClaimFirst, Stopped, UnderPause,
              OwnsNothing, TakenIsRecorded
  <1>1. CASE Compose(o)
    BY <1>1 DEF Compose
  <1>2. CASE Collect(o)
    BY <1>2 DEF Collect
  <1>3. CASE Remake(o)
    BY <1>3 DEF Remake
  <1> QED
    BY <1>1, <1>2, <1>3

LEMMA NextInv == Inv /\ [Next]_vars => Inv'
  <1> SUFFICES ASSUME Inv, [Next]_vars PROVE Inv'
    OBVIOUS
  <1>1. CASE \E ok \in Passes : Reconcile(ok)
    BY <1>1, LiveInv, RemovalInv DEF Reconcile
  <1>2. CASE Providers \/ ComposeBegins
    BY <1>2, ProvidersInv
  <1>3. CASE DeleteComponent
    BY <1>3, RemovalInv
  <1>4. CASE \E o \in Objects : Compose(o) \/ Objectwise(o)
    BY <1>4, ObjectInv DEF Objectwise
  <1>5. CASE UNCHANGED vars
    BY <1>5 DEF vars, Inv, Shape, ClaimFirst, Stopped, UnderPause,
                OwnsNothing, TakenIsRecorded
  <1> QED
    BY <1>1, <1>2, <1>3, <1>4, <1>5 DEF Next

LEMMA Invariance == Spec => []Inv
  BY InitInv, NextInv, PTL DEF Spec

\* What a composite that was let go composed is known to the Component or
\* still owned by the composite: recordTaken (component_handoff.go) leaves
\* nothing out, whichever passes failed before.
THEOREM Recorded == Spec => []TakenIsRecorded
  <1>1. Inv => TakenIsRecorded
    BY DEF Inv
  <1> QED
    BY <1>1, Invariance, PTL

\* A step of a living Component's handoff takes nothing of the app away.
LEMMA StepKeeps ==
    ASSUME Inv, [Next]_vars, comp = "live"
    PROVE  thing \subseteq thing'
  <1>1. CASE \E ok \in Passes : Reconcile(ok)
    <2>1. PICK ok \in Passes : Reconcile(ok)
      BY <1>1
    <2>2. CASE Render
      BY <2>2 DEF Render
    <2>3. CASE Note \/ Pause
      BY <2>3 DEF Note, Pause, composed
    <2>4. CASE Release(ok)
      BY <2>4 DEF Release, ReleasePart
    <2>5. CASE LetGo(ok)
      BY <2>5 DEF LetGo, ReleasePart
    <2> QED
      BY <2>1, <2>2, <2>3, <2>4, <2>5 DEF Reconcile, Uninstall, UninstallHandoff
  <1>2. CASE Providers
    BY <1>2 DEF Providers, ComposeEnds, SaysPaused, DeletesComposite, ClaimGoes,
                CompositeGoes, CollectOwned, composed
  <1>3. CASE DeleteComponent \/ ComposeBegins \/ UNCHANGED vars
    BY <1>3 DEF DeleteComponent, ComposeBegins, composed, vars
  <1>4. CASE \E o \in Objects : Compose(o) \/ Objectwise(o)
    BY <1>4 DEF Compose, Objectwise, Collect, Remake, Inv, OwnsNothing
  <1> QED
    BY <1>1, <1>2, <1>3, <1>4 DEF Next

\* While its Component lives, nothing that was composed for the app goes: the
\* garbage collector meets no object of the composite, because handOff
\* (component_handoff.go) lets it go only once it owns nothing.
THEOREM Kept == Spec => NothingLost
  <1>1. Inv /\ [Next]_vars => [comp = "live" => thing \subseteq thing']_vars
    BY StepKeeps
  <1> QED
    BY <1>1, Invariance, PTL DEF Spec, NothingLost

=============================================================================
