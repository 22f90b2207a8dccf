------------------------- MODULE RestorePromiseProofs -------------------------
(***************************************************************************)
(* What the promise of a restore comes to for whoever reaches an app, for  *)
(* any apps.  That the controller keeps the promise is PromiseIsKept of    *)
(* RestoreRefinementProofs; here it is shown what that is worth.           *)
(***************************************************************************)
EXTENDS RestorePromise, TLAPS

\* Only what was planned is replaced, and only behind a closed edge; a restore
\* that is done has left nothing half way.
PromiseInv ==
    /\ reach \in [Apps -> {"open", "closed"}]
    /\ content \in [Apps -> {"old", "part", "back"}]
    /\ \A a \in Apps : content[a] # "old" => a \in plan /\ run # "waiting"
    /\ \A a \in Apps :
          reach[a] = "open" /\ run \in {"waiting", "working"} =>
              content[a] = "old"
    /\ run = "done" => \A a \in plan \cap Apps : content[a] = "back"
    /\ run \in {"waiting", "working", "done", "stopped"}

LEMMA PromiseStep == PromiseInv /\ [Next]_vars => PromiseInv'
  <1> SUFFICES ASSUME PromiseInv, [Next]_vars PROVE PromiseInv'
    OBVIOUS
  <1> USE DEF PromiseInv, Over
  <1>1. CASE Start
    BY <1>1 DEF Start
  <1>2. CASE Finish
    BY <1>2 DEF Finish
  <1>3. CASE Stop
    BY <1>3 DEF Stop
  <1>4. ASSUME NEW a \in Apps, Close(a) PROVE PromiseInv'
    BY <1>4 DEF Close
  <1>5. ASSUME NEW a \in Apps, Open(a) PROVE PromiseInv'
    BY <1>5 DEF Open
  <1>6. ASSUME NEW a \in Apps, Replace(a) PROVE PromiseInv'
    BY <1>6 DEF Replace
  <1>7. CASE UNCHANGED vars
    BY <1>7 DEF vars
  <1> QED
    BY <1>1, <1>2, <1>3, <1>4, <1>5, <1>6, <1>7 DEF Next

\* Whoever reaches an app finds all of the old content or all of the restored
\* one, unless the restore was stopped: what the hold at the edge
\* (restore_hold.go) and the order of the restore are for.
THEOREM Promise == Spec => []NeverHalfRestored
  <1>1. Init => PromiseInv
    BY DEF Init, PromiseInv
  <1>2. PromiseInv => NeverHalfRestored
    BY DEF PromiseInv, NeverHalfRestored
  <1> QED
    BY <1>1, <1>2, PromiseStep, PTL DEF Spec

=============================================================================
