------------------------------ MODULE AppPause ------------------------------
(***************************************************************************)
(* How an app is paused and resumed: what TenantReconciler does to its     *)
(* workloads for an export and for a restore alike.  A workload is a       *)
(* record of its replicas, the memo annotation that keeps the count it had *)
(* before it was scaled to zero, and whether its own maintenance command   *)
(* holds people out.                                                       *)
(***************************************************************************)
EXTENDS Integers

CONSTANTS
    Apps,         \* names of apps the tenant may have
    QuiesceMode,  \* [Apps -> Modes] spec.backup.quiesce.mode
    Replicas,     \* [Apps -> Nat] what an app is scaled to
    Faults        \* which faults of the environment may happen

Modes == {"none", "command", "scaleDown"}
NoMemo == -1

Fresh(a) == [replicas |-> Replicas[a], memo |-> NoMemo, maint |-> FALSE]

\* Wrong: the memo is taken anew on every pass; a resume trusts any memo.
ScaleToZeroTwice(w) == [w EXCEPT !.memo = w.replicas, !.replicas = 0]
ScaleBackBlindly(w) == [w EXCEPT !.replicas = w.memo, !.memo = NoMemo]

\* Two forms of one workload write: the memo annotation keeps the first
\* count seen, and resuming a workload without one leaves it alone.
ScaleToZero(w) ==
    [w EXCEPT !.memo = IF @ = NoMemo THEN w.replicas ELSE @,
              !.replicas = 0]
ScaleBack(w) ==
    IF w.memo = NoMemo THEN w
    ELSE [w EXCEPT !.replicas = w.memo, !.memo = NoMemo]

\* The results an exec of a hook can have: "late" is a hook that took effect
\* and was reported failed, since the process outlives the exec.
PreHook(w) ==
    (IF w.replicas > 0 THEN {"ok"} ELSE {"error"})
        \cup (IF "hook" \in Faults THEN {"error"} ELSE {})
        \cup (IF "lateHook" \in Faults /\ w.replicas > 0 THEN {"late"} ELSE {})
PostHook(w) ==
    (IF w.replicas > 0 THEN {"ok"} ELSE {"error"})
        \cup (IF "resumeHook" \in Faults THEN {"error"} ELSE {})

\* quiesceApp returns the mode it used, not the one asked for.
quiesceMode(a, hook) ==
    CASE QuiesceMode[a] = "none" -> "none"
      [] QuiesceMode[a] = "command" /\ hook = "ok" -> "command"
      [] OTHER -> "scaleDown"
quiesceApp(a, w, hook) ==
    LET entered == [w EXCEPT !.maint = @ \/ (QuiesceMode[a] = "command"
                                              /\ hook \in {"ok", "late"})]
    IN  IF quiesceMode(a, hook) = "scaleDown" THEN ScaleToZero(entered)
        ELSE entered

\* Wrong: an app paused by its command is only scaled.
unquiesceByScaling(w, mode, hook) == ScaleBack(w)
unquiesceApp(w, mode, hook) ==
    IF mode = "command" /\ hook = "ok" THEN [w EXCEPT !.maint = FALSE]
    ELSE ScaleBack(w)

Frozen(w) == w.replicas = 0 \/ w.maint

=============================================================================
