------------------------- MODULE RestoreRefinement -------------------------
(***************************************************************************)
(* One restore as the people of the tenant see it: TenantRestore shown to  *)
(* implement RestorePromise.                                               *)
(***************************************************************************)
EXTENDS TenantRestore

CONSTANT one   \* the restore that is looked at

ASSUME OneIsARestore == one \in Restores

runOf(r) ==
    CASE obj[r] \in {"deleting", "gone"} /\ status[r].phase # "Ready" -> "stopped"
      [] status[r].phase = "Ready" -> "done"
      [] status[r].phase = "Failed" -> "stopped"
      [] status[r].started /\ ~IsTerminal(status[r]) -> "working"
      [] OTHER -> "waiting"
contentOf(r, a) ==
    CASE \A u \in Units : data[a][u] = Bundle[r] -> "back"
      [] \A u \in Units : data[a][u] = "old" -> "old"
      [] OTHER -> "part"

\* The controller, the Jobs and the edge together keep the promise of a
\* restore: no content changes in front of people, none after the restore is
\* over, and Ready means the plan is back.
Promise ==
    INSTANCE RestorePromise WITH
        run <- runOf(one), plan <- status[one].plan,
        reach <- [a \in Apps |-> IF route[a] = "open" THEN "open" ELSE "closed"],
        content <- [a \in Apps |-> contentOf(one, a)]
KeepsPromise == Promise!Spec

=============================================================================
