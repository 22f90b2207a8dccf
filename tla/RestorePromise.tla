--------------------------- MODULE RestorePromise ---------------------------
(***************************************************************************)
(* What one restore promises the people of a tenant, with nothing of how:  *)
(* an app's content changes only behind a closed edge, the edge opens      *)
(* again only when the restore is over, and a restore that is done has     *)
(* brought everything it planned.                                          *)
(***************************************************************************)
CONSTANT Apps

VARIABLES
    run,      \* "waiting", "working", "done" or "stopped"
    plan,     \* the apps the restore is to bring back
    reach,    \* whether people reach an app: "open" or "closed"
    content   \* of an app: "old", "part" or "back"

vars == <<run, plan, reach, content>>
Over == {"done", "stopped"}

Init ==
    /\ run = "waiting"
    /\ plan = {}
    /\ reach \in [Apps -> {"open", "closed"}]
    /\ content = [a \in Apps |-> "old"]

Start ==
    /\ run = "waiting" /\ run' = "working"
    /\ plan' \in SUBSET Apps
    /\ UNCHANGED <<reach, content>>

Close(a) ==
    /\ reach[a] = "open"
    /\ reach' = [reach EXCEPT ![a] = "closed"]
    /\ UNCHANGED <<run, plan, content>>

\* Untouched apps may open at any time.
Open(a) ==
    /\ reach[a] = "closed"
    /\ run \in Over \/ content[a] = "old"
    /\ reach' = [reach EXCEPT ![a] = "open"]
    /\ UNCHANGED <<run, plan, content>>

Replace(a) ==
    /\ run = "working" /\ a \in plan /\ reach[a] = "closed"
    /\ \E c \in {"part", "back"} : content' = [content EXCEPT ![a] = c]
    /\ UNCHANGED <<run, plan, reach>>

Finish ==
    /\ run = "working" /\ \A a \in plan : content[a] = "back"
    /\ run' = "done"
    /\ UNCHANGED <<plan, reach, content>>

Stop ==
    /\ run \notin Over /\ run' = "stopped"
    /\ UNCHANGED <<plan, reach, content>>

Next ==
    \/ Start \/ Finish \/ Stop
    \/ \E a \in Apps : Close(a) \/ Open(a) \/ Replace(a)

Spec == Init /\ [][Next]_vars

\* What it comes to: whoever reaches an app finds all of the old content or
\* all of the restored one, unless the restore was stopped.
NeverHalfRestored ==
    \A a \in Apps :
        reach[a] = "open" /\ run # "stopped" => content[a] # "part"
=============================================================================
