---------------------------- MODULE RestoreHold ----------------------------
(***************************************************************************)
(* The edge's hold on an app being restored.  The component reconciler     *)
(* reads which apps the restores of its namespace hold back, brings the    *)
(* routes that exist to that, and much later in the same pass writes its   *)
(* routes whole by what it read first.                                     *)
(*                                                                         *)
(* An app stands for the component that installs it and for its routes:    *)
(* they are all written by the one pass, which is never run twice at once  *)
(* for one component.                                                      *)
(***************************************************************************)
CONSTANTS
    Apps,       \* names of apps
    Routed,     \* apps whose routes are there from the start
    Published   \* apps the component reconciler is to write routes for

VARIABLES
    installed,  \* apps with a Component
    holding,    \* apps the restores hold back now, by TenantRestore.HoldsBack
    route,      \* what an app's routes do
    pass,       \* the pass of the component reconciler over an app
    queue       \* components waiting for a pass

edge == <<route, pass, queue>>

RouteStates == {"absent", "open", "held"}
Idle == [at |-> "idle", held |-> FALSE]
Passes == [at : {"idle", "read", "applied"}, held : BOOLEAN]

HoldInit ==
    /\ route = [a \in Apps |-> IF a \in Routed THEN "open" ELSE "absent"]
    /\ pass = [a \in Apps |-> Idle]
    /\ queue = {}

\* Wrong: only the beginning of a hold wakes the components.
restoreHoldBegan == queue' = queue \cup (IF holding' \ holding # {} THEN installed ELSE {})
\* A step of a restore wakes every component of the namespace when what the
\* restores hold back changes.
restoreHoldChanged ==
    queue' = queue \cup (IF holding' # holding THEN installed ELSE {})

\* An app with no routes is unreachable already.
restoreHoldInPlace(a) == route[a] # "open"
routeFor(held) == IF held THEN "held" ELSE "open"

heldForRestore(a) ==
    /\ a \in queue /\ pass[a].at = "idle"
    /\ queue' = queue \ {a}
    /\ pass' = [pass EXCEPT ![a] = [at |-> "read", held |-> a \in holding]]
    /\ UNCHANGED route

\* holdRoute and releaseRoute, over the routes that exist.
applyRestoreHold(a) ==
    /\ pass[a].at = "read"
    /\ route' = [route EXCEPT ![a] =
           IF @ = "absent" THEN @ ELSE routeFor(pass[a].held)]
    /\ pass' = [pass EXCEPT ![a].at = "applied"]
    /\ UNCHANGED queue

\* The rest of the pass: the routes are built whole and, by what was read at
\* its start, held or not; or something ends the pass before that.
withRestoreHold(a) ==
    /\ pass[a].at = "applied"
    /\ route' = [route EXCEPT ![a] =
           IF a \in Published THEN routeFor(pass[a].held) ELSE @]
    /\ pass' = [pass EXCEPT ![a] = Idle]
    /\ UNCHANGED queue
EndsEarly(a) ==
    /\ pass[a].at = "applied"
    /\ pass' = [pass EXCEPT ![a] = Idle]
    /\ UNCHANGED <<route, queue>>

\* Anything else that wakes the component: its profile, its release.
OtherEvent(a) ==
    /\ a \in installed \ queue
    /\ queue' = queue \cup {a}
    /\ UNCHANGED <<route, pass>>

ComponentPass(a) ==
    heldForRestore(a) \/ applyRestoreHold(a) \/ withRestoreHold(a) \/ EndsEarly(a)
=============================================================================
