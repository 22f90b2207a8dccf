---------------------------- MODULE MCTenantRuns ----------------------------
(* One export and one restore of one app that is scaled down. *)
EXTENDS TenantRuns

CONSTANTS e1, r1, wiki, b1

ExportSecond == [e \in Exports |-> 1]
RestoreSecond == [r \in Restores |-> 1]
OnlyName == [a \in Apps |-> 1]
AllApps == [e \in Exports |-> {}]
AllRestored == [r \in Restores |-> {}]
OneBundle == [r \in Restores |-> b1]
ScaledDown == [a \in Apps |-> "scaleDown"]
TwoReplicas == [a \in Apps |-> 2]
=============================================================================
