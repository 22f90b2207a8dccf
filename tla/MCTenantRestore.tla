-------------------------- MODULE MCTenantRestore --------------------------
(* Small instances of TenantRestore: two restores, three apps. *)
EXTENDS RestoreRefinement

CONSTANTS r1, r2, files, wiki, notes, b1, b2

StampsApart == [r \in Restores |-> IF r = r1 THEN 1 ELSE 2]
RestoreNames == [r \in Restores |-> IF r = r1 THEN 1 ELSE 2]
AppNames ==
    [a \in Apps |-> CASE a = files -> 1 [] a = wiki -> 2 [] a = notes -> 3]
AllRequested == [r \in Restores |-> {}]
\* Each restore has its own bundle; or both put back the same one.
OwnBundles == [r \in Restores |-> IF r = r1 THEN b1 ELSE b2]
SameBundle == [r \in Restores |-> b1]
\* files is put into maintenance by its own command, wiki is scaled down.
BothModes == [a \in Apps |-> IF a = files THEN "command" ELSE "scaleDown"]
TwoReplicas == [a \in Apps |-> 2]
=============================================================================
