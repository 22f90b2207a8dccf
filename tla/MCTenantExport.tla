--------------------------- MODULE MCTenantExport ---------------------------
(* Small instances of TenantExport: two exports, two apps. *)
EXTENDS TenantExport

CONSTANTS e1, e2, files, wiki

\* e1 is made in an earlier second than e2, or in the same one.
StampsApart == [e \in Exports |-> IF e = e1 THEN 1 ELSE 2]
OneSecond == [e \in Exports |-> 1]
\* The names come in the order e1, e2 and files, wiki.
ExportNames == [e \in Exports |-> IF e = e1 THEN 1 ELSE 2]
AppNames == [a \in Apps |-> IF a = files THEN 1 ELSE 2]
\* spec.apps left empty: every export asks for everything.
AllRequested == [e \in Exports |-> {}]
\* files is put into maintenance by its own command, wiki is scaled down.
BothModes == [a \in Apps |-> IF a = files THEN "command" ELSE "scaleDown"]
TwoReplicas == [a \in Apps |-> 2]
=============================================================================
