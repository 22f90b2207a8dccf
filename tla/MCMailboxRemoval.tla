-------------------------- MODULE MCMailboxRemoval --------------------------
(* The first record says delete and the second archive. *)
EXTENDS MailboxRemoval
CONSTANTS r1, r2
ChoiceOf == [r \in Records |-> IF r = r1 THEN "delete" ELSE "archive"]
=============================================================================
