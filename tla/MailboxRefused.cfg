\* The address is given to somebody while the Job runs.
SPECIFICATION Spec
CONSTANTS
  r1 = r1
  r2 = r2
  Records = {r1, r2}
  Choice <- ChoiceOf
  MaxPeople = 2
  MaxRuns = 2
  Faults = {"race"}
INVARIANTS
  RefusedChangesNothing
\* Once every record is settled and every person removed, nothing happens.
CHECK_DEADLOCK FALSE
