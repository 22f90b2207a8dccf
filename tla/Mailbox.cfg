\* Two records about an address that two people hold, one after the other.
SPECIFICATION Spec
CONSTANTS
  r1 = r1
  r2 = r2
  Records = {r1, r2}
  Choice <- ChoiceOf
  MaxPeople = 2
  MaxRuns = 2
  Faults = {"removal", "withdraw", "jobs", "host", "unsynced", "restore"}
INVARIANTS
  NothingForTheNext
PROPERTIES
  HolderUntouched
  LastDecisionDecides
\* Once every record is settled and every person removed, nothing happens.
CHECK_DEADLOCK FALSE
