\* Two records about one person; Jobs fail and lose their word, status writes are lost, the tenant goes away, listings fail.
SPECIFICATION FairSpec
CONSTANTS
  r1 = r1
  r2 = r2
  Records = {r1, r2}
  Choice <- ChoiceOf
  MaxPeople = 1
  MaxRuns = 2
  Faults = {"removal", "withdraw", "jobs", "word", "lost", "host", "unlisted"}
PROPERTIES
  RecordsSettle
  MailDealtWith
\* Once every record is settled and every person removed, nothing happens.
CHECK_DEADLOCK FALSE
