\* An app of five composed objects, one not composed yet, taken over and perhaps uninstalled.
SPECIFICATION FairSpec
CONSTANTS
  release = release
  secret = secret
  alias = alias
  service = service
  seed = seed
  Objects = {release, secret, alias, service, seed}
  Kind <- KindOf
  Late = {alias}
  Faults = {"uninstall", "partial"}
INVARIANTS
  TakenIsRecorded
PROPERTIES
  NothingLost
  HandoffEnds
  NothingLeft
\* Once the Component is gone with all that was its own, nothing happens.
CHECK_DEADLOCK FALSE
