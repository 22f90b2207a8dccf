\* An app of two sound builds, one that does not come up and one every pass is held at, whose pin is moved three times.
SPECIFICATION FairSpec
CONSTANTS
  v1 = v1
  v2 = v2
  v3 = v3
  v4 = v4
  Builds = {v1, v2, v3, v4}
  FirstBuild = v1
  Broken = {v3}
  Refused = {v4}
  MaxRequests = 3
  moveExportsKept = 2
  Faults = {"lost", "verify", "delete", "held"}
INVARIANTS
  ExportFirst
PROPERTIES
  InstanceSettles
  RequestAnswered
\* Once the last request is answered, nothing happens.
CHECK_DEADLOCK FALSE
