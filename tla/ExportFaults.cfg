\* Two exports of one app; status writes are lost at every step.
SPECIFICATION Spec
CONSTANTS
  e1 = e1
  e2 = e2
  files = files
  wiki = wiki
  Exports = {e1, e2}
  Apps = {wiki}
  Units = {"db"}
  TenantWide = "tenant"
  Manifest = "manifest"
  Stamp <- StampsApart
  NameRank <- ExportNames
  AppRank <- AppNames
  Requested <- AllRequested
  QuiesceMode <- BothModes
  Replicas <- TwoReplicas
  NeedsSource = {e1}
  ClaimOnly = {}
  FirstApps = {wiki}
  exportMaxAttempts = 1
  Faults = {"delete", "hook", "secrets", "pause", "enumerate", "lost", "source", "tidy", "cleanup"}
INVARIANTS
  OneExportAtATime
  MemoSound
  RecordIsBacked
PROPERTIES
  EndIsFinal
\* Once every export is gone and none is left to make, nothing happens.
CHECK_DEADLOCK FALSE
