\* Two exports of two apps; hooks, pauses and captures fail.
SPECIFICATION Spec
CONSTANTS
  e1 = e1
  e2 = e2
  files = files
  wiki = wiki
  Exports = {e1, e2}
  Apps = {files, wiki}
  Units = {"db"}
  TenantWide = "tenant"
  Manifest = "manifest"
  Stamp <- StampsApart
  NameRank <- ExportNames
  AppRank <- AppNames
  Requested <- AllRequested
  QuiesceMode <- BothModes
  Replicas <- TwoReplicas
  NeedsSource = {}
  ClaimOnly = {}
  FirstApps = {files, wiki}
  exportMaxAttempts = 1
  Faults = {"delete", "hook", "secrets", "pause", "enumerate"}
INVARIANTS
  TypeOK
  CaptureUnderPause
  PausedIsRecorded
  ReadyIsComplete
  DeletedBundleIsGone
\* Once every export is gone and none is left to make, nothing happens.
CHECK_DEADLOCK FALSE
