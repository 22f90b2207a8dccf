\* One export of one app that comes and goes; Jobs are collected, taken by others and outlive their deletion; the tenant goes.
SPECIFICATION Spec
CONSTANTS
  e1 = e1
  e2 = e2
  files = files
  wiki = wiki
  Exports = {e1}
  Apps = {files}
  Units = {"db"}
  TenantWide = "tenant"
  Manifest = "manifest"
  Stamp <- StampsApart
  NameRank <- ExportNames
  AppRank <- AppNames
  Requested <- AllRequested
  QuiesceMode <- BothModes
  Replicas <- TwoReplicas
  NeedsSource = {}
  ClaimOnly = {}
  FirstApps = {files}
  exportMaxAttempts = 1
  Faults = {"delete", "ttl", "foreign", "orphan", "destination", "teardown", "lateHook", "resumeHook", "uninstall", "rights"}
INVARIANTS
  ManifestLast
  BegunIsCaptured
PROPERTIES
  BackupOutlivesTenant
\* Once every export is gone and none is left to make, nothing happens.
CHECK_DEADLOCK FALSE
