\* One export and one restore of one app.
SPECIFICATION Spec
CONSTANTS
  e1 = e1
  r1 = r1
  wiki = wiki
  b1 = b1
  Exports = {e1}
  Restores = {r1}
  Apps = {wiki}
  Units = {"db"}
  TenantWide = "tenant"
  Manifest = "manifest"
  ExportStamp <- ExportSecond
  ExportRank <- ExportSecond
  ExportApps <- AllApps
  RestoreStamp <- RestoreSecond
  RestoreRank <- RestoreSecond
  RestoreApps <- AllRestored
  NeedsSource = {}
  ClaimOnly = {}
  Bundles = {b1}
  Bundle <- OneBundle
  Uploaded = {}
  BundleApps = {wiki}
  BundleRetained = {}
  WithKey = {}
  WithSecrets = {}
  WithCommands = {}
  Routed = {wiki}
  Published = {}
  AppRank <- OnlyName
  QuiesceMode <- ScaledDown
  Replicas <- TwoReplicas
  FirstApps = {wiki}
  exportMaxAttempts = 0
  Faults = {}
INVARIANT
  NoCaptureWhileLoading
\* Once both are over, nothing happens.
CHECK_DEADLOCK FALSE
