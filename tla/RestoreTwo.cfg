\* Two restores of one app from one uploaded bundle, one after the other; status writes are
\* lost, the maintenance command fails, the tidying up fails, restores are deleted and pods
\* outlive their Jobs.
SPECIFICATION Spec
CONSTANTS
  r1 = r1
  r2 = r2
  one = r1
  files = files
  wiki = wiki
  notes = notes
  b1 = b1
  b2 = b2
  Restores = {r1, r2}
  Apps = {files}
  Units = {"db"}
  TenantWide = "tenant"
  Stamp <- StampsApart
  NameRank <- RestoreNames
  AppRank <- AppNames
  Bundles = {b1, b2}
  Bundle <- SameBundle
  Uploaded = {b1}
  BundleApps = {files}
  BundleRetained = {}
  Requested <- AllRequested
  QuiesceMode <- BothModes
  Replicas <- TwoReplicas
  WithKey = {}
  WithSecrets = {files}
  WithCommands = {}
  FirstApps = {files}
  Routed = {files}
  Published = {}
  exportMaxAttempts = 0
  Faults = {"lost", "hook", "delete", "tidy", "uninstall", "orphan", "export", "wake"}
INVARIANTS
  OneRestoreAtATime
  SecretsBeforeData
  ReadyIsRestored
\* Once every restore is gone or over, nothing happens.
CHECK_DEADLOCK FALSE
