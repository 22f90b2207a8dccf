\* One restore of three apps, one paused by its command, one by scaling and one
\* uninstalled with its data kept; whatever can fail on the way fails.
SPECIFICATION FairSpec
CONSTANTS
  r1 = r1
  r2 = r2
  one = r1
  files = files
  wiki = wiki
  notes = notes
  b1 = b1
  b2 = b2
  Restores = {r1}
  Apps = {files, wiki, notes}
  Units = {"db"}
  TenantWide = "tenant"
  Stamp <- StampsApart
  NameRank <- RestoreNames
  AppRank <- AppNames
  Bundles = {b1, b2}
  Bundle <- OwnBundles
  Uploaded = {}
  BundleApps = {files, wiki, notes}
  BundleRetained = {notes}
  Requested <- AllRequested
  QuiesceMode <- BothModes
  Replicas <- TwoReplicas
  WithKey = {r1}
  WithSecrets = {files}
  WithCommands = {wiki}
  FirstApps = {files, wiki}
  Routed = {files, wiki}
  Published = {files}
  exportMaxAttempts = 0
  Faults = {"secrets", "commands", "podTimeout", "holdTimeout", "rights", "pause", "tenant", "foreign", "enumerate", "export"}
INVARIANTS
  TypeOK
  HeldWhileTouched
  LoadUnderPause
  ReadyServesRestored
PROPERTIES
  KeepsPromise
  EveryRestoreEnds
  AppsComeBack
  RoutesReleased
  KeyDiscarded
\* Once every restore is gone or over, nothing happens.
CHECK_DEADLOCK FALSE
