\* Two exports of one app, the second waiting for the first; the tidying up and the cleanup fail, an export is deleted at any point.
SPECIFICATION FairSpec
CONSTANTS
  e1 = e1
  e2 = e2
  files = files
  wiki = wiki
  Exports = {e1, e2}
  Apps = {wiki}
  Units = {"db"}
  TenantWide = "tenant"
  Manifest = "manifest"
  Stamp <- StampsApart
  NameRank <- ExportNames
  AppRank <- AppNames
  Requested <- AllRequested
  QuiesceMode <- BothModes
  Replicas <- TwoReplicas
  NeedsSource = {e1}
  ClaimOnly = {}
  FirstApps = {}
  exportMaxAttempts = 0
  Faults = {"tidy", "delete", "cleanup", "install"}
PROPERTIES
  EveryExportEnds
  AppsComeBack
  SecretsDiscarded
  DeletionEnds
\* Once every export is gone and none is left to make, nothing happens.
CHECK_DEADLOCK FALSE
