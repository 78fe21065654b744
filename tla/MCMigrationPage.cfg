SPECIFICATION FairPageSpec
CONSTANTS
  Inputs <- MCInputs
  Offered = {"migration_infra", "migrate_acls"}
  Clusters <- MCClusters
  MaxRequests = 2
INVARIANTS
  RequestOnScreen
  ViewerShowsFiles
  StoredFilesConfirmed
PROPERTIES
  WizardComesBack
