CONSTANTS
  Versions = {1, 2}
  OnDisk <- MCOnDisk
  MaxArchives = 3
  MaxEntries = 4
  MaxScripts = 2
  NULL = NULL
SPECIFICATION FairSpec
INVARIANTS
  TypeOK
  VersionLive
  VersionOfScripts
  ExitReleases
PROPERTIES
  Terminates
CHECK_DEADLOCK FALSE
