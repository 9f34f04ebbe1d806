SPECIFICATION InstallSpec
CONSTANTS
  Blocks = 3
  MaxRetries = 2
  Releases = 2
INVARIANT CleanInstallSucceeds
CHECK_DEADLOCK FALSE
