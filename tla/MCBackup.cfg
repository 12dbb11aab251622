SPECIFICATION BackupSpec
CONSTANTS
  Pages = 3
  PagesPerStep = 2
  Versions = 3
PROPERTIES
  CopyIsOneImage
  BackupCompletes
