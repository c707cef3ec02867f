\* Powers of both signs over three save intervals, from every kind of state file.
CONSTANTS
  Powers <- MCPowers
  InitialFiles <- MCFiles
  MaxInterval = 3
  SaveInterval = 2
  MaxSaveTime = 1
  Scale = 3
  StateFile = TRUE
  MaxTime = 6
  None = None
  NoFile = NoFile
  Corrupt = Corrupt
  BadType = BadType
SPECIFICATION Spec
INVARIANTS
  CrashLossBounded
  FlushKeepsEverything
  NeverCountedTwice
PROPERTIES 
  FileNeverTorn
  IntegrationFaithful
CHECK_DEADLOCK FALSE
