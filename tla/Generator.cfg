\* Two calls at once, failing file operations, a restart, a clock set back.
SPECIFICATION FairSpec
CONSTANTS
  g1 = g1 g2 = g2 NoWriter = NoWriter
  Writer = {g1, g2}
  MaxWrites = 3
  Bad = {2}
  Testparm = TRUE
  BackupMaxCount = 1
  MaxClock = 2
  MaxSetBacks = 1
  MaxCrashes = 1
  Faults = TRUE
INVARIANTS TypeOK
PROPERTIES Refines ReplacedIsBackedUp BackupsBounded WritesReturn
CHECK_DEADLOCK FALSE
