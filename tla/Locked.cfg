\* Two administrators and the cleanup, the operations that hold the mutex throughout.
SPECIFICATION FairSpec
CONSTANTS
  w1 = w1 w2 = w2 jan = jan st = st ann = ann bob = bob tmp1 = tmp1
  NoName = NoName NoProc = NoProc
  Worker = {w1, w2}
  Janitor = {jan}
  Starter = {}
  PlainName = {ann, bob}
  TempName = {tmp1}
  Name = {ann, bob, tmp1}
  Preexisting = {bob}
  Setting = {"s1"}
  Setting0 = "s1"
  Ops <- LockedOps
  Faults = {"cmd"}
  MaxRequests = 2
  MaxUsers = 4
  MaxVolumes = 3
  NextUser0 = 3
  NextVolume0 = 2
  Users0 <- TwoUsers
  Volumes0 <- OneVolume
  Perms0 <- TwoPerms
INVARIANTS Enforced
PROPERTIES NeverStale RegeneratesOnChange RequestsFinish ExpiredRemoved
CHECK_DEADLOCK FALSE
