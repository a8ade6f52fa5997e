\* One administrator and the cleanup of expired users; nothing fails.
SPECIFICATION Spec
CONSTANTS
  w1 = w1 w2 = w2 jan = jan st = st ann = ann bob = bob tmp1 = tmp1
  NoName = NoName NoProc = NoProc
  Worker = {w1}
  Janitor = {jan}
  Starter = {}
  PlainName = {ann, bob}
  TempName = {tmp1}
  Name = {ann, bob, tmp1}
  Preexisting = {bob}
  Setting = {"s1"}
  Setting0 = "s1"
  Ops <- AllOps
  Faults = {}
  MaxRequests = 1
  MaxUsers = 3
  MaxVolumes = 2
  NextUser0 = 3
  NextVolume0 = 2
  Users0 <- TwoUsers
  Volumes0 <- OneVolume
  Perms0 <- TwoPerms
INVARIANTS NoOrphanAccount
CHECK_DEADLOCK FALSE
