\* One administrator at a time, every operation, everything may fail.
SPECIFICATION Spec
CONSTANTS
  w1 = w1 w2 = w2 jan = jan st = st ann = ann bob = bob tmp1 = tmp1
  NoName = NoName NoProc = NoProc
  Worker = {w1}
  Janitor = {}
  Starter = {}
  PlainName = {ann, bob}
  TempName = {tmp1}
  Name = {ann, bob, tmp1}
  Preexisting = {bob}
  Setting = {"s1", "s2"}
  Setting0 = "s1"
  Ops <- AllOps
  Faults = {"db", "cmd", "crash"}
  MaxRequests = 3
  MaxUsers = 4
  MaxVolumes = 4
  NextUser0 = 2
  NextVolume0 = 2
  Users0 <- OneUser
  Volumes0 <- OneVolume
  Perms0 <- OnePerm
INVARIANTS TypeOK Enforced
PROPERTIES NeverStale
CHECK_DEADLOCK FALSE
