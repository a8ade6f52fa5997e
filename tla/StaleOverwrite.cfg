\* Two administrators at once, nothing fails.
SPECIFICATION Spec
CONSTANTS
  w1 = w1 w2 = w2 jan = jan st = st ann = ann bob = bob tmp1 = tmp1
  NoName = NoName NoProc = NoProc
  Worker = {w1, w2}
  Janitor = {}
  Starter = {}
  PlainName = {ann, bob}
  TempName = {tmp1}
  Name = {ann, bob, tmp1}
  Preexisting = {bob}
  Setting = {"s1"}
  Setting0 = "s1"
  Ops <- AllOps
  Faults = {}
  MaxRequests = 2
  MaxUsers = 3
  MaxVolumes = 3
  NextUser0 = 2
  NextVolume0 = 2
  Users0 <- OneUser
  Volumes0 <- OneVolume
  Perms0 <- OnePerm
INVARIANTS Enforced
CHECK_DEADLOCK FALSE
