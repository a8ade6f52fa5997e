\* One administrator, the cleanup of expired users and the repair at start.
SPECIFICATION Spec
CONSTANTS
  w1 = w1 w2 = w2 jan = jan st = st ann = ann bob = bob tmp1 = tmp1
  NoName = NoName NoProc = NoProc
  Worker = {w1}
  Janitor = {jan}
  Starter = {st}
  PlainName = {ann, bob}
  TempName = {tmp1}
  Name = {ann, bob, tmp1}
  Preexisting = {bob}
  Setting = {"s1"}
  Setting0 = "s1"
  Ops <- AllOps
  Faults = {}
  MaxRequests = 2
  MaxUsers = 4
  MaxVolumes = 3
  NextUser0 = 3
  NextVolume0 = 2
  Users0 <- TwoUsers
  Volumes0 <- OneVolume
  Perms0 <- TwoPerms
INVARIANTS UsersHaveAccounts FlagsAgree
CHECK_DEADLOCK FALSE
