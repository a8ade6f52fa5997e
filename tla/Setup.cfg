\* Two setups at once, statements that fail and restarts, every way to the server.
SPECIFICATION FairGateSpec
CONSTANTS
  c1 = c1 c2 = c2 a1 = a1 a2 = a2 a3 = a3 NoName = NoName
  Client = {c1, c2}
  AdminName = {a1, a2, a3}
  MaxFaults = 1
  Deployment <- Deployments
INVARIANTS GateTypeOK NeverLockedOut SetupCloses UnaddressedInert
PROPERTIES SetupCompletes
CHECK_DEADLOCK FALSE
