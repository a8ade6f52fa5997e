\* A setup and a login over HTTPS, through a proxy that tells the address of the client.
SPECIFICATION GateSpec
CONSTANTS
  c1 = c1 c2 = c2 a1 = a1 a2 = a2 a3 = a3 NoName = NoName
  Client = {c1, c2}
  AdminName = {a1, a2, a3}
  MaxFaults = 0
  Deployment <- HttpsProxy
INVARIANTS CookieSecure
CHECK_DEADLOCK FALSE
