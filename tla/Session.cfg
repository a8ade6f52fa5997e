\* Two requests, two logins, the cleanup.
SPECIFICATION FairSpec
CONSTANTS
  r1 = r1 r2 = r2 s1 = s1 s2 = s2 None = None
  Request = {r1, r2}
  Id = {s1, s2}
  TTLHours = 1
  MaxTime = 4
INVARIANTS TypeOK LoggedOutStaysOut
PROPERTIES LiveSessionsKept ExpiredSwept
