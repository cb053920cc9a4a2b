\* Two browsers, two users, two sessions, two requests at once, one fault.
CONSTANTS
  Browsers = {b1, b2}
  Users = {u1, u2}
  Sessions = {s1, s2}
  Requests = {r1, r2}
  NoCookie = NoCookie
  Nobody = Nobody
  Absent = Absent
  TTL = 1
  MaxTime = 2
  MaxFaults = 1
SYMMETRY Alike
SPECIFICATION Spec
INVARIANT ActsAsItself
PROPERTY KeepsLedger
CHECK_DEADLOCK FALSE
