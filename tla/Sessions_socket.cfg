SPECIFICATION Spec
CONSTANTS
  u1 = u1
  u2 = u2
  b1 = b1
  b2 = b2
  h1 = h1
  h2 = h2
  h3 = h3
  Users = {u1}
  Browsers = {b1}
  Handlers = {h1, h2}
  RefreshAge = 1
  Expiry = 3
  Sockets = TRUE
  NoToken = NoToken
  Nobody = Nobody
  Timeout = 1
  MaxTime = 4
  MaxLogins = 1
  MaxPasswords = 1
  MaxFaults = 0
  MaxRestarts = 0
SYMMETRY Symmetry
INVARIANTS SessionKept
