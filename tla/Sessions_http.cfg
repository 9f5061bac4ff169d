SPECIFICATION Spec
CONSTANTS
  u1 = u1
  u2 = u2
  b1 = b1
  b2 = b2
  h1 = h1
  h2 = h2
  h3 = h3
  Users = {u1}
  Browsers = {b1, b2}
  Handlers = {h1, h2}
  RefreshAge = 3
  Expiry = 6
  Timeout = 1
  Sockets = FALSE
  NoToken = NoToken
  Nobody = Nobody
  MaxTime = 5
  MaxLogins = 2
  MaxPasswords = 1
  MaxFaults = 1
  MaxRestarts = 0
SYMMETRY Symmetry
INVARIANTS TypeOK SessionKept
