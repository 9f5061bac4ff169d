SPECIFICATION Spec
CONSTANTS
  u1 = u1
  u2 = u2
  b1 = b1
  b2 = b2
  h1 = h1
  h2 = h2
  h3 = h3
  Users = {u1}
  Browsers = {b1}
  Handlers = {h1, h2}
  RefreshAge = 1
  Expiry = 3
  Timeout = 1
  Sockets = TRUE
  NoToken = NoToken
  Nobody = Nobody
  MaxTime = 2
  MaxLogins = 2
  MaxPasswords = 2
  MaxFaults = 0
  MaxRestarts = 1
SYMMETRY Symmetry
INVARIANTS SessionNotForked PasswordChangeEnds
PROPERTY SessionsImplemented
