CONSTANTS
  c1 = c1
  c2 = c2
  k1 = k1
  k2 = k2
  k3 = k3
  Clients = {c1, c2}
  Rewriters = {}
  Conns = {k1, k2, k3}
  Owner <- MCOwner
  Addrs = {here, there}
  Timeout = 1
  DropAge = 0
  MaxSessions = 1
  MaxIds = 2
  MaxVal = 2
SPECIFICATION Spec
PROPERTY CookieRestores
CHECK_DEADLOCK FALSE
