SPECIFICATION Spec
CONSTANTS
  home = home
  away = away
  k1 = k1
  k2 = k2
  Client = {c1, c2}
  Db = {home, away}
  Key = {k1}
  DbOf <- OneEach
  Password = {empty, secret}
  Empty = empty
  MayFail = TRUE
SYMMETRY Clients
INVARIANTS TypeOK KeysOpen LegacyGone Agreed
PROPERTIES ChangeSparesPrivate
