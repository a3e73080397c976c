SPECIFICATION Spec
CONSTANTS
  home = home
  away = away
  k1 = k1
  k2 = k2
  Client = {c1}
  Db = {home, away}
  Key = {k1, k2}
  DbOf <- OneEach
  Password = {empty, secret, other}
  Empty = empty
  MayFail = FALSE
INVARIANT PasswordOpensKeys
