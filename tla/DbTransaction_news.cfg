SPECIFICATION FairSpec
CONSTANTS
  c1 = c1
  c2 = c2
  Client = {c1, c2}
  MaxId = 1
  TypeOf <- MCTypeOf
  ReloadedBy <- MCReloadedBy
  OneWriter = TRUE
  MaxLevel <- Flat
  MaxStamp = 2
PROPERTIES ChangesAreStamped NewsArrives
