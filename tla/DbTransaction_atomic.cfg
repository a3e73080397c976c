SPECIFICATION Spec
CONSTANTS
  c1 = c1
  c2 = c2
  Client = {c1, c2}
  MaxId = 2
  TypeOf <- MCTypeOf
  ReloadedBy <- MCReloadedBy
  OneWriter = TRUE
  MaxLevel <- Watched
  MaxStamp = 2
INVARIANTS TypeOK PromptPollSeesAll
PROPERTIES AtomicSpec
