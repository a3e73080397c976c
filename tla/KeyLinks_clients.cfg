SPECIFICATION Spec
CONSTANTS
  Client = {c1, c2}
  Pub = {p, q}
  Hash <- Colliding
  MaxId = 3
  MayFail = TRUE
SYMMETRY Symmetry
INVARIANTS TypeOK LinkedUnlessOvertaken MemoryLinks OneKeyEach KeysKept 
