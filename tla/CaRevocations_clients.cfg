SPECIFICATION Spec
CONSTANTS
  c1 = c1
  c2 = c2
  Null = Null
  Client = {c1, c2}
  Manager = {c1}
  Signer = {c1, c2}
  Serial = {1}
  Child = {1}
  MaxCA = 1
  MaxNo = 2
  MaxCopies <- EachOnce
  MayFail = FALSE
CONSTRAINT NothingOverwritten
INVARIANTS LastNumber OnEveryCrlSince
PROPERTIES RevocationsStay 
