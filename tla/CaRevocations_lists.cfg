SPECIFICATION Spec
CONSTANTS
  c1 = c1
  Null = Null
  Client = {c1}
  Manager = {c1}
  Signer = {c1}
  Serial = {1, 2}
  Child = {1}
  MaxCA = 2
  MaxNo = 1
  MaxCopies <- ChildTwice
  MayFail = TRUE
CONSTRAINT NothingOverwritten
INVARIANTS TypeOK MarkedIffListed DuplicatesAreTyped OnEveryCrlSince
PROPERTIES RevocationsStay
