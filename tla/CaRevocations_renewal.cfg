SPECIFICATION Spec
CONSTANTS
  c1 = c1
  Null = Null
  Client = {c1}
  Manager = {c1}
  Signer = {c1}
  Serial = {1}
  Child = {1}
  MaxCA = 2
  MaxNo = 2
  MaxCopies <- EachOnce
  MayFail = FALSE
PROPERTIES CrlNumberTracked
