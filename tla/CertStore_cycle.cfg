SPECIFICATION Spec
CONSTANTS
  root = root
  root2 = root2
  sub = sub
  leaf = leaf
  leaf2 = leaf2
  mail = mail
  mail2 = mail2
  pinned = pinned
  other = other
  crossed = crossed
  crossedOther = crossedOther
  list = list
  NoCert = NoCert
  NoId = NoId
  Cert = {root, other, crossed, crossedOther}
  CertData <- MCCertData
  Crl = {}
  CrlData <- MCCrlData
  HaveKey = {"kr"}
  TypedSerial = {}
INVARIANTS ChainsEnd
