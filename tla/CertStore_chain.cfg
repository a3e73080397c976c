SPECIFICATION Spec
CONSTANTS
  root = root
  root2 = root2
  sub = sub
  leaf = leaf
  leaf2 = leaf2
  mail = mail
  mail2 = mail2
  pinned = pinned
  other = other
  crossed = crossed
  crossedOther = crossedOther
  list = list
  NoCert = NoCert
  NoId = NoId
  Cert = {root, root2, sub, leaf, leaf2}
  CertData <- MCCertData
  Crl = {list}
  CrlData <- MCCrlData
  HaveKey = {"kr", "ks"}
  TypedSerial = {4}
INVARIANTS TypeOK SignerKnown  LatestAnchor RevokedIffListed
 
