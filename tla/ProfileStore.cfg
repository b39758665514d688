SPECIFICATION Spec
CONSTANTS
  Ids = {p, q}
  Certs = {c1, c2}
  NoId = NoId
  NoCert = NoCert
SYMMETRY Symmetry
INVARIANTS TypeOK CertificatesExist SessionKeepsProfile
