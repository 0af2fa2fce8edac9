SPECIFICATION Spec
CONSTANTS
  p1 = p1
  p2 = p2
  p3 = p3
  p4 = p4
  ann = ann
  bob = bob
  Requests = {p1, p2, p3, p4}
  Emails = {ann, bob}
SYMMETRY Symmetry
INVARIANTS TypeOK StaysVerifiable CodeReuseExplained CredentialsExplained TokensHonest
CHECK_DEADLOCK FALSE
