CONSTANTS
  a1 = a1
  e1 = e1
  Address = {a1}
  Envelope = {e1}
  Subject <- OneSubject
  Token = {t1, t2}
  Request = {r1, r2, r3}
  NoToken = NoToken
  NoEnvelope = NoEnvelope
  NoRow = NoRow
  AtomicLookup = FALSE
SYMMETRY Symmetry
SPECIFICATION Spec
CHECK_DEADLOCK FALSE
INVARIANTS
  AttestedBeforeDelivery
