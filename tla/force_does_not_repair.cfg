CONSTANTS
  Key = {k1, k2}
  NoKey = NoKey
  Torn = Torn
  Process = {serve, redeliver}
  Server = serve
  Forger = Forger
  NoEnvelope = NoEnvelope
SYMMETRY Symmetry
SPECIFICATION Spec
INVARIANTS
  ForceRepairs
