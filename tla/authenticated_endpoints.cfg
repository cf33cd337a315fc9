CONSTANTS
  Reader = {w1, w2}
  Submitter = {s1}
  NoReader = NoReader
  Flawed <- OneOrAll
SPECIFICATION FairSpec
CHECK_DEADLOCK FALSE
INVARIANTS
  EndpointsTypeOK
  StoredIsSound
  RefusedIsFlawed
  OneDocument
PROPERTIES
  SoundIsAccepted
  SigningEnds
