CONSTANT Worker = {w1, w2, w3}
SPECIFICATION FairSpec
CHECK_DEADLOCK FALSE
INVARIANT
  RecoveryTypeOK
PROPERTIES
  ButtonRecovers
  OperatorRecovers
