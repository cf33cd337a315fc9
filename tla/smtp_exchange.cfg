SPECIFICATION FairSpec
CHECK_DEADLOCK FALSE
INVARIANTS
  TypeOK
  ConnectionReleased
  EncryptedIfOffered
PROPERTIES
  RefinesExchange
  DeadlineBoundsSend
