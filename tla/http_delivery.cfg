CONSTANTS
  IP = {pub1, pub2, private}
  Public = {pub1, pub2}
  NoIP = NoIP
  NoStatus = NoStatus
  Redirects = {303, 307}
  MaxRedirects = 2
SPECIFICATION FairSpec
CHECK_DEADLOCK FALSE
INVARIANTS
  DeliveryTypeOK
  DialsOnlyVetted
PROPERTIES
  DeadlineBoundsSend
  ExchangeUnlessRedirected
