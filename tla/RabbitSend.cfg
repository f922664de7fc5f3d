SPECIFICATION MqFairSpec
CONSTANTS
  TalkIds = {t1}
  SharedChannel <- MCSharedChannel
  SendDataCap = 2
  DialCap = 2
  Kinds <- MCKinds
  MaxData = 3
  MaxBreaks = 2
CHECK_DEADLOCK FALSE
INVARIANTS
  MqTypeOK
  InOrder
  Accounted
PROPERTIES
  CacheIsFlushed
  IsAnOutbox
