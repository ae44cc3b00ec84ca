SPECIFICATION FairLockSpec
CONSTANTS
  s1 = s1
  s2 = s2
  s3 = s3
  NoFile = NoFile
  Torn = Torn
  Servers <- ThreeServers
  MaxBeats = 2
INVARIANTS
  LockTypeOK
  TurnsKeepLock
PROPERTIES
  StartsEnd
  DeadOwnersReclaimed
CHECK_DEADLOCK FALSE
