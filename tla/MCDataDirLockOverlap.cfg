SPECIFICATION LockSpec
CONSTANTS
  s1 = s1
  s2 = s2
  s3 = s3
  NoFile = NoFile
  Torn = Torn
  Servers <- ThreeServers
  MaxBeats = 1
INVARIANTS
  OneHolder
CHECK_DEADLOCK FALSE
