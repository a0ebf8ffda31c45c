SPECIFICATION NetFairSpec
CONSTANTS
  delaysMs <- MCDelaysMs
  onlineSettleTime = 2
  deviceResetTime = 4
  MaxFaults = 3
PROPERTIES
  ClearedOnlyWhenSettled
CHECK_DEADLOCK FALSE
