SPECIFICATION PumpFairSpec
CONSTANTS
  channelCount = 2
  SafetyTime <- MCSafetyTime
  SafetyItem <- MCSafetyItem
  Commands <- MCCommands
  Readings = {"standby"}
  SelectResults = {TRUE}
  MaxPulses = 2
  MaxCommands = 0
PROPERTIES
  SafetyIrrigationRuns
CHECK_DEADLOCK FALSE
