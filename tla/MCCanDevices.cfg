SPECIFICATION CanDevicesSpec
CONSTANTS
  channelCount = 2
  SafetyTime <- MCSafetyTime
  SafetyItem <- MCSafetyItem
  Commands <- MCCommands
  Readings = {"standby", "working", "over"}
  SelectResults = {TRUE, FALSE}
  MaxPulses = 2
  MaxCommands = 3
  playQueueSize = 2
  maxTrack = 2
  playStartRetries = 1
  moduleRestartLimit = 1
  Sounds = {1, 3}
  MaxAlerts = 3
  Temperatures = {0, 1, 2}
  Humidities = {0}
  Lights = {0, 2}
  kTempTolerance = 1
  kHumTolerance = 1
  kLightTolerance = 1
  measurePeriod = 1
  kSendMaxPeriod = 3
  MaxAmbientResets = 1
  TaskLists <- MCTaskLists
  canTxQueueSize = 2
  canRxQueueSize = 1
  maxFramesPerRun = 2
  txWaitTimeout = 1
  RxFifo = 2
  CounterRange = 2
  Loads <- MCLoads
  Nodes = {a1, a2, a3}
  Lone = a3
  provisionalId <- MCProvisionalId
  provisionalBase = 8
  idMask = 9
  masterId = 1
  Drivers = {2}
  maxWaiting = 2
  AskedIds = {1, 3, 9}
  MaxAsks = 2
  MaxCuts = 1
INVARIANTS
  PumpServesHead
  StoppedStaysStopped
  SentInOrder
  NoSilentLoss
  StoredIdUsable
  ToldOrRetried
  EveryTaskServed
PROPERTIES
  RepeatKeepsPlace
  IrrigationEnds
  PlayedOrReported
  AlertsEnd
  QueueDrains
  WaiterListed
CHECK_DEADLOCK FALSE
