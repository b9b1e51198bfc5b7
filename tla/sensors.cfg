CONSTANTS
  Logs = {"conn"}
  TailLines = 1
  MaxLines = 3
  MaxBoots = 2
  MaxSendErrors = 1
  MaxLost = 1
  Ends = {a, b}
  EmitEvery = 2
  MaxFlows = 2
  MaxTime = 1
  MaxPackets = 4
  Rare = "rare"
  Samples <- AllSamples
SPECIFICATION Spec
CHECK_DEADLOCK FALSE
INVARIANTS SensorsSound RulesSound
PROPERTIES BacklogRead
