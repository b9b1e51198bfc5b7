CONSTANTS
  Coroutines = {c1, c2, c3}
  Events <- Traffic
  Kind <- KindOf
  Backpressure = 2
  PendingSlots = 2
  InferSlots = 1
  CpuThreads = 1
  MaxTrained = 2
  MaxDeaths = 1
  Names <- SomeNames
SPECIFICATION InferenceSpec
INVARIANTS LiveWorkBounded StoreSound WindowsSound
PROPERTIES EveryEventFinished LoadsInTheEnd
