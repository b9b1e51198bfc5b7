CONSTANTS
  Coroutines = {c1}
  Events <- Traffic
  Kind <- KindOf
  Backpressure = 2
  PendingSlots = 2
  InferSlots = 1
  CpuThreads = 1
SPECIFICATION Spec
INVARIANT AgeOnlyForFlagged
