CONSTANTS
  Threads = {t1, t2}
  Names = {a, b, c}
  MaxTracked = 1
  Window = 2
  MaxResponses = 2
  MaxRedisErrors = 1
  DdosWindow = 1
  ExfilWindow = 2
  BeaconWindow = 4
  DdosCount = 3
  ExfilBytes = 2
  BeaconObservations = 3
  BeaconInterval = 1
  Cap = 4
  Bytes = {0, 1}
  Lag = 1
  MaxClock = 7
  MaxConns = 5
  Coroutines = {c1, c2}
  Public = {"p", "q"}
  Private = {"v"}
  Special = {"s"}
  Malformed = {"m"}
  Queries <- SomeQueries
  Proper = {"x", "a", "b", "com", "org"}
  MaxCache = 1
  Ttl = 2
  None = None
SYMMETRY Symmetry
SPECIFICATION Spec
CHECK_DEADLOCK FALSE
INVARIANTS EvaluationsAgree
PROPERTIES SignalsSound
