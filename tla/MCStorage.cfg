SPECIFICATION StorageSpec
CONSTANTS
  Clients = {c1, c2, c3}
  Conns = {x1, x2, x3, x4, x5, x6, x7}
  PoolSize = 2
  MaxOpenErrors = 1
  MaxCrashes = 1
  NoClient = NoClient
  NoConn = NoConn
INVARIANTS StorageTypeOK Accounted AnswersAreTrue
PROPERTIES EveryRequestAnswered SetupIsSound
CHECK_DEADLOCK FALSE
