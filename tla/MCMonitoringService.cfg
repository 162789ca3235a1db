SPECIFICATION FairSpec
CONSTANTS
  Callers = {c1, c2}
  MaxLoops = 3
  MaxBoards = 1
  NoCaller = NoCaller
INVARIANTS CreditsAreEarned
PROPERTIES ImplementsLease StopReturns StoppedLoopEnds
CHECK_DEADLOCK FALSE
