SPECIFICATION MCSpec
CONSTANTS
  Workers = {w1, w2}
  Pool = {p1}
  MaxSessions = 2
  NoWorker = NoWorker
  Messages = {m1, m2}
  MaxDecisions = 2
  NoTool = NoTool
  NoDomain = NoDomain
  Analyses = {a1, a2}
  MaxRounds = 2
  NoOne = NoOne
INVARIANTS MCTypeOK SessionBooks RightExecutor OneAnswer AwaitedSeesItsImage
PROPERTY AnalysesEnd
CHECK_DEADLOCK FALSE
