SPECIFICATION MCSpec
SYMMETRY MCSymmetry
CONSTANTS
  Frames = {f1, f2}
  Logs = {g1}
  Worker = worker
  Admin = admin
  MaxRows = 1
  FrameAge = 1
  MaxTime = 2
  MaxFaults = 1
  Findings = {d1, d2}
  Severe = {d1}
  MaxDefects = 2
  Horizon = 2
  Hour = 1
  Day = 1
  Week = 3
  ListLimit = 1
  Loggers = {l1, l2}
  TTL = 0
  MaxFailures = 1
  NoFinding = NoFinding
  NoReport = NoReport
  N = 4
  Quality = {0, 1, 2}
INVARIANTS MCTypeOK RowsAndImagesMatch LatestFrameStays FiguresFit BestStays
PROPERTY SkipsAreJustified
CHECK_DEADLOCK FALSE
