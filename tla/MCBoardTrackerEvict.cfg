SPECIFICATION Spec
CONSTANTS
  PresenceConfirm = 2
  AbsenceConfirm = 3
  MaxLost = 5
  MaxInspected = 2
  MaxTracks = 3
  Hash = Hash
  Unseen = Unseen
INVARIANTS
  SurvivesEviction
CHECK_DEADLOCK FALSE
