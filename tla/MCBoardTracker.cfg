SPECIFICATION FairSpec
CONSTANTS
  PresenceConfirm = 2
  AbsenceConfirm = 3
  MaxLost = 5
  MaxInspected = 5
  MaxTracks = 4
  Hash = Hash
  Unseen = Unseen
INVARIANTS FiredOnce
PROPERTIES FreshTrack TriggerIsServed
CHECK_DEADLOCK FALSE
