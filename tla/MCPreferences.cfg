SPECIFICATION PrefsSpec
CONSTANTS
  Requesters = {q1, q2}
  MaxSaveErrors = 1
  MaxRestarts = 1
  NoThread = NoThread
  NotLoaded = NotLoaded
PROPERTY PreferencesAnswer
CHECK_DEADLOCK FALSE
