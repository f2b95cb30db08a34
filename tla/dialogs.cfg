SPECIFICATION Spec
CONSTANTS
  None = None
  MAX_KEYSPLITS = 3
  MAX_INSTRUMENTS = 2
  MAX_SAMPLES = 2
  Notes <- MCNotes
  LevelUnit = 16
  Adsrs <- MCAdsrs
  EndTimes <- MCEndTimes
  Documents <- MCDocuments
  MaxEdits = 2
INVARIANTS
  DialogInSync
PROPERTIES
  EditsFollowPatch
  SampleDialogFollows
