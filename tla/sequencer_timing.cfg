SPECIFICATION DialogSpec
CONSTANTS
  None = None
  Options <- MCOptions
  MaxTimers = 5
INVARIANTS
  TempoFresh
  PhaseAccounts
  TempoShown
