SPECIFICATION Spec
CONSTANTS
  None = None
  Cut = Cut
  Symbols <- MCSymbols
  ChannelSymbols <- MCChannelSymbols
  ARAM_SIZE = 80
  START_ADDRESS = 4
  PAGE_SIZE = 8
  DRIVER_SIZE = 3
  Documents <- MCDocuments
  MAX_SAMPLES = 3
  MAX_INSTRUMENTS = 2
  AMK_SAMPLE_MAX = 1
  AMK_INSTR_MAX = 4
  Note <- MCNote
INVARIANTS
  Linked
  ExportPlaysSamePatch
