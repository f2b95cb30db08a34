SPECIFICATION ChipSpec
CONSTANTS
  Channels = {0, 1}
  Documents <- MCDocuments
  Rows <- MCRows
  MaxEvents = 2
  MaxTick = 1
  None = None
  Cut = Cut
  MAX_SAMPLES = 3
  SPC_MEMORY_SIZE = 7
  SAMPLE_DIR = 1
  SAMPLE_DIR_ENTRY_SIZE = 1
  ClocksPerTimer = 2
  MaxCommands = 5
INVARIANTS
  OrderingHolds
  PlaysLoadedSamples
  RamMatchesDocument
  NotesSound
  NoHangingNotes
