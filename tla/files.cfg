SPECIFICATION Spec
CONSTANTS
  None = None
  Unrecognized = Unrecognized
  Corrupt = Corrupt
  OptionRange <- MCOptionRange
  CHROMATIC_COUNT = 2
  MAX_TUNING_FREQ = 100
  EqualTemperament <- MCEqualTemperament
  MAX_SAMPLE_RATE = 999999
  DEFAULT_SAMPLE_RATE = 32000
  DEFAULT_ROOT_KEY = 1
  MAX_ATTACK_RATE = 15
  MAX_SAMPLES = 2
  MAX_INSTRUMENTS = 1
  MAX_KEYSPLITS = 2
  MAX_NCHIP = 1
  NChan = 1
  MAX_EFFECTS_PER_EVENT = 2
  MAX_EVENTS_PER_PATTERN = 3
  MAX_BLOCKS_PER_TRACK = 2
  MAX_TICK = 8
  p1 = p1
  p2 = p2
  Paths <- MCPaths
  InitialDisks <- MCInitialDisks
  NewDocument <- MCNewDocument
  DEFAULT_TICKS_PER_ROW = 12
  RowHeights = {12}
  NewSample <- MCNewSample
  NewBlock <- MCNewBlock
  MaxEdits = 2
INVARIANTS
  CleanMeansOnDisk
  DocumentInRange
PROPERTIES
  LossIsChosen
  FilesStayLoadable
