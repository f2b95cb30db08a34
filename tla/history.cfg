SPECIFICATION Spec
CONSTANTS
  NSlots = 2
  Names = {"a", "b"}
  FileNames = {"b"}
  Tempos = {1, 2}
  Measures = {1}
  MaxBrr = 2
  MaxBlocks = 2
  None = None
  MaxEdits = 3
  InitialDocuments <- MCDocuments
VIEW WithoutSaved
INVARIANTS
  EditsApply
  AudioMatches
  LoopsInsideSamples
PROPERTIES
  ImplementsLinearUndo
