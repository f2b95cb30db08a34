SPECIFICATION Spec
CONSTANTS
  a1 = a1
  a2 = a2
  a3 = a3
  null = null
  old = old
  new = new
  Addr <- MCAddr
  NoAddr = null
  Field <- MCField
  Value <- MCValue
  TimingField = {}
  PatternField = {}
  SampleField <- MCSampleField
  MetadataField <- MCMetadataField
  MaxSerial = 5
SYMMETRY MCSymmetry
INVARIANTS
  AssertsHold
  NoUseAfterFree
  NoLeak
  MirrorWhenCaughtUp
  EngineFresh
  FreshTime
PROPERTIES
  ImplementsPlayback
