SPECIFICATION FairSpec
CONSTANTS
  a1 = a1
  a2 = a2
  a3 = a3
  null = null
  old = old
  new = new
  Addr <- MCAddr
  NoAddr = null
  Field = {"pattern"}
  Value <- MCValue
  TimingField = {}
  PatternField = {"pattern"}
  SampleField = {}
  MetadataField = {}
  MaxSerial = 4
PROPERTIES
  StartingEnds
  CarriesOutCommands
