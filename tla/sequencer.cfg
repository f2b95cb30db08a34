SPECIFICATION Spec
CONSTANTS
  Channels = {1, 2}
  Documents <- MCDocuments
  Rows <- MCRows
  MaxEvents = 2
  MaxTick = 4
  None = None
INVARIANTS
  ChannelsInSync
  GapsAreSilent
PROPERTIES
  PlaysWhatIsWritten
