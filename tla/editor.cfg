SPECIFICATION Spec
CONSTANTS
  MAX_TICK = 5
  MAX_BLOCKS_PER_TRACK = 3
  MAX_EVENTS_PER_PATTERN = 2
  PageDownRows = 2
  None = None
  Documents <- MCDocuments
  RowHeights = {1, 2}
  Settings <- MCSettings
  SelectFrom <- MCSelectFrom
  MaxEdits = 1
  PixelsPerRow = 3
  WidthPerChar = 6
  ViewHeight = 7
INVARIANTS
  TracksOk
  SelectionFollowsCursor
  RowsAreNeighbours
  EventJumpsAreNearest
  ScreenShowsSong
PROPERTIES
  EditsAreLocal
