CONSTANTS
  Packages = {"q", "t", "b", "p"}
  TypeOf <- MCType
  Pictured = {"p"}
  Aligned <- MCAligned
  Surahs = 2
  Pages = 2
  Deltas <- MCDeltas
  MaxEntries = 2
  MaxMarks = 1
  VisibleRows = 7
  PickerRows = 1
  MaxOpenFiles = 2
  None = "none"
SPECIFICATION ScreensSpec
INVARIANT HandlesMatchScreen
 
 
PROPERTY ExitLeadsOut
