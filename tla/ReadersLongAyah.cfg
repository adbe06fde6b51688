CONSTANTS
  b1 = b1
  b2 = b2
  q1 = q1
  q2 = q2
  PageBooks = {b1, b2}
  PageCount <- MCPageCount
  MostPages = 4
  BadPages <- MCBadPages
  Chapters <- MCChapters
  Slots = 3
  JumpStep = 2
  NoBook = NoBook
  Library <- MCLibrary
  BookScales <- MCScales
  LineWidth = 12
  BodyHeight = 8
  MaxLines = 3
  MaxBookmark = 3
  NoText = NoText
  Qurans = {q1}
  Words <- MCLongWords
  Ayahs <- MCLongAyahs
  MushafLines <- MCLongLines
  Width = 4
  Rows = 2
  Marker = 1
  HistoryDepth = 3
  MaxScreen = 7
  CalmPicking = TRUE
  NoQuran = NoQuran
SPECIFICATION ReadersSpec
INVARIANT ResumesThere
