CONSTANTS
  a = a
  b = b
  q = q
  Books <- Shelf
  PageCount <- Counts
  Quran <- q
  QuranPlaces <- TwoPlaces
  MaxBookmarks = 2
  None = None
  Torn = Torn
  TableClock = FALSE
  IoFaults = TRUE
SPECIFICATION Spec
INVARIANT TypeOK
INVARIANT RightPlace
INVARIANT PlacesKept
INVARIANT BookmarksKept
