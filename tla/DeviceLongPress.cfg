CONSTANTS
  Books = {"a", "b"}
  Covered = {"a"}
  Columns = 1
  ShelfRows = 2
  MaxPartials = 1
  Photos = {1, 2}
  Interval = 2
  Day = 4
  TicksAMinute = 1
  Gap = 2
  Buttons <- MCButtons
  Passes = {1, 2, 6}
  Clock = 11
  Debounce = 2
  EncoderDebounce = 1
  LongPress = 4
  Quiet = 2
  MaxPending = 2
  QueueSize = 16
SPECIFICATION Spec
INVARIANT LongPressHeld
