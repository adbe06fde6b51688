CONSTANTS
  Files <- MCFiles
  Installs <- MCInstalls
  W64 = 128
  W32 = 64
  W16 = 16
  GlyphCapacity = 4
  TextCapacity = 3
  MaxVerified = 2
  Numbers <- MCNumbers
  Words <- MCWords
  Jobs <- MCJobs
  Bytes <- MCBytes
  Half = 3
  RawCapacity = 3
  FoldCapacity = 4
  RecordBatch = 2
  W = 16
  VerseNumber <- MCVerseNumber
SPECIFICATION Spec
INVARIANT ReadsInBounds
INVARIANT OpenIsSound
INVARIANT LookupsAgree
INVARIANT TextWhole
