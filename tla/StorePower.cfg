SPECIFICATION Spec
CONSTANTS
  a = a
  b = b
  Ids = {a, b}
  None = None
  Torn = Torn
  Packages <- MCPackages
  Malformed = {}
  MaxEntries = 2
  Jobs <- HonestJobs
  MaxChunk = 2
  MaxPart = 2
  SweepMax = 1
  IoFaults = FALSE
  Clocks = {FALSE}
INVARIANT IndexSound
INVARIANT PromiseKept
PROPERTY LastCopyKept
