SPECIFICATION Spec
CONSTANTS
  a = a
  b = b
  Ids = {a}
  None = None
  Torn = Torn
  Packages <- BookPackages
  Malformed <- MCMalformed
  MaxEntries = 1
  Jobs <- FaultJobs
  MaxChunk = 2
  MaxPart = 3
  SweepMax = 1
  IoFaults = TRUE
  Clocks = {TRUE}
INVARIANT TypeOK
 
INVARIANT OkMeansDurable
