SPECIFICATION Spec
CONSTANTS
  x = x
  y = y
  alice = alice
  bob = bob
  None = None
  Kinds = {"package", "firmware"}
  Contents = {x, y}
  Clients = {alice, bob}
  Size <- TwoSizes
  File <- TwoFiles
  ChunkSize = 2
  MaxRetries = 1
  MaxUploads = 1
  MaxResets = 1
  Faults = TRUE
  Expiry = TRUE
CHECK_DEADLOCK FALSE
 
PROPERTY UploadEnds
