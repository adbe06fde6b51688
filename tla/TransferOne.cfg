SPECIFICATION Spec
CONSTANTS
  x = x
  y = y
  alice = alice
  bob = bob
  None = None
  Kinds = {"package", "photo", "firmware"}
  Contents = {x}
  Clients = {alice}
  Size <- OneSize
  File <- OneFile
  ChunkSize = 2
  MaxRetries = 3
  MaxUploads = 3
  MaxResets = 2
  Faults = TRUE
  Expiry = TRUE
CHECK_DEADLOCK FALSE
INVARIANT TypeOK
 
 
PROPERTY CopiesInOrder
