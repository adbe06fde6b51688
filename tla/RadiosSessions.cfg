CONSTANTS
  n1 = n1
  Networks <- One
  Builds <- Both
  MaxDrops = 1
  FlashFaults = TRUE
  None = None
SPECIFICATION FairSpec
INVARIANT TypeOK
INVARIANT RadiosShared
PROPERTY SleepSparesSession
PROPERTY OnlineAgain
PROPERTY PairingAnswered
