SPECIFICATION FairSpec
CONSTANTS
  Devs <- Bus
  Descriptors <- BusDescriptors
  EVENT_IN_BUFFER_COUNT = 3
  ACL_IN_BUFFER_COUNT = 3
  Environments <- QuietOrNoisy
  MaxOther = 1
  MaxAcl = 1
  MaxRequests = 1
  MaxFaults = 1
CHECK_DEADLOCK FALSE
INVARIANT TypeOK
INVARIANT InitOrder
INVARIANT PoolKeptThroughBringUp
PROPERTY ResetMeetsFullPools
PROPERTY BringUpCompletes
