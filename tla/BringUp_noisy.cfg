SPECIFICATION Spec
CONSTANTS
  r1 = r1
  r2 = r2
  Nobody = Nobody
  Unnamed = Unnamed
  HardCoded = r1
  Remotes <- OneRemote
  EVENT_IN_BUFFER_COUNT = 26
  MaxOther = 1
  MaxAcl = 2
  MaxRequests = 4
  MaxFaults = 1
CONSTRAINT Noise
CHECK_DEADLOCK FALSE
INVARIANT TypeOK
INVARIANT InitOrder
INVARIANT ExecutedAsSent
