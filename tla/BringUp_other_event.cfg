SPECIFICATION FairSpec
CONSTANTS
  r1 = r1
  r2 = r2
  Nobody = Nobody
  Unnamed = Unnamed
  HardCoded = r1
  Remotes <- NoRemote
  EVENT_IN_BUFFER_COUNT = 150
  MaxOther = 1
  MaxAcl = 0
  MaxRequests = 0
  MaxFaults = 0
CHECK_DEADLOCK FALSE
PROPERTY BringUpCompletes
