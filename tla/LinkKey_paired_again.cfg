SPECIFICATION Spec
CONSTANTS
  phone = phone
  tablet = tablet
  HardCoded = phone
  Devices <- Phone
  MaxPairings = 2
  MaxForgets = 1
  MaxCrashes = 0
  MaxFailures = 0
CHECK_DEADLOCK FALSE
INVARIANT StoredKeyIsCurrent
