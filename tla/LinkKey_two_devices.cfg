SPECIFICATION Spec
CONSTANTS
  phone = phone
  tablet = tablet
  HardCoded = phone
  Devices <- Both
  MaxPairings = 3
  MaxForgets = 1
  MaxCrashes = 2
  MaxFailures = 2
CHECK_DEADLOCK FALSE
INVARIANT TypeOK
INVARIANT GenuineKeys
INVARIANT FileIsCurrent
PROPERTY KeysOutliveTheProcess
