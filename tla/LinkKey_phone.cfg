SPECIFICATION FairSpec
CONSTANTS
  phone = phone
  tablet = tablet
  HardCoded = phone
  Devices <- Phone
  MaxPairings = 5
  MaxForgets = 0
  MaxCrashes = 3
  MaxFailures = 3
CHECK_DEADLOCK FALSE
INVARIANT StoredKeyIsCurrent
PROPERTY ChallengesAnswered
