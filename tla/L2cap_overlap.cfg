SPECIFICATION Spec
CONSTANTS
  PeerCids <- TwoCids
  ACL_IN_BUFFER_COUNT = 4
  EVENT_IN_BUFFER_COUNT = 1
  MaxOpen = 2
  Services = {3}
  InfoTypes = {1, 2}
  Readings = {"own", "fill"}
  PeerGivesUp = TRUE
  MaxFailures = 1
  Spontaneous = FALSE
CHECK_DEADLOCK FALSE
INVARIANT TypeOK
INVARIANT GrantedCidRoutes
PROPERTY CidsNeverRebound
