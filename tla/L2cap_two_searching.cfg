SPECIFICATION Spec
CONSTANTS
  PeerCids <- TwoCids
  ACL_IN_BUFFER_COUNT = 8
  EVENT_IN_BUFFER_COUNT = 6
  MaxOpen = 2
  Services = {1}
  InfoTypes = {}
  Readings = {"other"}
  PeerGivesUp = FALSE
  MaxFailures = 0
  Spontaneous = FALSE
CHECK_DEADLOCK FALSE
INVARIANT SdpRepliesBelong
