SPECIFICATION BusyControllerSpec
CONSTANTS
  PeerCids <- TwoCids
  ACL_IN_BUFFER_COUNT = 7
  EVENT_IN_BUFFER_COUNT = 6
  MaxOpen = 1
  Services = {1, 3, 5}
  InfoTypes = {}
  Readings = {"other"}
  PeerGivesUp = FALSE
  MaxFailures = 0
  Spontaneous = TRUE
CHECK_DEADLOCK FALSE
INVARIANT ServerConfiguresFirst
PROPERTY AnswersMatchRequests
PROPERTY ConfigurationEnds
