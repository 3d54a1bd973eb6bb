SPECIFICATION FairSpec
CONSTANTS
  Packets <- Traffic
  SourceCid <- Cid
  MaxPackets = 2
CHECK_DEADLOCK FALSE
INVARIANT TypeOK
INVARIANT WholeRequestRead
INVARIANT PatternKeepsPlace
INVARIANT NoUnsetParentFollowed
INVARIANT RecordNested
INVARIANT AnswersWellFormed
INVARIANT LogReadsBack
PROPERTY SearchesAnswered
