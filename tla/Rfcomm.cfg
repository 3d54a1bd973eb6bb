SPECIFICATION Spec
CONSTANTS
  ACL_IN_BUFFER_COUNT = 12
  Payloads <- MCPayloads
  MaxData = 2
  OtherCommands <- MCOtherCommands
  OtherControls <- MCOtherControls
  MaxFailures = 1
INVARIANT TypeOK
INVARIANT EveryFrameReadable
INVARIANT AnswersBelong
INVARIANT SpeaksOnOpenChannel
INVARIANT DataPrinted
PROPERTY SessionEstablished
CHECK_DEADLOCK FALSE
