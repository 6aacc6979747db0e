CONSTANTS
  Requests <- EnumerationRequests
  PacketSize = 2
  PromptAck = TRUE
  MaxAborts = 1
  MaxResets = 1
SPECIFICATION Spec
INVARIANTS TypeOK SupportedIsAnswered ResponseInOrder NoStalePacket AcknowledgedIsApplied
CHECK_DEADLOCK FALSE
