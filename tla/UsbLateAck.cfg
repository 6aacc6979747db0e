CONSTANTS
  Requests <- EnumerationRequests
  PacketSize = 2
  PromptAck = FALSE
  MaxAborts = 1
  MaxResets = 1
SPECIFICATION Spec
INVARIANT AcknowledgedIsApplied
CHECK_DEADLOCK FALSE
