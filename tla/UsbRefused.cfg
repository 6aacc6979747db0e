CONSTANTS
  Requests <- RefusedRequests
  PacketSize = 2
  PromptAck = TRUE
  MaxAborts = 1
  MaxResets = 1
SPECIFICATION Spec
INVARIANT RequestIsAnswered
CHECK_DEADLOCK FALSE
