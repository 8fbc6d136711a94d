\* One message nacked: is the nack flush a visibility reset of it?
CONSTANTS
  m1 = m1
  m2 = m2
  m3 = m3
  Msgs = {m1}
  MaxNumberOfMessages = 1
  MaxOutstanding = 1
  MessageTimeout = 2
  DeleteMessage = TRUE
  ResetVisibility = TRUE
  BatchMax = 1
  QueueVisibility = 2
  RPCFailures = FALSE
  MaxReceives = 1
  MaxTime = 0
  NoBody = {}
  NoReceipt = {}

SPECIFICATION Spec

INVARIANT NackedHandlesReset
