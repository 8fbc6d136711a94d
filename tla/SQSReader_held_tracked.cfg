\* One message whose lease can lapse while held, redelivered under the same id.
CONSTANTS
  m1 = m1
  m2 = m2
  m3 = m3
  Msgs = {m1}
  MaxNumberOfMessages = 1
  MaxOutstanding = 2
  MessageTimeout = 2
  DeleteMessage = TRUE
  ResetVisibility = TRUE
  BatchMax = 1
  QueueVisibility = 2
  RPCFailures = TRUE
  MaxReceives = 2
  MaxTime = 3
  NoBody = {}
  NoReceipt = {}

SPECIFICATION Spec

INVARIANT HeldHandlesTracked
