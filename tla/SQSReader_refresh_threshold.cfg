\* One message held over 3 seconds of a 4-second timeout: does a refresh pass renew it once less than half the timeout is left?
CONSTANTS
  m1 = m1
  m2 = m2
  m3 = m3
  Msgs = {m1}
  MaxNumberOfMessages = 1
  MaxOutstanding = 1
  MessageTimeout = 4
  DeleteMessage = TRUE
  ResetVisibility = TRUE
  BatchMax = 1
  QueueVisibility = 4
  RPCFailures = FALSE
  MaxReceives = 1
  MaxTime = 3
  NoBody = {}
  NoReceipt = {}

SPECIFICATION Spec

PROPERTY RefreshRenewsNearExpiry
