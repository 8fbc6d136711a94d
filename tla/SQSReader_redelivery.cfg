\* One message received up to twice: leases that lapse while the pipeline
\* holds the message (a refresh call failing, ticks coming late), so the
\* same id is redelivered while its first handle is held; calls may fail.
CONSTANTS
  m1 = m1
  m2 = m2
  m3 = m3
  Msgs = {m1}
  MaxNumberOfMessages = 1
  MaxOutstanding = 2
  MessageTimeout = 2
  DeleteMessage = TRUE
  ResetVisibility = TRUE
  BatchMax = 1
  QueueVisibility = 2
  RPCFailures = TRUE
  MaxReceives = 2
  MaxTime = 3
  NoBody = {}
  NoReceipt = {}

SPECIFICATION Spec

INVARIANT ReleasedNotTracked
PROPERTY AtLeastOnce
INVARIANT AckRouting
