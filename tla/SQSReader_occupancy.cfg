\* Three messages, batches of two over a tracker limit of one: the batch
\* that takes the tracker over its limit, the read loop parked in AddNew,
\* every shutdown interleaving, and every SQS call able to fail, so that a
\* delete or reset list of two handles stops after its first chunk; no
\* clock (see SQSReader_redelivery).
CONSTANTS
  m1 = m1
  m2 = m2
  m3 = m3
  Msgs <- MCMsgs3
  MaxNumberOfMessages = 2
  MaxOutstanding = 1
  MessageTimeout = 2
  DeleteMessage = TRUE
  ResetVisibility = TRUE
  BatchMax = 1
  QueueVisibility = 2
  RPCFailures = TRUE
  MaxReceives = 1
  MaxTime = 0
  NoBody = {}
  NoReceipt = {}
SPECIFICATION Spec
INVARIANT TypeOK
INVARIANT BoundedOccupancy
INVARIANT ReleasedNotTracked
INVARIANT AckRouting
PROPERTY AtLeastOnce
