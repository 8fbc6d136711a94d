\* Shutdown from every reachable point: two messages, a receive batch of up
\* to two over a tracker limit of one, so the read loop can be parked in
\* AddNew or hold undispatched messages, and acks wait in pendingAcks for
\* a flush, when the soft stop comes.  m2 comes without an id and receipt,
\* so it travels with a nil handle that the deferred reset must skip.
CONSTANTS
  m1 = m1
  m2 = m2
  m3 = m3
  Msgs <- MCMsgs
  MaxNumberOfMessages = 2
  MaxOutstanding = 1
  MessageTimeout = 2
  DeleteMessage = TRUE
  ResetVisibility = TRUE
  BatchMax = 1
  QueueVisibility = 2
  RPCFailures = FALSE
  MaxReceives = 1
  MaxTime = 1
  NoBody = {}
  NoReceipt = {m2}

SPECIFICATION Spec

PROPERTY  ShutdownDrains AdmissionResumes
