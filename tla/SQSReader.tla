------------------------------ MODULE SQSReader ------------------------------
(***************************************************************************)
(* awsSQSReader of src/internal/impl/aws/input_sqs.go after Connect: the   *)
(* read (fetch) loop, the ack loop with its ticker and its asynchronous    *)
(* refresh pass, the in-flight tracker they share, the pipeline calling    *)
(* Read and the returned ackFn, and the two-phase shutdown of Close, all   *)
(* against the remote queue of SQSService.                                  *)
(*                                                                         *)
(* Time is whole seconds: now advances by Tick, and every tick makes the   *)
(* ack loop's one-second ticker ready (a time.Ticker keeps one tick).      *)
(* The unbuffered channels are rendezvous: a send and its receive are one *)
(* step.  A batched SQS call (deleteMessages, updateVisibilityMessages)    *)
(* is chunked by BatchMax; a call whose context is cancelled fails, and    *)
(* with RPCFailures any call may fail, which ends the chunk loop.          *)
(***************************************************************************)
EXTENDS Integers, Sequences, FiniteSets, SequencesExt

CONSTANTS
  Msgs,                 \* message ids in the queue
  MaxNumberOfMessages,  \* conf.MaxNumberOfMessages
  MaxOutstanding,       \* conf.MaxOutstanding (tracker limit)
  MessageTimeout,       \* conf.MessageTimeout, whole seconds
  DeleteMessage,        \* conf.DeleteMessage
  ResetVisibility,      \* conf.ResetVisibility
  BatchMax,             \* maxBatchSize of the batched calls (10 in the code)
  QueueVisibility,      \* the queue's own visibility timeout
  RPCFailures,          \* whether an SQS call may fail for its own reasons
  MaxReceives,          \* bound: receives per message
  MaxTime,              \* bound: seconds of wall clock
  NoBody,               \* messages the queue returns without a body
  NoReceipt             \* messages returned without MessageId/ReceiptHandle

ASSUME /\ MaxNumberOfMessages \in 1..10
       /\ MaxOutstanding \in Nat \ {0}
       /\ MessageTimeout \in Nat \ {0}
       /\ BatchMax \in Nat \ {0}
       /\ {DeleteMessage, ResetVisibility, RPCFailures} \subseteq BOOLEAN
       /\ NoBody \subseteq Msgs
       /\ NoReceipt \subseteq Msgs

VARIABLES
  now,            \* wall clock, seconds
  q,              \* the remote queue (SQSService)
  handles, deadline, waiting,   \* the in-flight tracker
  readPc,         \* where the read loop is
  pending,        \* readLoop's pendingMsgs (their handles)
  ackPc,          \* where the ack loop is
  pendingAcks,    \* ackLoop's pendingAcks
  pendingNacks,   \* ackLoop's pendingNacks
  tickReady,      \* flushTimer.C holds a tick
  refreshSpawned, \* a `go refreshCurrentHandles()` has not yet run TryLock
  refresh,        \* the refresh pass holding refreshLock: phase, rest, chunk
  cs,             \* each handle on the pipeline side of Read / ackFn
  softStop, hardStop, closeSt,  \* the shutdown signaller and Close
  delReq,         \* history: delete entries sent per handle (saturates at 2)
  resetReq,       \* history: handles sent in a visibility-0 entry
  nackFlushed,    \* history: handles in pendingNacks at a live reset flush
  callAfterClose  \* history: an SQS call was made after Close returned

vars == <<now, q, handles, deadline, waiting, readPc, pending, ackPc,
          pendingAcks, pendingNacks, tickReady, refreshSpawned, refresh, cs,
          softStop, hardStop, closeSt, delReq, resetReq, nackFlushed,
          callAfterClose>>

SQS == INSTANCE SQSService
Trk == INSTANCE SQSInFlightTracker
Ch == INSTANCE Chunking

Handle == Trk!Handle
Deleted == Trk!Deleted

(* The pairs that get an *sqsMessageHandle: both MessageId and             *)
(* ReceiptHandle set.  The others travel with a nil handle.                *)
HasHandle(h) == h[1] \notin NoReceipt

-----------------------------------------------------------------------------
(* The batched calls.  k is how many chunk calls went through before one   *)
(* failed (all of them when k = NChunks).  The chunks are counted on the   *)
(* entries in the closed form of Chunking's Partition, which MC_Chunking   *)
(* shows to be what the code's chunk loops send.                           *)

NChunks(n) == (n + BatchMax - 1) \div BatchMax

ChunkCalls(n, live) ==
  IF n = 0 \/ ~live THEN {0}
  ELSE IF RPCFailures THEN 0..NChunks(n) ELSE {NChunks(n)}

SentPrefix(s, k) ==
  ToSet(SubSeq(s, 1, IF k * BatchMax < Len(s) THEN k * BatchMax ELSE Len(s)))

(* deleteMessages: nothing when DeleteMessage is off.                      *)
DeleteCalls(hs, live) == IF DeleteMessage THEN ChunkCalls(Len(hs), live) ELSE {0}

(* updateVisibilityMessages puts only handles not yet marked deleted in    *)
(* its entries; a chunk left empty is an EmptyBatchRequest error, which    *)
(* can only happen at the end of the list and changes nothing.  A nil      *)
(* handle (no deadline) is never passed to it: readLoop skips those.       *)
VisibilityEntries(hs, dl) ==
  SelectSeq(hs, LAMBDA h : h \in DOMAIN dl /\ dl[h] # Deleted)

(* resetMessages: nothing when ResetVisibility is off.                      *)
ResetCalls(es, live) == IF ResetVisibility THEN ChunkCalls(Len(es), live) ELSE {0}

Bump(f, S) == [h \in DOMAIN f |-> IF h \in S /\ f[h] < 2 THEN f[h] + 1 ELSE f[h]]

(* flushFinishedHandles(hs, true), as part of a step of the ack loop.      *)
FlushAcks(hs, live) ==
  \E k \in DeleteCalls(hs, live) :
     /\ q' = SQS!Deleted(q, SentPrefix(hs, k))
     /\ delReq' = Bump(delReq, SentPrefix(hs, k))

NackFlushedNow(hs, live) ==
  IF live /\ ResetVisibility /\ hs # <<>> THEN nackFlushed \cup ToSet(hs)
  ELSE nackFlushed

(* Mutation: the nack case calling flushFinishedHandles(pendingNacks, true). *)
FlushNacksErase(hs, dl, live) ==
  \E k \in DeleteCalls(hs, live) :
     /\ q' = SQS!Deleted(q, SentPrefix(hs, k))
     /\ UNCHANGED <<resetReq, nackFlushed>>

(* flushFinishedHandles(hs, false): the reset of the handles in hs, read   *)
(* through the deadlines dl.                                                *)
FlushNacks(hs, dl, live) ==
  LET es == VisibilityEntries(hs, dl) IN
  \E k \in ResetCalls(es, live) :
     /\ q' = SQS!VisibilityChanged(q, SentPrefix(es, k), 0, now)
     /\ resetReq' = resetReq \cup SentPrefix(es, k)
     /\ nackFlushed' = NackFlushedNow(hs, live)

(* Mutation: the second flush called with erase = true, deleting nacks.   *)
FlushBothSwapped(live) ==
  \E ka \in DeleteCalls(pendingAcks, live), kn \in DeleteCalls(pendingNacks, live) :
     /\ q' = SQS!Deleted(SQS!Deleted(q, SentPrefix(pendingAcks, ka)),
                         SentPrefix(pendingNacks, kn))
     /\ delReq' = Bump(delReq, SentPrefix(pendingAcks, ka) \cup SentPrefix(pendingNacks, kn))
     /\ UNCHANGED <<resetReq, nackFlushed>>

(* flushFinishedHandles(pendingAcks, true) then (pendingNacks, false).     *)
FlushBoth(live) ==
  LET es == VisibilityEntries(pendingNacks, deadline) IN
  \E ka \in DeleteCalls(pendingAcks, live), kn \in ResetCalls(es, live) :
     /\ q' = SQS!VisibilityChanged(SQS!Deleted(q, SentPrefix(pendingAcks, ka)),
                                   SentPrefix(es, kn), 0, now)
     /\ delReq' = Bump(delReq, SentPrefix(pendingAcks, ka))
     /\ resetReq' = resetReq \cup SentPrefix(es, kn)
     /\ nackFlushed' = NackFlushedNow(pendingNacks, live)

-----------------------------------------------------------------------------
(* Connect: a fresh tracker and both loops started; Close not yet called.  *)
Init ==
  /\ now = 0
  /\ q = SQS!InitQueue
  /\ Trk!TrackerInit
  /\ readPc = "receive"
  /\ pending = <<>>
  /\ ackPc = "loop"
  /\ pendingAcks = <<>>
  /\ pendingNacks = <<>>
  /\ tickReady = FALSE
  /\ refreshSpawned = FALSE
  /\ refresh = [st |-> "idle", rest |-> <<>>, chunk |-> <<>>]
  /\ cs = [h \in Handle |-> "none"]
  /\ softStop = FALSE
  /\ hardStop = FALSE
  /\ closeSt = "open"
  /\ delReq = [h \in Handle |-> 0]
  /\ resetReq = {}
  /\ nackFlushed = {}
  /\ callAfterClose = FALSE

-----------------------------------------------------------------------------
(* The read loop.                                                          *)

(* Mutation: the handle built without handle.deadline.Store.              *)
ReceiveMessagesNoDeadline ==
  /\ readPc = "receive"
  /\ ~softStop
  /\ \E batch \in SUBSET SQS!Available(q, now) :
       /\ Cardinality(batch) <= MaxNumberOfMessages
       /\ q' = SQS!Received(q, batch, now)
       /\ pending' = SetToSeq({<<m, q.rcv[m] + 1>> : m \in batch})
       /\ readPc' = IF batch = {} THEN "backoff" ELSE "addNew"
  /\ UNCHANGED <<now, handles, deadline, waiting, ackPc, pendingAcks, pendingNacks,
                 tickReady, refreshSpawned, refresh, cs, softStop, hardStop,
                 closeSt, delReq, resetReq, nackFlushed, callAfterClose>>

(* getMsgs, call succeeded: a handle per message that has an id and a     *)
(* receipt, deadline now + timeout, then AddNew of the batch (unless the   *)
(* batch is empty), which skips the nil handles.                           *)
ReceiveMessages ==
  /\ readPc = "receive"
  /\ ~softStop
  /\ \E batch \in SUBSET SQS!Available(q, now) :
       /\ Cardinality(batch) <= MaxNumberOfMessages
       /\ LET hs == {<<m, q.rcv[m] + 1>> : m \in batch} IN
          /\ q' = SQS!Received(q, batch, now)
          /\ pending' = SetToSeq(hs)
          /\ deadline' = [h \in DOMAIN deadline \cup {x \in hs : HasHandle(x)} |->
                            IF h \in hs THEN now + MessageTimeout ELSE deadline[h]]
          /\ readPc' = IF batch = {} THEN "backoff" ELSE "addNew"
  /\ UNCHANGED <<now, handles, waiting, ackPc, pendingAcks, pendingNacks,
                 tickReady, refreshSpawned, refresh, cs, softStop, hardStop,
                 closeSt, delReq, resetReq, nackFlushed, callAfterClose>>

(* getMsgs, call failed: a long-poll timeout, a real error, or the soft    *)
(* stop cancelling closeAtLeisureCtx.                                      *)
ReceiveFailed ==
  /\ readPc = "receive"
  /\ softStop \/ RPCFailures
  /\ readPc' = "backoff"
  /\ UNCHANGED <<now, q, handles, deadline, waiting, pending, ackPc,
                 pendingAcks, pendingNacks, tickReady, refreshSpawned, refresh,
                 cs, softStop, hardStop, closeSt, delReq, resetReq,
                 nackFlushed, callAfterClose>>

AddNewInserted ==
  /\ readPc = "addNew"
  /\ Trk!AddNewInsert({h \in ToSet(pending) : HasHandle(h)})
  /\ readPc' = "dispatch"
  /\ UNCHANGED <<now, q, deadline, pending, ackPc, pendingAcks, pendingNacks,
                 tickReady, refreshSpawned, refresh, cs, softStop, hardStop,
                 closeSt, delReq, resetReq, nackFlushed, callAfterClose>>

AddNewWaits ==
  /\ readPc = "addNew"
  /\ ~softStop
  /\ Trk!AddNewWait
  /\ readPc' = "wait"
  /\ UNCHANGED <<now, q, deadline, pending, ackPc, pendingAcks, pendingNacks,
                 tickReady, refreshSpawned, refresh, cs, softStop, hardStop,
                 closeSt, delReq, resetReq, nackFlushed, callAfterClose>>

(* ctx.Err() != nil at the limit: AddNew returns without inserting.        *)
AddNewCancelled ==
  /\ readPc = "addNew"
  /\ softStop
  /\ Trk!AddNewCancelled
  /\ readPc' = "dispatch"
  /\ UNCHANGED <<now, q, handles, deadline, waiting, pending, ackPc,
                 pendingAcks, pendingNacks, tickReady, refreshSpawned, refresh,
                 cs, softStop, hardStop, closeSt, delReq, resetReq,
                 nackFlushed, callAfterClose>>

(* t.l.Wait() returns once signalled and the lock is retaken.              *)
AddNewWakes ==
  /\ readPc = "wait"
  /\ ~waiting
  /\ readPc' = "addNew"
  /\ UNCHANGED <<now, q, handles, deadline, waiting, pending, ackPc,
                 pendingAcks, pendingNacks, tickReady, refreshSpawned, refresh,
                 cs, softStop, hardStop, closeSt, delReq, resetReq,
                 nackFlushed, callAfterClose>>

(* What Read makes of a message it takes from messagesChan: a message     *)
(* without a body is returned as context.Canceled, with no ackFn, and is  *)
(* lost to the pipeline; any other is returned with its ackFn.             *)
ReadResult(h) == IF h[1] \in NoBody THEN "lost" ELSE "held"

(* Mutation: the send case without `pendingMsgs = pendingMsgs[1:]`.       *)
DispatchKeepsPending ==
  /\ readPc = "dispatch"
  /\ cs' = [cs EXCEPT ![Head(pending)] = ReadResult(Head(pending))]
  /\ UNCHANGED <<now, q, handles, deadline, waiting, readPc, pending, ackPc,
                 pendingAcks, pendingNacks, tickReady, refreshSpawned, refresh,
                 softStop, hardStop, closeSt, delReq, resetReq, nackFlushed,
                 callAfterClose>>

(* a.messagesChan <- pendingMsgs[0] meets a Read.                           *)
Dispatch ==
  /\ readPc = "dispatch"
  /\ cs' = [cs EXCEPT ![Head(pending)] = ReadResult(Head(pending))]
  /\ pending' = Tail(pending)
  /\ readPc' = IF Tail(pending) = <<>> THEN "receive" ELSE "dispatch"
  /\ UNCHANGED <<now, q, handles, deadline, waiting, ackPc, pendingAcks,
                 pendingNacks, tickReady, refreshSpawned, refresh, softStop,
                 hardStop, closeSt, delReq, resetReq, nackFlushed,
                 callAfterClose>>

(* time.After(backoff.NextBackOff()) fires.                                *)
BackoffElapsed ==
  /\ readPc = "backoff"
  /\ readPc' = "receive"
  /\ UNCHANGED <<now, q, handles, deadline, waiting, pending, ackPc,
                 pendingAcks, pendingNacks, tickReady, refreshSpawned, refresh,
                 cs, softStop, hardStop, closeSt, delReq, resetReq,
                 nackFlushed, callAfterClose>>

(* Mutation: the deferred function of readLoop left out.                  *)
ReadLoopStopsNoReset ==
  /\ readPc \in {"dispatch", "backoff"}
  /\ softStop
  /\ readPc' = "done"
  /\ UNCHANGED <<now, q, handles, deadline, waiting, pending, ackPc, pendingAcks,
                 pendingNacks, tickReady, refreshSpawned, refresh, cs, softStop,
                 hardStop, closeSt, delReq, resetReq, nackFlushed, callAfterClose>>

(* The soft stop wins a select: return, and the deferred function resets  *)
(* every undispatched message with the hard-stop context.                  *)
ReadLoopStops ==
  /\ readPc \in {"dispatch", "backoff"}
  /\ softStop
  /\ LET es == VisibilityEntries(pending, deadline) IN
     \E k \in ResetCalls(es, ~hardStop) :
        /\ q' = SQS!VisibilityChanged(q, SentPrefix(es, k), 0, now)
        /\ resetReq' = resetReq \cup SentPrefix(es, k)
  /\ readPc' = "done"
  /\ UNCHANGED <<now, handles, deadline, waiting, pending, ackPc, pendingAcks,
                 pendingNacks, tickReady, refreshSpawned, refresh, cs,
                 softStop, hardStop, closeSt, delReq, nackFlushed,
                 callAfterClose>>

-----------------------------------------------------------------------------
(* The ack loop.  Its calls use closeNowCtx, live until the hard stop.     *)

(* Mutation: the ack case without inFlightTracker.Remove.                 *)
AckReceivedNoRemove(h) ==
  /\ ackPc = "loop"
  /\ cs[h] = "ack"
  /\ LET pa == Append(pendingAcks, h) IN
     /\ pendingAcks' = pa
     /\ deadline' = [deadline EXCEPT ![h] = Deleted]
     /\ IF Len(pa) >= MaxNumberOfMessages
        THEN FlushAcks(pa, ~hardStop)
        ELSE UNCHANGED <<q, delReq>>
  /\ cs' = [cs EXCEPT ![h] = "acked"]
  /\ UNCHANGED <<now, handles, waiting, readPc, pending, ackPc, pendingNacks,
                 tickReady, refreshSpawned, refresh, softStop, hardStop, closeSt,
                 resetReq, nackFlushed, callAfterClose>>

(* case h := <-a.ackMessagesChan, meeting ackFn(rctx, nil).                *)
AckReceived(h) ==
  /\ ackPc = "loop"
  /\ cs[h] = "ack"
  /\ LET pa == Append(pendingAcks, h) IN
     /\ pendingAcks' = pa
     /\ Trk!Remove(h[1])
     /\ deadline' = [deadline EXCEPT ![h] = Deleted]
     /\ IF Len(pa) >= MaxNumberOfMessages
        THEN FlushAcks(pa, ~hardStop)
        ELSE UNCHANGED <<q, delReq>>
  /\ cs' = [cs EXCEPT ![h] = "acked"]
  /\ UNCHANGED <<now, readPc, pending, ackPc, pendingNacks, tickReady,
                 refreshSpawned, refresh, softStop, hardStop, closeSt,
                 resetReq, nackFlushed, callAfterClose>>

(* Mutation: the nack case without inFlightTracker.Remove.                *)
NackReceivedNoRemove(h) ==
  /\ ackPc = "loop"
  /\ cs[h] = "nack"
  /\ LET pn == Append(pendingNacks, h)
         dl == [deadline EXCEPT ![h] = Deleted]
     IN /\ pendingNacks' = pn
        /\ deadline' = dl
        /\ IF Len(pn) >= MaxNumberOfMessages
           THEN FlushNacks(pn, dl, ~hardStop)
           ELSE UNCHANGED <<q, resetReq, nackFlushed>>
  /\ cs' = [cs EXCEPT ![h] = "nacked"]
  /\ UNCHANGED <<now, handles, waiting, readPc, pending, ackPc, pendingAcks,
                 tickReady, refreshSpawned, refresh, softStop, hardStop, closeSt,
                 delReq, callAfterClose>>

(* case h := <-a.nackMessagesChan, meeting ackFn(rctx, err).               *)
NackReceived(h) ==
  /\ ackPc = "loop"
  /\ cs[h] = "nack"
  /\ LET pn == Append(pendingNacks, h)
         dl == [deadline EXCEPT ![h] = Deleted]
     IN /\ pendingNacks' = pn
        /\ Trk!Remove(h[1])
        /\ deadline' = dl
        /\ IF Len(pn) >= MaxNumberOfMessages
           THEN FlushNacks(pn, dl, ~hardStop)
           ELSE UNCHANGED <<q, resetReq, nackFlushed>>
  /\ cs' = [cs EXCEPT ![h] = "nacked"]
  /\ UNCHANGED <<now, readPc, pending, ackPc, pendingAcks, tickReady,
                 refreshSpawned, refresh, softStop, hardStop, closeSt, delReq,
                 callAfterClose>>

(* case <-flushTimer.C: flush both lists, spawn a refresh pass.            *)
FlushTick ==
  /\ ackPc = "loop"
  /\ tickReady
  /\ FlushBoth(~hardStop)
  /\ tickReady' = FALSE
  /\ refreshSpawned' = TRUE
  /\ UNCHANGED <<now, handles, deadline, waiting, readPc, pending, ackPc,
                 pendingAcks, pendingNacks, refresh, cs, softStop, hardStop,
                 closeSt, callAfterClose>>

(* case <-SoftStopChan(): leave the loop, flush both lists, then the       *)
(* deferred done() (closeNowCtx cancelled) and inFlightTracker.Clear().    *)
AckLoopStops ==
  /\ ackPc = "loop"
  /\ softStop
  /\ FlushBoth(~hardStop)
  /\ Trk!Clear
  /\ ackPc' = "done"
  /\ UNCHANGED <<now, deadline, readPc, pending, pendingAcks, pendingNacks,
                 tickReady, refreshSpawned, refresh, cs, softStop, hardStop,
                 closeSt, callAfterClose>>

-----------------------------------------------------------------------------
(* refreshCurrentHandles, run by a goroutine the tick spawned.             *)

RefreshLive == ~hardStop /\ ackPc # "done"

(* TryLock succeeds, PullToRefresh bumps the deadlines it returns.         *)
RefreshStarts ==
  /\ refreshSpawned
  /\ refresh.st = "idle"
  /\ Trk!PullToRefresh(now)
  /\ LET hs == SetToSeq(Trk!RefreshDue(now)) IN
     refresh' = IF hs = <<>> THEN refresh
                ELSE [st |-> "pulled", rest |-> hs, chunk |-> <<>>]
  /\ refreshSpawned' = FALSE
  /\ UNCHANGED <<now, q, handles, waiting, readPc, pending, ackPc, pendingAcks,
                 pendingNacks, tickReady, cs, softStop, hardStop, closeSt,
                 delReq, resetReq, nackFlushed, callAfterClose>>

(* TryLock fails: a pass is still in flight.                                *)
RefreshSkipped ==
  /\ refreshSpawned
  /\ refresh.st # "idle"
  /\ refreshSpawned' = FALSE
  /\ UNCHANGED <<now, q, handles, deadline, waiting, readPc, pending, ackPc,
                 pendingAcks, pendingNacks, tickReady, refresh, cs, softStop,
                 hardStop, closeSt, delReq, resetReq, nackFlushed,
                 callAfterClose>>

(* One chunk of the refresh pass: the handles the chunk loop consumes     *)
(* (Chunking's Consumed, checked in MC_Chunking).                          *)
ChunkLen(s) == Ch!Consumed(s, {h \in DOMAIN deadline : deadline[h] = Deleted}, 0)

RefreshBuildsChunk ==
  /\ refresh.st = "pulled"
  /\ LET n == ChunkLen(refresh.rest) IN
     refresh' = [st |-> "sending",
                 rest |-> SubSeq(refresh.rest, n + 1, Len(refresh.rest)),
                 chunk |-> VisibilityEntries(SubSeq(refresh.rest, 1, n), deadline)]
  /\ UNCHANGED <<now, q, handles, deadline, waiting, readPc, pending, ackPc,
                 pendingAcks, pendingNacks, tickReady, refreshSpawned, cs,
                 softStop, hardStop, closeSt, delReq, resetReq, nackFlushed,
                 callAfterClose>>

(* ChangeMessageVisibilityBatch(timeout) with the chunk: an error (a       *)
(* cancelled context, an empty batch, a failed call) ends the pass.        *)
RefreshSendsChunk ==
  /\ refresh.st = "sending"
  /\ \E ok \in IF refresh.chunk # <<>> /\ RefreshLive
               THEN (IF RPCFailures THEN BOOLEAN ELSE {TRUE}) ELSE {FALSE} :
       /\ q' = IF ok THEN SQS!VisibilityChanged(q, ToSet(refresh.chunk),
                                                MessageTimeout, now)
               ELSE q
       /\ refresh' = IF ok /\ refresh.rest # <<>>
                     THEN [refresh EXCEPT !.st = "pulled", !.chunk = <<>>]
                     ELSE [st |-> "idle", rest |-> <<>>, chunk |-> <<>>]
  /\ UNCHANGED <<now, handles, deadline, waiting, readPc, pending, ackPc,
                 pendingAcks, pendingNacks, tickReady, refreshSpawned, cs,
                 softStop, hardStop, closeSt, delReq, resetReq, nackFlushed,
                 callAfterClose>>

-----------------------------------------------------------------------------
(* The pipeline: Read (see Dispatch) and the ackFn it returns.             *)

AckFnCalled(h) ==
  /\ cs[h] = "held"
  /\ HasHandle(h)
  /\ \E res \in {"ack", "nack"} : cs' = [cs EXCEPT ![h] = res]
  /\ UNCHANGED <<now, q, handles, deadline, waiting, readPc, pending, ackPc,
                 pendingAcks, pendingNacks, tickReady, refreshSpawned, refresh,
                 softStop, hardStop, closeSt, delReq, resetReq, nackFlushed,
                 callAfterClose>>

(* ackFn of a message with a nil handle: returns nil, whatever the result. *)
AckFnNoHandle(h) ==
  /\ cs[h] = "held"
  /\ ~HasHandle(h)
  /\ cs' = [cs EXCEPT ![h] = "noop"]
  /\ UNCHANGED <<now, q, handles, deadline, waiting, readPc, pending, ackPc,
                 pendingAcks, pendingNacks, tickReady, refreshSpawned, refresh,
                 softStop, hardStop, closeSt, delReq, resetReq, nackFlushed,
                 callAfterClose>>

(* Mutation: the ackFn's soft-stop path deleting whatever the result.     *)
AckFnAfterStopSwapped(h) ==
  /\ cs[h] \in {"ack", "nack"}
  /\ softStop
  /\ \E k \in DeleteCalls(<<h>>, TRUE) :
        /\ q' = SQS!Deleted(q, SentPrefix(<<h>>, k))
        /\ delReq' = Bump(delReq, SentPrefix(<<h>>, k))
  /\ cs' = [cs EXCEPT ![h] = IF cs[h] = "ack" THEN "acked" ELSE "nacked"]
  /\ callAfterClose' = (callAfterClose \/ (closeSt = "returned" /\ DeleteMessage))
  /\ UNCHANGED <<now, handles, deadline, waiting, readPc, pending, ackPc,
                 pendingAcks, pendingNacks, tickReady, refreshSpawned, refresh,
                 softStop, hardStop, closeSt, resetReq, nackFlushed>>

(* ackFn sees the soft stop first: one delete (ack) or reset (nack) of    *)
(* the handle, made with the caller's rctx.                                 *)
AckFnAfterStop(h) ==
  /\ cs[h] \in {"ack", "nack"}
  /\ softStop
  /\ \/ /\ cs[h] = "ack"
        /\ \E k \in DeleteCalls(<<h>>, TRUE) :
              /\ q' = SQS!Deleted(q, SentPrefix(<<h>>, k))
              /\ delReq' = Bump(delReq, SentPrefix(<<h>>, k))
        /\ cs' = [cs EXCEPT ![h] = "acked"]
        /\ callAfterClose' = (callAfterClose \/ (closeSt = "returned" /\ DeleteMessage))
        /\ UNCHANGED resetReq
     \/ /\ cs[h] = "nack"
        /\ LET es == VisibilityEntries(<<h>>, deadline) IN
           \E k \in ResetCalls(es, TRUE) :
              /\ q' = SQS!VisibilityChanged(q, SentPrefix(es, k), 0, now)
              /\ resetReq' = resetReq \cup SentPrefix(es, k)
              /\ callAfterClose' = (callAfterClose \/
                                    (closeSt = "returned" /\ ResetVisibility /\ es # <<>>))
        /\ cs' = [cs EXCEPT ![h] = "nacked"]
        /\ UNCHANGED delReq
  /\ UNCHANGED <<now, handles, deadline, waiting, readPc, pending, ackPc,
                 pendingAcks, pendingNacks, tickReady, refreshSpawned, refresh,
                 softStop, hardStop, closeSt, nackFlushed>>

(* rctx is done first: ackFn returns its error, the handle goes nowhere.   *)
AckFnCancelled(h) ==
  /\ cs[h] \in {"ack", "nack"}
  /\ cs' = [cs EXCEPT ![h] = "dropped"]
  /\ UNCHANGED <<now, q, handles, deadline, waiting, readPc, pending, ackPc,
                 pendingAcks, pendingNacks, tickReady, refreshSpawned, refresh,
                 softStop, hardStop, closeSt, delReq, resetReq, nackFlushed,
                 callAfterClose>>

-----------------------------------------------------------------------------
(* Close and the passing of time.                                          *)

Stopped == readPc = "done" /\ ackPc = "done"

(* TriggerSoftStop; a ctx deadline under a second away hard-stops at once. *)
Close ==
  /\ closeSt # "closing"
  /\ softStop' = TRUE
  /\ hardStop' \in {hardStop, TRUE}
  /\ closeSt' = "closing"
  /\ UNCHANGED <<now, q, handles, deadline, waiting, readPc, pending, ackPc,
                 pendingAcks, pendingNacks, tickReady, refreshSpawned, refresh,
                 cs, delReq, resetReq, nackFlushed, callAfterClose>>

(* time.After(closeNowAt) fires: TriggerHardStop.                          *)
HardStopTimer ==
  /\ closeSt = "closing"
  /\ ~hardStop
  /\ hardStop' = TRUE
  /\ UNCHANGED <<now, q, handles, deadline, waiting, readPc, pending, ackPc,
                 pendingAcks, pendingNacks, tickReady, refreshSpawned, refresh,
                 cs, softStop, closeSt, delReq, resetReq, nackFlushed,
                 callAfterClose>>

CloseReturns ==
  /\ closeSt = "closing"
  /\ Stopped
  /\ closeSt' = "returned"
  /\ UNCHANGED <<now, q, handles, deadline, waiting, readPc, pending, ackPc,
                 pendingAcks, pendingNacks, tickReady, refreshSpawned, refresh,
                 cs, softStop, hardStop, delReq, resetReq, nackFlushed,
                 callAfterClose>>

CloseCtxDone ==
  /\ closeSt = "closing"
  /\ closeSt' = "failed"
  /\ UNCHANGED <<now, q, handles, deadline, waiting, readPc, pending, ackPc,
                 pendingAcks, pendingNacks, tickReady, refreshSpawned, refresh,
                 cs, softStop, hardStop, delReq, resetReq, nackFlushed,
                 callAfterClose>>

Tick ==
  /\ now < MaxTime
  /\ now' = now + 1
  /\ tickReady' = TRUE
  /\ UNCHANGED <<q, handles, deadline, waiting, readPc, pending, ackPc,
                 pendingAcks, pendingNacks, refreshSpawned, refresh, cs,
                 softStop, hardStop, closeSt, delReq, resetReq, nackFlushed,
                 callAfterClose>>

-----------------------------------------------------------------------------
ReadLoopStep ==
  \/ ReceiveMessages \/ ReceiveFailed \/ AddNewInserted \/ AddNewWaits
  \/ AddNewCancelled \/ AddNewWakes \/ BackoffElapsed \/ ReadLoopStops

AckLoopStep ==
  \/ \E h \in Handle : AckReceived(h) \/ NackReceived(h)
  \/ FlushTick \/ AckLoopStops

RefreshStep ==
  RefreshStarts \/ RefreshSkipped \/ RefreshBuildsChunk \/ RefreshSendsChunk

PipelineStep ==
  \/ Dispatch
  \/ \E h \in Handle : \/ AckFnCalled(h) \/ AckFnNoHandle(h)
                      \/ AckFnAfterStop(h) \/ AckFnCancelled(h)

Next ==
  \/ ReadLoopStep \/ AckLoopStep \/ RefreshStep \/ PipelineStep
  \/ Close \/ HardStopTimer \/ CloseReturns \/ CloseCtxDone \/ Tick

(* The two loops and the refresh goroutine are goroutines the Go scheduler *)
(* runs; a select with several ready cases picks one at random, so the     *)
(* soft-stop case of the read loop, enabled again and again, is taken.     *)
(* The pipeline, the caller of Close and the clock get no fairness.        *)
Fairness ==
  /\ WF_vars(ReadLoopStep)
  /\ SF_vars(ReadLoopStops)
  /\ WF_vars(AckLoopStep)
  /\ WF_vars(RefreshStep)

Spec == Init /\ [][Next]_vars /\ Fairness
-----------------------------------------------------------------------------
(* Properties.                                                              *)

TypeOK ==
  /\ now \in 0..MaxTime
  /\ q \in [rcv : [Msgs -> 0..MaxReceives], visibleAt : [Msgs -> Int],
            gone : SUBSET Msgs]
  /\ Trk!TrackerTypeOK
  /\ readPc \in {"receive", "addNew", "wait", "dispatch", "backoff", "done"}
  /\ pending \in Seq(Handle)
  /\ ackPc \in {"loop", "done"}
  /\ pendingAcks \in Seq(Handle) /\ pendingNacks \in Seq(Handle)
  /\ {tickReady, refreshSpawned, softStop, hardStop, callAfterClose} \subseteq BOOLEAN
  /\ refresh.st \in {"idle", "pulled", "sending"}
  /\ cs \in [Handle -> {"none", "held", "lost", "ack", "nack", "acked", "nacked",
                      "dropped", "noop"}]
  /\ closeSt \in {"open", "closing", "returned", "failed"}
  /\ delReq \in [Handle -> 0..2]
  /\ resetReq \subseteq Handle /\ nackFlushed \subseteq Handle

(* Bounded occupancy (AddNew's soft limit): the tracker never holds more   *)
(* than one receive batch beyond MaxOutstanding - 1, whatever the          *)
(* interleaving of the read loop's admission with the ack loop's removals *)
(* and Clear.  (The spec's bound, MaxOutstanding + MaxNumberOfMessages, is *)
(* one looser: the check is made before the batch goes in.)                *)
BoundedOccupancy == Trk!Size <= MaxOutstanding - 1 + MaxNumberOfMessages

(* A handle the ack loop has released (marked deleted by SetDeleted) is no *)
(* longer in the tracker, so no later PullToRefresh renews its lease; this *)
(* relates Remove by id with the receive/AddNew path that fills the map.   *)
ReleasedNotTracked == \A h \in Trk!Tracked : ~Trk!IsDeleted(h)

ShutdownDrains ==
  \A h \in Handle :
    /\ softStop /\ cs[h] = "acked" ~> h[1] \in q.gone \/ hardStop
    /\ softStop /\ cs[h] = "none" /\ h \in ToSet(pending) /\ HasHandle(h)
         ~> h \in resetReq \/ cs[h] # "none" \/ hardStop

(* Admission resumes: once the read loop is parked in AddNew's           *)
(* t.l.Wait() and the tracker has dropped below its limit (an ack or nack *)
(* removed a handle, or Clear emptied it), the read loop eventually leaves *)
(* the wait.  Every path that shrinks the map must signal the condition   *)
(* variable; the ack loop and the pipeline are otherwise free to stop.    *)
AdmissionResumes ==
  readPc = "wait" /\ Trk!Size < MaxOutstanding ~> readPc # "wait"

(* From the spec (4.3, scenario "Nack with reset on"): every handle the    *)
(* ack loop flushes as a nack, with ResetVisibility on and a live context, *)
(* is sent in a ChangeMessageVisibilityBatch entry with timeout 0.         *)
NackedHandlesReset == nackFlushed \subseteq resetReq

(* From the spec (scenario "Happy path": exactly one DeleteMessageBatch):  *)
(* no acked handle is sent in more than one delete entry.                  *)
AckDeletedOnce == \A h \in Handle : delReq[h] <= 1

(* From the spec (4.1, PullToRefresh): a refresh pass renews every tracked *)
(* handle whose deadline is less than half the timeout away.               *)
NearExpiry == {h \in Trk!Tracked : 2 * (deadline[h] - now) < MessageTimeout
                                   /\ ~Trk!IsDeleted(h)}
RefreshRenewsNearExpiry ==
  [][refresh.st = "idle" /\ refreshSpawned /\ ~refreshSpawned'
       => \A h \in NearExpiry : deadline'[h] = now + MessageTimeout]_vars

(* From the spec (3, handle invariants): a handle is in the tracker while *)
(* it is neither acked nor nacked; checked for handles the pipeline holds *)
(* while the reader runs, when a redelivered copy of the same message can *)
(* arrive.                                                                  *)
HeldHandlesTracked ==
  \A h \in Handle : cs[h] = "held" /\ HasHandle(h) /\ ~softStop => h \in Trk!Tracked

(* From the spec (8, property 6): after Close returns, no SQS call is made. *)
NoCallAfterClose == ~callAfterClose

(* From the spec (8, property 4, ack routing): the pipeline's ack of a     *)
(* handle never leads to a visibility reset of it, and its nack never to  *)
(* a delete of it, whichever of the ack loop's flushes, the ackFn's own    *)
(* calls after the soft stop or readLoop's shutdown drain sends the entry. *)
AckRouting ==
  \A h \in Handle :
    /\ delReq[h] > 0 => cs[h] = "acked"
    /\ h \in resetReq => cs[h] \notin {"ack", "acked"}

(* From the spec (8, property 2): every admitted message is in the end     *)
(* deleted or eligible to redeliver.  A handle whose ackFn has returned    *)
(* (ack or nack taken, or its rctx done first) eventually leaves the      *)
(* tracker, so its slot is freed and its lease is no longer extended.     *)
SlotReleased ==
  \A h \in Handle : cs[h] \in {"acked", "nacked", "dropped"} ~> h \notin Trk!Tracked

(* The input implements the at-least-once contract of AtLeastOnceInput:   *)
(* received ids are those the queue handed out, delivered ids those Read  *)
(* returned with an ackFn, acked ids those whose ack the ack loop or the   *)
(* ackFn itself took, deleted ids those gone from the queue.              *)
ReceivedIds == {m \in Msgs : q.rcv[m] > 0}
DeliveredIds == {h[1] : h \in {x \in Handle : cs[x] \notin {"none", "lost"}}}
CommittedAckIds == {h[1] : h \in {x \in Handle : cs[x] = "acked"}}

ALO == INSTANCE AtLeastOnceInput
         WITH received <- ReceivedIds, delivered <- DeliveredIds,
              acked <- CommittedAckIds, deleted <- q.gone

AtLeastOnce == ALO!Spec

(* From the spec (9, deadline sentinel): the sentinel closes the race in   *)
(* which a refresh batch has already captured a handle that an ack has    *)
(* just dequeued: a chunk the refresh pass is about to send never holds a *)
(* handle the ack loop has released.                                       *)
CapturedChunkLive ==
  refresh.st = "sending" => \A h \in ToSet(refresh.chunk) : ~Trk!IsDeleted(h)
=============================================================================
