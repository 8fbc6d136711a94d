--------------------------- MODULE SQSInFlightTracker ---------------------------
(***************************************************************************)
(* sqsInFlightTracker of input_sqs.go: the map from message id to the      *)
(* handle in flight, guarded by one mutex, with a condition variable on    *)
(* which AddNew parks while the map is at its limit, and the per-handle    *)
(* deadline (sqsMessageDeadline) that the tracker, the ack loop and the    *)
(* refresh pass share.                                                      *)
(*                                                                         *)
(* Every operator is one critical section of the tracker and is used as   *)
(* (part of) an action by the module that composes the tracker with its   *)
(* callers (SQSReader).  A handle is the pair <<id, receipt>>.             *)
(***************************************************************************)
EXTENDS Integers, FiniteSets

CONSTANTS
  Msgs,           \* message ids
  MaxReceives,    \* receipts per message (see SQSService)
  MaxOutstanding, \* t.limit
  MessageTimeout  \* t.timeout, whole seconds

VARIABLES
  handles,   \* t.handles: id -> receipt of the handle stored under that id
  deadline,  \* sqsMessageDeadline of every handle created so far
  waiting    \* the one AddNew caller (the read loop) is parked in t.l.Wait()

Handle == Msgs \X (1..MaxReceives)

(* SetDeleted stores -1; IsDeleted compares with it.                        *)
Deleted == -1
IsDeleted(h) == deadline[h] = Deleted

Tracked == {<<m, handles[m]>> : m \in DOMAIN handles}

Size == Cardinality(DOMAIN handles)

(* t.l.Signal(): wakes the waiter if there is one.                          *)
Signal == waiting' = FALSE

(* Mutation: Remove without t.l.Signal().                                   *)
RemoveNoSignal(id) ==
  /\ handles' = [m \in DOMAIN handles \ {id} |-> handles[m]]
  /\ UNCHANGED waiting

Remove(id) ==
  /\ handles' = [m \in DOMAIN handles \ {id} |-> handles[m]]
  /\ Signal

Clear ==
  /\ handles' = [m \in {} |-> 0]
  /\ Signal

(* The map after `t.handles[m.handle.id] = m.handle` for each of batch: a *)
(* message whose id is already in the map replaces the handle there.       *)
WithBatch(batch) ==
  [m \in DOMAIN handles \cup {h[1] : h \in batch} |->
     IF \E h \in batch : h[1] = m THEN (CHOOSE h \in batch : h[1] = m)[2]
                                   ELSE handles[m]]

(* Mutation: the admission loop written with > instead of >=.             *)
AddNewInsertOffByOne(batch) ==
  /\ Size <= MaxOutstanding
  /\ handles' = WithBatch(batch)
  /\ UNCHANGED waiting

(* AddNew, in the three ways one pass of its loop can end.  The check is   *)
(* made against the size before the batch is inserted, so one batch may   *)
(* take the map over the limit.                                             *)
AddNewInsert(batch) ==
  /\ Size < MaxOutstanding
  /\ handles' = WithBatch(batch)
  /\ UNCHANGED waiting

AddNewWait ==
  /\ Size >= MaxOutstanding
  /\ waiting' = TRUE
  /\ UNCHANGED handles

AddNewCancelled ==
  /\ Size >= MaxOutstanding
  /\ UNCHANGED <<handles, waiting>>

(* PullToRefresh at second now: the handles whose deadline is at least     *)
(* half the timeout away (the code skips those with less), each bumped to *)
(* now + timeout before any visibility call is made.                       *)
RefreshDue(now) ==
  {h \in Tracked : 2 * (deadline[h] - now) >= MessageTimeout}

PullToRefresh(now) ==
  deadline' = [h \in DOMAIN deadline |->
                 IF h \in RefreshDue(now) THEN now + MessageTimeout ELSE deadline[h]]

TrackerInit ==
  /\ handles = [m \in {} |-> 0]
  /\ deadline = [h \in {} |-> 0]
  /\ waiting = FALSE

TrackerTypeOK ==
  /\ DOMAIN handles \subseteq Msgs
  /\ \A m \in DOMAIN handles : handles[m] \in 1..MaxReceives
  /\ DOMAIN deadline \subseteq Handle
  /\ \A h \in DOMAIN deadline : deadline[h] \in Int
  /\ Tracked \subseteq DOMAIN deadline
  /\ waiting \in BOOLEAN
=============================================================================
