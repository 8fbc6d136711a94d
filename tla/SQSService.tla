------------------------------ MODULE SQSService ------------------------------
(***************************************************************************)
(* The remote SQS queue behind the sqsAPI interface of input_sqs.go, as    *)
(* the reader observes it.  This is the environment of the reader, not     *)
(* code of this repository, so nothing here is mapped to source lines.     *)
(*                                                                         *)
(* The queue state is one record so that a step of the reader that issues  *)
(* several calls in a row (a flush of acks followed by a flush of nacks)   *)
(* can compose their effects as functions of the state.                    *)
(*                                                                         *)
(*   rcv[m]       how often m has been received; the r-th receive hands   *)
(*                out receipt handle r, so a handle is the pair <<m, r>>   *)
(*   visibleAt[m] the second at which m's visibility lease ends            *)
(*   gone         the messages deleted from the queue                      *)
(***************************************************************************)
EXTENDS Integers

CONSTANTS
  Msgs,            \* message ids the queue holds
  MaxReceives,     \* bound: a message is handed out at most this often
  QueueVisibility  \* the queue's default visibility timeout (seconds)

InitQueue ==
  [rcv |-> [m \in Msgs |-> 0], visibleAt |-> [m \in Msgs |-> 0], gone |-> {}]

QueueType ==
  [rcv : [Msgs -> 0..MaxReceives], visibleAt : [Msgs -> Int], gone : SUBSET Msgs]

(* Messages ReceiveMessage may return at second now.                       *)
Available(q, now) ==
  {m \in Msgs \ q.gone : q.visibleAt[m] <= now /\ q.rcv[m] < MaxReceives}

(* A message is in flight while its lease runs.                            *)
InFlight(q, m, now) == m \notin q.gone /\ now < q.visibleAt[m]

(* ReceiveMessage handing out batch: each gets a fresh receipt and a lease *)
(* of the queue's default visibility timeout (the reader sets none).       *)
Received(q, batch, now) ==
  [q EXCEPT !.rcv       = [m \in Msgs |-> IF m \in batch THEN @[m] + 1 ELSE @[m]],
            !.visibleAt = [m \in Msgs |-> IF m \in batch THEN now + QueueVisibility
                                                          ELSE @[m]]]

(* DeleteMessageBatch entries: SQS accepts the current or an older receipt *)
(* of the message.                                                          *)
Deleted(q, hs) == [q EXCEPT !.gone = @ \cup {h[1] : h \in hs}]

(* ChangeMessageVisibilityBatch entries: an entry succeeds only with the    *)
(* current receipt of a message still in flight; the others fail per      *)
(* entry and change nothing.                                               *)
VisibilityOk(q, hs, now) ==
  {h \in hs : InFlight(q, h[1], now) /\ q.rcv[h[1]] = h[2]}

VisibilityChanged(q, hs, t, now) ==
  LET ok == VisibilityOk(q, hs, now)
  IN [q EXCEPT !.visibleAt = [m \in Msgs |-> IF \E h \in ok : h[1] = m
                                              THEN now + t ELSE @[m]]]
=============================================================================
