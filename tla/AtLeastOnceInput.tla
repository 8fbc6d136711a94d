--------------------------- MODULE AtLeastOnceInput ---------------------------
(***************************************************************************)
(* What the aws_sqs input promises, per message id, to the pipeline that   *)
(* reads from it and to the queue it consumes: the at-least-once contract  *)
(* of the spec (section 8, property 2) seen from outside the input.        *)
(*                                                                         *)
(*   received   ids the queue has handed to the input                      *)
(*   delivered  ids the input has handed to the pipeline with an ackFn     *)
(*   acked      ids for which the input has taken an ack of the pipeline   *)
(*   deleted    ids removed from the queue                                 *)
(*                                                                         *)
(* A message is only delivered after it was received, an ack is only      *)
(* taken for a delivered message, and a message is only deleted once an   *)
(* ack for it was taken.  Nothing is ever forgotten: a redelivery of a    *)
(* deleted message is allowed (the queue is at-least-once), a delete of   *)
(* an unacked one is not.  Several of these may happen in one step of the *)
(* input (a receive batch, an ack that fills the delete batch).           *)
(***************************************************************************)
CONSTANT Msgs

VARIABLES received, delivered, acked, deleted

vars == <<received, delivered, acked, deleted>>

TypeOK ==
  /\ received \subseteq Msgs
  /\ delivered \subseteq Msgs
  /\ acked \subseteq Msgs
  /\ deleted \subseteq Msgs

Init ==
  /\ received = {}
  /\ delivered = {}
  /\ acked = {}
  /\ deleted = {}

Receive(R) ==
  /\ received' = received \cup R
  /\ UNCHANGED <<delivered, acked, deleted>>

Deliver(m) ==
  /\ m \in received
  /\ delivered' = delivered \cup {m}
  /\ UNCHANGED <<received, acked, deleted>>

(* Acks of delivered messages taken, and deletes of acked ones issued.     *)
Settle(A, D) ==
  /\ A \subseteq delivered
  /\ D \subseteq acked \cup A
  /\ acked' = acked \cup A
  /\ deleted' = deleted \cup D
  /\ UNCHANGED <<received, delivered>>

Next ==
  \/ \E R \in SUBSET Msgs : Receive(R)
  \/ \E m \in Msgs : Deliver(m)
  \/ \E A, D \in SUBSET Msgs : Settle(A, D)

Spec == Init /\ [][Next]_vars
=============================================================================
