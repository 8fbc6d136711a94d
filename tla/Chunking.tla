------------------------------- MODULE Chunking -------------------------------
(***************************************************************************)
(* The chunk loops of the batched calls of input_sqs.go, as operators on   *)
(* the list of handles a call is given.  deleteMessages cuts the list into *)
(* DeleteMessageBatch calls of at most maxBatchSize entries;               *)
(* updateVisibilityMessages consumes handles until maxBatchSize entries   *)
(* are taken, skipping (but consuming) the handles already marked deleted, *)
(* and a chunk left without entries is still sent, which SQS rejects      *)
(* (EmptyBatchRequest) and which ends the loop with an error.             *)
(*                                                                         *)
(* A handle is marked deleted when it is in dead.  The calls are taken to *)
(* succeed here; SQSReader composes the failures.  Partition is the       *)
(* reference the translations are checked against (MC_Chunking), and the  *)
(* form in which SQSReader counts the chunks of a call.                    *)
(***************************************************************************)
EXTENDS Integers, Sequences, SequencesExt

CONSTANT BatchMax   \* maxBatchSize (10 in the code)

ASSUME BatchMax \in Nat \ {0}

(* The entries of a list: the handles not marked deleted, in order.        *)
Live(s, dead) == SelectSeq(s, LAMBDA h : h \notin dead)

(* Mutation: the entry count compared with > instead of ==, so a chunk     *)
(* takes one entry too many.                                                *)
RECURSIVE DeleteChunksOverfull(_)
DeleteChunksOverfull(s) ==
  IF s = <<>> THEN <<>>
  ELSE LET n == IF Len(s) < BatchMax + 1 THEN Len(s) ELSE BatchMax + 1
       IN <<SubSeq(s, 1, n)>> \o DeleteChunksOverfull(SubSeq(s, n + 1, Len(s)))

(* deleteMessages: each pass of `for len(msgs) > 0` appends entries until  *)
(* there are maxBatchSize of them, then drops them from msgs.              *)
RECURSIVE DeleteChunks(_)
DeleteChunks(s) ==
  IF s = <<>> THEN <<>>
  ELSE LET n == IF Len(s) < BatchMax THEN Len(s) ELSE BatchMax
       IN <<SubSeq(s, 1, n)>> \o DeleteChunks(SubSeq(s, n + 1, Len(s)))

(* Mutation: consumed++ placed after the IsDeleted check, so a skipped     *)
(* handle is not counted as consumed.                                       *)
RECURSIVE ConsumedEntriesOnly(_, _, _)
ConsumedEntriesOnly(s, dead, taken) ==
  IF s = <<>> THEN 0
  ELSE IF Head(s) \in dead THEN ConsumedEntriesOnly(Tail(s), dead, taken)
  ELSE IF taken + 1 = BatchMax THEN 1
  ELSE 1 + ConsumedEntriesOnly(Tail(s), dead, taken + 1)

(* The inner loop of updateVisibilityMessages: every handle looked at is   *)
(* consumed, one marked deleted is skipped, and the loop breaks once the  *)
(* entries reach maxBatchSize; taken is len(input.Entries) so far.         *)
RECURSIVE Consumed(_, _, _)
Consumed(s, dead, taken) ==
  IF s = <<>> THEN 0
  ELSE IF Head(s) \in dead THEN 1 + Consumed(Tail(s), dead, taken)
  ELSE IF taken + 1 = BatchMax THEN 1
  ELSE 1 + Consumed(Tail(s), dead, taken + 1)

(* The outer loop: the entries of each ChangeMessageVisibilityBatch call.  *)
(* msgs = msgs[consumed:]; a call without entries fails and returns.       *)
RECURSIVE VisibilityChunks(_, _)
VisibilityChunks(s, dead) ==
  IF s = <<>> THEN <<>>
  ELSE LET n     == Consumed(s, dead, 0)
           chunk == Live(SubSeq(s, 1, n), dead)
       IN <<chunk>> \o (IF chunk = <<>> THEN <<>>
                        ELSE VisibilityChunks(SubSeq(s, n + 1, Len(s)), dead))

(* Reference: a list cut into consecutive pieces of BatchMax, the last     *)
(* one shorter.                                                             *)
Partition(es) ==
  [i \in 1..((Len(es) + BatchMax - 1) \div BatchMax) |->
     SubSeq(es, (i - 1) * BatchMax + 1,
            IF i * BatchMax < Len(es) THEN i * BatchMax ELSE Len(es))]
=============================================================================
