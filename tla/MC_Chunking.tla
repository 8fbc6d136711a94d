------------------------------ MODULE MC_Chunking ------------------------------
(***************************************************************************)
(* The chunk loops of Chunking over every list of distinct handles drawn   *)
(* from Hs and every choice of the handles marked deleted: each state is   *)
(* one input, and Next moves to any other.                                 *)
(***************************************************************************)
EXTENDS Chunking, FiniteSets, Functions

CONSTANTS Hs, h1, h2, h3, h4

VARIABLES s, dead

vars == <<s, dead>>

Inputs == {x \in BoundedSeq(Hs, Cardinality(Hs)) : IsInjective(x)}

Init == s \in Inputs /\ dead \in SUBSET Hs

NextInput ==
  \E x \in Inputs, d \in SUBSET Hs : s' = x /\ dead' = d

Spec == Init /\ [][NextInput]_vars

(* deleteMessages sends the list in consecutive calls of at most          *)
(* maxBatchSize entries, every one full but the last, each handle once.    *)
DeleteChunksMatchPartition == DeleteChunks(s) = Partition(s)

(* updateVisibilityMessages sends exactly the handles not marked deleted,  *)
(* in order, in calls of maxBatchSize entries but the last, however the   *)
(* deleted ones lie between them; the only call without entries (the      *)
(* EmptyBatchRequest error) is the last, made when every handle after the *)
(* last full call is marked deleted.  SQSReader relies on this when it    *)
(* filters a list first and then counts its chunks.                       *)
VisibilityChunksMatchPartition ==
  LET cs == VisibilityChunks(s, dead) IN
  /\ SelectSeq(cs, LAMBDA c : c # <<>>) = Partition(Live(s, dead))
  /\ \A i \in 1..Len(cs) : cs[i] = <<>> => i = Len(cs)
=============================================================================
