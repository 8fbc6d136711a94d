---------------------------- MODULE MC_SQSReader ----------------------------
(* Model-checking harness for SQSReader: the message ids are model values *)
(* bound in the .cfg files; everything else is a small number.             *)
EXTENDS SQSReader

CONSTANTS m1, m2, m3

MCMsgs == {m1, m2}
MCMsgs3 == {m1, m2, m3}
=============================================================================
