-------------------------- MODULE MCSqlTransaction --------------------------
(* Instance of SqlTransaction for TLC: transactions of two statements and of  *)
(* one, so that one can be interrupted in its middle.                         *)
EXTENDS SqlTransaction

CONSTANTS a1, a2, s1, t1, t2

MCSize == [t \in Txs |-> IF t = t1 THEN 2 ELSE 1]
=============================================================================
