------------------------ MODULE MCTransactionMonitor ------------------------
(* TransactionMonitor on a small instance. *)
EXTENDS TransactionMonitor, TLC
=============================================================================
