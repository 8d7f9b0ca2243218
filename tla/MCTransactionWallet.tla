------------------------- MODULE MCTransactionWallet -------------------------
(* One transaction, with the delays and the timeout of pollTransactionStatus.     *)
EXTENDS TransactionWallet
=============================================================================
