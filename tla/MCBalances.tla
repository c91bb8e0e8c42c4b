----------------------------- MODULE MCBalances -----------------------------
(* A small instance of the balances of a transaction.                      *)
EXTENDS TokenBalances

MCPositions == 1 .. 3

=============================================================================
