\* Two calls, a transaction that pays 1 and one that pays 2, and an earlier payment of 1.
CONSTANTS
  c1 = c1  c2 = c2  t1 = t1  t2 = t2  t3 = t3
  None = None
  Calls <- MCCalls
  Txs = {t1, t2, t3}
  Earlier = {t3}
  Networks = {devnet, mainnet, base}
  SolanaNetworks = {devnet, mainnet}
  Schemes = {"exact", "upto"}
  Network = devnet
  Amount <- MCAmount
  Totals = {1, 2}
SPECIFICATION X402Spec
INVARIANTS
  OnlyAcceptedMoves
  OkIsOfItsPayment
PROPERTY
  ImplementsContract
CHECK_DEADLOCK FALSE
