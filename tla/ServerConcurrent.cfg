\* Two handlers at a time on one checkout, one transaction.
CONSTANTS
  c1 = c1  c2 = c2  r1 = r1  r2 = r2  t1 = t1  t2 = t2
  None = None
  Ids = {c1}
  Reqs = {r1, r2}
  Txs = {t1}
  Carts <- MCCarts
  HandlerIds <- MCHandlerIds
  U64 <- MCU64
  Updates <- MCUpdates
  MaxAttempts = 2
  Exclusive = FALSE
SPECIFICATION Spec
SYMMETRY ReqSymmetry
INVARIANTS
  TypeOK
  TotalMatchesItems
  ReadinessConsistent
  CompletionWritesVerifiedTotal
  CompletedIsPaidFor
PROPERTY
  HandlersOnlyAdvance
