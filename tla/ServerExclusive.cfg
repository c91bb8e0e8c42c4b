\* Requests on one checkout do not overlap; two checkouts side by side, and two
\* transactions presented for either.
CONSTANTS
  c1 = c1  c2 = c2  r1 = r1  r2 = r2  t1 = t1  t2 = t2
  None = None
  Ids = {c1, c2}
  Reqs = {r1, r2}
  Txs = {t1, t2}
  Carts <- MCOneCart
  HandlerIds <- MCHandlerIds
  U64 <- MCU64
  Updates <- MCFewUpdates
  MaxAttempts = 2
  Exclusive = TRUE
SPECIFICATION Spec
SYMMETRY Symmetry
PROPERTIES
  ImplementsLifecycle
  ClosedStaysClosed
INVARIANTS
  OwnedCopies
  CompletedIsPaidFor
