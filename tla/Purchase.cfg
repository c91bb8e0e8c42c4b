\* Two runs of the script, with handlers of the first still at work.
CONSTANTS
  c1 = c1  c2 = c2  r1 = r1  r2 = r2  t1 = t1  t2 = t2
  None = None
  Ids = {c1, c2}
  Reqs = {r1, r2}
  Txs = {t1, t2}
  Carts <- MCCarts
  HandlerIds <- MCHandlerIds
  U64 <- MCU64
  Updates <- MCUpdates
  BuyerCart <- MCCart
  MaxAttempts = 2
  Exclusive = FALSE
SPECIFICATION PurchaseFairSpec
INVARIANTS
  SuccessMeansPaid
  RequestsNeverMeet
  PaymentsBuyOnce
  SettledPaymentCompletes
PROPERTIES
  RunEnds
  SettledRequestsAnswered
  ImplementsLifecycle
\* The script is not run for ever.
CHECK_DEADLOCK FALSE
