\* A session paid through MPP, whose items may be replaced.
CONSTANTS
  None = None
  Carts <- MCCarts
  HandlerIds <- MCMppOnly
  U64 <- MCU64
  Updates <- MCUpdates
SPECIFICATION SessionSpec
INVARIANT QuotedInTheItemsCurrency
