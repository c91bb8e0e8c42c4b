\* Every cart of up to two items, one request at a time.
CONSTANTS
  None = None
  Carts <- MCCarts
  HandlerIds <- MCHandlerIds
  U64 <- MCU64
  Updates <- MCUpdates
SPECIFICATION SessionSpec
INVARIANTS
  TotalIsSumModuloU64
  SavedIsRead
  RetriedUpdateIsHarmless
  IndependentUpdatesCommute
