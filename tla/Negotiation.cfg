\* Every kind of agent, with every handler it may choose.
CONSTANTS
  None = None
  Carts <- MCCarts
  HandlerIds <- MCHandlerIds
  U64 <- MCU64
SPECIFICATION NegotiationSpec
INVARIANTS
  AdvertisedIsAccepted
  
\* An agent stops when it has reported.
CHECK_DEADLOCK FALSE
