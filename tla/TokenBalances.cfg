\* Three accounts of two owners and two tokens.
CONSTANTS
  None = None
  Merchant = merchant
  Usdc = usdc
  Positions <- MCPositions
  Owners = {merchant, buyer}
  Mints = {usdc, other}
  Supply = 2
SPECIFICATION BalanceSpec
INVARIANTS
  VerifiedIsReceived
  SoleAccountIsSeen
