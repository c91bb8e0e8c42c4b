---------------------------- MODULE MCNegotiation ----------------------------
(* Three carts: an empty one, one of an item, one that sums two.           *)
EXTENDS Negotiation

MCItem == [unit_price |-> 1, quantity |-> 2, currency |-> "USDC"]

MCCarts == {<<>>, <<MCItem>>, <<MCItem, MCItem>>}

MCHandlerIds == {Mock, X402, Mpp, Stripe}

MCU64 == 16

=============================================================================
