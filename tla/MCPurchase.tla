----------------------------- MODULE MCPurchase -----------------------------
(* Two runs of the script.                                                 *)
EXTENDS Purchase, ServerLifecycle, TLC

CONSTANTS c1, c2, r1, r2, t1, t2

\* 12 of 16: stored as -4.
MCCart == << [unit_price |-> 12, quantity |-> 1, currency |-> "USDC"] >>

MCCarts == {MCCart}

MCHandlerIds == {X402}

MCUpdates == {AttachX402}

MCU64 == 16

=============================================================================
