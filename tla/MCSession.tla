------------------------------ MODULE MCSession ------------------------------
(* A small instance of a session: 4-bit totals, carts of up to two items.  *)
EXTENDS CheckoutSession

LOCAL INSTANCE SequencesExt

MCU64 == 16

\* 3 x 5 is the largest u64, 4 x 2 the least one that is negative as an i64,
\* 9 x 2 wraps on its own, and the last item is in another currency.
MCItems ==
    { [unit_price |-> 3, quantity |-> 5, currency |-> "USDC"],
      [unit_price |-> 4, quantity |-> 2, currency |-> "USDC"],
      [unit_price |-> 9, quantity |-> 2, currency |-> "USDC"],
      [unit_price |-> 1, quantity |-> 1, currency |-> "EUR"] }

MCCarts == SeqOf(MCItems, 2)

MCHandlerIds == { "mock_1", "x402_solana_devnet" }

MCMppOnly == { "mpp_stripe" }

\* Bodies that set one field or two.
MCUpdates ==
    { u \in [ line_items         : MCCarts \cup {None},
              email              : BOOLEAN \cup {None},
              payment_handler_id : HandlerIds \cup {None} ] :
        u.line_items = None \/ u.email = None \/ u.payment_handler_id = None }

=============================================================================
