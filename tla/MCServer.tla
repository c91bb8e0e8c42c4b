------------------------------ MODULE MCServer ------------------------------
(* Small instances of the server.                                          *)
EXTENDS ServerLifecycle, TLC

CONSTANTS c1, c2, r1, r2, t1, t2

\* u64 scaled down to 4 bits: 12 is stored as -4, and 3 * 7 wraps to 5.
MCU64 == 16

Li(price, qty) == [unit_price |-> price, quantity |-> qty, currency |-> "USDC"]

Cheap     == << Li(2, 1) >>
Dear      == << Li(4, 2), Li(4, 1) >>
MCCarts   == { Cheap, Dear }

MCHandlerIds == { Mock, X402 }

Update(items, email, handler) ==
    [line_items |-> items, email |-> email, payment_handler_id |-> handler]

SetHandler(h) == Update(None, None, h)
SetItems(i)   == Update(i, None, None)
SetEmail(e)   == Update(None, e, None)

\* Every edit that can matter: each handler, an e-mail given and withdrawn, and
\* more expensive items.
MCUpdates ==
    { SetHandler(X402), SetHandler(Mock), SetItems(Dear), SetEmail(TRUE), SetEmail(FALSE) }

MCOneCart    == { Cheap }
MCFewUpdates == { SetHandler(X402), SetHandler(Mock) }
MCOnlyX402   == { SetHandler(X402) }

ReqSymmetry == Permutations({r1, r2})

Symmetry == ReqSymmetry \cup Permutations({c1, c2}) \cup Permutations({t1, t2})

=============================================================================
