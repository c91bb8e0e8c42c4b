--------------------------- MODULE CheckoutStore ---------------------------
(***************************************************************************)
(* The stored form of a checkout: `CheckoutRow`, its two conversions       *)
(* (merchant-server/src/store/postgres.rs) and the constraints of the      *)
(* `checkouts` table (migrations/0001_create_checkouts.sql).               *)
(***************************************************************************)
EXTENDS Checkout

\* The snake_case text serde gives each status.
StatusText ==
    [ s \in CheckoutStatus |->
        CASE s = "Incomplete"         -> "incomplete"
          [] s = "ReadyForComplete"   -> "ready_for_complete"
          [] s = "CompleteInProgress" -> "complete_in_progress"
          [] s = "Completed"          -> "completed"
          [] s = "RequiresEscalation" -> "requires_escalation"
          [] s = "Canceled"           -> "canceled" ]

\* CHECK (status IN (...)) of the table.
StatusCheck ==
    { "incomplete", "ready_for_complete", "complete_in_progress",
      "completed", "requires_escalation", "canceled" }

\* The reader's inverse of StatusText, by the same serde derive.
StatusOfText(text) == CHOOSE s \in CheckoutStatus : StatusText[s] = text

\* A BIGINT column holds an i64.
I64 == -(U64 \div 2) .. ((U64 \div 2) - 1)

\* A cast that lets a total of 2^63 and more through as it is.
AsI64Unchecked(total) == total

\* `total as i64` and `total as u64`: two's complement reinterpretation.
AsI64(total) == IF 2 * total < U64 THEN total ELSE total - U64
AsU64(n)     == IF n >= 0 THEN n ELSE n + U64

Rows ==
    [ status             : StatusCheck,
      line_items         : Carts,
      email              : BOOLEAN,
      total              : I64,
      currency           : Currencies,
      payment_handler_id : Handlers ]

\* The columns `insert` and `save` write.
ToRow(c) == [c EXCEPT !.status = StatusText[@], !.total = AsI64(@)]

IntoCheckout(row) ==
    [row EXCEPT !.status = StatusOfText(@), !.total = AsU64(@)]

=============================================================================
