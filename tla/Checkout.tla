------------------------------ MODULE Checkout ------------------------------
(***************************************************************************)
(* The checkout session as a value, and the methods of `impl Checkout`     *)
(* (merchant-server/src/models/checkout.rs) as operators on it.            *)
(*                                                                         *)
(* Kept of a checkout: what the lifecycle, the readiness rule and the      *)
(* payment depend on.  A line item is its price, quantity and currency; a  *)
(* buyer is whether an e-mail is present.  Left out: identifiers, titles   *)
(* and names, the timestamps, and `messages` and `continue_url`, which no  *)
(* code path ever sets.                                                    *)
(***************************************************************************)
EXTENDS Integers, Sequences

CONSTANTS
    Carts,       \* the line_items lists clients send, sequences of LineItem
    HandlerIds,  \* the payment_handler_id strings clients send
    U64,         \* the modulus of u64 arithmetic, 2^64 in the program
    None         \* Option::None

CheckoutStatus ==
    { "Incomplete", "ReadyForComplete", "CompleteInProgress",
      "Completed", "RequiresEscalation", "Canceled" }

LineItem == [unit_price : Nat, quantity : Nat, currency : STRING]

\* A total that stops at the largest u64.
CalculateTotalSaturating(line_items) ==
    LET sum[n \in 0 .. Len(line_items)] ==
          IF n = 0 THEN 0
          ELSE LET s == sum[n - 1] + line_items[n].unit_price * line_items[n].quantity
               IN  IF s < U64 THEN s ELSE U64 - 1
    IN  sum[Len(line_items)]

(***************************************************************************)
(* The project deploys release builds (docs/architecture.md), which wrap   *)
(* on overflow, so the sum of the products is taken modulo 2^64.           *)
(***************************************************************************)
CalculateTotal(line_items) ==
    LET sum[n \in 0 .. Len(line_items)] ==
          IF n = 0 THEN 0
          ELSE (sum[n - 1] + line_items[n].unit_price * line_items[n].quantity) % U64
    IN  sum[Len(line_items)]

CartCurrency(line_items) ==
    IF line_items = <<>> THEN "USD" ELSE Head(line_items).currency

Totals     == 0 .. (U64 - 1)
Currencies == { CartCurrency(cart) : cart \in Carts }
Handlers   == HandlerIds \cup {None}

Checkouts ==
    [ status             : CheckoutStatus,
      line_items         : Carts,
      email              : BOOLEAN,
      total              : Totals,
      currency           : Currencies,
      payment_handler_id : Handlers ]

UpdateCheckoutRequest ==
    [ line_items         : Carts \cup {None},
      email              : BOOLEAN \cup {None},
      payment_handler_id : Handlers ]

ASSUME CheckoutAssumption ==
    /\ U64 \in Nat \ {0} /\ U64 % 2 = 0
    /\ Carts \subseteq Seq(LineItem)
    /\ None \notin Carts
    /\ None \notin BOOLEAN
    /\ None \notin HandlerIds

-----------------------------------------------------------------------------

New(line_items, email) ==
    [ status             |-> "Incomplete",
      line_items         |-> line_items,
      email              |-> email,
      total              |-> CalculateTotal(line_items),
      currency           |-> CartCurrency(line_items),
      payment_handler_id |-> None ]

IsTerminal(status) == status \in {"Canceled", "Completed"}

\* The Phase 1 readiness rule.
IsReady(c) ==
    /\ c.line_items # <<>>
    /\ c.email
    /\ c.payment_handler_id # None

\* A readiness rule that forgets the early return for closed checkouts.
RefreshStatusReopens(c) ==
    IF IsReady(c) THEN "ReadyForComplete" ELSE "Incomplete"

\* A readiness rule that never falls back to Incomplete.
RefreshStatusSticks(c) ==
    IF c.status = "Incomplete" /\ IsReady(c) THEN "ReadyForComplete" ELSE c.status

RefreshStatus(c) ==
    IF IsTerminal(c.status) THEN c.status
    ELSE IF IsReady(c) THEN "ReadyForComplete" ELSE "Incomplete"

\* `if let Some(v) = given { field = v }`
Given(given, field) == IF given = None THEN field ELSE given

\* An update that replaces the items and keeps the old total.
ApplyUpdateKeepsTotal(c, update) ==
    LET edited ==
          [c EXCEPT !.line_items         = Given(update.line_items, @),
                    !.email              = Given(update.email, @),
                    !.payment_handler_id = Given(update.payment_handler_id, @)]
    IN  [edited EXCEPT !.status = RefreshStatus(edited)]

\* An update that decides the status before it applies the fields.
ApplyUpdateRefreshesFirst(c, update) ==
    LET items == Given(update.line_items, c.line_items)
    IN  [c EXCEPT !.status             = RefreshStatus(c),
                  !.line_items         = items,
                  !.total              = CalculateTotal(items),
                  !.email              = Given(update.email, @),
                  !.payment_handler_id = Given(update.payment_handler_id, @)]

\* The items, buyer and handler are replaced whatever the status is; only the
\* status is protected once the checkout is closed.  The currency is not
\* recomputed.
ApplyUpdate(c, update) ==
    LET items  == Given(update.line_items, c.line_items)
        edited ==
          [c EXCEPT !.line_items         = items,
                    !.total              = IF update.line_items = None
                                           THEN @ ELSE CalculateTotal(items),
                    !.email              = Given(update.email, @),
                    !.payment_handler_id = Given(update.payment_handler_id, @)]
    IN  [edited EXCEPT !.status = RefreshStatus(edited)]

\* A guard for the documented lifecycle, which no code path can meet.
CanCompleteInOrder(c) == c.status = "CompleteInProgress"

CanComplete(c) == c.status = "ReadyForComplete"

\* A `complete` that forgets its check.
CompleteUnguarded(c) == [c EXCEPT !.status = "Completed"]

\* `complete`: Err leaves the checkout as it was.
Complete(c) == IF CanComplete(c) THEN [c EXCEPT !.status = "Completed"] ELSE c

\* `cancel` has no guard: a completed checkout is canceled too.
Cancel(c) == [c EXCEPT !.status = "Canceled"]

-----------------------------------------------------------------------------
(* What the methods keep, for the invariants of the modules above.         *)

HasItsTotal(c) == c.total = CalculateTotal(c.line_items)

HasItsReadiness(c) ==
    ~IsTerminal(c.status) => (c.status = "ReadyForComplete" <=> IsReady(c))

Sound(c) == HasItsTotal(c) /\ HasItsReadiness(c)

=============================================================================
