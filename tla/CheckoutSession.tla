--------------------------- MODULE CheckoutSession ---------------------------
(***************************************************************************)
(* One checkout session, served one request at a time: each request reads  *)
(* the row, applies one method of `impl Checkout`, and writes the row      *)
(* back.  MerchantServer lets requests overlap over a few items; here the  *)
(* requests come one by one, over every cart that can be built from a set  *)
(* of items, so that totals pass 2^63 and 2^64.                            *)
(***************************************************************************)
EXTENDS CheckoutStore

CONSTANT Updates  \* the PUT bodies

ASSUME UpdatesAssumption == Updates \subseteq UpdateCheckoutRequest

VARIABLE row  \* the session's row, None before it is created

SessionInit == row = None

Session == IntoCheckout(row)

CreateSession(cart, email) ==
    /\ row = None
    /\ row' = ToRow(New(cart, email))

UpdateSession(update) ==
    /\ row # None
    /\ row' = ToRow(ApplyUpdate(Session, update))

CompleteSession ==
    /\ row # None
    /\ row' = ToRow(Complete(Session))

CancelSession ==
    /\ row # None
    /\ row' = ToRow(Cancel(Session))

SessionNext ==
    \/ \E cart \in Carts, email \in BOOLEAN : CreateSession(cart, email)
    \/ \E update \in Updates : UpdateSession(update)
    \/ CompleteSession
    \/ CancelSession

SessionSpec == SessionInit /\ [][SessionNext]_row

\* What complete answers when the handler is mpp_stripe.
MppRequirements == [amount |-> Session.total, currency |-> Session.currency]

-----------------------------------------------------------------------------

\* The exact sum, by recursion on the items.
ExactTotal(items) ==
    LET sum[n \in 0 .. Len(items)] ==
          IF n = 0 THEN 0
          ELSE sum[n - 1] + items[n].unit_price * items[n].quantity
    IN  sum[Len(items)]

(***************************************************************************)
(* What a client reads back is the exact sum of its items modulo 2^64,     *)
(* after the u64 arithmetic of calculate_total, the cast to the BIGINT     *)
(* column and the cast back: also for totals of 2^63 and more, which the   *)
(* column holds as negative numbers.                                       *)
(***************************************************************************)
TotalIsSumModuloU64 ==
    row # None => Session.total = ExactTotal(Session.line_items) % U64

(***************************************************************************)
(* The row the table stores is one its CHECK constraint and its column     *)
(* types admit, and reading and saving it again leaves it as it is: no     *)
(* total and no status is lost between two requests.                       *)
(***************************************************************************)
SavedIsRead ==
    row # None => row \in Rows /\ ToRow(Session) = row

(***************************************************************************)
(* A PUT whose answer was lost can be sent again: applying the same update *)
(* twice is applying it once, the status included.                         *)
(***************************************************************************)
RetriedUpdateIsHarmless ==
    row # None => \A u \in Updates :
        LET once == ApplyUpdate(Session, u) IN ApplyUpdate(once, u) = once

\* The two bodies set different fields.
Independent(u, v) ==
    /\ u.line_items = None \/ v.line_items = None
    /\ u.email = None \/ v.email = None
    /\ u.payment_handler_id = None \/ v.payment_handler_id = None

(***************************************************************************)
(* Two PUTs that set different fields may arrive in either order: the      *)
(* checkout, and whether it is ready, is the same.                         *)
(***************************************************************************)
IndependentUpdatesCommute ==
    row # None => \A u, v \in Updates : Independent(u, v) =>
        ApplyUpdate(ApplyUpdate(Session, u), v) = ApplyUpdate(ApplyUpdate(Session, v), u)

(***************************************************************************)
(* payments/mpp.rs: the amount an agent is asked for is "Amount required,  *)
(* in the currency's smallest unit": the currency that is quoted is that   *)
(* of the items that were summed, also after an update replaced them.      *)
(* Carts that mix currencies from the start are left out.                  *)
(***************************************************************************)
QuotedInTheItemsCurrency ==
    row # None /\ Session.payment_handler_id = "mpp_stripe" =>
        LET items == Session.line_items
        IN  (\A i, j \in DOMAIN items : items[i].currency = items[j].currency)
            => \A i \in DOMAIN items : items[i].currency = MppRequirements.currency

=============================================================================
