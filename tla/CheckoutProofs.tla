--------------------------- MODULE CheckoutProofs ---------------------------
(***************************************************************************)
(* Lemmas about the checkout operators and the stored form: what each      *)
(* method of `impl Checkout` returns and preserves, and that a row read    *)
(* back is the checkout that was saved.                                    *)
(*                                                                         *)
(* The library states induction for an operator, which the provers cannot  *)
(* instantiate.  The first lemmas state it for a set of numbers instead,   *)
(* from the fact that the order of the naturals is well-founded; with it   *)
(* a recursive function is shown to exist, and what it computes.           *)
(***************************************************************************)
EXTENDS CheckoutStore, WellFoundedInduction, TLAPS

\* A set that has 0 and each successor of its members has every number up to m.
LEMMA IntervalInduction ==
    ASSUME NEW m \in Nat, NEW T, 0 \in T,
           \A n \in 1 .. m : n - 1 \in T => n \in T
    PROVE  0 .. m \subseteq T
<1> SUFFICES ASSUME ~(0 .. m \subseteq T) PROVE FALSE
  OBVIOUS
<1> DEFINE Missing == (0 .. m) \ T
           Less    == {ss \in Nat \X Nat : ss[1] < ss[2]}
<1>1. Missing \subseteq Nat /\ Missing # {}
  OBVIOUS
<1>2. IsWellFoundedOn(Less, Nat)
  BY NatLessThanWellFounded, Zenon DEF OpToRel
<1> HIDE DEF Missing, Less
<1>3. PICK x \in Missing : \A y \in Missing : ~(<<y, x>> \in Less)
  BY <1>1, <1>2, WFMin
<1>4. x \in 1 .. m /\ x - 1 \in 0 .. m /\ x \notin T
  BY <1>3 DEF Missing
<1>5. x - 1 \in Missing
  BY <1>4 DEF Missing
<1>6. <<x - 1, x>> \in Less
  <2>1. <<x - 1, x>> \in Nat \X Nat /\ x - 1 < x
    BY <1>4
  <2> QED
    BY <2>1 DEF Less
<1> QED
  BY <1>3, <1>5, <1>6

\* A recursion over 1 .. m: one function of the value so far for each number.
Solves(g, m, S, base, step) ==
    /\ g \in [0 .. m -> S]
    /\ g[0] = base
    /\ \A n \in 1 .. m : g[n] = step[n][g[n - 1]]

LEMMA RecursionExists ==
    ASSUME NEW m \in Nat, NEW S, NEW base \in S, NEW step \in [1 .. m -> [S -> S]]
    PROVE  \E g : Solves(g, m, S, base, step)
<1> DEFINE T == {k \in 0 .. m : \E g : Solves(g, k, S, base, step)}
<1>1. 0 \in T
  <2> DEFINE h == [i \in 0 .. 0 |-> base]
  <2>1. Solves(h, 0, S, base, step)
    BY DEF Solves
  <2> HIDE DEF h
  <2> QED
    BY <2>1
<1>2. ASSUME NEW k \in 1 .. m, k - 1 \in T PROVE k \in T
  <2>1. PICK g : Solves(g, k - 1, S, base, step)
    BY <1>2
  <2> DEFINE h == [i \in 0 .. k |-> IF i = k THEN step[k][g[k - 1]] ELSE g[i]]
  <2>2. g \in [0 .. (k - 1) -> S] /\ g[k - 1] \in S /\ step[k] \in [S -> S]
    BY <1>2, <2>1 DEF Solves
  <2>3. step[k][g[k - 1]] \in S
    BY <2>2
  <2>4. h \in [0 .. k -> S]
    BY <1>2, <2>2, <2>3
  <2>5. h[0] = base
    BY <1>2, <2>1 DEF Solves
  <2>6. ASSUME NEW n \in 1 .. k PROVE h[n] = step[n][h[n - 1]]
    <3>1. CASE n = k
      BY <3>1, <1>2
    <3>2. CASE n # k
      BY <3>2, <1>2, <2>1 DEF Solves
    <3> QED
      BY <3>1, <3>2
  <2>7. Solves(h, k, S, base, step)
    BY <2>4, <2>5, <2>6 DEF Solves
  <2> HIDE DEF h
  <2> QED
    BY <2>7
<1> HIDE DEF T
<1>3. 0 .. m \subseteq T
  BY <1>1, <1>2, IntervalInduction
<1>4. m \in T
  BY <1>3
<1> QED
  BY <1>4 DEF T

-----------------------------------------------------------------------------
(* Arithmetic modulo a positive number.                                    *)

LEMMA Division ==
    ASSUME NEW a \in Int, NEW u \in Nat \ {0}
    PROVE  /\ a % u \in 0 .. (u - 1) /\ a \div u \in Int
           /\ a = (u * (a \div u)) + (a % u)
  OBVIOUS

LEMMA RemainderUnique ==
    ASSUME NEW u \in Nat \ {0}, NEW p \in Int, NEW q \in Int,
           NEW r \in 0 .. (u - 1), NEW s \in 0 .. (u - 1), u * p + r = u * q + s
    PROVE  r = s
<1>1. u * (p - q) = s - r
  OBVIOUS
<1>2. CASE p - q >= 1
  <2>1. u * (p - q) >= u
    BY <1>2
  <2> QED
    BY <1>1, <2>1
<1>3. CASE p - q <= -1
  <2>1. u * (p - q) <= -u
    BY <1>3
  <2> QED
    BY <1>1, <2>1
<1>4. CASE p - q = 0
  BY <1>1, <1>4
<1> QED
  BY <1>2, <1>3, <1>4

\* Wrapping before an addition makes no difference to the wrapped sum.
LEMMA ModuloOfSum ==
    ASSUME NEW a \in Nat, NEW b \in Nat, NEW u \in Nat \ {0}
    PROVE  ((a % u) + b) % u = (a + b) % u
<1> DEFINE p == a \div u
           q == ((a % u) + b) \div u
           k == (a + b) \div u
           r == a % u
           s == ((a % u) + b) % u
           t == (a + b) % u
<1>1. /\ p \in Int /\ q \in Int /\ k \in Int
      /\ r \in 0 .. (u - 1) /\ s \in 0 .. (u - 1) /\ t \in 0 .. (u - 1)
  BY Division
<1>2. a = (u * p) + r /\ r + b = (u * q) + s /\ a + b = (u * k) + t
  BY <1>1, Division
<1> HIDE DEF p, q, k, r, s, t
<1>3. p + q \in Int /\ (u * (p + q)) + s = (u * k) + t
  BY <1>1, <1>2
<1>4. s = t
  BY <1>1, <1>3, RemainderUnique
<1> QED
  BY <1>4 DEF r, s, t

-----------------------------------------------------------------------------
(* calculate_total.                                                        *)

\* What one item adds.
LineTotal(item) == item.unit_price * item.quantity

LEMMA LineTotalTyped ==
    ASSUME NEW items \in Seq(LineItem), NEW n \in 1 .. Len(items)
    PROVE  LineTotal(items[n]) \in Nat
<1>1. items[n] \in LineItem
  OBVIOUS
<1>2. items[n].unit_price \in Nat /\ items[n].quantity \in Nat
  BY <1>1 DEF LineItem
<1>3. \A i, j \in Nat : i * j \in Nat
  OBVIOUS
<1> QED
  BY <1>2, <1>3 DEF LineTotal

\* The sums calculate_total goes through: it starts at zero, adds an item at a
\* time, wraps, and returns the last.
LEMMA CalculateTotalSums ==
    ASSUME NEW items \in Seq(LineItem)
    PROVE  \E sum \in [0 .. Len(items) -> Totals] :
               /\ sum[0] = 0
               /\ \A n \in 1 .. Len(items) :
                     sum[n] = (sum[n - 1] + LineTotal(items[n])) % U64
               /\ CalculateTotal(items) = sum[Len(items)]
<1> DEFINE m == Len(items)
           sum[n \in 0 .. m] ==
               IF n = 0 THEN 0
               ELSE (sum[n - 1] + items[n].unit_price * items[n].quantity) % U64
           step == [n \in 1 .. m |-> [t \in Totals |-> (t + LineTotal(items[n])) % U64]]
<1>1. m \in Nat /\ 0 \in Totals /\ Totals \subseteq Nat
  BY CheckoutAssumption DEF Totals
<1>2. ASSUME NEW t \in Totals, NEW n \in 1 .. m
      PROVE  (t + LineTotal(items[n])) % U64 \in Totals
  <2>1. t + LineTotal(items[n]) \in Int
    BY <1>1, LineTotalTyped
  <2> QED
    BY <2>1, CheckoutAssumption, Division DEF Totals
<1>3. step \in [1 .. m -> [Totals -> Totals]]
  BY <1>2
<1> HIDE DEF m, step
<1>4. PICK g : Solves(g, m, Totals, 0, step)
  <2> HIDE DEF sum
  <2> QED
    BY <1>1, <1>3, RecursionExists
<1>5. \A n \in 1 .. m : g[n] = (g[n - 1] + LineTotal(items[n])) % U64
  <2> SUFFICES ASSUME NEW n \in 1 .. m
               PROVE  g[n] = (g[n - 1] + LineTotal(items[n])) % U64
    OBVIOUS
  <2>1. g[n - 1] \in Totals
    BY <1>1, <1>4 DEF Solves
  <2> QED
    BY <1>4, <2>1 DEF step, Solves
<1>6. g = [n \in 0 .. m |->
            IF n = 0 THEN 0
            ELSE (g[n - 1] + items[n].unit_price * items[n].quantity) % U64]
  <2>1. \A n \in 0 .. m : n # 0 => n \in 1 .. m
    BY <1>1
  <2> QED
    BY <1>4, <1>5, <2>1 DEF LineTotal, Solves
<1>7. sum = [n \in 0 .. m |->
              IF n = 0 THEN 0
              ELSE (sum[n - 1] + items[n].unit_price * items[n].quantity) % U64]
  BY <1>6
<1>8. CalculateTotal(items) = sum[m]
  BY Zenon DEF CalculateTotal, m
<1> HIDE DEF sum
<1>9. sum[0] = 0
  BY <1>1, <1>7
<1>10. \A n \in 1 .. m : sum[n] = (sum[n - 1] + LineTotal(items[n])) % U64
  <2>1. \A n \in 1 .. m : n # 0 /\ n \in 0 .. m
    BY <1>1
  <2> QED
    BY <1>7, <2>1 DEF LineTotal
<1> DEFINE T == {n \in 0 .. m : sum[n] \in Totals}
<1>11. 0 .. m \subseteq T
  <2>1. 0 \in T
    BY <1>1, <1>9
  <2>2. ASSUME NEW n \in 1 .. m, n - 1 \in T PROVE n \in T
    <3>1. sum[n - 1] \in Totals
      BY <2>2
    <3>2. sum[n] \in Totals
      BY <1>2, <1>10, <3>1
    <3> QED
      BY <1>1, <3>2
  <2> HIDE DEF T
  <2> QED
    BY <1>1, <2>1, <2>2, IntervalInduction
<1>12. sum \in [0 .. m -> Totals]
  BY <1>7, <1>11
<1> QED
  BY <1>8, <1>9, <1>10, <1>12 DEF m

\* Whatever the items are, the total is a u64.
LEMMA CalculateTotalTyped ==
    ASSUME NEW items \in Seq(LineItem)
    PROVE  CalculateTotal(items) \in Totals
<1>1. Len(items) \in 0 .. Len(items)
  OBVIOUS
<1> QED
  BY <1>1, CalculateTotalSums

\* The carts of the model are lists of line items.
LEMMA CartTotalTyped ==
    ASSUME NEW cart \in Carts
    PROVE  CalculateTotal(cart) \in Totals
<1>1. cart \in Seq(LineItem)
  BY CheckoutAssumption
<1> QED
  BY <1>1, CalculateTotalTyped

-----------------------------------------------------------------------------
(* The stored form.                                                        *)

\* A column holds the two's complement of a total and gives it back.
LEMMA TotalRoundTrip ==
    ASSUME NEW total \in Totals
    PROVE  AsI64(total) \in I64 /\ AsU64(AsI64(total)) = total
  BY CheckoutAssumption DEF Totals, I64, AsI64, AsU64

LEMMA StatusRoundTrip ==
    ASSUME NEW s \in CheckoutStatus
    PROVE  StatusText[s] \in StatusCheck /\ StatusOfText(StatusText[s]) = s
<1>1. StatusText[s] \in StatusCheck
  BY DEF StatusText, CheckoutStatus, StatusCheck
<1>2. \A z \in CheckoutStatus : StatusText[z] = StatusText[s] => z = s
  BY DEF StatusText, CheckoutStatus
<1> QED
  BY <1>1, <1>2 DEF StatusOfText

LEMMA RowRoundTrip ==
    ASSUME NEW c \in Checkouts
    PROVE  ToRow(c) \in Rows /\ IntoCheckout(ToRow(c)) = c
<1>1. c.total \in Totals /\ c.status \in CheckoutStatus
  BY DEF Checkouts
<1>2. ToRow(c) \in Rows
  BY <1>1, TotalRoundTrip, StatusRoundTrip DEF ToRow, Rows, Checkouts
<1>3. IntoCheckout(ToRow(c)) = c
  BY <1>1, TotalRoundTrip, StatusRoundTrip DEF ToRow, IntoCheckout, Checkouts
<1> QED
  BY <1>2, <1>3

\* Every row the table admits reads as a checkout.
LEMMA RowIsCheckout ==
    ASSUME NEW row \in Rows
    PROVE  IntoCheckout(row) \in Checkouts
<1>1. row.status \in StatusCheck /\ row.total \in I64
  BY DEF Rows
<1>2. AsU64(row.total) \in Totals
  BY <1>1, CheckoutAssumption DEF I64, AsU64, Totals
<1>3. \E s \in CheckoutStatus : StatusText[s] = row.status
  BY <1>1 DEF StatusText, CheckoutStatus, StatusCheck
<1>4. StatusOfText(row.status) \in CheckoutStatus
  BY <1>3 DEF StatusOfText
<1> QED
  BY <1>2, <1>4 DEF IntoCheckout, Rows, Checkouts

-----------------------------------------------------------------------------

LEMMA NewIsSound ==
    ASSUME NEW cart \in Carts, NEW email \in BOOLEAN
    PROVE  New(cart, email) \in Checkouts /\ Sound(New(cart, email))
<1>1. /\ CalculateTotal(cart) \in Totals
      /\ CartCurrency(cart) \in Currencies
      /\ None \in Handlers
  BY CartTotalTyped DEF Currencies, Handlers
<1>2. New(cart, email) \in Checkouts
  BY <1>1 DEF New, Checkouts, CheckoutStatus
<1>3. Sound(New(cart, email))
  BY DEF New, Sound, HasItsTotal, HasItsReadiness, IsReady
<1> QED
  BY <1>2, <1>3

LEMMA RefreshStatusTyped ==
    ASSUME NEW c \in Checkouts
    PROVE  RefreshStatus(c) \in CheckoutStatus
  BY DEF RefreshStatus, Checkouts, CheckoutStatus

LEMMA SameCheckout ==
    ASSUME NEW c \in Checkouts, NEW d \in Checkouts,
           c.status = d.status, c.line_items = d.line_items, c.email = d.email,
           c.total = d.total, c.currency = d.currency,
           c.payment_handler_id = d.payment_handler_id
    PROVE  c = d
  BY DEF Checkouts

\* The status of a checkout with the given fields that was in status old.
StatusAfter(old, items, email, handler) ==
    IF IsTerminal(old) THEN old
    ELSE IF items # <<>> /\ email /\ handler # None THEN "ReadyForComplete"
    ELSE "Incomplete"

\* An update, field by field.
LEMMA ApplyUpdateFields ==
    ASSUME NEW c \in Checkouts, NEW u \in UpdateCheckoutRequest
    PROVE  LET d == ApplyUpdate(c, u)
           IN  /\ d \in Checkouts
               /\ d.line_items = Given(u.line_items, c.line_items)
               /\ d.total = IF u.line_items = None THEN c.total
                            ELSE CalculateTotal(u.line_items)
               /\ d.email = Given(u.email, c.email)
               /\ d.payment_handler_id = Given(u.payment_handler_id, c.payment_handler_id)
               /\ d.currency = c.currency
               /\ d.status = StatusAfter(c.status, d.line_items, d.email, d.payment_handler_id)
<1> DEFINE items  == Given(u.line_items, c.line_items)
           total  == IF u.line_items = None THEN c.total ELSE CalculateTotal(items)
           email  == Given(u.email, c.email)
           hid    == Given(u.payment_handler_id, c.payment_handler_id)
           edited == [c EXCEPT !.line_items = items, !.total = total,
                               !.email = email, !.payment_handler_id = hid]
           result == [edited EXCEPT !.status = RefreshStatus(edited)]
<1>1. items \in Carts /\ email \in BOOLEAN /\ hid \in Handlers
  BY DEF Given, UpdateCheckoutRequest, Checkouts
<1>2. total \in Totals
  BY <1>1, CartTotalTyped DEF Checkouts, Given
<1>3. total = IF u.line_items = None THEN c.total ELSE CalculateTotal(u.line_items)
  BY DEF Given
<1>4. ApplyUpdate(c, u) = result
  BY DEF ApplyUpdate
<1> HIDE DEF items, total, email, hid
<1>5. /\ edited \in Checkouts
      /\ edited.line_items = items /\ edited.total = total
      /\ edited.email = email /\ edited.payment_handler_id = hid
      /\ edited.currency = c.currency /\ edited.status = c.status
  BY <1>1, <1>2 DEF Checkouts
<1> HIDE DEF edited
<1>6. RefreshStatus(edited) = StatusAfter(c.status, items, email, hid)
  BY <1>5 DEF RefreshStatus, IsReady, StatusAfter
<1>7. RefreshStatus(edited) \in CheckoutStatus
  BY <1>5, RefreshStatusTyped
<1>8. /\ result \in Checkouts
      /\ result.line_items = items /\ result.total = total
      /\ result.email = email /\ result.payment_handler_id = hid
      /\ result.currency = c.currency
      /\ result.status = StatusAfter(c.status, items, email, hid)
  BY <1>5, <1>6, <1>7 DEF Checkouts
<1> HIDE DEF result
<1> QED
  BY <1>3, <1>4, <1>8 DEF items, email, hid

LEMMA ApplyUpdateIsSound ==
    ASSUME NEW c \in Checkouts, Sound(c), NEW update \in UpdateCheckoutRequest
    PROVE  /\ ApplyUpdate(c, update) \in Checkouts
           /\ Sound(ApplyUpdate(c, update))
           /\ ApplyUpdate(c, update).status = "Completed" <=> c.status = "Completed"
<1> DEFINE d == ApplyUpdate(c, update)
<1>1. /\ d \in Checkouts
      /\ d.line_items = Given(update.line_items, c.line_items)
      /\ d.total = IF update.line_items = None THEN c.total
                   ELSE CalculateTotal(update.line_items)
      /\ d.status = StatusAfter(c.status, d.line_items, d.email, d.payment_handler_id)
  BY ApplyUpdateFields
<1> HIDE DEF d
<1>2. HasItsTotal(d)
  BY <1>1 DEF Sound, HasItsTotal, Given
<1>3. HasItsReadiness(d) /\ (d.status = "Completed" <=> c.status = "Completed")
  <2>1. c.status \in CheckoutStatus
    BY DEF Checkouts
  <2> QED
    BY <1>1, <2>1 DEF HasItsReadiness, IsReady, IsTerminal, StatusAfter
<1> QED
  BY <1>1, <1>2, <1>3 DEF Sound, d

LEMMA CompleteIsSound ==
    ASSUME NEW c \in Checkouts, Sound(c)
    PROVE  /\ Complete(c) \in Checkouts
           /\ Sound(Complete(c))
           /\ Complete(c).total = c.total
           /\ Complete(c).status = "Completed" <=> CanComplete(c) \/ c.status = "Completed"
  BY DEF Complete, CanComplete, Checkouts, CheckoutStatus, Sound, HasItsTotal,
         HasItsReadiness, IsTerminal

LEMMA CancelIsSound ==
    ASSUME NEW c \in Checkouts, Sound(c)
    PROVE  /\ Cancel(c) \in Checkouts
           /\ Sound(Cancel(c))
           /\ Cancel(c).status = "Canceled"
  BY DEF Cancel, Checkouts, CheckoutStatus, Sound, HasItsTotal, HasItsReadiness,
         IsTerminal

=============================================================================
