----------------------- MODULE CheckoutSessionProofs -----------------------
(***************************************************************************)
(* Updates that are repeated or that arrive in another order, rows that    *)
(* are read and saved, and the total that is read back, for every set of   *)
(* carts, handlers and updates.                                            *)
(***************************************************************************)
EXTENDS CheckoutSession, CheckoutProofs

\* The status depends on the status before only by whether it was closed.
LEMMA StatusAfterTwice ==
    ASSUME NEW old, NEW i, NEW e, NEW h, NEW items, NEW email, NEW handler
    PROVE  StatusAfter(StatusAfter(old, i, e, h), items, email, handler)
             = StatusAfter(old, items, email, handler)
  BY DEF StatusAfter, IsTerminal

LEMMA UpdateTwiceIsOnce ==
    ASSUME NEW c \in Checkouts, NEW u \in UpdateCheckoutRequest
    PROVE  ApplyUpdate(ApplyUpdate(c, u), u) = ApplyUpdate(c, u)
<1> DEFINE once  == ApplyUpdate(c, u)
           twice == ApplyUpdate(once, u)
<1>1. /\ once \in Checkouts
      /\ once.line_items = Given(u.line_items, c.line_items)
      /\ once.total = IF u.line_items = None THEN c.total ELSE CalculateTotal(u.line_items)
      /\ once.email = Given(u.email, c.email)
      /\ once.payment_handler_id = Given(u.payment_handler_id, c.payment_handler_id)
      /\ once.currency = c.currency
      /\ once.status = StatusAfter(c.status, once.line_items, once.email, once.payment_handler_id)
  BY ApplyUpdateFields
<1> HIDE DEF once
<1>2. /\ twice \in Checkouts
      /\ twice.line_items = Given(u.line_items, once.line_items)
      /\ twice.total = IF u.line_items = None THEN once.total ELSE CalculateTotal(u.line_items)
      /\ twice.email = Given(u.email, once.email)
      /\ twice.payment_handler_id = Given(u.payment_handler_id, once.payment_handler_id)
      /\ twice.currency = once.currency
      /\ twice.status = StatusAfter(once.status, twice.line_items, twice.email, twice.payment_handler_id)
  BY <1>1, ApplyUpdateFields
<1> HIDE DEF twice
<1>3. /\ twice.line_items = once.line_items /\ twice.total = once.total
      /\ twice.email = once.email
      /\ twice.payment_handler_id = once.payment_handler_id
  BY <1>1, <1>2 DEF Given
<1>4. twice.status = once.status
  BY <1>1, <1>2, <1>3, StatusAfterTwice
<1>5. twice = once
  BY <1>1, <1>2, <1>3, <1>4, SameCheckout
<1> QED
  BY <1>5 DEF once, twice

LEMMA IndependentUpdatesSwap ==
    ASSUME NEW c \in Checkouts, NEW u \in UpdateCheckoutRequest,
           NEW v \in UpdateCheckoutRequest, Independent(u, v)
    PROVE  ApplyUpdate(ApplyUpdate(c, u), v) = ApplyUpdate(ApplyUpdate(c, v), u)
<1> DEFINE a  == ApplyUpdate(c, u)
           b  == ApplyUpdate(c, v)
           av == ApplyUpdate(a, v)
           bu == ApplyUpdate(b, u)
<1>1. /\ a \in Checkouts
      /\ a.line_items = Given(u.line_items, c.line_items)
      /\ a.total = IF u.line_items = None THEN c.total ELSE CalculateTotal(u.line_items)
      /\ a.email = Given(u.email, c.email)
      /\ a.payment_handler_id = Given(u.payment_handler_id, c.payment_handler_id)
      /\ a.currency = c.currency
      /\ a.status = StatusAfter(c.status, a.line_items, a.email, a.payment_handler_id)
  BY ApplyUpdateFields
<1>2. /\ b \in Checkouts
      /\ b.line_items = Given(v.line_items, c.line_items)
      /\ b.total = IF v.line_items = None THEN c.total ELSE CalculateTotal(v.line_items)
      /\ b.email = Given(v.email, c.email)
      /\ b.payment_handler_id = Given(v.payment_handler_id, c.payment_handler_id)
      /\ b.currency = c.currency
      /\ b.status = StatusAfter(c.status, b.line_items, b.email, b.payment_handler_id)
  BY ApplyUpdateFields
<1> HIDE DEF a, b
<1>3. /\ av \in Checkouts
      /\ av.line_items = Given(v.line_items, a.line_items)
      /\ av.total = IF v.line_items = None THEN a.total ELSE CalculateTotal(v.line_items)
      /\ av.email = Given(v.email, a.email)
      /\ av.payment_handler_id = Given(v.payment_handler_id, a.payment_handler_id)
      /\ av.currency = a.currency
      /\ av.status = StatusAfter(a.status, av.line_items, av.email, av.payment_handler_id)
  BY <1>1, ApplyUpdateFields
<1>4. /\ bu \in Checkouts
      /\ bu.line_items = Given(u.line_items, b.line_items)
      /\ bu.total = IF u.line_items = None THEN b.total ELSE CalculateTotal(u.line_items)
      /\ bu.email = Given(u.email, b.email)
      /\ bu.payment_handler_id = Given(u.payment_handler_id, b.payment_handler_id)
      /\ bu.currency = b.currency
      /\ bu.status = StatusAfter(b.status, bu.line_items, bu.email, bu.payment_handler_id)
  BY <1>2, ApplyUpdateFields
<1> HIDE DEF av, bu
<1>5. av.line_items = bu.line_items /\ av.total = bu.total
  BY <1>1, <1>2, <1>3, <1>4 DEF Independent, Given
<1>6. av.email = bu.email
  BY <1>1, <1>2, <1>3, <1>4 DEF Independent, Given
<1>7. av.payment_handler_id = bu.payment_handler_id /\ av.currency = bu.currency
  BY <1>1, <1>2, <1>3, <1>4 DEF Independent, Given
<1>8. av.status = bu.status
  BY <1>1, <1>2, <1>3, <1>4, <1>5, <1>6, <1>7, StatusAfterTwice
<1>9. av = bu
  BY <1>3, <1>4, <1>5, <1>6, <1>7, <1>8, SameCheckout
<1> QED
  BY <1>9 DEF a, b, av, bu

-----------------------------------------------------------------------------

\* The sums of the items one by one, without a modulus.
LEMMA ExactTotalSums ==
    ASSUME NEW items \in Seq(LineItem)
    PROVE  \E sum \in [0 .. Len(items) -> Nat] :
               /\ sum[0] = 0
               /\ \A n \in 1 .. Len(items) : sum[n] = sum[n - 1] + LineTotal(items[n])
               /\ ExactTotal(items) = sum[Len(items)]
<1> DEFINE m == Len(items)
           sum[n \in 0 .. m] ==
               IF n = 0 THEN 0
               ELSE sum[n - 1] + items[n].unit_price * items[n].quantity
           step == [n \in 1 .. m |-> [t \in Nat |-> t + LineTotal(items[n])]]
<1>1. m \in Nat /\ 0 \in Nat
  OBVIOUS
<1>2. ASSUME NEW t \in Nat, NEW n \in 1 .. m
      PROVE  t + LineTotal(items[n]) \in Nat
  BY LineTotalTyped
<1>3. step \in [1 .. m -> [Nat -> Nat]]
  BY <1>2
<1> HIDE DEF m, step
<1>4. PICK g : Solves(g, m, Nat, 0, step)
  <2> HIDE DEF sum
  <2> QED
    BY <1>1, <1>3, RecursionExists
<1>5. \A n \in 1 .. m : g[n] = g[n - 1] + LineTotal(items[n])
  <2> SUFFICES ASSUME NEW n \in 1 .. m
               PROVE  g[n] = g[n - 1] + LineTotal(items[n])
    OBVIOUS
  <2>1. g[n - 1] \in Nat
    BY <1>1, <1>4 DEF Solves
  <2> QED
    BY <1>4, <2>1 DEF step, Solves
<1>6. g = [n \in 0 .. m |->
            IF n = 0 THEN 0
            ELSE g[n - 1] + items[n].unit_price * items[n].quantity]
  <2>1. \A n \in 0 .. m : n # 0 => n \in 1 .. m
    BY <1>1
  <2> QED
    BY <1>4, <1>5, <2>1 DEF LineTotal, Solves
<1>7. sum = [n \in 0 .. m |->
              IF n = 0 THEN 0
              ELSE sum[n - 1] + items[n].unit_price * items[n].quantity]
  BY <1>6
<1>8. ExactTotal(items) = sum[m]
  BY Zenon DEF ExactTotal, m
<1> HIDE DEF sum
<1>9. sum[0] = 0
  BY <1>1, <1>7
<1>10. \A n \in 1 .. m : sum[n] = sum[n - 1] + LineTotal(items[n])
  <2>1. \A n \in 1 .. m : n # 0 /\ n \in 0 .. m
    BY <1>1
  <2> QED
    BY <1>7, <2>1 DEF LineTotal
<1> DEFINE T == {n \in 0 .. m : sum[n] \in Nat}
<1>11. 0 .. m \subseteq T
  <2>1. 0 \in T
    BY <1>1, <1>9
  <2>2. ASSUME NEW n \in 1 .. m, n - 1 \in T PROVE n \in T
    <3>1. sum[n - 1] \in Nat
      BY <2>2
    <3>2. sum[n] \in Nat
      BY <1>2, <1>10, <3>1
    <3> QED
      BY <1>1, <3>2
  <2> HIDE DEF T
  <2> QED
    BY <1>1, <2>1, <2>2, IntervalInduction
<1>12. sum \in [0 .. m -> Nat]
  BY <1>7, <1>11
<1> QED
  BY <1>8, <1>9, <1>10, <1>12 DEF m

\* calculate_total is the exact sum modulo 2^64, however many items there are
\* and however often their sum wraps.
THEOREM TotalIsExactModuloU64 ==
    ASSUME NEW items \in Seq(LineItem)
    PROVE  CalculateTotal(items) = ExactTotal(items) % U64
<1> DEFINE m == Len(items)
<1>1. m \in Nat /\ U64 \in Nat \ {0}
  BY CheckoutAssumption
<1>2. PICK wrapped \in [0 .. m -> Totals] :
          /\ wrapped[0] = 0
          /\ \A n \in 1 .. m : wrapped[n] = (wrapped[n - 1] + LineTotal(items[n])) % U64
          /\ CalculateTotal(items) = wrapped[m]
  BY CalculateTotalSums
<1>3. PICK exact \in [0 .. m -> Nat] :
          /\ exact[0] = 0
          /\ \A n \in 1 .. m : exact[n] = exact[n - 1] + LineTotal(items[n])
          /\ ExactTotal(items) = exact[m]
  BY ExactTotalSums
<1> HIDE DEF m
<1> DEFINE T == {n \in 0 .. m : wrapped[n] = exact[n] % U64}
<1>4. 0 \in T
  BY <1>1, <1>2, <1>3
<1>5. ASSUME NEW n \in 1 .. m, n - 1 \in T PROVE n \in T
  <2>1. exact[n - 1] \in Nat /\ LineTotal(items[n]) \in Nat
    BY <1>1, <1>3, LineTotalTyped DEF m
  <2>2. wrapped[n] = ((exact[n - 1] % U64) + LineTotal(items[n])) % U64
    BY <1>2, <1>5
  <2>3. wrapped[n] = exact[n] % U64
    BY <1>1, <1>3, <2>1, <2>2, ModuloOfSum
  <2> QED
    BY <1>1, <2>3
<1> HIDE DEF T
<1>6. 0 .. m \subseteq T
  BY <1>1, <1>4, <1>5, IntervalInduction
<1>7. m \in T
  BY <1>1, <1>6
<1> QED
  BY <1>2, <1>3, <1>7 DEF T

-----------------------------------------------------------------------------

\* The row is one that a checkout was saved as.
SavedRow == row # None => \E c \in Checkouts : row = ToRow(c)

LEMMA SavedRowIsRead ==
    ASSUME SavedRow, row # None
    PROVE  row \in Rows /\ Session \in Checkouts /\ ToRow(Session) = row
<1>1. PICK c \in Checkouts : row = ToRow(c)
  BY DEF SavedRow
<1>2. ToRow(c) \in Rows /\ IntoCheckout(ToRow(c)) = c
  BY RowRoundTrip
<1> QED
  BY <1>1, <1>2 DEF Session

LEMMA CompleteTyped ==
    ASSUME NEW c \in Checkouts
    PROVE  Complete(c) \in Checkouts /\ Cancel(c) \in Checkouts
  BY DEF Complete, Cancel, Checkouts, CheckoutStatus

LEMMA StepSavesRow ==
    ASSUME SavedRow, [SessionNext]_row
    PROVE  SavedRow'
<1>1. ASSUME NEW cart \in Carts, NEW email \in BOOLEAN, CreateSession(cart, email)
      PROVE  SavedRow'
  BY <1>1, NewIsSound DEF CreateSession, SavedRow
<1>2. ASSUME NEW u \in Updates, UpdateSession(u)
      PROVE  SavedRow'
  <2>1. Session \in Checkouts /\ u \in UpdateCheckoutRequest
    BY <1>2, SavedRowIsRead, UpdatesAssumption DEF UpdateSession
  <2>2. ApplyUpdate(Session, u) \in Checkouts
    BY <2>1, ApplyUpdateFields
  <2> QED
    BY <1>2, <2>2 DEF UpdateSession, SavedRow
<1>3. CASE CompleteSession
  BY <1>3, SavedRowIsRead, CompleteTyped DEF CompleteSession, SavedRow
<1>4. CASE CancelSession
  BY <1>4, SavedRowIsRead, CompleteTyped DEF CancelSession, SavedRow
<1>5. CASE UNCHANGED row
  BY <1>5 DEF SavedRow
<1> QED
  BY <1>1, <1>2, <1>3, <1>4, <1>5 DEF SessionNext

\* Together with a total that is the one of the items.
TotaledRow == SavedRow /\ (row # None => HasItsTotal(Session))

LEMMA StepTotalsRow ==
    ASSUME TotaledRow, [SessionNext]_row
    PROVE  TotaledRow'
<1> USE DEF TotaledRow
<1>1. SavedRow'
  BY StepSavesRow
<1>2. \A c \in Checkouts : row' = ToRow(c) => Session' = c
  BY RowRoundTrip DEF Session
<1>3. ASSUME NEW cart \in Carts, NEW email \in BOOLEAN, CreateSession(cart, email)
      PROVE  TotaledRow'
  <2>1. New(cart, email) \in Checkouts /\ HasItsTotal(New(cart, email))
    BY NewIsSound DEF Sound
  <2> QED
    BY <1>1, <1>2, <1>3, <2>1 DEF CreateSession
<1>4. ASSUME NEW u \in Updates, UpdateSession(u)
      PROVE  TotaledRow'
  <2>1. Session \in Checkouts /\ u \in UpdateCheckoutRequest /\ HasItsTotal(Session)
    BY <1>4, SavedRowIsRead, UpdatesAssumption DEF UpdateSession
  <2>2. ApplyUpdate(Session, u) \in Checkouts /\ HasItsTotal(ApplyUpdate(Session, u))
    BY <2>1, ApplyUpdateFields DEF HasItsTotal, Given
  <2> QED
    BY <1>1, <1>2, <1>4, <2>2 DEF UpdateSession
<1>5. CASE CompleteSession \/ CancelSession
  <2>1. Session \in Checkouts /\ HasItsTotal(Session)
    BY <1>5, SavedRowIsRead DEF CompleteSession, CancelSession
  <2>2. /\ Complete(Session) \in Checkouts /\ HasItsTotal(Complete(Session))
        /\ Cancel(Session) \in Checkouts /\ HasItsTotal(Cancel(Session))
    BY <2>1, CompleteTyped DEF Complete, Cancel, HasItsTotal, Checkouts
  <2> QED
    BY <1>1, <1>2, <1>5, <2>2 DEF CompleteSession, CancelSession
<1>6. CASE UNCHANGED row
  BY <1>1, <1>6 DEF Session
<1> QED
  BY <1>3, <1>4, <1>5, <1>6 DEF SessionNext

LEMMA RowIsTotaled == SessionSpec => []TotaledRow
<1>1. SessionInit => TotaledRow
  BY DEF SessionInit, TotaledRow, SavedRow
<1>2. TotaledRow /\ [SessionNext]_row => TotaledRow'
  BY StepTotalsRow
<1> QED
  BY <1>1, <1>2, PTL DEF SessionSpec

\* What a client reads back is the exact sum of its items modulo 2^64, for
\* every cart: after the arithmetic of calculate_total and both casts.
THEOREM TotalsAreExact == SessionSpec => []TotalIsSumModuloU64
<1>1. TotaledRow => TotalIsSumModuloU64
  <2> SUFFICES ASSUME TotaledRow, row # None
               PROVE  Session.total = ExactTotal(Session.line_items) % U64
    BY DEF TotalIsSumModuloU64
  <2>1. Session \in Checkouts
    BY SavedRowIsRead DEF TotaledRow
  <2>2. Session.line_items \in Seq(LineItem)
    BY <2>1, CheckoutAssumption DEF Checkouts
  <2> QED
    BY <2>2, TotalIsExactModuloU64 DEF TotaledRow, HasItsTotal
<1> QED
  BY <1>1, RowIsTotaled, PTL

LEMMA RowIsSaved == SessionSpec => []SavedRow
<1>1. SessionInit => SavedRow
  BY DEF SessionInit, SavedRow
<1>2. SavedRow /\ [SessionNext]_row => SavedRow'
  BY StepSavesRow
<1> QED
  BY <1>1, <1>2, PTL DEF SessionSpec

\* Reading a row and saving it again leaves it as it is, for every u64 modulus.
THEOREM RowsSurvive == SessionSpec => []SavedIsRead
<1>1. SavedRow => SavedIsRead
  BY SavedRowIsRead DEF SavedIsRead
<1> QED
  BY <1>1, RowIsSaved, PTL

\* A PUT that is sent twice is applied once.
THEOREM RetriesAreHarmless == SessionSpec => []RetriedUpdateIsHarmless
<1>1. SavedRow => RetriedUpdateIsHarmless
  BY SavedRowIsRead, UpdateTwiceIsOnce, UpdatesAssumption DEF RetriedUpdateIsHarmless
<1> QED
  BY <1>1, RowIsSaved, PTL

\* PUTs of different fields can arrive in either order.
THEOREM UpdatesCommute == SessionSpec => []IndependentUpdatesCommute
<1>1. SavedRow => IndependentUpdatesCommute
  BY SavedRowIsRead, IndependentUpdatesSwap, UpdatesAssumption DEF IndependentUpdatesCommute
<1> QED
  BY <1>1, RowIsSaved, PTL

=============================================================================
