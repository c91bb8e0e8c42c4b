--------------------------- MODULE MerchantServer ---------------------------
(***************************************************************************)
(* The merchant server: the route handlers of routes/checkout.rs running   *)
(* concurrently over the checkouts table, with the x402 payment handler,   *)
(* its facilitator and the chain behind `complete`.                        *)
(*                                                                         *)
(* A handler is a task.  It reads the row, works on its own copy, and      *)
(* writes the whole copy back; other tasks run at every await in between.  *)
(* Reading and the synchronous work that follows are one action, each      *)
(* later await is another:                                                 *)
(*                                                                         *)
(*     idle --get--> save --> idle              PUT, cancel, mock complete *)
(*     idle --get--> settle --> poll --> save   complete with a payment    *)
(*                                                                         *)
(* Requests that only reply (GET, the 404s, a complete that names no known *)
(* handler, MPP, a payment header that does not decode or names another    *)
(* scheme or network) change nothing: they are stuttering steps.           *)
(***************************************************************************)
EXTENDS CheckoutStore, FiniteSets

CONSTANTS
    Ids,          \* checkout ids, drawn by Uuid::new_v4
    Reqs,         \* request slots: the handlers that can run at one time
    Txs,          \* Solana transactions buyers may sign
    Updates,      \* the PUT bodies clients send
    MaxAttempts,  \* MAX_ATTEMPTS of verify_payment_on_chain, 10 in the code
    Exclusive     \* TRUE: clients wait for an answer before they send the
                  \* next request on the same checkout

Mock == "mock_1"
X402 == "x402_solana_devnet"

ASSUME ServerAssumption ==
    /\ Updates \subseteq UpdateCheckoutRequest
    /\ MaxAttempts \in Nat \ {0}
    /\ Exclusive \in BOOLEAN
    /\ None \notin Ids
    /\ None \notin Txs
    /\ None \notin Rows

VARIABLES
    db,       \* the checkouts table: id -> row, or None
    task,     \* request slot -> the handler it runs
    ledger,   \* transaction -> what the chain, and the buyer, did with it
    receipts  \* history: every reason a handler had to complete a checkout

vars == <<db, task, ledger, receipts>>

Idle == [pc |-> "idle", chk |-> None, work |-> None, tx |-> None, attempt |-> 0]

Tasks ==
    [ pc : {"settle", "poll", "save"}, chk : Ids, work : Checkouts,
      tx : Txs \cup {None}, attempt : 0 .. (MaxAttempts - 1) ]

TxStates ==
    {"unsigned", "signed", "submitted", "finalized", "failed", "expired"}

\* A transaction says nothing of the checkout it is meant for.
LedgerEntries == [state : TxStates, amount : Totals]

\* by = None for the mock handler, which takes no payment.
Receipts == [chk : Ids, by : Txs \cup {None}, total : Totals]

TypeOK ==
    /\ db \in [Ids -> Rows \cup {None}]
    /\ task \in [Reqs -> Tasks \cup {Idle}]
    /\ ledger \in [Txs -> LedgerEntries]
    /\ receipts \subseteq Receipts

Init ==
    /\ db = [id \in Ids |-> None]
    /\ task = [r \in Reqs |-> Idle]
    /\ ledger = [t \in Txs |-> [state |-> "unsigned", amount |-> 0]]
    /\ receipts = {}

-----------------------------------------------------------------------------

Stored(id) == IntoCheckout(db[id])

Exists(id) == db[id] # None

\* Slot r is free to serve a request that will write checkout id.
Available(r, id) ==
    /\ task[r] = Idle
    /\ Exists(id)
    /\ Exclusive => \A q \in Reqs : task[q].chk # id

Saving(id, work, tx) ==
    [pc |-> "save", chk |-> id, work |-> work, tx |-> tx, attempt |-> 0]

Finish(r) == task' = [task EXCEPT ![r] = Idle]

-----------------------------------------------------------------------------
(* The routes.                                                             *)

\* POST /checkout-sessions.  One INSERT of a fresh id.
CreateCheckout(id, cart, email) ==
    /\ ~Exists(id)
    /\ db' = [db EXCEPT ![id] = ToRow(New(cart, email))]
    /\ UNCHANGED <<task, ledger, receipts>>

\* PUT /checkout-sessions/:id
UpdateCheckout(r, id, update) ==
    /\ Available(r, id)
    /\ task' = [task EXCEPT ![r] =
                  Saving(id, ApplyUpdate(Stored(id), update), None)]
    /\ UNCHANGED <<db, ledger, receipts>>

\* POST /checkout-sessions/:id/cancel
CancelCheckout(r, id) ==
    /\ Available(r, id)
    /\ task' = [task EXCEPT ![r] = Saving(id, Cancel(Stored(id)), None)]
    /\ UNCHANGED <<db, ledger, receipts>>

\* The receipt a handler earns when its `complete()` returns Ok.
ReceiptFor(id, c, tx) ==
    IF CanComplete(c) THEN {[chk |-> id, by |-> tx, total |-> c.total]} ELSE {}

\* POST .../complete, handler mock_1: complete() at once, saved even on Err.
CompleteMock(r, id) ==
    LET c == Stored(id)
    IN  /\ Available(r, id)
        /\ c.payment_handler_id = Mock
        /\ task' = [task EXCEPT ![r] = Saving(id, Complete(c), None)]
        /\ receipts' = receipts \cup ReceiptFor(id, c, None)
        /\ UNCHANGED <<db, ledger>>

\* POST .../complete, no payment header: 402 with the total as the amount due,
\* for which the buyer signs a transaction.  The status is not looked at.
PaymentRequirements(id, t) ==
    /\ Exists(id)
    /\ Stored(id).payment_handler_id = X402
    /\ ledger[t].state = "unsigned"
    /\ ledger' = [ledger EXCEPT ![t] = [state |-> "signed", amount |-> Stored(id).total]]
    /\ UNCHANGED <<db, task, receipts>>

\* POST .../complete with a signed transaction: any one, also one that was quoted
\* for another checkout or has paid for one.  The status is not looked at before
\* the payment is settled.
CompletePay(r, id, t) ==
    LET c == Stored(id)
    IN  /\ Available(r, id)
        /\ c.payment_handler_id = X402
        /\ ledger[t].state # "unsigned"
        /\ task' = [task EXCEPT ![r] =
                      [pc |-> "settle", chk |-> id, work |-> c,
                       tx |-> t, attempt |-> 0]]
        /\ UNCHANGED <<db, ledger, receipts>>

-----------------------------------------------------------------------------
(* verify_and_settle of the x402 handler, after its checks of the header.  *)

\* Kora submits the transaction.  One it already submitted is the same
\* transaction, with the same signature.
Submit(t) ==
    /\ ledger[t].state # "expired"
    /\ ledger' = [ledger EXCEPT ![t].state = IF @ = "signed" THEN "submitted" ELSE @]

SettleAccepted(r) ==
    /\ task[r].pc = "settle"
    /\ Submit(task[r].tx)
    /\ task' = [task EXCEPT ![r].pc = "poll"]
    /\ UNCHANGED <<db, receipts>>

\* A facilitator other than the repository's may say that it settled another
\* transaction, and need not have sent the one it was given.
SettleMisreported(r, s) ==
    /\ task[r].pc = "settle"
    /\ Submit(task[r].tx) \/ UNCHANGED ledger
    /\ task' = [task EXCEPT ![r].pc = "poll", ![r].tx = s]
    /\ UNCHANGED <<db, receipts>>

\* The transaction is submitted, but the facilitator's answer never arrives or
\* does not parse: the client gets a 402.
SettleLost(r) ==
    /\ task[r].pc = "settle"
    /\ Submit(task[r].tx)
    /\ Finish(r)
    /\ UNCHANGED <<db, receipts>>

\* The facilitator is unreachable or Kora refuses.
SettleRefused(r) ==
    /\ task[r].pc = "settle"
    /\ Finish(r)
    /\ UNCHANGED <<db, ledger, receipts>>

OnChain(t) == ledger[t].state \in {"finalized", "failed"}

\* A check that takes the facilitator's word for the payment.
PaymentVerifiedByFacilitator(t, required) == OnChain(t)

\* A check that is content with a final transaction.
PaymentVerifiedIfFinal(t, required) == ledger[t].state = "finalized"

PaymentVerified(t, required) ==
    ledger[t].state = "finalized" /\ ledger[t].amount >= required

\* A completion that reads the row again and writes that.
PollVerifiedRereads(r) ==
    LET k == task[r]
    IN  /\ k.pc = "poll"
        /\ PaymentVerified(k.tx, k.work.total)
        /\ task' = [task EXCEPT ![r] = Saving(k.chk, Complete(Stored(k.chk)), k.tx)]
        /\ receipts' = receipts \cup ReceiptFor(k.chk, k.work, k.tx)
        /\ UNCHANGED <<db, ledger>>

\* The RPC returns the transaction, and the payment stands: the checkout is
\* completed, or not, as it was when the request read it.
PollVerified(r) ==
    LET k == task[r]
    IN  /\ k.pc = "poll"
        /\ PaymentVerified(k.tx, k.work.total)
        /\ task' = [task EXCEPT ![r] = Saving(k.chk, Complete(k.work), k.tx)]
        /\ receipts' = receipts \cup ReceiptFor(k.chk, k.work, k.tx)
        /\ UNCHANGED <<db, ledger>>

\* The RPC returns the transaction: it failed on chain or paid too little.
PollRejected(r) ==
    LET k == task[r]
    IN  /\ k.pc = "poll"
        /\ OnChain(k.tx)
        /\ ~PaymentVerified(k.tx, k.work.total)
        /\ Finish(r)
        /\ UNCHANGED <<db, ledger, receipts>>

\* A poll that starts over when its attempts are used up.
PollAgainForever(r) ==
    /\ task[r].pc = "poll"
    /\ task' = [task EXCEPT ![r].attempt = (@ + 1) % MaxAttempts]
    /\ UNCHANGED <<db, ledger, receipts>>

\* Not finalized yet, or an RPC error: back off and ask again.
PollAgain(r) ==
    /\ task[r].pc = "poll"
    /\ task[r].attempt + 1 < MaxAttempts
    /\ task' = [task EXCEPT ![r].attempt = @ + 1]
    /\ UNCHANGED <<db, ledger, receipts>>

PollGiveUp(r) ==
    /\ task[r].pc = "poll"
    /\ task[r].attempt + 1 = MaxAttempts
    /\ Finish(r)
    /\ UNCHANGED <<db, ledger, receipts>>

-----------------------------------------------------------------------------

\* `save`: one UPDATE of every column by id.
Save(r) ==
    /\ task[r].pc = "save"
    /\ db' = [db EXCEPT ![task[r].chk] = ToRow(task[r].work)]
    /\ Finish(r)
    /\ UNCHANGED <<ledger, receipts>>

\* The database returns an error: the client gets a 500.
SaveFails(r) ==
    /\ task[r].pc = "save"
    /\ Finish(r)
    /\ UNCHANGED <<db, ledger, receipts>>

\* The client closes its connection and the handler is dropped at an await.
Disconnect(r) ==
    /\ task[r] # Idle
    /\ Finish(r)
    /\ UNCHANGED <<db, ledger, receipts>>

\* The process dies and systemd restarts it: only the table is left.
Restart ==
    /\ \E r \in Reqs : task[r] # Idle
    /\ task' = [r \in Reqs |-> Idle]
    /\ UNCHANGED <<db, ledger, receipts>>

\* The chain decides on a submitted transaction.
ChainStep(t) ==
    /\ ledger[t].state = "submitted"
    /\ \E s \in {"finalized", "failed", "expired"} :
          ledger' = [ledger EXCEPT ![t].state = s]
    /\ UNCHANGED <<db, task, receipts>>

-----------------------------------------------------------------------------

Request(r) ==
    \E id \in Ids :
        \/ \E update \in Updates : UpdateCheckout(r, id, update)
        \/ CancelCheckout(r, id)
        \/ CompleteMock(r, id)
        \/ \E t \in Txs : CompletePay(r, id, t)

SettleStep(r) == SettleAccepted(r) \/ SettleLost(r) \/ SettleRefused(r)

PollStep(r) == PollVerified(r) \/ PollRejected(r) \/ PollAgain(r) \/ PollGiveUp(r)

SaveStep(r) == Save(r) \/ SaveFails(r)

HandlerStep(r) == SettleStep(r) \/ PollStep(r) \/ SaveStep(r)

Next ==
    \/ \E id \in Ids, cart \in Carts, email \in BOOLEAN :
          CreateCheckout(id, cart, email)
    \/ \E id \in Ids, t \in Txs : PaymentRequirements(id, t)
    \/ \E t \in Txs : ChainStep(t)
    \/ \E r \in Reqs :
          \/ Request(r) \/ HandlerStep(r) \/ Disconnect(r)
          \/ \E s \in Txs : SettleMisreported(r, s)
    \/ Restart

Spec == Init /\ [][Next]_vars

\* Every running handler is scheduled, and the RPC and the database answer or err.
\* The facilitator need not: the client that calls it has no timeout.
FairSpec == Spec /\ \A r \in Reqs : WF_vars(PollStep(r) \/ SaveStep(r))

-----------------------------------------------------------------------------
(* Properties.                                                             *)

(***************************************************************************)
(* Whatever overlaps, a stored total is the total of the stored items: the *)
(* two are computed together and written by one UPDATE.                    *)
(***************************************************************************)
TotalMatchesItems ==
    \A id \in Ids : Exists(id) => HasItsTotal(Stored(id))

(***************************************************************************)
(* Whatever overlaps, an open checkout is ready_for_complete exactly when  *)
(* it has items, a buyer e-mail and a handler: no write of one handler can *)
(* combine with another's into a row that is ready without being complete, *)
(* or stuck incomplete with everything present.                            *)
(***************************************************************************)
ReadinessConsistent ==
    \A id \in Ids : Exists(id) => HasItsReadiness(Stored(id))

\* Transaction t moved at least total to the merchant.
Paid(t, total) == ledger[t].state = "finalized" /\ ledger[t].amount >= total

\* A receipt stands: the mock handler's, or a payment of the total.
Backed(rc) == rc.by = None \/ Paid(rc.by, rc.total)

HasReceipt(id) == \E rc \in receipts : rc.chk = id

(***************************************************************************)
(* A checkout shown as completed was completed by the mock handler or by a *)
(* finalized transaction that covered the total it had then, whatever the  *)
(* facilitator said, and across stale writes, retries, disconnects and     *)
(* restarts.  The transaction need not be one signed for it: nothing in    *)
(* the code ties the two (see PaymentsBuyOnce in Purchase).                *)
(***************************************************************************)
CompletedIsPaidFor ==
    \A id \in Ids : Exists(id) /\ Stored(id).status = "Completed" =>
        \E rc \in receipts : rc.chk = id /\ Backed(rc)

(***************************************************************************)
(* The row a paid request is about to write as completed carries a total   *)
(* that a transaction covers which the RPC showed to be final, even when   *)
(* the items were edited while the request was settling or polling.        *)
(***************************************************************************)
CompletionWritesVerifiedTotal ==
    \A r \in Reqs :
        LET k == task[r]
        IN  k.pc = "save" /\ k.tx # None /\ k.work.status = "Completed" =>
            Paid(k.tx, k.work.total)

(***************************************************************************)
(* The inductive invariant behind the four properties above.  A row goes   *)
(* through the handlers' own copies before it is written again, so what is *)
(* claimed of rows must hold of every copy; and a completed copy may be    *)
(* written long after its receipt was earned, so receipts must stay good:  *)
(* a final transaction does not change.                                    *)
(***************************************************************************)
GoodRow(id) ==
    Exists(id) =>
        /\ Sound(Stored(id))
        /\ Stored(id).status = "Completed" => HasReceipt(id)

GoodTask(r) ==
    LET k == task[r]
    IN  k # Idle =>
        /\ Sound(k.work)
        /\ k.work.status = "Completed" => HasReceipt(k.chk)
        /\ k.pc \in {"settle", "poll"} => k.tx \in Txs
        /\ k.pc = "save" /\ k.tx # None /\ k.work.status = "Completed"
              => Paid(k.tx, k.work.total)

InductiveInvariant ==
    /\ TypeOK
    /\ \A id \in Ids : GoodRow(id)
    /\ \A r \in Reqs : GoodTask(r)
    /\ \A rc \in receipts : Backed(rc)

(***************************************************************************)
(* Once the facilitator has answered, the request is answered too: the     *)
(* poll of the chain is bounded, so a transaction that never becomes final *)
(* cannot keep a handler running.  Of the facilitator nothing is assumed:  *)
(* a request it does not answer waits in "settle" for ever.                *)
(***************************************************************************)
SettledRequestsAnswered ==
    \A r \in Reqs : task[r].pc \in {"poll", "save"} ~> task[r] = Idle

\* The most steps a handler in state k still takes: /settle, every attempt of the
\* poll, and the UPDATE.
StepsLeft(k) ==
    CASE k.pc = "settle" -> MaxAttempts + 2
      [] k.pc = "poll"   -> MaxAttempts - k.attempt + 1
      [] k.pc = "save"   -> 1
      [] OTHER           -> 0

(***************************************************************************)
(* Whatever the chain, the facilitator, the database and the other         *)
(* handlers do, a handler that has started only comes closer to its end:   *)
(* it waits at most MaxAttempts + 2 times, and nothing sends it back.  The *)
(* safety part of SettledRequestsAnswered, with its bound.                 *)
(***************************************************************************)
HandlersOnlyAdvance ==
    [][\A r \in Reqs : task[r] # Idle /\ task'[r] # task[r] =>
            StepsLeft(task'[r]) < StepsLeft(task[r])]_task

(***************************************************************************)
(* refresh_status leaves Completed and Canceled alone, and the lifecycle   *)
(* of CheckoutStatus and docs/architecture.md leads from them nowhere but  *)
(* to canceled: a closed checkout is never open again.                     *)
(***************************************************************************)
ClosedStaysClosed ==
    [][\A id \in Ids : Exists(id) /\ IsTerminal(Stored(id).status)
            => IsTerminal(Stored(id)'.status)]_db

(***************************************************************************)
(* PaymentHandler::verify_and_settle: after Ok the caller can mark the     *)
(* checkout as completed.                                                  *)
(***************************************************************************)
SettledPaymentCompletes ==
    \A r \in Reqs : task[r].pc = "save" /\ task[r].tx # None =>
        task[r].work.status = "Completed"

(***************************************************************************)
(* The lifecycle of CheckoutStatus: completed comes after                  *)
(* complete_in_progress.                                                   *)
(***************************************************************************)
CompletesThroughInProgress ==
    [][\A id \in Ids :
         Exists(id) /\ Stored(id).status # "Completed"
            /\ Stored(id)'.status = "Completed"
         => Stored(id).status = "CompleteInProgress"]_db

=============================================================================
