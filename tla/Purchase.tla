------------------------------ MODULE Purchase ------------------------------
(***************************************************************************)
(* The buyer script (buyer-testing/index.ts) against the merchant server:  *)
(* create a checkout, attach the x402 handler, complete, pay on 402, and   *)
(* say how it went.  It may be run again, with a new checkout.  Every      *)
(* answer can be lost, connections break, the server restarts, and a       *)
(* handler may go on when the script has given up on its answer.           *)
(***************************************************************************)
EXTENDS MerchantServer

CONSTANT BuyerCart  \* the line items the script sends

AttachX402 == [line_items |-> None, email |-> None, payment_handler_id |-> X402]

ASSUME PurchaseAssumption ==
    /\ BuyerCart \in Carts
    /\ AttachX402 \in Updates
    /\ None \notin Reqs
    /\ None \notin {"success", "failed", "error"}

VARIABLES
    pc,      \* where the script is: the request it sends or waits for
    chk,     \* the checkout of this run
    tx,      \* the transaction it signed for it
    slot,    \* the handler whose answer it waits for
    report   \* checkout -> what the run that bought it said at its end

buyerVars == <<pc, chk, tx, slot, report>>

purchaseVars == <<vars, buyerVars>>

PurchaseInit ==
    /\ Init
    /\ pc = "create"
    /\ chk = None /\ tx = None /\ slot = None
    /\ report = [id \in Ids |-> None]

Says(said) ==
    /\ pc' = "done"
    /\ slot' = None
    /\ report' = [report EXCEPT ![chk] = said]
    /\ UNCHANGED <<chk, tx>>

-----------------------------------------------------------------------------
(* The script's requests.                                                  *)

\* POST /checkout-sessions: a checkout whose answer is lost stays unused.
Create ==
    /\ pc = "create"
    /\ \/ \E id \in Ids :
            /\ CreateCheckout(id, BuyerCart, TRUE)
            /\ \/ pc' = "attach" /\ chk' = id
               \/ pc' = "done" /\ chk' = chk
       \/ pc' = "done" /\ UNCHANGED <<vars, chk>>
    /\ UNCHANGED <<tx, slot, report>>

Waits(r, next) ==
    /\ slot' = r /\ pc' = next
    /\ UNCHANGED <<chk, tx, report>>

\* An `await` forgotten: the next request follows at once.
AttachUnawaited(r) ==
    /\ pc = "attach"
    /\ UpdateCheckout(r, chk, AttachX402)
    /\ pc' = "complete"
    /\ UNCHANGED <<chk, tx, slot, report>>

Attach(r) ==
    /\ pc = "attach"
    /\ UpdateCheckout(r, chk, AttachX402)
    /\ Waits(r, "attaching")

\* A library that keeps what it signed, and sends it again for the same amount.
ChallengedFromCache(t) ==
    /\ pc = "complete"
    /\ \/ PaymentRequirements(chk, t)
       \/ ledger[t].amount = Stored(chk).total /\ UNCHANGED vars
    /\ tx' = t /\ pc' = "pay"
    /\ UNCHANGED <<chk, slot, report>>

\* The first complete: 402, and the client library signs a transaction.
Challenged(t) ==
    /\ pc = "complete"
    /\ PaymentRequirements(chk, t)
    /\ tx' = t /\ pc' = "pay"
    /\ UNCHANGED <<chk, slot, report>>

\* The library's second complete, with the payment.
Pay(r) ==
    /\ pc = "pay"
    /\ CompletePay(r, chk, tx)
    /\ Waits(r, "paying")

\* The request does not reach the server, or the row cannot be read: fetch
\* throws, or the answer is 500.
RequestFails ==
    /\ pc \in {"attach", "complete", "pay"}
    /\ \/ Says("error")
       \/ pc # "attach" /\ Says("failed")
    /\ UNCHANGED vars

\* fetch gives up on an answer; the server does not notice.
TimesOut ==
    /\ slot # None
    /\ Says("error")
    /\ UNCHANGED vars

\* A script that goes on with the checkout it has.
RunAgainWithTheSame ==
    /\ pc = "done" /\ chk # None
    /\ pc' = "attach" /\ UNCHANGED <<vars, chk, tx, slot, report>>

RunAgain ==
    /\ pc = "done" /\ \E id \in Ids : ~Exists(id)
    /\ pc' = "create" /\ chk' = None /\ tx' = None
    /\ UNCHANGED <<vars, slot, report>>

-----------------------------------------------------------------------------
(* The answers.                                                            *)

\* A script that takes any answer to the second complete for a success.
ReadAnyAnswer(code, work) ==
    IF pc = "attaching"
    THEN IF code = "200" /\ work.status = "ReadyForComplete" THEN "go on" ELSE "error"
    ELSE IF code = "lost" THEN "error" ELSE "success"

\* What the script makes of an answer and the checkout in it.
Read(code, work) ==
    IF pc = "attaching"
    THEN IF code = "200" /\ work.status = "ReadyForComplete" THEN "go on" ELSE "error"
    ELSE CASE code = "200"  -> "success"
           [] code = "lost" -> "error"
           [] OTHER         -> "failed"

\* Handler r takes a step; if that is its last, it answers with one of codes,
\* and the answer may be lost on the way.
Hears(r, codes) ==
    IF task'[r] # Idle \/ slot # r THEN UNCHANGED buyerVars
    ELSE \E code \in codes \cup {"lost"} :
            IF Read(code, task[r].work) = "go on"
            THEN pc' = "complete" /\ slot' = None /\ UNCHANGED <<chk, tx, report>>
            ELSE Says(Read(code, task[r].work))

\* complete() was Err: 409.
SavedCode(r) ==
    IF task[r].tx # None /\ task[r].work.status # "Completed" THEN "409" ELSE "200"

\* The UPDATE may be executed and its acknowledgement lost: 500.
Serve(r) ==
    \/ SettleStep(r) /\ Hears(r, {"402"})
    \/ PollStep(r) /\ Hears(r, {"402"})
    \/ Save(r) /\ Hears(r, {SavedCode(r), "500"})
    \/ SaveFails(r) /\ Hears(r, {"500"})

ConnectionBreaks(r) == Disconnect(r) /\ Hears(r, {})

ServerRestarts ==
    /\ Restart
    /\ IF slot = None THEN UNCHANGED buyerVars ELSE Says("error")

ChainDecides(t) == ChainStep(t) /\ UNCHANGED buyerVars

-----------------------------------------------------------------------------

BuyerStep ==
    \/ Create
    \/ \E r \in Reqs : Attach(r)
    \/ \E t \in Txs : Challenged(t)
    \/ \E r \in Reqs : Pay(r)
    \/ RequestFails

PurchaseNext ==
    \/ BuyerStep
    \/ TimesOut
    \/ RunAgain
    \/ \E r \in Reqs : Serve(r) \/ ConnectionBreaks(r)
    \/ ServerRestarts
    \/ \E t \in Txs : ChainDecides(t)

PurchaseSpec == PurchaseInit /\ [][PurchaseNext]_purchaseVars

\* The script runs, the server's handlers are scheduled, and the facilitator
\* answers them; where it does not, fetch of Node gives up by itself.  Nothing is
\* asked of that timeout, of the chain, or of the person who runs it again.
PurchaseFairSpec ==
    /\ PurchaseSpec
    /\ WF_purchaseVars(BuyerStep)
    /\ \A r \in Reqs : WF_purchaseVars(Serve(r))

-----------------------------------------------------------------------------
(* Properties.                                                             *)

Bought(id) ==
    /\ Exists(id) /\ Stored(id).status = "Completed"
    /\ \E rc \in receipts :
          /\ rc.chk = id /\ rc.by # None
          /\ Paid(rc.by, CalculateTotal(BuyerCart))

(***************************************************************************)
(* "SUCCESS: checkout completed and paid": when the script has said so,    *)
(* its checkout is completed on the strength of a final transaction that   *)
(* moved the price of the script's cart, and that stays so, whatever       *)
(* handlers of given-up runs still do and however often the server         *)
(* restarts.                                                               *)
(***************************************************************************)
SuccessMeansPaid ==
    \A id \in Ids : report[id] = "success" => Bought(id)

(***************************************************************************)
(* A run of the script ends: it waits for one answer at a time, and no     *)
(* handler that was answered itself answers later than its bounded poll,   *)
(* also when the chain never decides.                                      *)
(***************************************************************************)
RunEnds == pc = "create" ~> pc = "done"

(***************************************************************************)
(* The script's requests never meet on a checkout: no two handlers work on *)
(* one, and a handler that works is the one the script waits for, or was   *)
(* given up with its run.  This is why the lost updates of the server      *)
(* cannot happen to the script, and why its payments complete what they    *)
(* pay for (SettledPaymentCompletes).                                      *)
(***************************************************************************)
RequestsNeverMeet ==
    \A r \in Reqs : task[r] # Idle =>
        /\ \/ slot = r /\ task[r].chk = chk
           \/ report[task[r].chk] = "error"
        /\ \A q \in Reqs \ {r} : task[q].chk # task[r].chk

(***************************************************************************)
(* A transaction pays for one checkout.  The server does not see to it: it *)
(* takes any transaction for any checkout, as often as it is shown one.    *)
(* It holds because the client library signs a new transaction for every   *)
(* 402 and the facilitator settles the one it is given: also when a run is *)
(* given up, its payment settles later and the next run pays again.        *)
(***************************************************************************)
PaymentsBuyOnce ==
    \A rc1, rc2 \in receipts :
        rc1.by # None /\ rc1.by = rc2.by => rc1.chk = rc2.chk

(***************************************************************************)
(* The inductive invariant.  A run in progress has a checkout of its own,  *)
(* on which nothing was said yet, and waits exactly for the handler it     *)
(* names; every row and every copy has the script's cart, so a verified    *)
(* total is the price; and the script pays only for a row that is ready,   *)
(* which no handler is left to change.                                     *)
(***************************************************************************)
PurchaseTypeOK ==
    /\ pc \in {"create", "attach", "attaching", "complete", "pay", "paying", "done"}
    /\ chk \in Ids \cup {None}
    /\ tx \in Txs \cup {None}
    /\ slot \in Reqs \cup {None}
    /\ report \in [Ids -> {None, "success", "failed", "error"}]

RunIsTracked ==
    /\ pc \notin {"create", "done"} => chk \in Ids /\ Exists(chk) /\ report[chk] = None
    /\ pc \in {"attaching", "paying"} <=> slot # None
    /\ slot # None => task[slot].chk = chk
    /\ pc = "pay" => tx \in Txs
    /\ pc = "paying" => task[slot].tx # None
    /\ pc \in {"complete", "pay"} => CanComplete(Stored(chk))
    /\ \A id \in Ids : ~Exists(id) => report[id] = None

GoodCopy(k) ==
    k # Idle =>
        /\ k.work.line_items = BuyerCart
        /\ k.pc \in {"settle", "poll"} => CanComplete(k.work)
        /\ k.pc = "save" /\ k.tx # None => k.work.status = "Completed"

ScriptInvariant ==
    /\ PurchaseTypeOK
    /\ RunIsTracked
    /\ RequestsNeverMeet
    /\ \A id \in Ids : Exists(id) => Stored(id).line_items = BuyerCart
    /\ \A r \in Reqs : GoodCopy(task[r])
    /\ SuccessMeansPaid

(***************************************************************************)
(* And of the payments: every receipt is one for the price, and everywhere *)
(* a transaction can be found (with the script, in a handler, on a         *)
(* receipt) it is found with the same checkout.                            *)
(***************************************************************************)
UsedFor(t, id) ==
    \/ pc \in {"pay", "paying"} /\ tx = t /\ chk = id
    \/ \E r \in Reqs : task[r] # Idle /\ task[r].tx = t /\ task[r].chk = id
    \/ \E rc \in receipts : rc.by = t /\ rc.chk = id

PaymentInvariant ==
    /\ \A rc \in receipts : rc.by \in Txs /\ rc.total = CalculateTotal(BuyerCart)
    /\ \A t \in Txs, i, j \in Ids : UsedFor(t, i) /\ UsedFor(t, j) => i = j
    /\ \A t \in Txs, id \in Ids : UsedFor(t, id) => ledger[t].state # "unsigned"

PurchaseInvariant == ScriptInvariant /\ PaymentInvariant

(***************************************************************************)
(* "FAILED: checkout did not complete".                                    *)
(***************************************************************************)
FailureReportIsTrue ==
    \A id \in Ids : report[id] = "failed" => Stored(id).status # "Completed"

=============================================================================
