------------------------ MODULE MerchantServerProofs ------------------------
(***************************************************************************)
(* The safety of the merchant server, for every set of checkouts, request  *)
(* slots, transactions, carts and updates: the inductive invariant, the    *)
(* properties that follow from it, and the refinement of the lifecycle.    *)
(***************************************************************************)
EXTENDS ServerLifecycle, CheckoutProofs

-----------------------------------------------------------------------------
(* Facts about single states.                                              *)

LEMMA StoredIsCheckout ==
    ASSUME TypeOK, NEW id \in Ids, Exists(id)
    PROVE  Stored(id) \in Checkouts
  BY RowIsCheckout DEF TypeOK, Exists, Stored

LEMMA RunningIsTask ==
    ASSUME TypeOK, NEW r \in Reqs, task[r] # Idle
    PROVE  task[r] \in Tasks
  BY DEF TypeOK

LEMMA PcIsRunning ==
    ASSUME TypeOK, NEW r \in Reqs, task[r].pc \in {"settle", "poll", "save"}
    PROVE  task[r] # Idle /\ task[r] \in Tasks
  BY DEF TypeOK, Idle

LEMMA TaskIsNotIdle == Idle \notin Tasks
  BY DEF Idle, Tasks

LEMMA SavingIsTask ==
    ASSUME NEW id \in Ids, NEW work \in Checkouts, NEW tx \in Txs \cup {None}
    PROVE  Saving(id, work, tx) \in Tasks
  BY ServerAssumption DEF Saving, Tasks

LEMMA StatusTyped ==
    ASSUME NEW c \in Checkouts
    PROVE  c.total \in Totals
  BY DEF Checkouts

-----------------------------------------------------------------------------
(* What survives a step.  Receipts are only added, and a transaction that  *)
(* is final does not change.                                               *)

Monotone ==
    /\ receipts \subseteq receipts'
    /\ \A t \in Txs : ledger[t].state = "finalized" => ledger'[t] = ledger[t]

LEMMA PaidStays ==
    ASSUME TypeOK, Monotone,
           NEW t \in Txs, NEW total \in Totals, Paid(t, total)
    PROVE  Paid(t, total)'
  BY DEF Monotone, Paid

LEMMA RowStays ==
    ASSUME Monotone, NEW id \in Ids, GoodRow(id), db'[id] = db[id]
    PROVE  GoodRow(id)'
  BY DEF Monotone, GoodRow, HasReceipt, Exists, Stored

LEMMA TaskStays ==
    ASSUME TypeOK, Monotone, NEW r \in Reqs, GoodTask(r), task'[r] = task[r]
    PROVE  GoodTask(r)'
<1>1. CASE task[r] = Idle
  BY <1>1 DEF GoodTask
<1>2. CASE task[r] # Idle
  <2>1. task[r] \in Tasks
    BY <1>2, RunningIsTask
  <2>2. task[r].tx # None => task[r].tx \in Txs
    BY <2>1 DEF Tasks
  <2> QED
    BY <1>2, <2>2 DEF GoodTask, Monotone, HasReceipt, Paid
<1> QED
  BY <1>1, <1>2

LEMMA ReceiptsStay ==
    ASSUME InductiveInvariant, Monotone
    PROVE  \A rc \in receipts : Backed(rc)'
  BY DEF InductiveInvariant, TypeOK, Receipts, Backed, Paid, Monotone

LEMMA QuietLedger ==
    ASSUME InductiveInvariant, ledger' = ledger, receipts \subseteq receipts'
    PROVE  Monotone
  BY DEF Monotone

LEMMA SubmitLedger ==
    ASSUME InductiveInvariant, NEW t \in Txs, Submit(t), receipts' = receipts
    PROVE  /\ Monotone
           /\ ledger' \in [Txs -> LedgerEntries]
<1>1. ledger \in [Txs -> LedgerEntries]
  BY DEF InductiveInvariant, TypeOK
<1> DEFINE state == IF ledger[t].state = "signed" THEN "submitted" ELSE ledger[t].state
<1>2. ledger' = [ledger EXCEPT ![t] = [ledger[t] EXCEPT !.state = state]]
  BY <1>1 DEF Submit, LedgerEntries
<1>3. [ledger[t] EXCEPT !.state = state] \in LedgerEntries
  BY <1>1 DEF LedgerEntries, TxStates
<1>4. ledger' \in [Txs -> LedgerEntries]
  BY <1>1, <1>2, <1>3
<1>5. Monotone
  BY <1>1, <1>2 DEF Monotone, LedgerEntries
<1> QED
  BY <1>4, <1>5

\* A step of one slot that writes no row.
LEMMA SlotStep ==
    ASSUME InductiveInvariant, Monotone, NEW r \in Reqs,
           TypeOK', db' = db, GoodTask(r)',
           \A q \in Reqs \ {r} : task'[q] = task[q],
           \A rc \in receipts' \ receipts : Backed(rc)'
    PROVE  InductiveInvariant'
<1>1. \A id \in Ids : GoodRow(id)'
  BY RowStays DEF InductiveInvariant
<1>2. \A q \in Reqs : GoodTask(q)'
  BY TaskStays DEF InductiveInvariant
<1>3. \A rc \in receipts' : Backed(rc)'
  BY ReceiptsStay
<1> QED
  BY <1>1, <1>2, <1>3 DEF InductiveInvariant

\* A slot that takes up a write of work, with no new receipt or a good one.
LEMMA SaveIsQueued ==
    ASSUME InductiveInvariant, NEW r \in Reqs, NEW id \in Ids, NEW work \in Checkouts,
           NEW tx \in Txs \cup {None}, NEW earned \in SUBSET Receipts,
           task' = [task EXCEPT ![r] = Saving(id, work, tx)],
           receipts' = receipts \cup earned,
           UNCHANGED <<db, ledger>>,
           \A rc \in earned : Backed(rc),
           Sound(work),
           work.status = "Completed" => HasReceipt(id)',
           work.status = "Completed" /\ tx # None => Paid(tx, work.total)
    PROVE  InductiveInvariant'
<1>1. Monotone
  BY QuietLedger
<1>2. TypeOK /\ task'[r] = Saving(id, work, tx)
  BY DEF InductiveInvariant, TypeOK
<1>3. TypeOK'
  BY <1>2, SavingIsTask DEF TypeOK
<1>4. GoodTask(r)'
  <2>1. /\ task'[r].work = work /\ task'[r].chk = id /\ task'[r].tx = tx
        /\ task'[r].pc = "save"
    BY <1>2 DEF Saving
  <2> QED
    BY <2>1 DEF GoodTask, Paid
<1>5. \A rc \in receipts' \ receipts : Backed(rc)'
  BY DEF Backed, Paid
<1>6. \A q \in Reqs \ {r} : task'[q] = task[q]
  BY <1>2 DEF TypeOK
<1> QED
  BY <1>1, <1>3, <1>4, <1>5, <1>6, SlotStep

\* The same for an edit, which earns nothing.
LEMMA EditIsQueued ==
    ASSUME InductiveInvariant, NEW r \in Reqs, NEW id \in Ids, NEW work \in Checkouts,
           task' = [task EXCEPT ![r] = Saving(id, work, None)],
           UNCHANGED <<db, ledger, receipts>>,
           Sound(work),
           work.status = "Completed" => HasReceipt(id)'
    PROVE  InductiveInvariant'
<1> DEFINE earned == {}
<1>1. /\ earned \in SUBSET Receipts
      /\ receipts' = receipts \cup earned
      /\ \A rc \in earned : Backed(rc)
  OBVIOUS
<1> HIDE DEF earned
<1> QED
  BY <1>1, SaveIsQueued

\* A handler that ends, by itself or because its connection is gone.
LEMMA HandlerEnds ==
    ASSUME InductiveInvariant, NEW r \in Reqs, Finish(r), UNCHANGED <<db, receipts>>,
           ledger' = ledger \/ \E t \in Txs : Submit(t)
    PROVE  InductiveInvariant'
<1>1. /\ Monotone
      /\ ledger' \in [Txs -> LedgerEntries]
  BY QuietLedger, SubmitLedger DEF InductiveInvariant, TypeOK
<1>2. TypeOK /\ TypeOK'
  BY <1>1 DEF InductiveInvariant, TypeOK, Finish
<1>3. GoodTask(r)'
  BY <1>2 DEF GoodTask, Finish, TypeOK
<1>4. \A q \in Reqs \ {r} : task'[q] = task[q]
  BY <1>2 DEF TypeOK, Finish
<1> QED
  BY <1>1, <1>2, <1>3, <1>4, SlotStep

-----------------------------------------------------------------------------
(* The actions.                                                            *)

LEMMA CreateKeeps ==
    ASSUME InductiveInvariant, NEW id \in Ids, NEW cart \in Carts, NEW email \in BOOLEAN,
           CreateCheckout(id, cart, email)
    PROVE  InductiveInvariant'
<1> DEFINE c == New(cart, email)
<1>1. c \in Checkouts /\ Sound(c) /\ c.status # "Completed"
  BY NewIsSound DEF New
<1> HIDE DEF c
<1>2. ToRow(c) \in Rows /\ IntoCheckout(ToRow(c)) = c
  BY <1>1, RowRoundTrip
<1>3. /\ TypeOK
      /\ db' = [db EXCEPT ![id] = ToRow(c)]
      /\ UNCHANGED <<task, ledger, receipts>>
  BY DEF InductiveInvariant, CreateCheckout, c
<1>4. TypeOK'
  BY <1>2, <1>3 DEF TypeOK
<1>5. Monotone
  BY <1>3, QuietLedger
<1>6. \A i \in Ids : GoodRow(i)'
  <2> SUFFICES ASSUME NEW i \in Ids PROVE GoodRow(i)'
    OBVIOUS
  <2>1. CASE i = id
    <3>1. Stored(i)' = c
      BY <1>2, <1>3, <2>1 DEF Stored, TypeOK
    <3> QED
      BY <1>1, <3>1 DEF GoodRow
  <2>2. CASE i # id
    <3>1. db'[i] = db[i]
      BY <1>3, <2>2 DEF TypeOK
    <3> QED
      BY <1>5, <3>1, RowStays DEF InductiveInvariant
  <2> QED
    BY <2>1, <2>2
<1>7. \A r \in Reqs : GoodTask(r)'
  BY <1>3, <1>5, TaskStays DEF InductiveInvariant
<1>8. \A rc \in receipts' : Backed(rc)'
  BY <1>3, <1>5, ReceiptsStay
<1> QED
  BY <1>4, <1>5, <1>6, <1>7, <1>8 DEF InductiveInvariant

LEMMA UpdateKeeps ==
    ASSUME InductiveInvariant, NEW r \in Reqs, NEW id \in Ids, NEW update \in Updates,
           UpdateCheckout(r, id, update)
    PROVE  InductiveInvariant'
<1> DEFINE c == Stored(id)
<1>1. c \in Checkouts /\ Sound(c) /\ (c.status = "Completed" => HasReceipt(id))
  BY StoredIsCheckout DEF InductiveInvariant, GoodRow, UpdateCheckout, Available
<1>2. update \in UpdateCheckoutRequest
  BY ServerAssumption
<1> DEFINE work == ApplyUpdate(c, update)
<1>3. /\ work \in Checkouts /\ Sound(work)
      /\ work.status = "Completed" <=> c.status = "Completed"
  BY <1>1, <1>2, ApplyUpdateIsSound
<1>4. task' = [task EXCEPT ![r] = Saving(id, work, None)] /\ UNCHANGED <<db, ledger, receipts>>
  BY DEF UpdateCheckout
<1> HIDE DEF work, c
<1>5. work.status = "Completed" => HasReceipt(id)'
  BY <1>1, <1>3, <1>4 DEF HasReceipt
<1> QED
  BY <1>3, <1>4, <1>5, EditIsQueued

LEMMA CancelKeeps ==
    ASSUME InductiveInvariant, NEW r \in Reqs, NEW id \in Ids, CancelCheckout(r, id)
    PROVE  InductiveInvariant'
<1> DEFINE c    == Stored(id)
           work == Cancel(c)
<1>1. c \in Checkouts /\ Sound(c)
  BY StoredIsCheckout DEF InductiveInvariant, GoodRow, CancelCheckout, Available
<1>2. work \in Checkouts /\ Sound(work) /\ work.status # "Completed"
  BY <1>1, CancelIsSound
<1>3. task' = [task EXCEPT ![r] = Saving(id, work, None)] /\ UNCHANGED <<db, ledger, receipts>>
  BY DEF CancelCheckout
<1> HIDE DEF work, c
<1> QED
  BY <1>2, <1>3, EditIsQueued

\* What `complete()` earns is one receipt for the checkout it completes.
LEMMA ReceiptIsEarned ==
    ASSUME NEW id \in Ids, NEW c \in Checkouts, NEW tx \in Txs \cup {None}
    PROVE  /\ ReceiptFor(id, c, tx) \in SUBSET Receipts
           /\ \A rc \in ReceiptFor(id, c, tx) :
                 rc = [chk |-> id, by |-> tx, total |-> c.total]
           /\ CanComplete(c) => \E rc \in ReceiptFor(id, c, tx) : rc.chk = id
<1> DEFINE rc == [chk |-> id, by |-> tx, total |-> c.total]
<1>1. rc \in Receipts
  BY StatusTyped DEF Receipts
<1>2. ReceiptFor(id, c, tx) = IF CanComplete(c) THEN {rc} ELSE {}
  BY DEF ReceiptFor
<1>3. rc.chk = id
  OBVIOUS
<1> HIDE DEF rc
<1>4. CASE CanComplete(c)
  <2>1. ReceiptFor(id, c, tx) = {rc}
    BY <1>2, <1>4
  <2> QED
    BY <1>1, <1>3, <2>1 DEF rc
<1>5. CASE ~CanComplete(c)
  BY <1>2, <1>5
<1> QED
  BY <1>4, <1>5

\* A completion is saved together with its receipt.
LEMMA CompletionIsQueued ==
    ASSUME InductiveInvariant, NEW r \in Reqs, NEW id \in Ids, NEW c \in Checkouts,
           NEW tx \in Txs \cup {None},
           Sound(c), c.status = "Completed" => HasReceipt(id),
           tx # None => Paid(tx, c.total),
           task' = [task EXCEPT ![r] = Saving(id, Complete(c), tx)],
           receipts' = receipts \cup ReceiptFor(id, c, tx),
           UNCHANGED <<db, ledger>>
    PROVE  InductiveInvariant'
<1>1. /\ Complete(c) \in Checkouts /\ Sound(Complete(c))
      /\ Complete(c).total = c.total
      /\ Complete(c).status = "Completed" <=> CanComplete(c) \/ c.status = "Completed"
  BY CompleteIsSound
<1>2. /\ ReceiptFor(id, c, tx) \in SUBSET Receipts
      /\ \A rc \in ReceiptFor(id, c, tx) : Backed(rc)
  BY ReceiptIsEarned DEF Backed
<1>3. Complete(c).status = "Completed" => HasReceipt(id)'
  BY <1>1, ReceiptIsEarned DEF HasReceipt
<1> QED
  BY <1>1, <1>2, <1>3, SaveIsQueued

LEMMA CompleteMockKeeps ==
    ASSUME InductiveInvariant, NEW r \in Reqs, NEW id \in Ids, CompleteMock(r, id)
    PROVE  InductiveInvariant'
<1>1. /\ Stored(id) \in Checkouts /\ Sound(Stored(id))
      /\ Stored(id).status = "Completed" => HasReceipt(id)
  BY StoredIsCheckout DEF InductiveInvariant, GoodRow, CompleteMock, Available
<1> QED
  BY <1>1, CompletionIsQueued DEF CompleteMock

LEMMA PollVerifiedKeeps ==
    ASSUME InductiveInvariant, NEW r \in Reqs, PollVerified(r)
    PROVE  InductiveInvariant'
<1> DEFINE k == task[r]
<1>1. TypeOK /\ k.pc = "poll" /\ GoodTask(r)
  BY DEF InductiveInvariant, PollVerified
<1>2. k # Idle /\ k \in Tasks
  BY <1>1, PcIsRunning
<1>3. /\ k.chk \in Ids /\ k.work \in Checkouts /\ k.tx \in Txs
      /\ Sound(k.work)
      /\ k.work.status = "Completed" => HasReceipt(k.chk)
  BY <1>1, <1>2 DEF GoodTask, Tasks
<1>4. Paid(k.tx, k.work.total)
  BY DEF PollVerified, PaymentVerified, Paid
<1> QED
  BY <1>3, <1>4, CompletionIsQueued DEF PollVerified

\* A step of the ledger alone.
LEMMA LedgerStep ==
    ASSUME InductiveInvariant, Monotone,
           ledger' \in [Txs -> LedgerEntries], UNCHANGED <<db, task, receipts>>
    PROVE  InductiveInvariant'
<1>1. TypeOK /\ TypeOK'
  BY DEF InductiveInvariant, TypeOK
<1>2. \A id \in Ids : GoodRow(id)'
  BY RowStays DEF InductiveInvariant
<1>3. \A r \in Reqs : GoodTask(r)'
  BY <1>1, TaskStays DEF InductiveInvariant
<1>4. \A rc \in receipts' : Backed(rc)'
  BY ReceiptsStay
<1> QED
  BY <1>1, <1>2, <1>3, <1>4 DEF InductiveInvariant

LEMMA RequirementsKeeps ==
    ASSUME InductiveInvariant, NEW id \in Ids, NEW t \in Txs, PaymentRequirements(id, t)
    PROVE  InductiveInvariant'
<1> DEFINE entry == [state |-> "signed", amount |-> Stored(id).total]
<1>1. /\ ledger \in [Txs -> LedgerEntries]
      /\ ledger[t].state = "unsigned"
      /\ ledger' = [ledger EXCEPT ![t] = entry]
      /\ UNCHANGED <<db, task, receipts>>
  BY DEF InductiveInvariant, TypeOK, PaymentRequirements
<1>2. entry \in LedgerEntries
  <2>1. Stored(id).total \in Totals
    BY StoredIsCheckout, StatusTyped DEF InductiveInvariant, PaymentRequirements
  <2> QED
    BY <2>1 DEF LedgerEntries, TxStates
<1> HIDE DEF entry
<1>3. ledger' \in [Txs -> LedgerEntries]
  BY <1>1, <1>2
<1>4. Monotone
  BY <1>1 DEF Monotone
<1> QED
  BY <1>1, <1>3, <1>4, LedgerStep

LEMMA ChainKeeps ==
    ASSUME InductiveInvariant, NEW t \in Txs, ChainStep(t)
    PROVE  InductiveInvariant'
<1>1. PICK s \in {"finalized", "failed", "expired"} :
         ledger' = [ledger EXCEPT ![t].state = s]
  BY DEF ChainStep
<1>2. /\ ledger \in [Txs -> LedgerEntries]
      /\ ledger[t].state = "submitted"
      /\ UNCHANGED <<db, task, receipts>>
  BY DEF InductiveInvariant, TypeOK, ChainStep
<1>3. ledger' \in [Txs -> LedgerEntries]
  BY <1>1, <1>2 DEF LedgerEntries, TxStates
<1>4. Monotone
  BY <1>1, <1>2 DEF Monotone, LedgerEntries
<1> QED
  BY <1>2, <1>3, <1>4, LedgerStep

LEMMA CompletePayKeeps ==
    ASSUME InductiveInvariant, NEW r \in Reqs, NEW id \in Ids, NEW t \in Txs,
           CompletePay(r, id, t)
    PROVE  InductiveInvariant'
<1> DEFINE c == Stored(id)
           k == [pc |-> "settle", chk |-> id, work |-> c, tx |-> t, attempt |-> 0]
<1>1. c \in Checkouts /\ Sound(c) /\ (c.status = "Completed" => HasReceipt(id))
  BY StoredIsCheckout DEF InductiveInvariant, GoodRow, CompletePay, Available
<1>2. /\ task' = [task EXCEPT ![r] = k]
      /\ UNCHANGED <<db, ledger, receipts>>
  BY DEF CompletePay
<1>3. k \in Tasks
  BY <1>1, ServerAssumption DEF Tasks
<1>4. /\ k.pc = "settle" /\ k.chk = id /\ k.work = c /\ k.tx = t
  OBVIOUS
<1> HIDE DEF c, k
<1>5. TypeOK /\ TypeOK' /\ task'[r] = k
  BY <1>2, <1>3 DEF InductiveInvariant, TypeOK
<1>6. Monotone
  BY <1>2, QuietLedger
<1>7. GoodTask(r)'
  BY <1>1, <1>2, <1>4, <1>5 DEF GoodTask, HasReceipt
<1>8. \A q \in Reqs \ {r} : task'[q] = task[q]
  BY <1>2, <1>5 DEF TypeOK
<1> QED
  BY <1>2, <1>5, <1>6, <1>7, <1>8, SlotStep

\* A paying task that moves on to the poll of some transaction, or to its next
\* attempt.
LEMMA PollGoesOn ==
    ASSUME InductiveInvariant, NEW r \in Reqs, NEW s \in Txs,
           NEW attempt \in 0 .. (MaxAttempts - 1),
           task[r].pc \in {"settle", "poll"},
           task' = [task EXCEPT ![r] =
                      [task[r] EXCEPT !.pc = "poll", !.tx = s, !.attempt = attempt]],
           UNCHANGED <<db, receipts>>,
           Monotone, ledger' \in [Txs -> LedgerEntries]
    PROVE  InductiveInvariant'
<1> DEFINE k == task[r]
           n == [k EXCEPT !.pc = "poll", !.tx = s, !.attempt = attempt]
<1>1. TypeOK /\ GoodTask(r) /\ k # Idle /\ k \in Tasks
  BY PcIsRunning DEF InductiveInvariant
<1>2. /\ n \in Tasks
      /\ n.pc = "poll" /\ n.chk = k.chk /\ n.work = k.work /\ n.tx = s
  BY <1>1 DEF Tasks
<1> HIDE DEF n
<1>3. TypeOK' /\ task'[r] = n
  BY <1>1, <1>2 DEF TypeOK, n
<1>4. GoodTask(r)'
  BY <1>1, <1>2, <1>3 DEF GoodTask, HasReceipt, Monotone
<1>5. \A q \in Reqs \ {r} : task'[q] = task[q]
  BY <1>1 DEF TypeOK
<1> QED
  BY <1>3, <1>4, <1>5, SlotStep

LEMMA SettleAcceptedKeeps ==
    ASSUME InductiveInvariant, NEW r \in Reqs, SettleAccepted(r)
    PROVE  InductiveInvariant'
<1>1. TypeOK /\ GoodTask(r) /\ task[r] # Idle /\ task[r] \in Tasks
  BY PcIsRunning DEF InductiveInvariant, SettleAccepted
<1>2. task[r].tx \in Txs
  BY <1>1 DEF GoodTask, SettleAccepted
<1>3. /\ Monotone
      /\ ledger' \in [Txs -> LedgerEntries]
  BY <1>2, SubmitLedger DEF SettleAccepted
<1>4. /\ task[r].attempt \in 0 .. (MaxAttempts - 1)
      /\ [task EXCEPT ![r].pc = "poll"]
           = [task EXCEPT ![r] =
                [task[r] EXCEPT !.pc = "poll", !.tx = task[r].tx, !.attempt = task[r].attempt]]
  BY <1>1 DEF Tasks
<1> QED
  BY <1>2, <1>3, <1>4, PollGoesOn DEF SettleAccepted

LEMMA SettleMisreportedKeeps ==
    ASSUME InductiveInvariant, NEW r \in Reqs, NEW s \in Txs, SettleMisreported(r, s)
    PROVE  InductiveInvariant'
<1>1. TypeOK /\ GoodTask(r) /\ task[r] # Idle /\ task[r] \in Tasks
  BY PcIsRunning DEF InductiveInvariant, SettleMisreported
<1>2. task[r].tx \in Txs
  BY <1>1 DEF GoodTask, SettleMisreported
<1>3. Monotone /\ ledger' \in [Txs -> LedgerEntries]
  BY <1>1, <1>2, SubmitLedger, QuietLedger DEF SettleMisreported, TypeOK
<1>4. /\ task[r].attempt \in 0 .. (MaxAttempts - 1)
      /\ [task EXCEPT ![r].pc = "poll", ![r].tx = s]
           = [task EXCEPT ![r] =
                [task[r] EXCEPT !.pc = "poll", !.tx = s, !.attempt = task[r].attempt]]
  BY <1>1 DEF TypeOK, Tasks
<1> QED
  BY <1>3, <1>4, PollGoesOn DEF SettleMisreported

LEMMA PollAgainKeeps ==
    ASSUME InductiveInvariant, NEW r \in Reqs, PollAgain(r)
    PROVE  InductiveInvariant'
<1> DEFINE next == task[r].attempt + 1
<1>1. TypeOK /\ task[r] \in Tasks
  BY PcIsRunning DEF InductiveInvariant, PollAgain
<1>2. next \in 0 .. (MaxAttempts - 1)
  BY <1>1, ServerAssumption DEF PollAgain, Tasks
<1>3. [task EXCEPT ![r].attempt = @ + 1]
        = [task EXCEPT ![r] =
             [task[r] EXCEPT !.pc = "poll", !.tx = task[r].tx, !.attempt = next]]
  BY <1>1 DEF PollAgain, Tasks
<1>4. Monotone /\ ledger' \in [Txs -> LedgerEntries]
  BY <1>1, QuietLedger DEF PollAgain, TypeOK
<1>5. task[r].tx \in Txs
  BY <1>1, PcIsRunning DEF InductiveInvariant, GoodTask, PollAgain
<1> QED
  BY <1>2, <1>3, <1>4, <1>5, PollGoesOn DEF PollAgain

LEMMA SaveKeeps ==
    ASSUME InductiveInvariant, NEW r \in Reqs, Save(r)
    PROVE  InductiveInvariant'
<1> DEFINE k == task[r]
<1>1. TypeOK /\ GoodTask(r) /\ k # Idle /\ k \in Tasks
  BY PcIsRunning DEF InductiveInvariant, Save
<1>2. /\ k.chk \in Ids /\ k.work \in Checkouts /\ Sound(k.work)
      /\ k.work.status = "Completed" => HasReceipt(k.chk)
  BY <1>1 DEF GoodTask, Tasks
<1>3. ToRow(k.work) \in Rows /\ IntoCheckout(ToRow(k.work)) = k.work
  BY <1>2, RowRoundTrip
<1>4. /\ db' = [db EXCEPT ![k.chk] = ToRow(k.work)]
      /\ task' = [task EXCEPT ![r] = Idle]
      /\ UNCHANGED <<ledger, receipts>>
  BY DEF Save, Finish
<1>5. TypeOK'
  BY <1>1, <1>3, <1>4 DEF TypeOK
<1>6. Monotone
  BY <1>4, QuietLedger
<1>7. \A id \in Ids : GoodRow(id)'
  <2> SUFFICES ASSUME NEW id \in Ids PROVE GoodRow(id)'
    OBVIOUS
  <2>1. CASE id = k.chk
    <3>1. Stored(id)' = k.work
      BY <1>1, <1>2, <1>3, <1>4, <2>1 DEF Stored, TypeOK
    <3>2. k.work.status = "Completed" => HasReceipt(id)'
      BY <1>2, <1>4, <2>1 DEF HasReceipt
    <3> QED
      BY <1>2, <3>1, <3>2 DEF GoodRow
  <2>2. CASE id # k.chk
    <3>1. db'[id] = db[id]
      BY <1>1, <1>4, <2>2 DEF TypeOK
    <3> QED
      BY <1>6, <3>1, RowStays DEF InductiveInvariant
  <2> QED
    BY <2>1, <2>2
<1>8. \A q \in Reqs : GoodTask(q)'
  <2> SUFFICES ASSUME NEW q \in Reqs PROVE GoodTask(q)'
    OBVIOUS
  <2>1. CASE q = r
    BY <1>1, <1>4, <2>1 DEF GoodTask, TypeOK
  <2>2. CASE q # r
    <3>1. task'[q] = task[q]
      BY <1>1, <1>4, <2>2 DEF TypeOK
    <3> QED
      BY <1>1, <1>6, <3>1, TaskStays DEF InductiveInvariant
  <2> QED
    BY <2>1, <2>2
<1>9. \A rc \in receipts' : Backed(rc)'
  BY <1>4, <1>6, ReceiptsStay
<1> QED
  BY <1>5, <1>6, <1>7, <1>8, <1>9 DEF InductiveInvariant

\* Every way a handler ends without writing.
LEMMA EndKeeps ==
    ASSUME InductiveInvariant, NEW r \in Reqs,
           SettleLost(r) \/ SettleRefused(r) \/ PollRejected(r) \/ PollGiveUp(r)
             \/ SaveFails(r) \/ Disconnect(r)
    PROVE  InductiveInvariant'
<1>1. CASE SettleLost(r)
  <2>1. task[r].tx \in Txs
    BY <1>1, PcIsRunning DEF InductiveInvariant, GoodTask, SettleLost
  <2> QED
    BY <1>1, <2>1, HandlerEnds DEF SettleLost
<1>2. CASE ~SettleLost(r)
  <2>1. Finish(r) /\ UNCHANGED <<db, ledger, receipts>>
    BY <1>2 DEF SettleRefused, PollRejected, PollGiveUp, SaveFails, Disconnect
  <2> QED
    BY <2>1, HandlerEnds
<1> QED
  BY <1>1, <1>2

LEMMA RestartKeeps ==
    ASSUME InductiveInvariant, Restart
    PROVE  InductiveInvariant'
<1>1. task' = [r \in Reqs |-> Idle] /\ UNCHANGED <<db, ledger, receipts>>
  BY DEF Restart
<1>2. TypeOK'
  BY <1>1 DEF InductiveInvariant, TypeOK
<1>3. Monotone
  BY <1>1, QuietLedger
<1>4. \A id \in Ids : GoodRow(id)'
  BY <1>1, <1>3, RowStays DEF InductiveInvariant
<1>5. \A r \in Reqs : GoodTask(r)'
  BY <1>1 DEF GoodTask
<1>6. \A rc \in receipts' : Backed(rc)'
  BY <1>1, <1>3, ReceiptsStay
<1> QED
  BY <1>2, <1>3, <1>4, <1>5, <1>6 DEF InductiveInvariant

LEMMA StutterKeeps ==
    ASSUME InductiveInvariant, UNCHANGED vars
    PROVE  InductiveInvariant'
<1>1. UNCHANGED <<db, task, ledger, receipts>>
  BY DEF vars
<1>2. TypeOK'
  BY <1>1 DEF InductiveInvariant, TypeOK
<1>3. Monotone /\ ledger' \in [Txs -> LedgerEntries]
  BY <1>1, QuietLedger DEF InductiveInvariant, TypeOK
<1> QED
  BY <1>1, <1>3, LedgerStep

-----------------------------------------------------------------------------
(* The theorems.                                                           *)

LEMMA InitSatisfies == Init => InductiveInvariant
<1> SUFFICES ASSUME Init PROVE InductiveInvariant
  OBVIOUS
<1>1. 0 \in Totals
  BY CheckoutAssumption DEF Totals
<1>2. TypeOK
  BY <1>1 DEF Init, TypeOK, LedgerEntries, TxStates
<1>3. \A id \in Ids : GoodRow(id)
  BY DEF Init, GoodRow, Exists
<1>4. \A r \in Reqs : GoodTask(r)
  BY DEF Init, GoodTask
<1> QED
  BY <1>2, <1>3, <1>4 DEF Init, InductiveInvariant

LEMMA NextKeeps == InductiveInvariant /\ [Next]_vars => InductiveInvariant'
<1> SUFFICES ASSUME InductiveInvariant, [Next]_vars PROVE InductiveInvariant'
  OBVIOUS
<1>1. ASSUME NEW id \in Ids, NEW cart \in Carts, NEW email \in BOOLEAN,
             CreateCheckout(id, cart, email)
      PROVE  InductiveInvariant'
  BY <1>1, CreateKeeps
<1>2. ASSUME NEW id \in Ids, NEW t \in Txs, PaymentRequirements(id, t)
      PROVE  InductiveInvariant'
  BY <1>2, RequirementsKeeps
<1>3. ASSUME NEW t \in Txs, ChainStep(t)
      PROVE  InductiveInvariant'
  BY <1>3, ChainKeeps
<1>4. ASSUME NEW r \in Reqs, Request(r)
      PROVE  InductiveInvariant'
  BY <1>4, UpdateKeeps, CancelKeeps, CompleteMockKeeps, CompletePayKeeps DEF Request
<1>5. ASSUME NEW r \in Reqs, HandlerStep(r)
      PROVE  InductiveInvariant'
  BY <1>5, SettleAcceptedKeeps, PollVerifiedKeeps, PollAgainKeeps, SaveKeeps, EndKeeps
     DEF HandlerStep, SettleStep, PollStep, SaveStep
<1>6. ASSUME NEW r \in Reqs, Disconnect(r) \/ \E s \in Txs : SettleMisreported(r, s)
      PROVE  InductiveInvariant'
  BY <1>6, EndKeeps, SettleMisreportedKeeps
<1> QED
  BY <1>1, <1>2, <1>3, <1>4, <1>5, <1>6, RestartKeeps, StutterKeeps DEF Next

(***************************************************************************)
(* The inductive invariant holds in every reachable state of the server,   *)
(* however the handlers interleave, fail, disconnect or restart, whichever *)
(* transactions the clients send with which checkout, and whatever the     *)
(* facilitator answers.                                                    *)
(***************************************************************************)
THEOREM InvariantHolds == Spec => []InductiveInvariant
  BY InitSatisfies, NextKeeps, PTL DEF Spec

(***************************************************************************)
(* Rows, tasks, transactions and receipts keep their types; in particular  *)
(* every row that is written fits the table: its status passes the CHECK   *)
(* constraint and its total is an i64.                                     *)
(***************************************************************************)
THEOREM TypeCorrect == Spec => []TypeOK
<1>1. InductiveInvariant => TypeOK
  BY DEF InductiveInvariant
<1> QED
  BY <1>1, InvariantHolds, PTL

(***************************************************************************)
(* The stored total is the total of the stored items, under every overlap  *)
(* of handlers that each write back a whole row.                           *)
(***************************************************************************)
THEOREM TotalsMatch == Spec => []TotalMatchesItems
<1>1. InductiveInvariant => TotalMatchesItems
  BY DEF InductiveInvariant, TotalMatchesItems, GoodRow, Sound
<1> QED
  BY <1>1, InvariantHolds, PTL

(***************************************************************************)
(* An open checkout is ready_for_complete exactly when it has items, an    *)
(* e-mail and a handler, under every overlap of handlers.                  *)
(***************************************************************************)
THEOREM ReadinessHolds == Spec => []ReadinessConsistent
<1>1. InductiveInvariant => ReadinessConsistent
  BY DEF InductiveInvariant, ReadinessConsistent, GoodRow, Sound
<1> QED
  BY <1>1, InvariantHolds, PTL

(***************************************************************************)
(* A completed checkout was completed by the mock handler or on the        *)
(* strength of a finalized transaction that covered its total, for any     *)
(* clients and any facilitator.  Which checkout the transaction was signed *)
(* for is nowhere in the code, and not claimed.                            *)
(***************************************************************************)
THEOREM CompletedMeansPaid == Spec => []CompletedIsPaidFor
<1>1. InductiveInvariant => CompletedIsPaidFor
  BY DEF InductiveInvariant, CompletedIsPaidFor, GoodRow, HasReceipt
<1> QED
  BY <1>1, InvariantHolds, PTL

(***************************************************************************)
(* What a paid request writes as completed carries a total covered by the *)
(* final transaction it was verified against, whatever happened to the row *)
(* since and whichever transaction the facilitator named.                  *)
(***************************************************************************)
THEOREM VerifiedTotalIsWritten == Spec => []CompletionWritesVerifiedTotal
<1>1. InductiveInvariant => CompletionWritesVerifiedTotal
  BY DEF InductiveInvariant, CompletionWritesVerifiedTotal, GoodTask, Idle
<1> QED
  BY <1>1, InvariantHolds, PTL

-----------------------------------------------------------------------------
(* The steps a handler has left.                                           *)

LEMMA StepsLeftIsBounded ==
    ASSUME NEW k \in Tasks
    PROVE  StepsLeft(k) \in 1 .. (MaxAttempts + 2)
<1>1. k.pc \in {"settle", "poll", "save"} /\ k.attempt \in 0 .. (MaxAttempts - 1)
  BY DEF Tasks
<1>2. CASE k.pc = "settle"
  BY <1>2, ServerAssumption DEF StepsLeft
<1>3. CASE k.pc = "poll"
  BY <1>1, <1>3, ServerAssumption DEF StepsLeft
<1>4. CASE k.pc = "save"
  BY <1>4, ServerAssumption DEF StepsLeft
<1> QED
  BY <1>1, <1>2, <1>3, <1>4

LEMMA NothingIsLeftWhenIdle == StepsLeft(Idle) = 0
  BY DEF StepsLeft, Idle

LEMMA EndAdvances ==
    ASSUME TypeOK, NEW r \in Reqs, task[r] # Idle, task'[r] = Idle
    PROVE  StepsLeft(task'[r]) < StepsLeft(task[r])
  BY StepsLeftIsBounded, RunningIsTask, NothingIsLeftWhenIdle, ServerAssumption

LEMMA HandlerStepAdvances ==
    ASSUME TypeOK, NEW r \in Reqs, task[r] # Idle,
           HandlerStep(r) \/ \E s \in Txs : SettleMisreported(r, s)
    PROVE  /\ StepsLeft(task'[r]) < StepsLeft(task[r])
           /\ \A q \in Reqs \ {r} : task'[q] = task[q]
<1> DEFINE k == task[r]
<1>1. k \in Tasks /\ task \in [Reqs -> Tasks \cup {Idle}]
  BY RunningIsTask DEF TypeOK
<1>2. k.attempt \in 0 .. (MaxAttempts - 1) /\ MaxAttempts \in Nat \ {0}
  BY <1>1, ServerAssumption DEF Tasks
<1>3. CASE SettleAccepted(r) \/ \E s \in Txs : SettleMisreported(r, s)
  <2>1. /\ \/ task' = [task EXCEPT ![r].pc = "poll"]
           \/ \E s \in Txs : task' = [task EXCEPT ![r].pc = "poll", ![r].tx = s]
        /\ k.pc = "settle"
    BY <1>3 DEF SettleAccepted, SettleMisreported
  <2>2. /\ task'[r].pc = "poll" /\ task'[r].attempt = k.attempt
        /\ \A q \in Reqs \ {r} : task'[q] = task[q]
    BY <1>1, <2>1 DEF Tasks
  <2> QED
    BY <1>1, <1>2, <2>1, <2>2 DEF StepsLeft
<1>4. CASE PollAgain(r)
  <2>1. task' = [task EXCEPT ![r].attempt = @ + 1] /\ k.pc = "poll"
    BY <1>4 DEF PollAgain
  <2>2. task'[r].pc = "poll" /\ task'[r].attempt = k.attempt + 1
    BY <1>1, <2>1 DEF Tasks
  <2> QED
    BY <1>1, <1>2, <2>1, <2>2 DEF StepsLeft
<1>5. CASE PollVerified(r)
  <2>1. task' = [task EXCEPT ![r] = Saving(k.chk, Complete(k.work), k.tx)] /\ k.pc = "poll"
    BY <1>5 DEF PollVerified
  <2>2. task'[r].pc = "save"
    BY <1>1, <2>1 DEF Saving
  <2> QED
    BY <1>1, <1>2, <2>1, <2>2 DEF StepsLeft
<1>6. CASE Finish(r)
  <2>1. task'[r] = Idle
    BY <1>1, <1>6 DEF Finish
  <2> QED
    BY <1>1, <1>6, <2>1, EndAdvances DEF Finish
<1> QED
  BY <1>3, <1>4, <1>5, <1>6
     DEF HandlerStep, SettleStep, PollStep, SaveStep, SettleLost, SettleRefused,
         PollRejected, PollGiveUp, Save, SaveFails

(***************************************************************************)
(* A handler that has started only comes closer to its end, whatever the   *)
(* others, the chain and the facilitator do: it takes at most              *)
(* MaxAttempts + 2 steps (StepsLeftIsBounded).                             *)
(***************************************************************************)
THEOREM HandlersAdvance == Spec => HandlersOnlyAdvance
<1> DEFINE Advances(r) == task[r] # Idle /\ task'[r] # task[r] =>
                             StepsLeft(task'[r]) < StepsLeft(task[r])
<1>1. ASSUME InductiveInvariant, [Next]_vars, NEW r \in Reqs
      PROVE  Advances(r)
  <2> SUFFICES ASSUME task[r] # Idle, task'[r] # task[r]
               PROVE  StepsLeft(task'[r]) < StepsLeft(task[r])
    OBVIOUS
  <2>1. TypeOK /\ task \in [Reqs -> Tasks \cup {Idle}]
    BY <1>1 DEF InductiveInvariant, TypeOK
  <2>2. CASE HandlerStep(r) \/ \E s \in Txs : SettleMisreported(r, s)
    BY <2>1, <2>2, HandlerStepAdvances
  <2>3. CASE Disconnect(r) \/ Restart
    <3>1. task'[r] = Idle
      BY <2>1, <2>3 DEF Disconnect, Restart, Finish
    <3> QED
      BY <2>1, <3>1, EndAdvances
  <2>4. ASSUME NEW q \in Reqs, q # r,
               HandlerStep(q) \/ \E s \in Txs : SettleMisreported(q, s)
        PROVE  FALSE
    <3>1. task[q] # Idle
      BY <2>4 DEF HandlerStep, SettleStep, PollStep, SaveStep, SettleAccepted, SettleLost,
         SettleMisreported, SettleRefused, PollVerified, PollRejected, PollAgain, PollGiveUp,
         Save, SaveFails, Idle
    <3> QED
      BY <2>1, <2>4, <3>1, HandlerStepAdvances
  <2>5. ASSUME NEW q \in Reqs, Disconnect(q), q # r PROVE FALSE
    BY <2>1, <2>5 DEF Disconnect, Finish
  <2>6. ASSUME NEW q \in Reqs, Request(q) PROVE FALSE
    BY <2>1, <2>6 DEF Request, UpdateCheckout, CancelCheckout, CompleteMock, CompletePay,
       Available
  <2>7. task' # task
    OBVIOUS
  <2> QED
    BY <1>1, <2>2, <2>3, <2>4, <2>5, <2>6, <2>7
       DEF Next, vars, CreateCheckout, PaymentRequirements, ChainStep
<1>2. InductiveInvariant /\ [Next]_vars => [\A r \in Reqs : Advances(r)]_task
  BY <1>1
<1> QED
  BY <1>2, InvariantHolds, PTL DEF Spec, HandlersOnlyAdvance

-----------------------------------------------------------------------------
(***************************************************************************)
(* The refinement.  When requests on one checkout do not overlap, the      *)
(* server implements CheckoutLifecycle.  The lemmas ask it of one step at  *)
(* a time, so that they serve a client whose requests keep apart by        *)
(* themselves as well (PurchaseProofs).                                    *)
(***************************************************************************)

(* The refinement mapping.                                                 *)

LEMMA ShownStays == db' = db => shownStatus' = shownStatus
  BY DEF shownStatus, Exists, Stored

LEMMA PaidIdsStay == receipts' = receipts => paidIds' = paidIds
  BY DEF paidIds

LEMMA PaidIdsGrow == receipts \subseteq receipts' => paidIds \subseteq paidIds'
  BY DEF paidIds

\* A written row shows the status of the copy that was written.
LEMMA ShownWritten ==
    ASSUME TypeOK, NEW id \in Ids, NEW c \in Checkouts,
           db' = [db EXCEPT ![id] = ToRow(c)]
    PROVE  /\ shownStatus' = [shownStatus EXCEPT ![id] = c.status]
           /\ Exists(id)'
           /\ Stored(id)' = c
           /\ \A i \in Ids \ {id} : db'[i] = db[i]
<1>1. ToRow(c) \in Rows /\ IntoCheckout(ToRow(c)) = c
  BY RowRoundTrip
<1>2. db'[id] = ToRow(c) /\ \A i \in Ids \ {id} : db'[i] = db[i]
  BY DEF TypeOK
<1>3. Exists(id)' /\ Stored(id)' = c
  BY <1>1, <1>2, ServerAssumption DEF Exists, Stored
<1>4. \A i \in Ids : shownStatus'[i] = [shownStatus EXCEPT ![id] = c.status][i]
  BY <1>2, <1>3 DEF shownStatus, Exists, Stored
<1> QED
  BY <1>2, <1>3, <1>4 DEF shownStatus

LEMMA StepStays ==
    ASSUME NEW id, NEW old, NEW new, Step(id, old, new), receipts \subseteq receipts'
    PROVE  Step(id, old, new)'
  BY PaidIdsGrow DEF Step, Lifecycle!Open

-----------------------------------------------------------------------------
(* OwnedCopies is an invariant.                                            *)

\* What OwnedCopies says of one slot.
Owned(r) ==
    LET k == task[r]
    IN  k # Idle =>
          /\ Exists(k.chk)
          /\ k.pc \in {"settle", "poll"} => k.work = Stored(k.chk)
          /\ k.pc = "save" => Step(k.chk, Stored(k.chk).status, k.work.status)

Disjoint ==
    \A q, r \in Reqs :
        task[q] # Idle /\ task[r] # Idle /\ task[q].chk = task[r].chk => q = r

\* This step brings no two handlers to one checkout: nobody asks for a checkout
\* another handler has, or as it turns out nobody did.
StaysApart == Exclusive \/ Disjoint'

RowsAssigned == \A id \in Ids : Exists(id) => Stored(id).status \in Assigned

LEMMA OwnedParts ==
    OwnedCopies <=> Disjoint /\ RowsAssigned /\ \A r \in Reqs : Owned(r)
  BY DEF OwnedCopies, Disjoint, RowsAssigned, Owned

LEMMA OwnedStays ==
    ASSUME NEW r \in Reqs, Owned(r), task'[r] = task[r],
           task[r] # Idle => db'[task[r].chk] = db[task[r].chk],
           receipts \subseteq receipts'
    PROVE  Owned(r)'
  BY StepStays DEF Owned, Exists, Stored

\* A step that writes no row and leaves slot r with work on checkout id,
\* which no other slot works on, or with none.
LEMMA SlotOwned ==
    ASSUME TypeOK, OwnedCopies, NEW r \in Reqs, Owned(r)',
           UNCHANGED db, receipts \subseteq receipts',
           \A q \in Reqs \ {r} : task'[q] = task[q],
           \A q \in Reqs \ {r} :
              task[q] # Idle /\ task'[r] # Idle => task[q].chk # task'[r].chk
    PROVE  OwnedCopies'
<1>1. \A q \in Reqs : Owned(q)'
  BY OwnedParts, OwnedStays
<1>2. RowsAssigned'
  BY OwnedParts DEF RowsAssigned, Exists, Stored
<1>3. Disjoint'
  BY OwnedParts DEF Disjoint
<1>4. Disjoint' /\ RowsAssigned' /\ (\A q \in Reqs : Owned(q))' => OwnedCopies'
  BY OwnedParts DEF OwnedCopies, Disjoint, RowsAssigned, Owned
<1> QED
  BY <1>1, <1>2, <1>3, <1>4

\* A lifecycle step, or a completion whose receipt this very action adds.
StepOrReceipt(id, old, new) ==
    \/ Step(id, old, new)
    \/ old = "ReadyForComplete" /\ new = "Completed" /\ id \in paidIds'

LEMMA CompletionIsStep ==
    ASSUME NEW id \in Ids, NEW c \in Checkouts, NEW tx \in Txs \cup {None},
           receipts' = receipts \cup ReceiptFor(id, c, tx)
    PROVE  StepOrReceipt(id, c.status, Complete(c).status)
<1>1. CASE CanComplete(c)
  <2>1. \E rc \in receipts' : rc.chk = id
    BY <1>1, ReceiptIsEarned
  <2>2. id \in paidIds'
    BY <2>1 DEF paidIds
  <2>3. c.status = "ReadyForComplete" /\ Complete(c).status = "Completed"
    BY <1>1 DEF CanComplete, Complete, Checkouts
  <2> QED
    BY <2>2, <2>3 DEF StepOrReceipt
<1>2. CASE ~CanComplete(c)
  BY <1>2 DEF Complete, StepOrReceipt, Step
<1> QED
  BY <1>1, <1>2

\* Slot r takes up work on a checkout no other slot has.
LEMMA RequestOwned ==
    ASSUME TypeOK, OwnedCopies, NEW r \in Reqs, NEW id \in Ids, NEW k \in Tasks,
           \A q \in Reqs \ {r} : task[q] # Idle => task[q].chk # id,
           Exists(id), k.chk = id,
           task' = [task EXCEPT ![r] = k], UNCHANGED db, receipts \subseteq receipts',
           k.pc \in {"settle", "poll"} => k.work = Stored(id),
           k.pc = "save" => StepOrReceipt(id, Stored(id).status, k.work.status)
    PROVE  OwnedCopies'
<1>1. task'[r] = k /\ \A q \in Reqs \ {r} : task'[q] = task[q]
  BY DEF TypeOK
<1>2. Exists(id)' /\ Stored(id)' = Stored(id)
  BY DEF Exists, Stored
<1> DEFINE old == Stored(id).status
           new == k.work.status
<1>3. k.pc = "save" =>
        \/ new = old
        \/ old \in Lifecycle!Open /\ new \in Lifecycle!Open
        \/ old = "ReadyForComplete" /\ new = "Completed" /\ id \in paidIds'
        \/ new = "Canceled"
  BY PaidIdsGrow DEF StepOrReceipt, Step
<1>4. Owned(r)'
  <2>1. k.pc = "save" => Step(k.chk, Stored(k.chk).status, task[r].work.status)'
    BY <1>1, <1>2, <1>3 DEF Step, Lifecycle!Open
  <2> QED
    BY <1>1, <1>2, <2>1 DEF Owned
<1>5. \A q \in Reqs \ {r} : task[q] # Idle => task[q].chk # task'[r].chk
  BY <1>1
<1> QED
  BY <1>1, <1>4, <1>5, SlotOwned

LEMMA RequestKeepsOwned ==
    ASSUME StaysApart, InductiveInvariant, OwnedCopies, NEW r \in Reqs, Request(r)
    PROVE  OwnedCopies'
<1>1. TypeOK
  BY DEF InductiveInvariant
<1>2. ASSUME NEW id \in Ids, Available(r, id)
      PROVE  /\ Exists(id)
             /\ Stored(id) \in Checkouts /\ Sound(Stored(id))
             /\ Stored(id).status \in Assigned
  BY <1>1, <1>2, StoredIsCheckout DEF Available, InductiveInvariant, GoodRow, OwnedCopies
<1>3. ASSUME NEW id \in Ids, Available(r, id),
             NEW k \in Tasks, k.chk = id, task' = [task EXCEPT ![r] = k]
      PROVE  \A q \in Reqs \ {r} : task[q] # Idle => task[q].chk # id
  <2>1. CASE Exclusive
    BY <1>3, <2>1 DEF Available
  <2>2. CASE Disjoint'
    <3>1. task'[r] = k /\ k # Idle /\ \A q \in Reqs \ {r} : task'[q] = task[q]
      BY <1>1, <1>3, ServerAssumption DEF TypeOK, Idle
    <3> QED
      BY <1>3, <2>2, <3>1 DEF Disjoint
  <2> QED
    BY <2>1, <2>2 DEF StaysApart
<1>4. ASSUME NEW id \in Ids, NEW work \in Checkouts, NEW tx \in Txs \cup {None},
             Available(r, id), task' = [task EXCEPT ![r] = Saving(id, work, tx)],
             UNCHANGED db, receipts \subseteq receipts',
             StepOrReceipt(id, Stored(id).status, work.status)
      PROVE  OwnedCopies'
  <2>1. /\ Saving(id, work, tx) \in Tasks
        /\ Saving(id, work, tx).chk = id /\ Saving(id, work, tx).pc = "save"
        /\ Saving(id, work, tx).work = work
    BY SavingIsTask DEF Saving
  <2> QED
    BY <1>1, <1>2, <1>4, <1>3, <2>1, RequestOwned
<1>5. ASSUME NEW id \in Ids, NEW update \in Updates, UpdateCheckout(r, id, update)
      PROVE  OwnedCopies'
  <2> DEFINE work == ApplyUpdate(Stored(id), update)
  <2>1. Available(r, id)
    BY <1>5 DEF UpdateCheckout
  <2>2. work \in Checkouts
    BY <1>2, <2>1, ApplyUpdateIsSound, ServerAssumption
  <2>3. StepOrReceipt(id, Stored(id).status, work.status)
    <3>1. work.status = Stored(id).status
            \/ /\ Stored(id).status \in {"Incomplete", "ReadyForComplete"}
               /\ work.status \in {"Incomplete", "ReadyForComplete"}
      BY <1>2, <2>1 DEF ApplyUpdate, RefreshStatus, IsTerminal, Assigned, Checkouts
    <3> QED
      BY <3>1 DEF StepOrReceipt, Step, Lifecycle!Open
  <2> HIDE DEF work
  <2> QED
    BY <1>4, <1>5, <2>1, <2>2, <2>3 DEF UpdateCheckout, work
<1>6. ASSUME NEW id \in Ids, CancelCheckout(r, id)
      PROVE  OwnedCopies'
  <2>1. Available(r, id)
    BY <1>6 DEF CancelCheckout
  <2>2. Cancel(Stored(id)) \in Checkouts /\ Cancel(Stored(id)).status = "Canceled"
    BY <1>2, <2>1, CancelIsSound
  <2>3. StepOrReceipt(id, Stored(id).status, Cancel(Stored(id)).status)
    BY <2>2 DEF StepOrReceipt, Step
  <2> QED
    BY <1>4, <1>6, <2>1, <2>2, <2>3 DEF CancelCheckout
<1>7. ASSUME NEW id \in Ids, CompleteMock(r, id)
      PROVE  OwnedCopies'
  <2>1. Available(r, id)
    BY <1>7 DEF CompleteMock
  <2>2. Complete(Stored(id)) \in Checkouts
    BY <1>2, <2>1, CompleteIsSound
  <2>3. StepOrReceipt(id, Stored(id).status, Complete(Stored(id)).status)
    BY <1>2, <1>7, <2>1, CompletionIsStep DEF CompleteMock
  <2> QED
    BY <1>4, <1>7, <2>1, <2>2, <2>3 DEF CompleteMock
<1>8. ASSUME NEW id \in Ids, NEW t \in Txs, CompletePay(r, id, t)
      PROVE  OwnedCopies'
  <2> DEFINE k == [pc |-> "settle", chk |-> id, work |-> Stored(id), tx |-> t, attempt |-> 0]
  <2>1. Available(r, id)
    BY <1>8 DEF CompletePay
  <2>2. k \in Tasks
    BY <1>2, <2>1, ServerAssumption DEF Tasks
  <2>3. k.chk = id /\ k.work = Stored(id) /\ k.pc = "settle"
    OBVIOUS
  <2>4. task' = [task EXCEPT ![r] = k] /\ UNCHANGED <<db, receipts>>
    BY <1>8 DEF CompletePay
  <2> HIDE DEF k
  <2> QED
    BY <1>1, <1>2, <1>3, <2>1, <2>2, <2>3, <2>4, RequestOwned
<1> QED
  BY <1>5, <1>6, <1>7, <1>8 DEF Request

\* Slot r goes on with the same copy in state poll.
LEMMA PollOwned ==
    ASSUME TypeOK, OwnedCopies, NEW r \in Reqs,
           \/ SettleAccepted(r) \/ PollAgain(r)
           \/ \E s \in Txs : SettleMisreported(r, s)
    PROVE  OwnedCopies'
<1> DEFINE k == task[r]
<1>1. k # Idle /\ k \in Tasks /\ k.pc \in {"settle", "poll"}
  BY PcIsRunning DEF SettleAccepted, SettleMisreported, PollAgain
<1>2. /\ task'[r].pc = "poll" /\ task'[r].chk = k.chk /\ task'[r].work = k.work
      /\ \A q \in Reqs \ {r} : task'[q] = task[q]
      /\ UNCHANGED <<db, receipts>>
  BY <1>1 DEF TypeOK, SettleAccepted, SettleMisreported, PollAgain, Tasks
<1>3. Owned(r) /\ Exists(k.chk) /\ k.work = Stored(k.chk)
  BY <1>1, OwnedParts DEF Owned
<1>4. Owned(r)'
  BY <1>2, <1>3 DEF Owned, Exists, Stored
<1>5. \A q \in Reqs \ {r} : task[q] # Idle => task[q].chk # task'[r].chk
  BY <1>1, <1>2 DEF OwnedCopies
<1> QED
  BY <1>2, <1>4, <1>5, SlotOwned

LEMMA PollVerifiedOwned ==
    ASSUME InductiveInvariant, OwnedCopies, NEW r \in Reqs, PollVerified(r)
    PROVE  OwnedCopies'
<1> DEFINE k    == task[r]
           next == Saving(k.chk, Complete(k.work), k.tx)
<1>1. TypeOK /\ GoodTask(r) /\ k # Idle /\ k \in Tasks /\ k.pc = "poll"
  BY PcIsRunning DEF InductiveInvariant, PollVerified
<1>2. /\ k.chk \in Ids /\ k.work \in Checkouts /\ k.tx \in Txs
      /\ Exists(k.chk) /\ k.work = Stored(k.chk)
  BY <1>1 DEF GoodTask, Tasks, OwnedCopies
<1>3. next \in Tasks
  BY <1>2, SavingIsTask, CompleteIsSound, <1>1 DEF GoodTask
<1>4. /\ next.chk = k.chk /\ next.pc = "save" /\ next.work = Complete(k.work)
  BY DEF Saving
<1>5. StepOrReceipt(k.chk, k.work.status, Complete(k.work).status)
  BY <1>2, CompletionIsStep DEF PollVerified
<1>6. /\ task' = [task EXCEPT ![r] = next]
      /\ UNCHANGED db /\ receipts \subseteq receipts'
  BY DEF PollVerified
<1>7. \A q \in Reqs \ {r} : task[q] # Idle => task[q].chk # k.chk
  BY <1>1 DEF OwnedCopies
<1> HIDE DEF next, k
<1> QED
  BY <1>1, <1>2, <1>3, <1>4, <1>5, <1>6, <1>7, RequestOwned

LEMMA EndOwned ==
    ASSUME TypeOK, OwnedCopies, NEW r \in Reqs, Finish(r), UNCHANGED <<db, receipts>>
    PROVE  OwnedCopies'
<1>1. task'[r] = Idle /\ \A q \in Reqs \ {r} : task'[q] = task[q]
  BY DEF TypeOK, Finish
<1>2. Owned(r)'
  BY <1>1 DEF Owned
<1> QED
  BY <1>1, <1>2, SlotOwned

LEMMA SaveOwned ==
    ASSUME InductiveInvariant, OwnedCopies, NEW r \in Reqs, Save(r)
    PROVE  OwnedCopies'
<1> DEFINE k == task[r]
<1>1. TypeOK /\ k # Idle /\ k \in Tasks /\ k.pc = "save"
  BY PcIsRunning DEF InductiveInvariant, Save
<1>2. /\ k.chk \in Ids /\ k.work \in Checkouts
      /\ Step(k.chk, Stored(k.chk).status, k.work.status)
      /\ Stored(k.chk).status \in Assigned
  BY <1>1 DEF Tasks, OwnedCopies
<1> PICK chk \in Ids, work \in Checkouts : chk = k.chk /\ work = k.work
  BY <1>2
<1>3. /\ Stored(chk)' = work
      /\ \A id \in Ids \ {chk} : db'[id] = db[id]
  BY <1>1, ShownWritten DEF Save
<1>4. /\ task'[r] = Idle /\ \A q \in Reqs \ {r} : task'[q] = task[q]
      /\ receipts' = receipts
  BY <1>1 DEF Save, Finish, TypeOK
<1>5. work.status \in Assigned
  BY <1>2 DEF Step, Lifecycle!Open, Assigned
<1>6. RowsAssigned'
  <2> SUFFICES ASSUME NEW id \in Ids, Exists(id)' PROVE (Stored(id).status \in Assigned)'
    BY DEF RowsAssigned
  <2>1. CASE id = chk
    BY <1>3, <1>5, <2>1 DEF Assigned
  <2>2. CASE id # chk
    BY <1>3, <2>2 DEF OwnedCopies, Exists, Stored, Assigned
  <2> QED
    BY <2>1, <2>2
<1>7. ASSUME NEW q \in Reqs PROVE Owned(q)'
  <2>1. CASE q = r
    BY <1>4, <2>1 DEF Owned
  <2>2. CASE q # r
    <3>1. Owned(q) /\ task'[q] = task[q]
      BY <1>4, <2>2, OwnedParts
    <3>2. ASSUME task[q] # Idle PROVE db'[task[q].chk] = db[task[q].chk]
      <4>1. task[q].chk \in Ids
        BY <1>1, <3>2, RunningIsTask DEF Tasks
      <4>2. task[q].chk # k.chk
        BY <1>1, <2>2, <3>2 DEF OwnedCopies
      <4> QED
        BY <1>3, <4>1, <4>2
    <3> QED
      BY <1>4, <3>1, <3>2, OwnedStays
  <2> QED
    BY <2>1, <2>2
<1>8. Disjoint'
  BY <1>4, OwnedParts DEF Disjoint
<1> QED
  BY <1>6, <1>7, <1>8 DEF OwnedCopies, Disjoint, RowsAssigned, Owned

LEMMA CreateOwned ==
    ASSUME InductiveInvariant, OwnedCopies,
           NEW id \in Ids, NEW cart \in Carts, NEW email \in BOOLEAN,
           CreateCheckout(id, cart, email)
    PROVE  OwnedCopies'
<1>1. TypeOK
  BY DEF InductiveInvariant
<1>2. New(cart, email) \in Checkouts /\ New(cart, email).status = "Incomplete"
  BY NewIsSound DEF New
<1>3. /\ Stored(id)' = New(cart, email)
      /\ \A i \in Ids \ {id} : db'[i] = db[i]
  BY <1>1, <1>2, ShownWritten DEF CreateCheckout
<1>4. UNCHANGED <<task, receipts>> /\ ~Exists(id)
  BY DEF CreateCheckout
<1>5. RowsAssigned'
  <2> SUFFICES ASSUME NEW i \in Ids, Exists(i)' PROVE (Stored(i).status \in Assigned)'
    BY DEF RowsAssigned
  <2>1. CASE i = id
    BY <1>2, <1>3, <2>1 DEF Assigned
  <2>2. CASE i # id
    BY <1>3, <2>2 DEF OwnedCopies, Exists, Stored, Assigned
  <2> QED
    BY <2>1, <2>2
<1>6. ASSUME NEW q \in Reqs PROVE Owned(q)'
  <2>1. ASSUME task[q] # Idle PROVE db'[task[q].chk] = db[task[q].chk]
    <3>1. task[q].chk \in Ids
      BY <1>1, <2>1, RunningIsTask DEF Tasks
    <3>2. task[q].chk # id
      BY <1>4, <2>1 DEF OwnedCopies
    <3> QED
      BY <1>3, <3>1, <3>2
  <2> QED
    BY <1>4, <2>1, OwnedParts, OwnedStays
<1>7. Disjoint'
  BY <1>4, OwnedParts DEF Disjoint
<1> QED
  BY <1>5, <1>6, <1>7 DEF OwnedCopies, Disjoint, RowsAssigned, Owned

\* A step that changes no row, no task and no receipt.
LEMMA QuietOwned ==
    ASSUME OwnedCopies, UNCHANGED <<db, task, receipts>>
    PROVE  OwnedCopies'
<1>1. \A r \in Reqs : Owned(r)'
  BY OwnedParts, OwnedStays
<1>2. RowsAssigned' /\ Disjoint'
  BY OwnedParts DEF RowsAssigned, Disjoint, Exists, Stored
<1> QED
  BY <1>1, <1>2 DEF OwnedCopies, Disjoint, RowsAssigned, Owned

LEMMA RestartOwned ==
    ASSUME OwnedCopies, Restart
    PROVE  OwnedCopies'
<1>1. task' = [r \in Reqs |-> Idle] /\ UNCHANGED db
  BY DEF Restart
<1>2. \A r \in Reqs : Owned(r)'
  BY <1>1 DEF Owned
<1>3. RowsAssigned' /\ Disjoint'
  BY <1>1, OwnedParts DEF RowsAssigned, Disjoint, Exists, Stored
<1> QED
  BY <1>2, <1>3 DEF OwnedCopies, Disjoint, RowsAssigned, Owned

LEMMA OwnedInit == Init => OwnedCopies
  BY DEF Init, OwnedCopies, Exists

\* The ways a handler step leaves the table as it is and hands in nothing.
LEMMA EndShape ==
    ASSUME NEW r \in Reqs,
           SettleLost(r) \/ SettleRefused(r) \/ PollRejected(r) \/ PollGiveUp(r)
             \/ SaveFails(r) \/ Disconnect(r)
    PROVE  Finish(r) /\ UNCHANGED <<db, receipts>>
  BY DEF SettleLost, SettleRefused, PollRejected, PollGiveUp, SaveFails, Disconnect

LEMMA OwnedNext ==
    ASSUME StaysApart, InductiveInvariant, OwnedCopies, [Next]_vars
    PROVE  OwnedCopies'
<1>1. TypeOK
  BY DEF InductiveInvariant
<1>2. ASSUME NEW id \in Ids, NEW cart \in Carts, NEW email \in BOOLEAN,
             CreateCheckout(id, cart, email)
      PROVE  OwnedCopies'
  BY <1>2, CreateOwned
<1>3. ASSUME \/ \E id \in Ids, t \in Txs : PaymentRequirements(id, t)
             \/ \E t \in Txs : ChainStep(t)
             \/ UNCHANGED vars
      PROVE  OwnedCopies'
  <2>1. UNCHANGED <<db, task, receipts>>
    BY <1>3 DEF PaymentRequirements, ChainStep, vars
  <2> QED
    BY <2>1, QuietOwned
<1>4. ASSUME NEW r \in Reqs, Request(r)
      PROVE  OwnedCopies'
  BY <1>4, RequestKeepsOwned
<1>5. ASSUME NEW r \in Reqs,
             HandlerStep(r) \/ Disconnect(r) \/ \E s \in Txs : SettleMisreported(r, s)
      PROVE  OwnedCopies'
  BY <1>1, <1>5, PollOwned, PollVerifiedOwned, EndShape, EndOwned, SaveOwned
     DEF HandlerStep, SettleStep, PollStep, SaveStep
<1> QED
  BY <1>2, <1>3, <1>4, <1>5, RestartOwned DEF Next

-----------------------------------------------------------------------------
(* Every step of the server is a lifecycle step or none.                   *)

LEMMA ShownStatusIs ==
    ASSUME NEW id \in Ids
    PROVE  shownStatus[id] = IF Exists(id) THEN Stored(id).status ELSE "none"
  BY DEF shownStatus

LEMMA QuietRefines ==
    ASSUME UNCHANGED <<db, receipts>>
    PROVE  UNCHANGED <<shownStatus, paidIds>>
  BY ShownStays, PaidIdsStay

LEMMA CreateRefines ==
    ASSUME InductiveInvariant, NEW id \in Ids, NEW cart \in Carts, NEW email \in BOOLEAN,
           CreateCheckout(id, cart, email)
    PROVE  Lifecycle!Create(id)
<1>1. New(cart, email) \in Checkouts /\ New(cart, email).status = "Incomplete"
  BY NewIsSound DEF New
<1>2. shownStatus' = [shownStatus EXCEPT ![id] = "Incomplete"]
  BY <1>1, ShownWritten DEF InductiveInvariant, CreateCheckout
<1>3. shownStatus[id] = "none" /\ paidIds' = paidIds
  BY ShownStatusIs, PaidIdsStay DEF CreateCheckout
<1> QED
  BY <1>2, <1>3 DEF Lifecycle!Create

\* Earning a receipt for the row that is stored is paying for it.
LEMMA ReceiptRefines ==
    ASSUME NEW id \in Ids, NEW tx, Exists(id), db' = db,
           receipts' = receipts \cup ReceiptFor(id, Stored(id), tx)
    PROVE  Lifecycle!Pay(id) \/ UNCHANGED <<shownStatus, paidIds>>
<1>1. CASE CanComplete(Stored(id))
  <2> DEFINE rc == [chk |-> id, by |-> tx, total |-> Stored(id).total]
  <2>0. receipts' = receipts \cup {rc} /\ rc.chk = id
    BY <1>1 DEF ReceiptFor
  <2> HIDE DEF rc
  <2>1. paidIds' = paidIds \cup {id}
    BY <2>0 DEF paidIds
  <2>2. shownStatus' = shownStatus /\ shownStatus[id] = "ReadyForComplete"
    BY <1>1, ShownStays, ShownStatusIs DEF CanComplete
  <2> QED
    BY <2>1, <2>2 DEF Lifecycle!Pay
<1>2. CASE ~CanComplete(Stored(id))
  BY <1>2, QuietRefines DEF ReceiptFor
<1> QED
  BY <1>1, <1>2

LEMMA SaveRefines ==
    ASSUME InductiveInvariant, OwnedCopies, NEW r \in Reqs, Save(r)
    PROVE  \/ \E id \in Ids : \/ Lifecycle!Edit(id)
                              \/ Lifecycle!Complete(id)
                              \/ Lifecycle!Cancel(id)
           \/ UNCHANGED <<shownStatus, paidIds>>
<1>1. /\ TypeOK /\ task[r] # Idle /\ task[r] \in Tasks /\ task[r].pc = "save"
  BY PcIsRunning DEF InductiveInvariant, Save
<1>2. PICK id \in Ids, work \in Checkouts : id = task[r].chk /\ work = task[r].work
  BY <1>1 DEF Tasks
<1> DEFINE old == shownStatus[id]
           new == work.status
<1>3. Exists(id) /\ Step(id, Stored(id).status, new)
  BY <1>1, <1>2 DEF OwnedCopies
<1>4. old = Stored(id).status /\ Stored(id).status \in Assigned
  BY <1>3, ShownStatusIs DEF OwnedCopies
<1>5. shownStatus' = [shownStatus EXCEPT ![id] = new] /\ paidIds' = paidIds
  BY <1>1, <1>2, ShownWritten, PaidIdsStay DEF Save
<1>6. CASE new = old
  <2>1. shownStatus' = shownStatus
    BY <1>5, <1>6 DEF shownStatus
  <2> QED
    BY <1>5, <2>1
<1>7. CASE old \in Lifecycle!Open /\ new \in Lifecycle!Open
  BY <1>5, <1>7 DEF Lifecycle!Edit
<1>8. CASE old = "ReadyForComplete" /\ new = "Completed" /\ id \in paidIds
  BY <1>5, <1>8 DEF Lifecycle!Complete
<1>9. CASE new = "Canceled"
  <2>1. old # "none"
    BY <1>4 DEF Assigned
  <2> QED
    BY <1>5, <1>9, <2>1 DEF Lifecycle!Cancel
<1> QED
  BY <1>3, <1>4, <1>6, <1>7, <1>8, <1>9 DEF Step

LEMMA StepRefines ==
    ASSUME InductiveInvariant, OwnedCopies, [Next]_vars
    PROVE  [Lifecycle!LifecycleNext]_<<shownStatus, paidIds>>
<1> DEFINE Goal == [Lifecycle!LifecycleNext]_<<shownStatus, paidIds>>
<1>1. ASSUME NEW id \in Ids, NEW cart \in Carts, NEW email \in BOOLEAN,
             CreateCheckout(id, cart, email)
      PROVE  Goal
  BY <1>1, CreateRefines DEF Lifecycle!LifecycleNext
<1>2. ASSUME UNCHANGED <<db, receipts>>
      PROVE  Goal
  BY <1>2, QuietRefines
<1>3. ASSUME NEW r \in Reqs, NEW id \in Ids, CompleteMock(r, id)
      PROVE  Goal
  <2>1. Lifecycle!Pay(id) \/ UNCHANGED <<shownStatus, paidIds>>
    BY <1>3, ReceiptRefines DEF CompleteMock, Available
  <2> QED
    BY <2>1 DEF Lifecycle!LifecycleNext
<1>4. ASSUME NEW r \in Reqs, PollVerified(r)
      PROVE  Goal
  <2>1. task[r] # Idle /\ task[r] \in Tasks /\ task[r].pc = "poll"
    BY <1>4, PcIsRunning DEF InductiveInvariant, PollVerified
  <2>2. task[r].chk \in Ids /\ Exists(task[r].chk) /\ task[r].work = Stored(task[r].chk)
    BY <2>1 DEF Tasks, OwnedCopies
  <2>3. PICK id \in Ids : id = task[r].chk
    BY <2>2
  <2>4. Lifecycle!Pay(id) \/ UNCHANGED <<shownStatus, paidIds>>
    BY <1>4, <2>2, <2>3, ReceiptRefines DEF PollVerified
  <2> QED
    BY <2>4 DEF Lifecycle!LifecycleNext
<1>5. ASSUME NEW r \in Reqs, Save(r)
      PROVE  Goal
  BY <1>5, SaveRefines DEF Lifecycle!LifecycleNext
<1>6. ASSUME NEW r \in Reqs, Request(r)
      PROVE  Goal
  BY <1>2, <1>3, <1>6 DEF Request, UpdateCheckout, CancelCheckout, CompletePay
<1>7. ASSUME NEW r \in Reqs,
             HandlerStep(r) \/ Disconnect(r) \/ \E s \in Txs : SettleMisreported(r, s)
      PROVE  Goal
  <2>1. CASE SettleAccepted(r) \/ PollAgain(r) \/ \E s \in Txs : SettleMisreported(r, s)
    BY <1>2, <2>1 DEF SettleAccepted, SettleMisreported, PollAgain
  <2> QED
    BY <1>2, <1>4, <1>5, <1>7, <2>1, EndShape
       DEF HandlerStep, SettleStep, PollStep, SaveStep
<1>8. ASSUME \/ \E id \in Ids, t \in Txs : PaymentRequirements(id, t)
             \/ \E t \in Txs : ChainStep(t)
             \/ Restart
             \/ UNCHANGED vars
      PROVE  Goal
  BY <1>2, <1>8 DEF PaymentRequirements, ChainStep, Restart, vars
<1> HIDE DEF Goal
<1>9. Goal
  BY <1>1, <1>6, <1>7, <1>8 DEF Next
<1> QED
  BY <1>9 DEF Goal

LEMMA InitRefines == Init => Lifecycle!LifecycleInit
  BY DEF Init, Lifecycle!LifecycleInit, shownStatus, paidIds, Exists

(***************************************************************************)
(* One handler at a time works on a checkout, on the row itself, and the   *)
(* copy it will save is one lifecycle step away.                           *)
(***************************************************************************)
THEOREM CopiesAreOwned ==
    ASSUME Exclusive
    PROVE  Spec => []OwnedCopies
<1>1. Init => OwnedCopies
  BY OwnedInit
<1>2. InductiveInvariant /\ OwnedCopies /\ [Next]_vars => OwnedCopies'
  BY OwnedNext DEF StaysApart
<1> QED
  BY <1>1, <1>2, InvariantHolds, PTL DEF Spec

(***************************************************************************)
(* When the requests on a checkout do not overlap, the server implements   *)
(* the lifecycle: it is created once, edited while open, completed only    *)
(* when ready and with a receipt, and canceled for good.                   *)
(***************************************************************************)
THEOREM ServerImplementsLifecycle ==
    ASSUME Exclusive
    PROVE  Spec => ImplementsLifecycle
<1>1. Init => Lifecycle!LifecycleInit
  BY InitRefines
<1>2. InductiveInvariant /\ OwnedCopies /\ [Next]_vars
        => [Lifecycle!LifecycleNext]_<<shownStatus, paidIds>>
  BY StepRefines
<1> QED
  BY <1>1, <1>2, InvariantHolds, CopiesAreOwned, PTL
     DEF Spec, ImplementsLifecycle, Lifecycle!LifecycleSpec

LEMMA ClosedStep ==
    ASSUME InductiveInvariant, OwnedCopies, [Next]_vars,
           NEW id \in Ids, Exists(id), IsTerminal(Stored(id).status)
    PROVE  IsTerminal(Stored(id)'.status)
<1>1. TypeOK
  BY DEF InductiveInvariant
<1>2. CASE db'[id] = db[id]
  BY <1>2 DEF Stored
<1>3. ASSUME NEW i \in Ids, NEW cart \in Carts, NEW email \in BOOLEAN,
             CreateCheckout(i, cart, email)
      PROVE  db'[id] = db[id]
  BY <1>1, <1>3 DEF CreateCheckout, TypeOK
<1>4. ASSUME NEW r \in Reqs, Save(r)
      PROVE  IsTerminal(Stored(id)'.status)
  <2>1. task[r] # Idle /\ task[r] \in Tasks /\ task[r].pc = "save"
    BY <1>1, <1>4, PcIsRunning DEF Save
  <2>2. PICK chk \in Ids, work \in Checkouts : chk = task[r].chk /\ work = task[r].work
    BY <2>1 DEF Tasks
  <2>3. Step(chk, Stored(chk).status, work.status)
    BY <2>1, <2>2 DEF OwnedCopies
  <2>4. Stored(chk)' = work /\ \A i \in Ids \ {chk} : db'[i] = db[i]
    BY <1>1, <1>4, <2>2, ShownWritten DEF Save
  <2>5. CASE id = chk
    BY <2>3, <2>4, <2>5 DEF Step, IsTerminal, Lifecycle!Open
  <2> QED
    BY <1>2, <2>4, <2>5
<1>5. ASSUME UNCHANGED db
      PROVE  db'[id] = db[id]
  BY <1>5
<1>6. ASSUME NEW r \in Reqs, ~Save(r),
             HandlerStep(r) \/ Disconnect(r) \/ \E s \in Txs : SettleMisreported(r, s)
      PROVE  UNCHANGED db
  BY <1>6, EndShape DEF HandlerStep, SettleStep, PollStep, SaveStep, SettleAccepted,
     SettleMisreported, PollVerified, PollAgain
<1>7. ASSUME NEW r \in Reqs, Request(r)
      PROVE  UNCHANGED db
  BY <1>7 DEF Request, UpdateCheckout, CancelCheckout, CompleteMock, CompletePay
<1>8. ASSUME \/ \E i \in Ids, t \in Txs : PaymentRequirements(i, t)
             \/ \E t \in Txs : ChainStep(t)
             \/ Restart
             \/ UNCHANGED vars
      PROVE  UNCHANGED db
  BY <1>8 DEF PaymentRequirements, ChainStep, Restart, vars
<1> QED
  BY <1>2, <1>3, <1>4, <1>5, <1>6, <1>7, <1>8 DEF Next

(***************************************************************************)
(* When requests do not overlap, a completed or canceled checkout never    *)
(* opens again.  With overlapping requests a late save reopens it.         *)
(***************************************************************************)
THEOREM ClosedForGood ==
    ASSUME Exclusive
    PROVE  Spec => ClosedStaysClosed
<1>1. InductiveInvariant /\ OwnedCopies /\ [Next]_vars
        => [\A id \in Ids : Exists(id) /\ IsTerminal(Stored(id).status)
               => IsTerminal(Stored(id)'.status)]_db
  BY ClosedStep
<1> QED
  BY <1>1, InvariantHolds, CopiesAreOwned, PTL DEF Spec, ClosedStaysClosed

=============================================================================
