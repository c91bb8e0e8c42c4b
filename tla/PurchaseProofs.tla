--------------------------- MODULE PurchaseProofs ---------------------------
(***************************************************************************)
(* The buyer script against the server, for any number of runs, handlers   *)
(* and transactions.  Every step of the purchase is one of the server or   *)
(* leaves it alone, so the server's invariant holds; on it rests the       *)
(* purchase's own, from which follows what the script may believe.         *)
(***************************************************************************)
EXTENDS Purchase, MerchantServerProofs

AllInvariants == InductiveInvariant /\ ScriptInvariant /\ PaymentInvariant

Running == {"attach", "attaching", "complete", "pay", "paying"}

LEMMA StepIsServed ==
    ASSUME ScriptInvariant, [PurchaseNext]_purchaseVars
    PROVE  [Next]_vars
<1>1. pc \in Running => chk \in Ids
  BY DEF ScriptInvariant, RunIsTracked, Running
<1>2. /\ pc = "pay" => tx \in Txs \cup {None}
      /\ BuyerCart \in Carts /\ TRUE \in BOOLEAN /\ AttachX402 \in Updates
  BY PurchaseAssumption DEF ScriptInvariant, PurchaseTypeOK
<1>3. CASE Create
  BY <1>2, <1>3 DEF Create, Next
<1>4. ASSUME NEW r \in Reqs, Attach(r) PROVE Next
  <2>1. chk \in Ids /\ UpdateCheckout(r, chk, AttachX402)
    BY <1>1, <1>4 DEF Attach, Running
  <2> QED
    BY <1>2, <2>1 DEF Next, Request
<1>5. ASSUME NEW t \in Txs, Challenged(t) PROVE Next
  BY <1>1, <1>5 DEF Challenged, Running, Next
<1>6. ASSUME NEW r \in Reqs, Pay(r) PROVE Next
  <2>1. /\ chk \in Ids /\ CompletePay(r, chk, tx)
    BY <1>1, <1>6 DEF Pay, Running
  <2>2. tx \in Txs
    BY <1>2, <1>6 DEF Pay, ScriptInvariant, RunIsTracked
  <2> QED
    BY <2>1, <2>2 DEF Next, Request
<1>7. ASSUME NEW r \in Reqs, Serve(r) PROVE Next
  BY <1>7 DEF Serve, Next, HandlerStep, SaveStep
<1>8. ASSUME NEW r \in Reqs, ConnectionBreaks(r) PROVE Next
  BY <1>8 DEF ConnectionBreaks, Next
<1>9. CASE ServerRestarts
  BY <1>9 DEF ServerRestarts, Next
<1>10. ASSUME NEW t \in Txs, ChainDecides(t) PROVE Next
  BY <1>10 DEF ChainDecides, Next
<1>11. CASE RequestFails \/ TimesOut \/ RunAgain
  BY <1>11 DEF RequestFails, TimesOut, RunAgain, vars
<1>12. CASE UNCHANGED purchaseVars
  BY <1>12 DEF purchaseVars
<1> QED
  BY <1>3, <1>4, <1>5, <1>6, <1>7, <1>8, <1>9, <1>10, <1>11, <1>12
     DEF PurchaseNext, BuyerStep

-----------------------------------------------------------------------------
(* What the server's part of a step leaves alone.                          *)

\* A payment that counts is final, and stays.
LEMMA FinalStays ==
    ASSUME TypeOK, [Next]_vars, NEW t \in Txs, NEW total \in Totals, Paid(t, total)
    PROVE  Paid(t, total)'
<1>1. ledger[t].state = "finalized"
  BY DEF Paid
<1>2. ledger'[t] = ledger[t]
  <2>1. ASSUME NEW u \in Txs, Submit(u) PROVE ledger'[t] = ledger[t]
    BY <1>1, <2>1 DEF Submit, TypeOK, LedgerEntries
  <2>2. ASSUME NEW i \in Ids, NEW u \in Txs, PaymentRequirements(i, u)
        PROVE  ledger'[t] = ledger[t]
    BY <1>1, <2>2 DEF PaymentRequirements, TypeOK
  <2>3. ASSUME NEW u \in Txs, ChainStep(u) PROVE ledger'[t] = ledger[t]
    BY <1>1, <2>3 DEF ChainStep, TypeOK
  <2>4. ASSUME NEW r \in Reqs, SettleStep(r) PROVE ledger'[t] = ledger[t]
    <3>1. CASE SettleRefused(r)
      BY <3>1 DEF SettleRefused
    <3>2. CASE SettleAccepted(r) \/ SettleLost(r)
      <4>1. task[r] \in Tasks /\ task[r].tx \in Txs \cup {None} /\ Submit(task[r].tx)
        BY <3>2, PcIsRunning DEF SettleAccepted, SettleLost, Tasks
      <4> QED
        BY <1>1, <4>1 DEF Submit, TypeOK, LedgerEntries
    <3> QED
      BY <2>4, <3>1, <3>2 DEF SettleStep
  <2>5. ASSUME NEW r \in Reqs, NEW s \in Txs, SettleMisreported(r, s)
        PROVE  ledger'[t] = ledger[t]
    <3>1. task[r] \in Tasks /\ task[r].tx \in Txs \cup {None}
      BY <2>5, PcIsRunning DEF SettleMisreported, Tasks
    <3> QED
      BY <1>1, <2>5, <3>1 DEF SettleMisreported, Submit, TypeOK, LedgerEntries
  <2>6. CASE UNCHANGED ledger
    BY <2>6
  <2> QED
    BY <2>2, <2>3, <2>4, <2>5, <2>6
       DEF Next, vars, Request, HandlerStep, PollStep, SaveStep, CreateCheckout,
           UpdateCheckout, CancelCheckout, CompleteMock, CompletePay, PollVerified,
           PollRejected, PollAgain, PollGiveUp, Save, SaveFails, Disconnect, Restart
<1> QED
  BY <1>2 DEF Paid

\* What was signed stays signed.
LEMMA SignedStays ==
    ASSUME TypeOK, [Next]_vars, NEW t \in Txs, ledger[t].state # "unsigned"
    PROVE  ledger'[t].state # "unsigned"
<1>1. ledger \in [Txs -> LedgerEntries]
  BY DEF TypeOK
<1>2. ASSUME NEW u, Submit(u) PROVE ledger'[t].state # "unsigned"
  BY <1>1, <1>2 DEF Submit, LedgerEntries
<1>3. ASSUME NEW i \in Ids, NEW u \in Txs, PaymentRequirements(i, u)
      PROVE  ledger'[t].state # "unsigned"
  BY <1>1, <1>3 DEF PaymentRequirements
<1>4. ASSUME NEW u \in Txs, ChainStep(u) PROVE ledger'[t].state # "unsigned"
  BY <1>1, <1>4 DEF ChainStep, LedgerEntries
<1>5. ASSUME NEW r \in Reqs, SettleStep(r) \/ \E s \in Txs : SettleMisreported(r, s)
      PROVE  ledger'[t].state # "unsigned"
  BY <1>2, <1>5 DEF SettleStep, SettleAccepted, SettleMisreported, SettleLost,
     SettleRefused
<1> QED
  BY <1>3, <1>4, <1>5
     DEF Next, vars, Request, HandlerStep, PollStep, SaveStep, CreateCheckout,
         UpdateCheckout, CancelCheckout, CompleteMock, CompletePay, PollVerified,
         PollRejected, PollAgain, PollGiveUp, Save, SaveFails, Disconnect, Restart

LEMMA ReceiptsOnlyGrow ==
    ASSUME [Next]_vars
    PROVE  receipts \subseteq receipts'
  BY DEF Next, vars, Request, HandlerStep, SettleStep, PollStep, SaveStep, CreateCheckout,
         PaymentRequirements, ChainStep, UpdateCheckout, CancelCheckout, CompleteMock,
         CompletePay, SettleAccepted, SettleMisreported, SettleLost, SettleRefused,
         PollVerified, PollRejected, PollAgain, PollGiveUp, Save, SaveFails, Disconnect,
         Restart

LEMMA PriceIsTotal == CalculateTotal(BuyerCart) \in Totals
  BY PurchaseAssumption, CartTotalTyped

\* What was bought stays bought as long as its row is not written.
LEMMA BoughtStays ==
    ASSUME TypeOK, [Next]_vars, NEW id \in Ids, Bought(id), db'[id] = db[id]
    PROVE  Bought(id)'
<1>1. Exists(id)' /\ Stored(id)'.status = "Completed"
  BY DEF Bought, Exists, Stored
<1>2. PICK rc \in receipts : rc.chk = id /\ rc.by # None
                              /\ Paid(rc.by, CalculateTotal(BuyerCart))
  BY DEF Bought
<1>3. rc \in receipts' /\ rc.by \in Txs
  BY <1>2, ReceiptsOnlyGrow DEF TypeOK, Receipts
<1>4. Paid(rc.by, CalculateTotal(BuyerCart))'
  BY <1>2, <1>3, FinalStays, PriceIsTotal
<1> QED
  BY <1>1, <1>2, <1>3, <1>4 DEF Bought

LEMMA SuccessStays ==
    ASSUME AllInvariants, [Next]_vars,
           \A id \in Ids : report'[id] = "success" =>
               report[id] = "success" /\ db'[id] = db[id]
    PROVE  SuccessMeansPaid'
  BY BoughtStays DEF AllInvariants, ScriptInvariant, InductiveInvariant, SuccessMeansPaid

-----------------------------------------------------------------------------
(* The rows, the copies and the handlers of other runs.                    *)

LEMMA Parts ==
    ASSUME AllInvariants
    PROVE  /\ TypeOK /\ PurchaseTypeOK /\ RunIsTracked /\ RequestsNeverMeet
           /\ \A id \in Ids : Exists(id) => Stored(id).line_items = BuyerCart
           /\ \A r \in Reqs : GoodCopy(task[r])
           /\ \A r \in Reqs : GoodTask(r)
           /\ \A id \in Ids : Exists(id) => Stored(id) \in Checkouts
  BY StoredIsCheckout DEF AllInvariants, InductiveInvariant, ScriptInvariant

\* A run that waits for nothing has no handler at work on its checkout.
LEMMA NobodyIsThere ==
    ASSUME AllInvariants, slot = None, chk \in Ids, report[chk] = None, NEW r \in Reqs
    PROVE  task[r].chk # chk
<1>1. CASE task[r] = Idle
  BY <1>1, ServerAssumption DEF Idle
<1>2. CASE task[r] # Idle
  BY <1>2, Parts, PurchaseAssumption DEF RequestsNeverMeet
<1> QED
  BY <1>1, <1>2

\* A run ends, without success; its handler may have ended or go on.
LEMMA SaysKeeps ==
    ASSUME AllInvariants, [Next]_vars, NEW said \in {"failed", "error"},
           Says(said), chk \in Ids, Exists(chk), report[chk] = None, db' = db,
           task' \in [Reqs -> Tasks \cup {Idle}],
           \A r \in Reqs : task'[r] = task[r] \/ task'[r] = Idle,
           said = "failed" => \A r \in Reqs : task'[r].chk # chk
    PROVE  ScriptInvariant'
<1>1. /\ pc' = "done" /\ slot' = None /\ UNCHANGED <<chk, tx>>
      /\ report' = [report EXCEPT ![chk] = said]
  BY DEF Says
<1>2. PurchaseTypeOK'
  BY <1>1, Parts DEF PurchaseTypeOK
<1>3. RunIsTracked'
  BY <1>1, Parts DEF RunIsTracked, Exists, PurchaseTypeOK
<1>4. RequestsNeverMeet'
  <2> SUFFICES ASSUME NEW r \in Reqs, task'[r] # Idle
               PROVE  /\ report'[task'[r].chk] = "error"
                      /\ \A q \in Reqs \ {r} : task'[q].chk # task'[r].chk
    BY DEF RequestsNeverMeet
  <2>1. task'[r] = task[r] /\ task[r] \in Tasks /\ task[r].chk \in Ids
    BY Parts DEF TypeOK, Tasks
  <2>2. report'[task[r].chk] = "error"
    BY <1>1, <2>1, Parts, PurchaseAssumption DEF RequestsNeverMeet, PurchaseTypeOK
  <2>3. ASSUME NEW q \in Reqs \ {r} PROVE task'[q].chk # task[r].chk
    <3>1. CASE task'[q] = Idle
      BY <2>1, <3>1, ServerAssumption DEF Idle
    <3>2. CASE task'[q] = task[q]
      BY <2>1, <3>2, Parts DEF RequestsNeverMeet
    <3> QED
      BY <3>1, <3>2
  <2> QED
    BY <2>1, <2>2, <2>3
<1>5. \A id \in Ids : Exists(id)' => Stored(id)'.line_items = BuyerCart
  BY Parts DEF Exists, Stored
<1>6. \A r \in Reqs : GoodCopy(task[r])'
  BY Parts DEF GoodCopy
<1>7. SuccessMeansPaid'
  BY <1>1, Parts, SuccessStays DEF PurchaseTypeOK
<1> QED
  BY <1>2, <1>3, <1>4, <1>5, <1>6, <1>7 DEF ScriptInvariant

\* A handler takes a step to another await.
LEMMA GoesOnKeeps ==
    ASSUME AllInvariants, [Next]_vars, NEW r \in Reqs, NEW k \in Tasks,
           task' = [task EXCEPT ![r] = k], db' = db, UNCHANGED buyerVars,
           task[r] # Idle, k.chk = task[r].chk, k.tx = task[r].tx, GoodCopy(k)
    PROVE  ScriptInvariant'
<1>1. UNCHANGED <<pc, chk, tx, slot, report>> /\ task \in [Reqs -> Tasks \cup {Idle}]
  BY Parts DEF buyerVars, TypeOK
<1>2. PurchaseTypeOK'
  BY <1>1, Parts DEF PurchaseTypeOK
<1>3. \A q \in Reqs : /\ task'[q].chk = task[q].chk /\ task'[q].tx = task[q].tx
                       /\ task'[q] # Idle => task[q] # Idle
  BY <1>1
<1>4. RunIsTracked'
  BY <1>1, <1>3, Parts DEF RunIsTracked, Exists, Stored, PurchaseTypeOK
<1>5. RequestsNeverMeet'
  BY <1>1, <1>3, Parts DEF RequestsNeverMeet
<1>6. \A id \in Ids : Exists(id)' => Stored(id)'.line_items = BuyerCart
  BY Parts DEF Exists, Stored
<1>7. \A q \in Reqs : GoodCopy(task[q])'
  <2> SUFFICES ASSUME NEW q \in Reqs PROVE GoodCopy(task[q])'
    OBVIOUS
  <2>1. task'[q] = IF q = r THEN k ELSE task[q]
    BY <1>1
  <2> QED
    BY <2>1, Parts DEF GoodCopy
<1>8. SuccessMeansPaid'
  BY <1>1, SuccessStays
<1> QED
  BY <1>2, <1>4, <1>5, <1>6, <1>7, <1>8 DEF ScriptInvariant

\* A handler ends that nobody waits for.
LEMMA UnheardKeeps ==
    ASSUME AllInvariants, [Next]_vars, NEW r \in Reqs, Finish(r), db' = db,
           UNCHANGED buyerVars, slot # r
    PROVE  ScriptInvariant'
<1>1. UNCHANGED <<pc, chk, tx, slot, report>> /\ task \in [Reqs -> Tasks \cup {Idle}]
  BY Parts DEF buyerVars, TypeOK
<1>2. PurchaseTypeOK'
  BY <1>1, Parts DEF PurchaseTypeOK
<1>3. \A q \in Reqs : task'[q] = IF q = r THEN Idle ELSE task[q]
  BY <1>1 DEF Finish
<1>4. RunIsTracked'
  BY <1>1, <1>3, Parts DEF RunIsTracked, Exists, Stored, PurchaseTypeOK
<1>5. RequestsNeverMeet'
  <2> SUFFICES ASSUME NEW q \in Reqs, task'[q] # Idle
               PROVE  /\ \/ slot = q /\ task'[q].chk = chk
                         \/ report[task'[q].chk] = "error"
                      /\ \A p \in Reqs \ {q} : task'[p].chk # task'[q].chk
    BY <1>1 DEF RequestsNeverMeet
  <2>1. task'[q] = task[q] /\ task[q].chk \in Ids
    BY <1>1, <1>3 DEF Tasks
  <2> QED
    BY <1>3, <2>1, Parts, ServerAssumption DEF RequestsNeverMeet, Idle
<1>6. \A id \in Ids : Exists(id)' => Stored(id)'.line_items = BuyerCart
  BY Parts DEF Exists, Stored
<1>7. \A q \in Reqs : GoodCopy(task[q])'
  BY <1>3, Parts DEF GoodCopy
<1>8. SuccessMeansPaid'
  BY <1>1, SuccessStays
<1> QED
  BY <1>2, <1>4, <1>5, <1>6, <1>7, <1>8 DEF ScriptInvariant

\* A handler ends without a 200.
LEMMA EndIsHeard ==
    ASSUME AllInvariants, [Next]_vars, NEW r \in Reqs, Finish(r), db' = db,
           NEW codes, "200" \notin codes, Hears(r, codes)
    PROVE  ScriptInvariant'
<1>1. task \in [Reqs -> Tasks \cup {Idle}]
  BY Parts DEF TypeOK
<1>2. \A q \in Reqs : task'[q] = IF q = r THEN Idle ELSE task[q]
  BY <1>1 DEF Finish
<1>3. CASE slot # r
  BY <1>2, <1>3, UnheardKeeps DEF Hears
<1>4. CASE slot = r
  <2>1. PICK code \in codes \cup {"lost"} :
            IF Read(code, task[r].work) = "go on"
            THEN pc' = "complete" /\ slot' = None /\ UNCHANGED <<chk, tx, report>>
            ELSE Says(Read(code, task[r].work))
    BY <1>2, <1>4 DEF Hears
  <2>2. Read(code, task[r].work) \in {"failed", "error"}
    BY DEF Read
  <2>3. /\ chk \in Ids /\ Exists(chk) /\ report[chk] = None /\ task[r].chk = chk
    BY <1>4, Parts, PurchaseAssumption DEF RunIsTracked
  <2>4. task[r] # Idle
    BY <2>3, ServerAssumption DEF Idle
  <2>5. \A q \in Reqs : task'[q].chk # chk
    BY <1>2, <2>3, <2>4, Parts, ServerAssumption DEF RequestsNeverMeet, Idle
  <2>6. task' \in [Reqs -> Tasks \cup {Idle}]
    BY <1>1 DEF Finish
  <2> QED
    BY <1>2, <2>1, <2>2, <2>3, <2>5, <2>6, SaysKeeps
<1> QED
  BY <1>3, <1>4

\* The whole copy is written, and its handler ends.
LEMMA SaveKeepsPurchase ==
    ASSUME AllInvariants, [Next]_vars, NEW r \in Reqs, Save(r),
           Hears(r, {SavedCode(r), "500"})
    PROVE  ScriptInvariant'
<1> DEFINE k == task[r]
<1>1. /\ k \in Tasks /\ k # Idle /\ k.pc = "save" /\ k.chk \in Ids /\ k.work \in Checkouts
      /\ task \in [Reqs -> Tasks \cup {Idle}]
  BY Parts, PcIsRunning DEF Save, TypeOK, Tasks
<1>0. PICK c \in Ids, w \in Checkouts, t \in Txs \cup {None} :
          c = k.chk /\ w = k.work /\ t = k.tx
  BY <1>1 DEF Tasks
<1>2. /\ db' = [db EXCEPT ![c] = ToRow(w)]
      /\ UNCHANGED <<ledger, receipts>>
      /\ \A q \in Reqs : task'[q] = IF q = r THEN Idle ELSE task[q]
  BY <1>0, <1>1 DEF Save, Finish
<1>3. /\ db \in [Ids -> Rows \cup {None}]
      /\ ToRow(w) \in Rows /\ IntoCheckout(ToRow(w)) = w
  BY <1>1, Parts, RowRoundTrip DEF TypeOK
<1>4. /\ Exists(c)' /\ Stored(c)' = w
      /\ \A id \in Ids : id # c =>
            /\ Exists(id)' <=> Exists(id)
            /\ Stored(id)' = Stored(id) /\ db'[id] = db[id]
  BY <1>2, <1>3, ServerAssumption DEF Exists, Stored
<1>5. w.line_items = BuyerCart
  BY <1>0, <1>1, Parts DEF GoodCopy
<1>6. \A id \in Ids : Exists(id)' => Stored(id)'.line_items = BuyerCart
  BY <1>4, <1>5, Parts
<1>7. \A q \in Reqs : GoodCopy(task[q])'
  BY <1>2, Parts DEF GoodCopy
<1>8. \A q \in Reqs \ {r} : task'[q].chk # c
  BY <1>0, <1>1, <1>2, Parts DEF RequestsNeverMeet
<1>9. \A q \in Reqs : task'[q] # Idle =>
        /\ q # r /\ task'[q] = task[q] /\ task[q].chk \in Ids
        /\ \A p \in Reqs \ {q} : task'[p].chk # task'[q].chk
  BY <1>1, <1>2, Parts, ServerAssumption DEF RequestsNeverMeet, Tasks, Idle
<1>10. CASE slot # r
  <2>1. UNCHANGED <<pc, chk, tx, slot, report>>
    BY <1>2, <1>10 DEF Hears, buyerVars
  <2>2. report[c] = "error"
    BY <1>0, <1>1, <1>10, Parts DEF RequestsNeverMeet
  <2>3. PurchaseTypeOK'
    BY <2>1, Parts DEF PurchaseTypeOK
  <2>4. pc \notin {"create", "done"} => chk # c
    BY <2>2, Parts, PurchaseAssumption DEF RunIsTracked
  <2>5. slot # None => task'[slot] = task[slot]
    BY <1>2, <1>10, Parts DEF PurchaseTypeOK
  <2>6. RunIsTracked'
    BY <1>4, <2>1, <2>2, <2>4, <2>5, Parts DEF RunIsTracked
  <2>7. RequestsNeverMeet'
    BY <1>9, <2>1, Parts DEF RequestsNeverMeet
  <2>8. SuccessMeansPaid'
    BY <1>4, <2>1, <2>2, SuccessStays
  <2> QED
    BY <1>6, <1>7, <2>3, <2>6, <2>7, <2>8 DEF ScriptInvariant
<1>11. CASE slot = r
  <2>1. PICK code \in {SavedCode(r), "500", "lost"} :
            IF Read(code, w) = "go on"
            THEN pc' = "complete" /\ slot' = None /\ UNCHANGED <<chk, tx, report>>
            ELSE Says(Read(code, w))
    BY <1>0, <1>2, <1>11 DEF Hears
  <2>2. /\ pc \in {"attaching", "paying"}
        /\ c = chk /\ report[chk] = None
        /\ pc = "paying" => t # None
    BY <1>0, <1>11, Parts, PurchaseAssumption DEF RunIsTracked
  <2>3. CASE Read(code, w) = "go on"
    <3>1. /\ pc' = "complete" /\ slot' = None /\ UNCHANGED <<chk, tx, report>>
          /\ w.status = "ReadyForComplete"
      BY <2>1, <2>3 DEF Read
    <3>2. PurchaseTypeOK'
      BY <3>1, Parts DEF PurchaseTypeOK
    <3>3. RunIsTracked'
      BY <1>4, <2>2, <3>1, Parts DEF RunIsTracked, CanComplete
    <3>4. RequestsNeverMeet'
      BY <1>9, <1>11, <3>1, Parts DEF RequestsNeverMeet
    <3>5. SuccessMeansPaid'
      BY <1>4, <2>2, <3>1, SuccessStays, PurchaseAssumption
    <3> QED
      BY <1>6, <1>7, <3>2, <3>3, <3>4, <3>5 DEF ScriptInvariant
  <2>4. CASE Read(code, w) # "go on"
    <3> DEFINE said == Read(code, w)
    <3>1. said \in {"success", "failed", "error"}
      BY <2>4 DEF Read
    <3>2. /\ pc' = "done" /\ slot' = None /\ UNCHANGED <<chk, tx>>
          /\ report' = [report EXCEPT ![chk] = said]
      BY <2>1, <2>4 DEF Says
    <3>3. said = "success" => t # None /\ w.status = "Completed"
      BY <1>0, <2>2 DEF Read, SavedCode
    <3> HIDE DEF said
    <3>4. PurchaseTypeOK'
      BY <3>1, <3>2, Parts DEF PurchaseTypeOK
    <3>5. RunIsTracked'
      BY <1>4, <2>2, <3>2, Parts DEF RunIsTracked, PurchaseTypeOK
    <3>6. RequestsNeverMeet'
      <4> SUFFICES ASSUME NEW q \in Reqs, task'[q] # Idle
                   PROVE  report'[task'[q].chk] = "error"
        BY <1>9 DEF RequestsNeverMeet
      <4>1. q # r /\ task'[q] = task[q] /\ task[q].chk \in Ids /\ task[q].chk # chk
        BY <1>8, <1>9, <2>2
      <4> QED
        BY <1>11, <3>2, <4>1, Parts DEF RequestsNeverMeet, PurchaseTypeOK
    <3>7. SuccessMeansPaid'
      <4> SUFFICES ASSUME NEW id \in Ids, report'[id] = "success" PROVE Bought(id)'
        BY DEF SuccessMeansPaid
      <4>1. CASE id # chk
        BY <1>4, <2>2, <3>2, <4>1, Parts, BoughtStays
           DEF PurchaseTypeOK, SuccessMeansPaid, AllInvariants, ScriptInvariant
      <4>2. CASE id = chk
        <5>1. t # None /\ w.status = "Completed"
          BY <3>2, <3>3, <4>2, Parts DEF PurchaseTypeOK
        <5>2. PICK rc \in receipts : rc.chk = c
          BY <1>0, <1>1, <5>1, Parts DEF GoodTask, HasReceipt
        <5>3. rc.by # None /\ Paid(rc.by, CalculateTotal(BuyerCart))
          BY ServerAssumption DEF AllInvariants, InductiveInvariant, PaymentInvariant, Backed
        <5> QED
          BY <1>2, <1>4, <2>2, <4>2, <5>1, <5>2, <5>3 DEF Bought, Paid
      <4> QED
        BY <4>1, <4>2
    <3> QED
      BY <1>6, <1>7, <3>4, <3>5, <3>6, <3>7 DEF ScriptInvariant
  <2> QED
    BY <2>3, <2>4
<1> QED
  BY <1>10, <1>11

-----------------------------------------------------------------------------
(* One lemma for each of the script's requests.                            *)

LEMMA CreateKeepsPurchase ==
    ASSUME AllInvariants, [Next]_vars, Create
    PROVE  ScriptInvariant'
<1>1. pc = "create" /\ slot = None /\ UNCHANGED <<task, tx, slot, report>>
  BY Parts DEF Create, RunIsTracked, CreateCheckout, vars
<1>2. \A r \in Reqs : GoodCopy(task[r])'
  BY <1>1, Parts DEF GoodCopy
<1>3. RequestsNeverMeet'
  BY <1>1, Parts, PurchaseAssumption DEF RequestsNeverMeet
<1>4. CASE \E id \in Ids : CreateCheckout(id, BuyerCart, TRUE)
                          /\ ((pc' = "attach" /\ chk' = id) \/ (pc' = "done" /\ chk' = chk))
  <2>1. PICK id \in Ids : /\ CreateCheckout(id, BuyerCart, TRUE)
                          /\ \/ pc' = "attach" /\ chk' = id
                             \/ pc' = "done" /\ chk' = chk
    BY <1>4
  <2> DEFINE c == New(BuyerCart, TRUE)
  <2>2. c \in Checkouts /\ c.line_items = BuyerCart
    BY NewIsSound, PurchaseAssumption DEF New
  <2> HIDE DEF c
  <2>3. /\ ~Exists(id)
        /\ Exists(id)' /\ Stored(id)' = c
        /\ \A i \in Ids \ {id} :
              /\ Exists(i)' <=> Exists(i)
              /\ Stored(i)' = Stored(i) /\ db'[i] = db[i]
    BY <2>1, <2>2, Parts, RowRoundTrip, ServerAssumption
       DEF CreateCheckout, TypeOK, Exists, Stored, c
  <2>4. report[id] = None
    BY <2>3, Parts DEF RunIsTracked
  <2>5. PurchaseTypeOK'
    BY <1>1, <2>1, Parts DEF PurchaseTypeOK
  <2>6. RunIsTracked'
    BY <1>1, <2>1, <2>3, <2>4, Parts DEF RunIsTracked
  <2>7. \A i \in Ids : Exists(i)' => Stored(i)'.line_items = BuyerCart
    BY <2>2, <2>3, Parts
  <2>8. SuccessMeansPaid'
    BY <1>1, <2>3, <2>4, SuccessStays, PurchaseAssumption
  <2> QED
    BY <1>2, <1>3, <2>5, <2>6, <2>7, <2>8 DEF ScriptInvariant
<1>5. CASE pc' = "done" /\ UNCHANGED <<vars, chk>>
  <2>1. PurchaseTypeOK' /\ RunIsTracked'
    BY <1>1, <1>5, Parts DEF PurchaseTypeOK, RunIsTracked, Exists, vars
  <2>2. \A i \in Ids : Exists(i)' => Stored(i)'.line_items = BuyerCart
    BY <1>5, Parts DEF Exists, Stored, vars
  <2>3. SuccessMeansPaid'
    BY <1>1, <1>5, SuccessStays DEF vars
  <2> QED
    BY <1>2, <1>3, <2>1, <2>2, <2>3 DEF ScriptInvariant
<1>6. \/ \E id \in Ids : CreateCheckout(id, BuyerCart, TRUE)
                          /\ ((pc' = "attach" /\ chk' = id) \/ (pc' = "done" /\ chk' = chk))
      \/ pc' = "done" /\ UNCHANGED <<vars, chk>>
  BY DEF Create
<1> QED
  BY ONLY <1>4, <1>5, <1>6

\* A request is sent: a free handler takes the checkout of the run.
LEMMA RequestKeeps ==
    ASSUME AllInvariants, [Next]_vars, NEW r \in Reqs, NEW k \in Tasks,
           pc \in {"attach", "complete", "pay"},
           pc' \in {"attaching", "paying"},
           k.chk = chk, GoodCopy(k), pc' = "paying" => k.tx # None,
           task' = [task EXCEPT ![r] = k], db' = db, Waits(r, pc')
    PROVE  ScriptInvariant'
<1>1. /\ slot = None /\ slot' = r /\ UNCHANGED <<chk, tx, report>>
      /\ chk \in Ids /\ report[chk] = None
  BY Parts DEF Waits, RunIsTracked
<1>2. \A q \in Reqs : task'[q] = IF q = r THEN k ELSE task[q]
  BY Parts DEF TypeOK
<1>3. \A q \in Reqs : task[q].chk # chk
  BY <1>1, NobodyIsThere
<1>4. PurchaseTypeOK'
  BY <1>1, Parts DEF PurchaseTypeOK
<1>5. RunIsTracked'
  BY <1>1, <1>2, Parts, PurchaseAssumption DEF RunIsTracked, Exists
<1>6. RequestsNeverMeet'
  BY <1>1, <1>2, <1>3, Parts, PurchaseAssumption DEF RequestsNeverMeet
<1>7. \A id \in Ids : Exists(id)' => Stored(id)'.line_items = BuyerCart
  BY Parts DEF Exists, Stored
<1>8. \A q \in Reqs : GoodCopy(task[q])'
  <2> SUFFICES ASSUME NEW q \in Reqs PROVE GoodCopy(task[q])'
    OBVIOUS
  <2> QED
    BY <1>2, Parts DEF GoodCopy
<1>9. SuccessMeansPaid'
  BY <1>1, SuccessStays
<1> QED
  BY <1>4, <1>5, <1>6, <1>7, <1>8, <1>9 DEF ScriptInvariant

LEMMA AttachKeeps ==
    ASSUME AllInvariants, [Next]_vars, NEW r \in Reqs, Attach(r)
    PROVE  ScriptInvariant'
<1> DEFINE work == ApplyUpdate(Stored(chk), AttachX402)
           k    == Saving(chk, work, None)
<1>1. /\ pc = "attach" /\ pc' = "attaching" /\ Waits(r, "attaching")
      /\ task' = [task EXCEPT ![r] = k] /\ db' = db
  BY DEF Attach, UpdateCheckout, Waits
<1>2. chk \in Ids /\ Exists(chk)
  BY <1>1, Parts DEF RunIsTracked
<1>3. /\ Stored(chk) \in Checkouts /\ Sound(Stored(chk))
      /\ Stored(chk).line_items = BuyerCart
  BY <1>2, Parts DEF AllInvariants, InductiveInvariant, GoodRow
<1>4. work \in Checkouts /\ work.line_items = BuyerCart
  <2>1. work \in Checkouts
    BY <1>3, ApplyUpdateIsSound, PurchaseAssumption, ServerAssumption
  <2>2. work.line_items = Stored(chk).line_items
    BY <1>3 DEF ApplyUpdate, AttachX402, Given, Checkouts
  <2> QED
    BY <1>3, <2>1, <2>2
<1> HIDE DEF work
<1>5. k \in Tasks /\ k.chk = chk
  BY <1>2, <1>4, SavingIsTask DEF Saving
<1>6. GoodCopy(k)
  BY <1>4 DEF GoodCopy, Saving
<1> HIDE DEF k
<1> QED
  BY <1>1, <1>5, <1>6, RequestKeeps

LEMMA PayKeeps ==
    ASSUME AllInvariants, [Next]_vars, NEW r \in Reqs, Pay(r)
    PROVE  ScriptInvariant'
<1> DEFINE k == [pc |-> "settle", chk |-> chk, work |-> Stored(chk), tx |-> tx, attempt |-> 0]
<1>1. /\ pc = "pay" /\ pc' = "paying" /\ Waits(r, "paying")
      /\ task' = [task EXCEPT ![r] = k] /\ db' = db
  BY DEF Pay, CompletePay, Waits
<1>2. chk \in Ids /\ Exists(chk) /\ tx \in Txs /\ CanComplete(Stored(chk))
  BY <1>1, Parts DEF RunIsTracked
<1>3. Stored(chk) \in Checkouts /\ Stored(chk).line_items = BuyerCart
  BY <1>2, Parts
<1>4. k \in Tasks /\ k.chk = chk /\ k.tx # None
  BY <1>2, <1>3, ServerAssumption DEF Tasks
<1>5. GoodCopy(k)
  BY <1>2, <1>3 DEF GoodCopy
<1> HIDE DEF k
<1> QED
  BY <1>1, <1>4, <1>5, RequestKeeps

\* Steps that move neither a row nor a handler.
LEMMA QuietKeeps ==
    ASSUME AllInvariants, [Next]_vars, UNCHANGED <<db, task, slot, report>>,
           \/ (\E t \in Txs : Challenged(t))
           \/ RunAgain
           \/ UNCHANGED buyerVars
    PROVE  ScriptInvariant'
<1>1. PurchaseTypeOK' /\ RunIsTracked'
  BY Parts DEF Challenged, RunAgain, buyerVars, PurchaseTypeOK, RunIsTracked, Exists, Stored
<1>2. RequestsNeverMeet'
  <2>1. CASE UNCHANGED chk
    BY <2>1, Parts DEF RequestsNeverMeet
  <2>2. CASE slot = None
    BY <2>2, Parts, PurchaseAssumption DEF RequestsNeverMeet
  <2> QED
    BY <2>1, <2>2, Parts DEF Challenged, RunAgain, buyerVars, RunIsTracked
<1>3. \A id \in Ids : Exists(id)' => Stored(id)'.line_items = BuyerCart
  BY Parts DEF Exists, Stored
<1>4. \A r \in Reqs : GoodCopy(task[r])'
  BY Parts DEF GoodCopy
<1>5. SuccessMeansPaid'
  BY SuccessStays
<1> QED
  BY <1>1, <1>2, <1>3, <1>4, <1>5 DEF ScriptInvariant

\* A run that gives up, and one whose server is gone.
LEMMA GivingUpKeeps ==
    ASSUME AllInvariants, [Next]_vars, RequestFails \/ TimesOut
    PROVE  ScriptInvariant'
<1>1. PICK said \in {"failed", "error"} :
          /\ Says(said)
          /\ said = "failed" => slot = None
  BY Parts DEF RequestFails, TimesOut, RunIsTracked
<1>2. chk \in Ids /\ Exists(chk) /\ report[chk] = None /\ db' = db /\ task' = task
  BY Parts DEF RequestFails, TimesOut, RunIsTracked, vars
<1>3. said = "failed" => \A r \in Reqs : task'[r].chk # chk
  BY <1>1, <1>2, NobodyIsThere
<1> QED
  BY <1>1, <1>2, <1>3, Parts, SaysKeeps DEF TypeOK

LEMMA RestartKeepsPurchase ==
    ASSUME AllInvariants, [Next]_vars, ServerRestarts
    PROVE  ScriptInvariant'
<1>1. /\ db' = db /\ task' = [r \in Reqs |-> Idle]
      /\ task' \in [Reqs -> Tasks \cup {Idle}]
  BY DEF ServerRestarts, Restart
<1>2. CASE slot # None
  BY <1>1, <1>2, Parts, SaysKeeps DEF ServerRestarts, RunIsTracked
<1>3. CASE slot = None
  <2>1. UNCHANGED <<pc, chk, tx, slot, report>>
    BY <1>3 DEF ServerRestarts, buyerVars
  <2>2. PurchaseTypeOK' /\ RunIsTracked'
    BY <1>1, <1>3, <2>1, Parts DEF PurchaseTypeOK, RunIsTracked, Exists, Stored
  <2>3. RequestsNeverMeet' /\ (\A r \in Reqs : GoodCopy(task[r])')
    BY <1>1 DEF RequestsNeverMeet, GoodCopy
  <2>4. \A id \in Ids : Exists(id)' => Stored(id)'.line_items = BuyerCart
    BY <1>1, Parts DEF Exists, Stored
  <2>5. SuccessMeansPaid'
    BY <1>1, <2>1, SuccessStays
  <2> QED
    BY <2>2, <2>3, <2>4, <2>5 DEF ScriptInvariant
<1> QED
  BY <1>2, <1>3

-----------------------------------------------------------------------------
(* The handlers.                                                           *)

LEMMA ServeKeeps ==
    ASSUME AllInvariants, [Next]_vars, NEW r \in Reqs, Serve(r)
    PROVE  ScriptInvariant'
<1> DEFINE k == task[r]
<1>1. /\ k \in Tasks /\ k # Idle /\ GoodCopy(k) /\ Idle \notin Tasks
      /\ task \in [Reqs -> Tasks \cup {Idle}]
  <2>1. k.pc \in {"settle", "poll", "save"}
    BY DEF Serve, SettleStep, SettleAccepted, SettleLost, SettleRefused, PollStep,
           PollVerified, PollRejected, PollAgain, PollGiveUp, Save, SaveFails
  <2> QED
    BY <2>1, Parts, PcIsRunning, TaskIsNotIdle DEF TypeOK
<1>2. ASSUME Finish(r), db' = db, Hears(r, {"402"}) PROVE ScriptInvariant'
  BY <1>2, EndIsHeard
\* To another await: nobody hears of it.
<1>3. ASSUME NEW n \in Tasks, task' = [task EXCEPT ![r] = n], db' = db,
             n.chk = k.chk, n.tx = k.tx, GoodCopy(n), Hears(r, {"402"})
      PROVE  ScriptInvariant'
  <2>1. task'[r] # Idle
    BY <1>1, <1>3
  <2>2. UNCHANGED buyerVars
    BY <1>3, <2>1 DEF Hears
  <2> QED
    BY <1>1, <1>3, <2>2, GoesOnKeeps
<1>4. CASE SettleStep(r) /\ Hears(r, {"402"})
  <2>1. CASE SettleAccepted(r)
    <3> DEFINE n == [k EXCEPT !.pc = "poll"]
    <3>1. n \in Tasks /\ n.chk = k.chk /\ n.tx = k.tx /\ GoodCopy(n)
      BY <1>1, <2>1 DEF Tasks, GoodCopy, SettleAccepted
    <3>2. task' = [task EXCEPT ![r] = n] /\ db' = db
      BY <2>1 DEF SettleAccepted
    <3> HIDE DEF n
    <3> QED
      BY <1>3, <1>4, <3>1, <3>2
  <2>2. CASE SettleLost(r) \/ SettleRefused(r)
    BY <1>2, <1>4, <2>2 DEF SettleLost, SettleRefused
  <2> QED
    BY <1>4, <2>1, <2>2 DEF SettleStep
<1>5. CASE PollStep(r) /\ Hears(r, {"402"})
  <2>1. CASE PollVerified(r)
    <3> DEFINE n == Saving(k.chk, Complete(k.work), k.tx)
    <3>1. /\ k.pc = "poll" /\ k.chk \in Ids /\ k.work \in Checkouts /\ k.tx \in Txs \cup {None}
          /\ k.work.line_items = BuyerCart /\ CanComplete(k.work)
      BY <1>1, <2>1 DEF PollVerified, Tasks, GoodCopy
    <3>2. /\ Complete(k.work) \in Checkouts /\ Complete(k.work).status = "Completed"
          /\ Complete(k.work).line_items = BuyerCart
      BY <3>1 DEF Complete, Checkouts, CheckoutStatus
    <3>3. n \in Tasks /\ n.chk = k.chk /\ n.tx = k.tx /\ GoodCopy(n)
      BY <3>1, <3>2, SavingIsTask DEF Saving, GoodCopy
    <3>4. task' = [task EXCEPT ![r] = n] /\ db' = db
      BY <2>1 DEF PollVerified
    <3> HIDE DEF n
    <3> QED
      BY <1>3, <1>5, <3>3, <3>4
  <2>2. CASE PollAgain(r)
    <3> DEFINE n == [k EXCEPT !.attempt = @ + 1]
    <3>1. n \in Tasks /\ n.chk = k.chk /\ n.tx = k.tx /\ GoodCopy(n)
      BY <1>1, <2>2, ServerAssumption DEF Tasks, GoodCopy, PollAgain
    <3>2. task' = [task EXCEPT ![r] = n] /\ db' = db
      BY <2>2 DEF PollAgain
    <3> HIDE DEF n
    <3> QED
      BY <1>3, <1>5, <3>1, <3>2
  <2>3. CASE PollRejected(r) \/ PollGiveUp(r)
    BY <1>2, <1>5, <2>3 DEF PollRejected, PollGiveUp
  <2> QED
    BY <1>5, <2>1, <2>2, <2>3 DEF PollStep
<1>6. CASE Save(r) /\ Hears(r, {SavedCode(r), "500"})
  BY <1>6, SaveKeepsPurchase
<1>7. CASE SaveFails(r) /\ Hears(r, {"500"})
  BY <1>7, EndIsHeard DEF SaveFails
<1> QED
  BY <1>4, <1>5, <1>6, <1>7 DEF Serve

LEMMA BreakKeeps ==
    ASSUME AllInvariants, [Next]_vars, NEW r \in Reqs, ConnectionBreaks(r)
    PROVE  ScriptInvariant'
  BY EndIsHeard DEF ConnectionBreaks, Disconnect

-----------------------------------------------------------------------------
(* The payments.                                                           *)

\* A receipt is earned by a verified payment, and by nothing else the script
\* brings about.
LEMMA NewReceipts ==
    ASSUME AllInvariants, [PurchaseNext]_purchaseVars, NEW rc \in receipts' \ receipts
    PROVE  \E r \in Reqs : /\ task[r] # Idle
                            /\ rc.chk = task[r].chk /\ rc.by = task[r].tx /\ rc.by \in Txs
                            /\ rc.total = CalculateTotal(BuyerCart)
<1>1. ASSUME NEW r \in Reqs, PollVerified(r)
      PROVE  /\ task[r] # Idle
             /\ rc.chk = task[r].chk /\ rc.by = task[r].tx /\ rc.by \in Txs
             /\ rc.total = CalculateTotal(BuyerCart)
  <2>1. /\ task[r] # Idle /\ task[r].chk \in Ids /\ task[r].work \in Checkouts
        /\ task[r].tx \in Txs
        /\ HasItsTotal(task[r].work) /\ task[r].work.line_items = BuyerCart
    BY <1>1, Parts, PcIsRunning DEF PollVerified, GoodTask, GoodCopy, Tasks, Sound
  <2>2. rc \in ReceiptFor(task[r].chk, task[r].work, task[r].tx)
    BY <1>1 DEF PollVerified
  <2>3. rc = [chk |-> task[r].chk, by |-> task[r].tx, total |-> task[r].work.total]
    BY <2>1, <2>2, ReceiptIsEarned
  <2> QED
    BY <2>1, <2>3 DEF HasItsTotal
<1>2. ASSUME NEW r \in Reqs, Serve(r), ~PollVerified(r) PROVE receipts' = receipts
  BY <1>2 DEF Serve, SettleStep, PollStep, SettleAccepted, SettleLost, SettleRefused,
     PollRejected, PollAgain, PollGiveUp, Save, SaveFails
<1>3. ASSUME BuyerStep \/ TimesOut \/ RunAgain \/ ServerRestarts \/ UNCHANGED purchaseVars
      PROVE  receipts' = receipts
  BY <1>3 DEF BuyerStep, Create, CreateCheckout, Attach, UpdateCheckout, Challenged,
     PaymentRequirements, Pay, CompletePay, RequestFails, TimesOut, RunAgain,
     ServerRestarts, Restart, purchaseVars, vars
<1>4. ASSUME NEW r \in Reqs, ConnectionBreaks(r) PROVE receipts' = receipts
  BY <1>4 DEF ConnectionBreaks, Disconnect
<1>5. ASSUME NEW t \in Txs, ChainDecides(t) PROVE receipts' = receipts
  BY <1>5 DEF ChainDecides, ChainStep
<1> QED
  BY <1>1, <1>2, <1>3, <1>4, <1>5 DEF PurchaseNext

\* Where a handler has a transaction it has had it from the script.
LEMMA TasksUse ==
    ASSUME AllInvariants, [PurchaseNext]_purchaseVars, NEW t \in Txs, NEW id \in Ids,
           NEW r \in Reqs, task'[r] # Idle, task'[r].tx = t, task'[r].chk = id
    PROVE  UsedFor(t, id)
<1>1. task \in [Reqs -> Tasks \cup {Idle}] /\ t # None
  BY Parts, ServerAssumption DEF TypeOK
<1>2. CASE task'[r] = task[r]
  BY <1>2 DEF UsedFor
<1>3. CASE task'[r] # task[r]
  <2>1. ASSUME NEW q \in Reqs, Attach(q) PROVE FALSE
    BY <1>1, <1>3, <2>1 DEF Attach, UpdateCheckout, Saving
  <2>2. ASSUME NEW q \in Reqs, Pay(q) PROVE UsedFor(t, id)
    <3>1. task'[r].tx = tx /\ task'[r].chk = chk /\ pc = "pay"
      BY <1>1, <1>3, <2>2 DEF Pay, CompletePay
    <3> QED
      BY <3>1 DEF UsedFor
  <2>3. ASSUME NEW q \in Reqs, Serve(q) PROVE UsedFor(t, id)
    <3>1. task[q].pc \in {"settle", "poll", "save"}
      BY <2>3 DEF Serve, SettleStep, SettleAccepted, SettleLost, SettleRefused, PollStep,
             PollVerified, PollRejected, PollAgain, PollGiveUp, Save, SaveFails
    <3>2. task[q] # Idle /\ task[q] \in Tasks
      BY <3>1, Parts, PcIsRunning
    <3>3. q = r /\ task'[r].tx = task[r].tx /\ task'[r].chk = task[r].chk
      BY <1>1, <1>3, <2>3, <3>2
         DEF Serve, SettleStep, SettleAccepted, SettleLost, SettleRefused, PollStep,
             PollVerified, PollRejected, PollAgain, PollGiveUp, Save, SaveFails, Finish,
             Saving, Tasks
    <3> QED
      BY <3>2, <3>3 DEF UsedFor
  <2>4. ASSUME NEW q \in Reqs, ConnectionBreaks(q) PROVE FALSE
    BY <1>1, <1>3, <2>4 DEF ConnectionBreaks, Disconnect, Finish
  <2>5. CASE ServerRestarts
    BY <2>5 DEF ServerRestarts, Restart
  <2>6. ASSUME \/ Create \/ RequestFails \/ TimesOut \/ RunAgain
               \/ UNCHANGED purchaseVars
               \/ \E u \in Txs : Challenged(u) \/ ChainDecides(u)
        PROVE  task' = task
    BY <2>6 DEF Create, CreateCheckout, RequestFails, TimesOut, RunAgain, Challenged,
       PaymentRequirements, ChainDecides, ChainStep, purchaseVars, vars
  <2> QED
    BY <1>3, <2>1, <2>2, <2>3, <2>4, <2>5, <2>6 DEF PurchaseNext, BuyerStep
<1> QED
  BY <1>2, <1>3

\* The script comes by a transaction when it signs one, and then keeps it.
LEMMA ScriptUses ==
    ASSUME AllInvariants, [PurchaseNext]_purchaseVars, NEW t \in Txs, NEW id \in Ids,
           pc' \in {"pay", "paying"}, tx' = t, chk' = id
    PROVE  UsedFor(t, id) \/ (Challenged(t) /\ id = chk)
<1>1. t # None
  BY ServerAssumption
<1>2. ASSUME NEW u \in Txs, Challenged(u) PROVE Challenged(t) /\ id = chk
  BY <1>2 DEF Challenged
<1>3. ASSUME NEW q \in Reqs, Pay(q) PROVE UsedFor(t, id)
  BY <1>3 DEF Pay, Waits, UsedFor
<1>4. ASSUME NEW q \in Reqs, Attach(q) PROVE FALSE
  BY <1>4 DEF Attach, Waits
<1>5. ASSUME Create \/ RequestFails \/ TimesOut \/ RunAgain PROVE FALSE
  BY <1>5 DEF Create, RequestFails, TimesOut, RunAgain, Says
<1>6. ASSUME \/ \E q \in Reqs : Serve(q) \/ ConnectionBreaks(q)
             \/ ServerRestarts
             \/ \E u \in Txs : ChainDecides(u)
             \/ UNCHANGED purchaseVars
      PROVE  UNCHANGED <<pc, tx, chk>>
  BY <1>6 DEF Serve, ConnectionBreaks, ServerRestarts, ChainDecides, Hears, Says,
     buyerVars, purchaseVars
<1> QED
  BY <1>2, <1>3, <1>4, <1>5, <1>6 DEF PurchaseNext, BuyerStep, UsedFor

LEMMA PaymentsKeep ==
    ASSUME AllInvariants, [PurchaseNext]_purchaseVars
    PROVE  PaymentInvariant'
<1>1. ASSUME NEW rc \in receipts'
      PROVE  rc.by \in Txs /\ rc.total = CalculateTotal(BuyerCart)
  BY NewReceipts DEF AllInvariants, PaymentInvariant
<1>2. ASSUME NEW t \in Txs, NEW id \in Ids, UsedFor(t, id)'
      PROVE  UsedFor(t, id) \/ (Challenged(t) /\ id = chk)
  <2>1. ASSUME NEW rc \in receipts', rc.by = t, rc.chk = id PROVE UsedFor(t, id)
    BY <2>1, NewReceipts DEF UsedFor
  <2> QED
    BY <1>2, <2>1, TasksUse, ScriptUses DEF UsedFor
<1>3. ASSUME NEW t \in Txs, NEW id \in Ids, UsedFor(t, id) PROVE ~Challenged(t)
  BY <1>3 DEF Challenged, PaymentRequirements, AllInvariants, PaymentInvariant
<1>4. ASSUME NEW t \in Txs, NEW i \in Ids, NEW j \in Ids, UsedFor(t, i)', UsedFor(t, j)'
      PROVE  i = j
  BY <1>2, <1>3, <1>4 DEF AllInvariants, PaymentInvariant
<1>5. ASSUME NEW t \in Txs, NEW id \in Ids, UsedFor(t, id)'
      PROVE  ledger'[t].state # "unsigned"
  <2>1. [Next]_vars /\ ledger \in [Txs -> LedgerEntries]
    BY StepIsServed, Parts DEF AllInvariants, TypeOK
  <2>2. CASE Challenged(t)
    BY <2>1, <2>2 DEF Challenged, PaymentRequirements
  <2>3. CASE ledger[t].state # "unsigned"
    BY <2>1, <2>3, Parts, SignedStays
  <2> QED
    BY <1>2, <1>5, <2>2, <2>3 DEF AllInvariants, PaymentInvariant
<1> QED
  BY <1>1, <1>4, <1>5 DEF PaymentInvariant

-----------------------------------------------------------------------------

LEMMA PaymentInit == PurchaseInit => PaymentInvariant
<1> SUFFICES ASSUME PurchaseInit PROVE PaymentInvariant
  OBVIOUS
<1>1. /\ receipts = {} /\ pc = "create"
      /\ \A r \in Reqs : task[r] = Idle
  BY DEF PurchaseInit, Init
<1>2. \A t, id : ~UsedFor(t, id)
  BY <1>1 DEF UsedFor
<1> QED
  BY <1>1, <1>2 DEF PaymentInvariant

LEMMA PurchaseInitSatisfies == PurchaseInit => ScriptInvariant
<1> SUFFICES ASSUME PurchaseInit PROVE ScriptInvariant
  OBVIOUS
<1>1. /\ \A id \in Ids : ~Exists(id) /\ report[id] = None
      /\ \A r \in Reqs : task[r] = Idle
      /\ pc = "create" /\ chk = None /\ tx = None /\ slot = None
      /\ report \in [Ids -> {None, "success", "failed", "error"}]
  BY DEF PurchaseInit, Init, Exists
<1>2. PurchaseTypeOK /\ RunIsTracked
  BY <1>1 DEF PurchaseTypeOK, RunIsTracked
<1>3. RequestsNeverMeet /\ (\A r \in Reqs : GoodCopy(task[r]))
  BY <1>1 DEF RequestsNeverMeet, GoodCopy
<1>4. SuccessMeansPaid
  BY <1>1, PurchaseAssumption DEF SuccessMeansPaid
<1> QED
  BY <1>1, <1>2, <1>3, <1>4 DEF ScriptInvariant

LEMMA PurchaseStepKeeps ==
    AllInvariants /\ [PurchaseNext]_purchaseVars => AllInvariants'
<1> SUFFICES ASSUME AllInvariants, [PurchaseNext]_purchaseVars PROVE AllInvariants'
  OBVIOUS
<1>1. [Next]_vars
  BY StepIsServed DEF AllInvariants
<1>2. InductiveInvariant' /\ PaymentInvariant'
  BY <1>1, NextKeeps, PaymentsKeep DEF AllInvariants
<1> SUFFICES ScriptInvariant'
  BY <1>2 DEF AllInvariants
<1>3. CASE BuyerStep
  <2>1. ASSUME NEW t \in Txs, Challenged(t) PROVE ScriptInvariant'
    BY <1>1, <2>1, QuietKeeps DEF Challenged, PaymentRequirements
  <2> QED
    BY <1>1, <1>3, <2>1, CreateKeepsPurchase, AttachKeeps, PayKeeps, GivingUpKeeps
       DEF BuyerStep
<1>4. CASE TimesOut
  BY <1>1, <1>4, GivingUpKeeps
<1>5. CASE RunAgain
  BY <1>1, <1>5, QuietKeeps DEF RunAgain, vars
<1>6. ASSUME NEW r \in Reqs, Serve(r) \/ ConnectionBreaks(r) PROVE ScriptInvariant'
  BY <1>1, <1>6, ServeKeeps, BreakKeeps
<1>7. CASE ServerRestarts
  BY <1>1, <1>7, RestartKeepsPurchase
<1>8. ASSUME NEW t \in Txs, ChainDecides(t) PROVE ScriptInvariant'
  BY <1>1, <1>8, QuietKeeps DEF ChainDecides, ChainStep, buyerVars
<1>9. CASE UNCHANGED purchaseVars
  BY <1>1, <1>9, QuietKeeps DEF purchaseVars, vars, buyerVars
<1> QED
  BY <1>3, <1>4, <1>5, <1>6, <1>7, <1>8, <1>9 DEF PurchaseNext

(***************************************************************************)
(* The server's invariant and the purchase's two hold together: those say  *)
(* which of the server's steps the script can cause and with which         *)
(* transactions, the first what such steps may do.                         *)
(***************************************************************************)
THEOREM PurchaseInvariantsHold == PurchaseSpec => []AllInvariants
<1>1. PurchaseInit => AllInvariants
  BY PurchaseInitSatisfies, PaymentInit, InitSatisfies DEF PurchaseInit, AllInvariants
<1> QED
  BY <1>1, PurchaseStepKeeps, PTL DEF PurchaseSpec

(***************************************************************************)
(* The composition with the script is a behaviour of the server: what is   *)
(* proved of MerchantServer for any clients holds here.                    *)
(***************************************************************************)
THEOREM PurchaseIsServed == PurchaseSpec => Spec
<1>1. PurchaseInit => Init
  BY DEF PurchaseInit
<1>2. AllInvariants /\ [PurchaseNext]_purchaseVars => [Next]_vars
  BY StepIsServed DEF AllInvariants
<1> QED
  BY <1>1, <1>2, PurchaseInvariantsHold, PTL DEF PurchaseSpec, Spec

(***************************************************************************)
(* "SUCCESS: checkout completed and paid" is true when the script says it, *)
(* and ever after: through what handlers of other runs still write, lost   *)
(* answers, disconnects and restarts.                                      *)
(***************************************************************************)
THEOREM SuccessIsBought == PurchaseSpec => []SuccessMeansPaid
<1>1. AllInvariants => SuccessMeansPaid
  BY DEF AllInvariants, ScriptInvariant
<1> QED
  BY <1>1, PurchaseInvariantsHold, PTL

(***************************************************************************)
(* No transaction of the script's buys two checkouts, although the server  *)
(* would let it: also not when a run is given up and its payment settles   *)
(* while the next run pays.                                                *)
(***************************************************************************)
THEOREM PaymentsAreUsedOnce == PurchaseSpec => []PaymentsBuyOnce
<1>1. AllInvariants => PaymentsBuyOnce
  <2> SUFFICES ASSUME AllInvariants, NEW rc1 \in receipts, NEW rc2 \in receipts,
                      rc1.by # None, rc1.by = rc2.by
               PROVE  rc1.chk = rc2.chk
    BY DEF PaymentsBuyOnce
  <2>1. rc1.by \in Txs /\ rc1.chk \in Ids /\ rc2.chk \in Ids
    BY Parts DEF TypeOK, Receipts
  <2>2. UsedFor(rc1.by, rc1.chk) /\ UsedFor(rc1.by, rc2.chk)
    BY DEF UsedFor
  <2> QED
    BY <2>1, <2>2 DEF AllInvariants, PaymentInvariant
<1> QED
  BY <1>1, PurchaseInvariantsHold, PTL

(***************************************************************************)
(* No two handlers of the script's runs work on one checkout.              *)
(***************************************************************************)
THEOREM NeverMeet == PurchaseSpec => []RequestsNeverMeet
<1>1. AllInvariants => RequestsNeverMeet
  BY DEF AllInvariants, ScriptInvariant
<1> QED
  BY <1>1, PurchaseInvariantsHold, PTL

(***************************************************************************)
(* What verify_and_settle promises, and does not keep for every client, it *)
(* keeps for the script: a payment of its that settles completes.          *)
(***************************************************************************)
THEOREM ScriptPaymentsComplete == PurchaseSpec => []SettledPaymentCompletes
<1>1. AllInvariants => SettledPaymentCompletes
  <2> SUFFICES ASSUME AllInvariants, NEW r \in Reqs, task[r].pc = "save", task[r].tx # None
               PROVE  task[r].work.status = "Completed"
    BY DEF SettledPaymentCompletes
  <2> QED
    BY Parts, PcIsRunning DEF GoodCopy
<1> QED
  BY <1>1, PurchaseInvariantsHold, PTL

-----------------------------------------------------------------------------
(* The script keeps its requests apart where the server does not.          *)

LEMMA PurchaseKeepsOwned ==
    AllInvariants /\ OwnedCopies /\ [PurchaseNext]_purchaseVars => OwnedCopies'
<1> SUFFICES ASSUME AllInvariants, OwnedCopies, [PurchaseNext]_purchaseVars
             PROVE  OwnedCopies'
  OBVIOUS
<1>1. InductiveInvariant /\ [Next]_vars
  BY StepIsServed DEF AllInvariants
<1>2. RequestsNeverMeet'
  BY PurchaseStepKeeps DEF AllInvariants, ScriptInvariant
<1>3. StaysApart
  BY <1>2 DEF RequestsNeverMeet, Disjoint, StaysApart
<1> QED
  BY <1>1, <1>3, OwnedNext

(***************************************************************************)
(* No handler of the script's works on another copy than the row it will   *)
(* write, though the server does nothing to see to it.                     *)
(***************************************************************************)
THEOREM ScriptCopiesAreOwned == PurchaseSpec => []OwnedCopies
<1>1. PurchaseInit => OwnedCopies
  BY OwnedInit DEF PurchaseInit
<1> QED
  BY <1>1, PurchaseKeepsOwned, PurchaseInvariantsHold, PTL DEF PurchaseSpec

(***************************************************************************)
(* The server that serves the script alone implements the lifecycle, also  *)
(* where requests may overlap: no update of a checkout is lost to the      *)
(* get-work-save handlers, through lost answers, handlers of given-up runs *)
(* and restarts.                                                           *)
(***************************************************************************)
THEOREM PurchaseImplementsLifecycle == PurchaseSpec => ImplementsLifecycle
<1>1. PurchaseInit => Lifecycle!LifecycleInit
  BY InitRefines DEF PurchaseInit
<1>2. AllInvariants /\ OwnedCopies /\ [PurchaseNext]_purchaseVars
        => [Lifecycle!LifecycleNext]_<<shownStatus, paidIds>>
  BY StepIsServed, StepRefines DEF AllInvariants
<1> QED
  BY <1>1, <1>2, PurchaseInvariantsHold, ScriptCopiesAreOwned, PTL
     DEF PurchaseSpec, ImplementsLifecycle, Lifecycle!LifecycleSpec

(***************************************************************************)
(* What a run of the script has bought or given up never opens again.      *)
(***************************************************************************)
THEOREM PurchasesStayClosed == PurchaseSpec => ClosedStaysClosed
<1>1. AllInvariants /\ OwnedCopies /\ [PurchaseNext]_purchaseVars
        => [\A id \in Ids : Exists(id) /\ IsTerminal(Stored(id).status)
               => IsTerminal(Stored(id)'.status)]_db
  BY StepIsServed, ClosedStep DEF AllInvariants
<1> QED
  BY <1>1, PurchaseInvariantsHold, ScriptCopiesAreOwned, PTL
     DEF PurchaseSpec, ClosedStaysClosed

=============================================================================
