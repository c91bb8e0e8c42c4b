------------------------- MODULE X402PaymentProofs -------------------------
(***************************************************************************)
(* The x402 handler over its facilitator implements the contract of        *)
(* PaymentHandler, and submits only what it accepted: for any number of    *)
(* calls, transactions, schemes, networks, amounts and totals, and for a   *)
(* facilitator that answers what it likes.                                 *)
(***************************************************************************)
EXTENDS X402Payment, TLAPS

PaymentInvariant == X402Type /\ PostedWasAccepted /\ OnlyAcceptedMoves

EarlierIsFinal == \A t \in Earlier : ledger[t] = "finalized"

ContractStep == [Contract!ContractNext]_(Contract!contractVars)

Conclusion(pc) == IF pc \in Waits THEN "running" ELSE pc

\* A call that moves on keeps its payload and total.
LEMMA GoToMovesOne ==
    ASSUME X402Type, NEW c \in Calls, NEW pc \in Waits \cup {"ok", "error"},
           call[c].pc \in Waits, GoTo(c, pc)
    PROVE  /\ call' \in [Calls -> CallRecords]
           /\ call'[c].pc = pc
           /\ \A d \in Calls :
                 /\ d # c => call'[d] = call[d]
                 /\ call'[d].payload = call[d].payload
                 /\ call'[d].total = call[d].total
                 /\ call'[d].pc = "idle" <=> call[d].pc = "idle"
           /\ verdictOf[c] = "running"
           /\ verdictOf' = [verdictOf EXCEPT ![c] = Conclusion(pc)]
           /\ handedTo' = handedTo
<1> USE DEF X402Type
<1>1. call' = [call EXCEPT ![c].pc = pc] /\ call[c] \in CallRecords
  BY DEF GoTo
<1>2. call'[c] = [call[c] EXCEPT !.pc = pc] /\ \A d \in Calls : d # c => call'[d] = call[d]
  BY <1>1
<1>3. /\ call'[c].pc = pc /\ call'[c].payload = call[c].payload
      /\ call'[c].total = call[c].total /\ call'[c] \in CallRecords
  BY <1>1, <1>2 DEF CallRecords
<1>4. call' \in [Calls -> CallRecords]
  BY <1>1, <1>2, <1>3
<1>5. pc # "idle" /\ call[c].pc # "idle"
  BY DEF Waits
<1>6. \A d \in Calls :
         /\ call'[d].payload = call[d].payload
         /\ call'[d].total = call[d].total
         /\ call'[d].pc = "idle" <=> call[d].pc = "idle"
  BY <1>2, <1>3, <1>5
<1>7. verdictOf[c] = "running"
  BY <1>5 DEF verdictOf
<1>8. verdictOf' = [verdictOf EXCEPT ![c] = Conclusion(pc)]
  BY <1>2, <1>3, <1>5 DEF verdictOf, Conclusion
<1>9. handedTo' = handedTo
  BY <1>6 DEF handedTo
<1> QED
  BY <1>2, <1>3, <1>4, <1>6, <1>7, <1>8, <1>9

\* Calls that move on over an unchanged ledger leave what moved accepted.
LEMMA AcceptedStays ==
    ASSUME OnlyAcceptedMoves, ledger' = ledger,
           \A d \in Calls : /\ call'[d].payload = call[d].payload
                            /\ call'[d].pc = "idle" <=> call[d].pc = "idle"
    PROVE  OnlyAcceptedMoves'
  BY DEF OnlyAcceptedMoves

-----------------------------------------------------------------------------
(* The steps of a call.                                                    *)

LEMMA BeginIsContract ==
    ASSUME PaymentInvariant, NEW c \in Calls, NEW payload \in Payloads \cup {None},
           NEW total \in Totals, VerifyAndSettle(c, payload, total)
    PROVE  PaymentInvariant' /\ ContractStep
<1> USE DEF PaymentInvariant
<1> DEFINE pc == IF Accepts(payload) THEN "supported" ELSE "error"
           rec == [pc |-> pc, payload |-> payload, total |-> total]
<1>1. /\ call[c].pc = "idle" /\ call' = [call EXCEPT ![c] = rec]
      /\ job' = job /\ ledger' = ledger
  BY DEF VerifyAndSettle
<1>2. rec \in CallRecords
  BY DEF CallRecords, Waits
<1>3. X402Type'
  BY <1>1, <1>2 DEF X402Type, FacilitatorType
<1>4. call'[c] = rec /\ \A d \in Calls : d # c => call'[d] = call[d]
  BY <1>1 DEF X402Type
<1>5. Accepts(payload) =>
        \E t \in Txs : payload = [scheme |-> "exact", network |-> Network, tx |-> t]
  BY DEF Accepts, Payloads
<1>6. job[c] = None
  BY <1>1 DEF PostedWasAccepted
<1>7. PostedWasAccepted'
  BY <1>1, <1>4, <1>5, <1>6 DEF PostedWasAccepted, Waits
<1>8. OnlyAcceptedMoves'
  BY <1>1, <1>4 DEF OnlyAcceptedMoves
<1>9. Contract!ContractNext
  <2> DEFINE payment == IF payload = None THEN None ELSE payload.tx
  <2>1. payment \in Txs \cup {None}
    BY DEF Payloads
  <2>2. verdictOf[c] = "none"
    BY <1>1 DEF verdictOf
  <2>3. /\ call'[c].payload = payload /\ call'[c].total = total
        /\ call'[c].pc = "supported" \/ call'[c].pc = "error"
    BY <1>4
  <2>4. \/ verdictOf' = [verdictOf EXCEPT ![c] = "running"]
        \/ verdictOf' = [verdictOf EXCEPT ![c] = "error"]
    BY <1>4, <2>3 DEF verdictOf, Waits
  <2>5. handedTo' = [handedTo EXCEPT ![c] = [payment |-> payment, total |-> total]]
    <3>1. call'[c].pc # "idle"
      BY <2>3
    <3>2. \A d \in Calls : d # c => call'[d] = call[d]
      BY <1>4
    <3> QED
      BY <2>3, <3>1, <3>2 DEF handedTo
  <2>6. finalized' = finalized
    BY <1>1 DEF finalized
  <2>7. Contract!Begin(c, payment, total)
    BY <2>2, <2>4, <2>5, <2>6 DEF Contract!Begin
  <2> QED
    BY <2>1, <2>7 DEF Contract!ContractNext
<1> QED
  BY <1>3, <1>7, <1>8, <1>9 DEF ContractStep

\* A step that keeps the call waiting and touches neither job nor ledger.
LEMMA WaitingIsStutter ==
    ASSUME PaymentInvariant, NEW c \in Calls, NEW pc \in {"posting", "polling"},
           call[c].pc \in Waits, GoTo(c, pc), UNCHANGED <<job, ledger>>,
           pc = "polling" => job[c] # None
    PROVE  PaymentInvariant' /\ ContractStep
<1> USE DEF PaymentInvariant
<1>1. pc \in Waits
  BY DEF Waits
<1>2. /\ call' \in [Calls -> CallRecords]
      /\ call'[c].pc = pc
      /\ \A d \in Calls :
            /\ d # c => call'[d] = call[d]
            /\ call'[d].payload = call[d].payload
            /\ call'[d].total = call[d].total
            /\ call'[d].pc = "idle" <=> call[d].pc = "idle"
      /\ verdictOf[c] = "running"
      /\ verdictOf' = [verdictOf EXCEPT ![c] = Conclusion(pc)]
      /\ handedTo' = handedTo
  BY <1>1, GoToMovesOne
<1>3. X402Type'
  BY <1>2 DEF X402Type, FacilitatorType
<1>4. PostedWasAccepted'
  <2>1. call'[c].pc \in {"waiting", "polling"} => job'[c] # None
    BY <1>2
  <2>2. \A d \in Calls : d # c => call'[d] = call[d] /\ job'[d] = job[d]
    BY <1>2
  <2>3. \A d \in Calls : /\ call'[d].pc \in Waits \cup {"ok"} => call[d].pc \in Waits \cup {"ok"}
                         /\ call'[d].payload = call[d].payload
                         /\ call'[d].pc = "idle" <=> call[d].pc = "idle"
    BY <1>2
  <2> QED
    BY <2>1, <2>2, <2>3 DEF PostedWasAccepted
<1>5. OnlyAcceptedMoves'
  BY <1>2, AcceptedStays
<1>6. verdictOf' = verdictOf
  BY <1>1, <1>2 DEF verdictOf, Conclusion
<1>7. ContractStep
  BY <1>2, <1>6 DEF ContractStep, Contract!contractVars, finalized
<1> QED
  BY <1>3, <1>4, <1>5, <1>7

LEMMA PostIsStutter ==
    ASSUME PaymentInvariant, NEW c \in Calls, PostSettle(c)
    PROVE  PaymentInvariant' /\ ContractStep
<1> USE DEF PaymentInvariant
<1>1. "waiting" \in Waits /\ call[c].pc \in Waits /\ GoTo(c, "waiting") /\ ledger' = ledger
  BY DEF PostSettle, Waits
<1>2. /\ call' \in [Calls -> CallRecords]
      /\ call'[c].pc = "waiting"
      /\ \A d \in Calls :
            /\ d # c => call'[d] = call[d]
            /\ call'[d].payload = call[d].payload
            /\ call'[d].total = call[d].total
            /\ call'[d].pc = "idle" <=> call[d].pc = "idle"
      /\ verdictOf[c] = "running"
      /\ verdictOf' = [verdictOf EXCEPT ![c] = Conclusion("waiting")]
      /\ handedTo' = handedTo
  BY <1>1, GoToMovesOne
<1>3. PICK t \in Txs : call[c].payload = [scheme |-> "exact", network |-> Network, tx |-> t]
  BY <1>1 DEF PostedWasAccepted
<1> DEFINE posted == [tx |-> t, network |-> Network, reply |-> "pending", sig |-> None]
<1>4. job' = [job EXCEPT ![c] = posted]
  BY <1>3 DEF PostSettle
<1>5. posted \in Jobs
  BY PaymentAssumption DEF Jobs, Replies
<1>6. job'[c] = posted /\ \A d \in Calls : d # c => job'[d] = job[d]
  BY <1>4 DEF X402Type, FacilitatorType
<1>7. X402Type'
  BY <1>1, <1>2, <1>4, <1>5 DEF X402Type, FacilitatorType
<1>8. PostedWasAccepted'
  <2> SUFFICES ASSUME NEW d \in Calls
               PROVE  /\ call'[d].pc \in Waits \cup {"ok"} =>
                           \E u \in Txs : call'[d].payload
                              = [scheme |-> "exact", network |-> Network, tx |-> u]
                      /\ job'[d] # None =>
                           /\ call'[d].payload
                                = [scheme |-> "exact", network |-> Network, tx |-> job'[d].tx]
                           /\ call'[d].pc # "idle"
                      /\ call'[d].pc \in {"waiting", "polling"} => job'[d] # None
    BY DEF PostedWasAccepted
  <2>1. CASE d = c
    <3>1. job'[c] # None
      BY <1>5, <1>6, NoneIsNoRecord
    <3>2. job'[c].tx = t
      BY <1>6
    <3> QED
      BY <1>2, <1>3, <2>1, <3>1, <3>2
  <2>2. CASE d # c
    <3>1. call'[d] = call[d] /\ job'[d] = job[d]
      BY <1>2, <1>6, <2>2
    <3> QED
      BY <3>1 DEF PostedWasAccepted
  <2> QED
    BY <2>1, <2>2
<1>9. OnlyAcceptedMoves'
  BY <1>1, <1>2, AcceptedStays
<1>10. verdictOf' = verdictOf
  BY <1>1, <1>2 DEF verdictOf, Conclusion
<1>11. ContractStep
  BY <1>1, <1>2, <1>10 DEF ContractStep, Contract!contractVars, finalized
<1> QED
  BY <1>7, <1>8, <1>9, <1>11

\* A verdict, which is Ok only when a finalized transaction covers the total.
LEMMA VerdictIsContract ==
    ASSUME PaymentInvariant, NEW c \in Calls, NEW pc \in {"ok", "error"},
           call[c].pc \in Waits, GoTo(c, pc), UNCHANGED <<job, ledger>>,
           pc = "ok" => \E t \in Txs : Verified(t, call[c].total)
    PROVE  PaymentInvariant' /\ ContractStep
<1> USE DEF PaymentInvariant
<1>1. pc \notin Waits /\ pc # "idle"
  BY DEF Waits
<1>2. /\ call' \in [Calls -> CallRecords]
      /\ call'[c].pc = pc
      /\ \A d \in Calls :
            /\ d # c => call'[d] = call[d]
            /\ call'[d].payload = call[d].payload
            /\ call'[d].total = call[d].total
            /\ call'[d].pc = "idle" <=> call[d].pc = "idle"
      /\ verdictOf[c] = "running"
      /\ verdictOf' = [verdictOf EXCEPT ![c] = Conclusion(pc)]
      /\ handedTo' = handedTo
  BY GoToMovesOne
<1>3. X402Type'
  BY <1>2 DEF X402Type, FacilitatorType
<1>4. PostedWasAccepted'
  BY <1>1, <1>2 DEF PostedWasAccepted
<1>5. OnlyAcceptedMoves'
  BY <1>2, AcceptedStays
<1>6. verdictOf' = [verdictOf EXCEPT ![c] = pc] /\ finalized' = finalized
  BY <1>1, <1>2 DEF Conclusion, finalized
<1>7. CASE pc = "error"
  <2>1. Contract!SayError(c)
    BY <1>2, <1>6, <1>7 DEF Contract!SayError
  <2> QED
    BY <1>3, <1>4, <1>5, <2>1 DEF ContractStep, Contract!ContractNext
<1>8. CASE pc = "ok"
  <2>1. \E t \in finalized : Amount[t] >= call[c].total
    BY <1>8 DEF Verified, finalized
  <2>2. handedTo[c].total = call[c].total
    BY DEF handedTo, Waits
  <2>3. Contract!SayOk(c)
    BY <1>2, <1>6, <1>8, <2>1, <2>2 DEF Contract!SayOk
  <2> QED
    BY <1>3, <1>4, <1>5, <2>3 DEF ContractStep, Contract!ContractNext
<1> QED
  BY <1>7, <1>8

LEMMA CallStepIsContract ==
    ASSUME PaymentInvariant, NEW c \in Calls, CallStep(c) \/ LoseReply(c) \/ Drop(c)
    PROVE  PaymentInvariant' /\ ContractStep
<1>1. CASE FetchFeePayer(c)
  BY <1>1, WaitingIsStutter DEF FetchFeePayer, Waits
<1>2. CASE PostSettle(c)
  BY <1>2, PostIsStutter
<1>3. CASE Unreachable(c)
  BY <1>3, VerdictIsContract DEF Unreachable, Waits
<1>4. CASE ReadReply(c)
  <2>1. call[c].pc = "waiting" /\ call[c].pc \in Waits /\ UNCHANGED <<job, ledger>>
    BY <1>4 DEF ReadReply, Waits
  <2>2. job[c] # None
    BY <2>1 DEF PaymentInvariant, PostedWasAccepted
  <2>3. GoTo(c, "polling") \/ GoTo(c, "error")
    BY <1>4 DEF ReadReply
  <2> QED
    BY <2>1, <2>2, <2>3, WaitingIsStutter, VerdictIsContract
<1>5. CASE VerifyOnChain(c)
  <2>1. call[c].pc \in Waits /\ UNCHANGED <<job, ledger>>
    BY <1>5 DEF VerifyOnChain, Waits
  <2>2. job[c].sig \in Txs
    BY <1>5 DEF VerifyOnChain, PaymentInvariant, PostedWasAccepted, X402Type,
                FacilitatorType, Jobs
  <2>3. \/ GoTo(c, "ok") /\ Verified(job[c].sig, call[c].total)
        \/ GoTo(c, "error")
    BY <1>5 DEF VerifyOnChain
  <2> QED
    BY <2>1, <2>2, <2>3, VerdictIsContract
<1>6. CASE GiveUp(c)
  BY <1>6, VerdictIsContract DEF GiveUp, Waits
<1>7. CASE LoseReply(c)
  BY <1>7, VerdictIsContract DEF LoseReply, Waits
<1>8. CASE Drop(c)
  BY <1>8, VerdictIsContract DEF Drop
<1> QED
  BY <1>1, <1>2, <1>3, <1>4, <1>5, <1>6, <1>7, <1>8 DEF CallStep

-----------------------------------------------------------------------------
(* The steps of the facilitator and the chain.                             *)

\* While the calls stand still the mapping sees only what becomes final.
LEMMA CallsStandStill ==
    ASSUME call' = call
    PROVE  verdictOf' = verdictOf /\ handedTo' = handedTo
  BY DEF verdictOf, handedTo

LEMMA ReplyIsStutter ==
    ASSUME PaymentInvariant, NEW c \in Calls, NEW reply \in Replies,
           NEW sig \in Txs \cup {None},
           Pending(c), Reply(c, reply, sig), call' = call,
           ledger' = ledger \/ Send(job[c].tx)
    PROVE  PaymentInvariant' /\ ContractStep
<1> USE DEF PaymentInvariant
<1> DEFINE answered ==
      [tx |-> job[c].tx, network |-> job[c].network, reply |-> reply, sig |-> sig]
<1>1. job[c] \in Jobs /\ job' = [job EXCEPT ![c] = answered]
  BY DEF X402Type, FacilitatorType, Pending, Reply
<1>2. job'[c] = answered /\ \A d \in Calls : d # c => job'[d] = job[d]
  BY <1>1 DEF X402Type, FacilitatorType
<1>3. job'[c] \in Jobs /\ job'[c].tx = job[c].tx
  BY <1>1, <1>2 DEF Jobs
<1> DEFINE t == job[c].tx
<1>4. t \in Txs
  BY <1>1 DEF Jobs
<1>5. /\ ledger' \in [Txs -> TxStates]
      /\ \A u \in Txs : u # t => ledger'[u] = ledger[u]
      /\ ledger'[t] = "finalized" <=> ledger[t] = "finalized"
  <2>1. CASE ledger' = ledger
    BY <2>1 DEF X402Type, FacilitatorType
  <2>2. CASE Send(t)
    BY <1>4, <2>2 DEF Send, X402Type, FacilitatorType, TxStates
  <2> QED
    BY <2>1, <2>2
<1>6. X402Type'
  <2>1. job' \in [Calls -> Jobs \cup {None}]
    BY <1>1, <1>2, <1>3 DEF X402Type, FacilitatorType
  <2> QED
    BY <1>5, <2>1 DEF X402Type, FacilitatorType
<1>7. PostedWasAccepted'
  <2>1. \A d \in Calls : /\ job'[d] # None <=> job[d] # None
                         /\ job[d] # None => job'[d].tx = job[d].tx
    BY <1>1, <1>2, <1>3, NoneIsNoRecord
  <2> QED
    BY <2>1 DEF PostedWasAccepted
<1>8. OnlyAcceptedMoves'
  <2>1. /\ call[c].payload = [scheme |-> "exact", network |-> Network, tx |-> t]
        /\ call[c].pc # "idle"
    BY DEF PostedWasAccepted, Pending
  <2> QED
    BY <1>5, <2>1 DEF OnlyAcceptedMoves
<1>9. finalized' = finalized
  BY <1>5 DEF finalized
<1>10. ContractStep
  BY <1>9, CallsStandStill DEF ContractStep, Contract!contractVars
<1> QED
  BY <1>6, <1>7, <1>8, <1>10

LEMMA RestartIsStutter ==
    ASSUME PaymentInvariant, FacilitatorRestart, call' = call
    PROVE  PaymentInvariant' /\ ContractStep
<1> USE DEF PaymentInvariant
<1>1. \A d \in Calls : job'[d] = IF Pending(d) THEN [job[d] EXCEPT !.reply = "gone"] ELSE job[d]
  BY DEF FacilitatorRestart
<1>2. \A d \in Calls : Pending(d) => /\ job[d] \in Jobs /\ job'[d] \in Jobs
                                     /\ job'[d].tx = job[d].tx
  BY <1>1 DEF X402Type, FacilitatorType, Pending, Jobs, Replies
<1>3. X402Type'
  <2>1. \A d \in Calls : job'[d] \in Jobs \cup {None}
    BY <1>1, <1>2 DEF X402Type, FacilitatorType
  <2>2. job' \in [Calls -> Jobs \cup {None}]
    BY <2>1 DEF FacilitatorRestart
  <2> QED
    BY <2>2 DEF X402Type, FacilitatorType, FacilitatorRestart
<1>4. PostedWasAccepted'
  <2>1. \A d \in Calls : /\ job'[d] # None <=> job[d] # None
                         /\ job[d] # None => job'[d].tx = job[d].tx
    BY <1>1, <1>2, NoneIsNoRecord
  <2> QED
    BY <2>1 DEF PostedWasAccepted
<1>5. OnlyAcceptedMoves'
  BY AcceptedStays DEF FacilitatorRestart
<1>6. ContractStep
  BY CallsStandStill DEF ContractStep, Contract!contractVars, finalized, FacilitatorRestart
<1> QED
  BY <1>3, <1>4, <1>5, <1>6

LEMMA DecisionIsContract ==
    ASSUME PaymentInvariant, EarlierIsFinal, NEW t \in Txs, ChainDecides(t), call' = call
    PROVE  PaymentInvariant' /\ ContractStep
<1> USE DEF PaymentInvariant
<1>1. PICK s \in {"finalized", "failed", "expired"} : ledger' = [ledger EXCEPT ![t] = s]
  BY DEF ChainDecides
<1>2. /\ ledger[t] = "submitted" /\ ledger'[t] = s /\ job' = job
      /\ \A u \in Txs : u # t => ledger'[u] = ledger[u]
  BY <1>1 DEF ChainDecides, X402Type, FacilitatorType
<1>3. X402Type'
  BY <1>1, <1>2 DEF X402Type, FacilitatorType, TxStates
<1>4. PostedWasAccepted'
  BY <1>2 DEF PostedWasAccepted
<1>5. PICK c \in Calls :
        /\ call[c].payload = [scheme |-> "exact", network |-> Network, tx |-> t]
        /\ call[c].pc # "idle"
  BY <1>2 DEF OnlyAcceptedMoves, EarlierIsFinal
<1>6. OnlyAcceptedMoves'
  BY <1>2, <1>5 DEF OnlyAcceptedMoves
<1>7. CASE s = "finalized"
  <2>1. finalized' = finalized \cup {t}
    BY <1>2, <1>7 DEF finalized
  <2>2. call[c].payload # None /\ call[c].payload.tx = t
    BY <1>5, NoneIsNoRecord, PaymentAssumption DEF Payloads
  <2>3. handedTo[c] = [payment |-> t, total |-> call[c].total]
    BY <1>5, <2>2 DEF handedTo
  <2>4. verdictOf[c] # "none"
    <3>1. call[c].pc \in Waits \cup {"idle", "ok", "error"}
      BY DEF X402Type, CallRecords
    <3> QED
      BY <1>5, <3>1 DEF verdictOf
  <2>5. handedTo[c].payment = t /\ t # None
    BY <2>3, PaymentAssumption
  <2>6. Contract!Settle(c)
    BY <2>1, <2>4, <2>5, CallsStandStill DEF Contract!Settle
  <2> QED
    BY <1>3, <1>4, <1>6, <2>6 DEF ContractStep, Contract!ContractNext
<1>8. CASE s # "finalized"
  <2>1. finalized' = finalized
    BY <1>2, <1>8 DEF finalized
  <2> QED
    BY <1>3, <1>4, <1>6, <2>1, CallsStandStill DEF ContractStep, Contract!contractVars
<1> QED
  BY <1>7, <1>8

LEMMA FacilitatorStepIsContract ==
    ASSUME PaymentInvariant, EarlierIsFinal, FacilitatorNext, call' = call
    PROVE  PaymentInvariant' /\ ContractStep
<1>1. ASSUME NEW c \in Calls,
             JobStep(c) \/ \E sig \in Txs \cup {None} : Misreports(c, sig)
      PROVE  PaymentInvariant' /\ ContractStep
  <2>1. Pending(c) /\ (ledger' = ledger \/ Send(job[c].tx))
    BY <1>1 DEF JobStep, SettleSucceeds, SendsAndFails, SettleFails, Misreports
  <2>2. job[c].tx \in Txs
    BY <2>1 DEF Pending, PaymentInvariant, X402Type, FacilitatorType, Jobs
  <2>3. \E reply \in Replies, sig \in Txs \cup {None} : Reply(c, reply, sig)
    BY <1>1, <2>2
       DEF JobStep, SettleSucceeds, SendsAndFails, SettleFails, Misreports, Replies
  <2> QED
    BY <2>1, <2>3, ReplyIsStutter
<1>2. CASE FacilitatorRestart
  BY <1>2, RestartIsStutter
<1>3. ASSUME NEW t \in Txs, ChainDecides(t) PROVE PaymentInvariant' /\ ContractStep
  BY <1>3, DecisionIsContract
<1> QED
  BY <1>1, <1>2, <1>3 DEF FacilitatorNext

-----------------------------------------------------------------------------

LEMMA InitIsContract == X402Init => PaymentInvariant /\ EarlierIsFinal /\ Contract!ContractInit
<1> SUFFICES ASSUME X402Init PROVE PaymentInvariant /\ EarlierIsFinal /\ Contract!ContractInit
  OBVIOUS
<1> USE DEF X402Init, FacilitatorInit
<1>1. [pc |-> "idle", payload |-> None, total |-> 0] \in CallRecords
  BY DEF CallRecords
<1>2. X402Type
  BY <1>1 DEF X402Type, FacilitatorType, TxStates
<1>3. PostedWasAccepted /\ OnlyAcceptedMoves
  BY DEF PostedWasAccepted, OnlyAcceptedMoves, Waits
<1>4. Contract!ContractInit
  BY EarlierAssumption DEF Contract!ContractInit, verdictOf, handedTo, finalized
<1> QED
  BY <1>2, <1>3, <1>4, EarlierAssumption DEF PaymentInvariant, EarlierIsFinal

\* What is final stays final.
LEMMA FinalStaysFinal ==
    ASSUME PaymentInvariant, [X402Next]_x402Vars, NEW t \in Txs, ledger[t] = "finalized"
    PROVE  ledger'[t] = "finalized"
<1>1. ledger \in [Txs -> TxStates]
  BY DEF PaymentInvariant, X402Type, FacilitatorType
<1>2. ASSUME NEW u, Send(u) PROVE ledger'[t] = "finalized"
  BY <1>1, <1>2 DEF Send
<1>3. ASSUME NEW u \in Txs, ChainDecides(u) PROVE ledger'[t] = "finalized"
  BY <1>1, <1>3 DEF ChainDecides
<1>4. CASE FacilitatorNext
  BY <1>2, <1>3, <1>4 DEF FacilitatorNext, JobStep, SettleSucceeds, SendsAndFails,
     SettleFails, Misreports, FacilitatorRestart
<1>5. CASE ~FacilitatorNext
  BY <1>5 DEF X402Next, x402Vars, VerifyAndSettle, CallStep, FetchFeePayer, PostSettle,
     Unreachable, ReadReply, VerifyOnChain, GiveUp, LoseReply, Drop
<1> QED
  BY <1>4, <1>5

LEMMA StepIsContract ==
    ASSUME PaymentInvariant, EarlierIsFinal, [X402Next]_x402Vars
    PROVE  PaymentInvariant' /\ EarlierIsFinal' /\ ContractStep
<1>1. ASSUME NEW c \in Calls, NEW payload \in Payloads \cup {None}, NEW total \in Totals,
             VerifyAndSettle(c, payload, total)
      PROVE  PaymentInvariant' /\ ContractStep
  BY <1>1, BeginIsContract
<1>2. ASSUME NEW c \in Calls, CallStep(c) \/ LoseReply(c) \/ Drop(c)
      PROVE  PaymentInvariant' /\ ContractStep
  BY <1>2, CallStepIsContract
<1>3. ASSUME FacilitatorNext, UNCHANGED call
      PROVE  PaymentInvariant' /\ ContractStep
  BY <1>3, FacilitatorStepIsContract
<1>4. ASSUME UNCHANGED x402Vars
      PROVE  PaymentInvariant' /\ ContractStep
  <2>1. PaymentInvariant'
    BY <1>4 DEF x402Vars, PaymentInvariant, X402Type, FacilitatorType,
                PostedWasAccepted, OnlyAcceptedMoves
  <2>2. ContractStep
    BY <1>4, CallsStandStill DEF x402Vars, ContractStep, Contract!contractVars, finalized
  <2> QED
    BY <2>1, <2>2
<1>5. EarlierIsFinal'
  BY FinalStaysFinal, EarlierAssumption DEF EarlierIsFinal
<1> QED
  BY <1>1, <1>2, <1>3, <1>4, <1>5 DEF X402Next

\* What is posted and what moved was accepted, in every reachable state.
THEOREM PaymentInvariantHolds == X402Spec => [](PaymentInvariant /\ EarlierIsFinal)
<1>1. PaymentInvariant /\ EarlierIsFinal /\ [X402Next]_x402Vars
        => PaymentInvariant' /\ EarlierIsFinal'
  BY StepIsContract
<1> QED
  BY InitIsContract, <1>1, PTL DEF X402Spec

\* Nothing moves that the handler did not accept.
THEOREM NothingElseMoves == X402Spec => []OnlyAcceptedMoves
<1>1. PaymentInvariant => OnlyAcceptedMoves
  BY DEF PaymentInvariant
<1> QED
  BY <1>1, PaymentInvariantHolds, PTL

\* The x402 handler implements the contract of PaymentHandler, whatever
\* transaction the facilitator names and whether it sends the one it was given.
THEOREM X402ImplementsContract == X402Spec => ImplementsContract
<1>1. PaymentInvariant /\ EarlierIsFinal /\ [X402Next]_x402Vars
        => [Contract!ContractNext]_(Contract!contractVars)
  BY StepIsContract DEF ContractStep
<1> QED
  BY InitIsContract, <1>1, PaymentInvariantHolds, PTL
  DEF X402Spec, ImplementsContract, Contract!ContractSpec

-----------------------------------------------------------------------------
(* What an Ok is about.                                                    *)

OkInvariant == SuccessWasTold /\ OkIsOfItsPayment

\* An answer that was given is not given again.
LEMMA AnswerStays ==
    ASSUME PaymentInvariant, FacilitatorNext, NEW c \in Calls, ~Pending(c)
    PROVE  job'[c] = job[c]
<1>1. job \in [Calls -> Jobs \cup {None}]
  BY DEF PaymentInvariant, X402Type, FacilitatorType
<1>2. ASSUME NEW d \in Calls, JobStep(d) \/ \E sig \in Txs \cup {None} : Misreports(d, sig)
      PROVE  job'[c] = job[c]
  BY <1>1, <1>2 DEF JobStep, SettleSucceeds, SendsAndFails, SettleFails, Misreports, Reply
<1> QED
  BY <1>1, <1>2 DEF FacilitatorNext, FacilitatorRestart, ChainDecides

\* A call that polls or has said Ok did so before, or was just told of a success,
\* or has just found the named transaction on chain.
LEMMA ComesFrom ==
    ASSUME PaymentInvariant, SuccessWasTold, [X402Next]_x402Vars, NEW c \in Calls,
           call'[c].pc \in {"polling", "ok"}
    PROVE  /\ job'[c] = job[c] /\ job[c] # None /\ job[c].reply = "success"
           /\ call'[c].payload = call[c].payload /\ call'[c].total = call[c].total
           /\ \/ call'[c] = call[c]
              \/ call'[c].pc = "polling"
              \/ ledger' = ledger /\ Verified(job[c].sig, call[c].total)
<1>1. /\ call \in [Calls -> CallRecords] /\ job \in [Calls -> Jobs \cup {None}]
      /\ \A pc : GoTo(c, pc) => /\ call'[c].pc = pc
                                /\ call'[c].payload = call[c].payload
                                /\ call'[c].total = call[c].total
  BY DEF PaymentInvariant, X402Type, FacilitatorType, CallRecords, GoTo
<1>2. CASE call'[c] = call[c]
  <2>1. job[c] # None /\ job[c].reply = "success" /\ ~Pending(c)
    BY <1>2 DEF SuccessWasTold, Pending
  <2>2. job'[c] = job[c]
    <3>1. ASSUME NEW d \in Calls, PostSettle(d) PROVE d # c
      BY <1>1, <1>2, <3>1 DEF PostSettle
    <3>2. CASE FacilitatorNext
      BY <2>1, <3>2, AnswerStays
    <3> QED
      BY <1>1, <3>1, <3>2 DEF X402Next, x402Vars, VerifyAndSettle, CallStep, FetchFeePayer,
         PostSettle, Unreachable, ReadReply, VerifyOnChain, GiveUp, LoseReply, Drop
  <2> QED
    BY <1>2, <2>1, <2>2
<1>3. CASE call'[c] # call[c]
  <2>1. ReadReply(c) \/ VerifyOnChain(c)
    <3>1. ASSUME NEW d \in Calls, d # c, NEW pc, GoTo(d, pc) PROVE FALSE
      BY <1>1, <1>3, <3>1 DEF GoTo
    <3>2. ASSUME NEW d \in Calls, NEW payload, NEW total, VerifyAndSettle(d, payload, total)
          PROVE  FALSE
      BY <1>1, <1>3, <3>2 DEF VerifyAndSettle
    <3>3. \A pc : GoTo(c, pc) => pc \in {"polling", "ok"}
      BY <1>1
    <3> QED
      BY <1>3, <3>1, <3>2, <3>3 DEF X402Next, x402Vars, CallStep, FetchFeePayer, PostSettle,
         Unreachable, ReadReply, VerifyOnChain, GiveUp, LoseReply, Drop
  <2>2. CASE ReadReply(c)
    <3>1. call[c].pc = "waiting" /\ UNCHANGED <<job, ledger>>
      BY <2>2 DEF ReadReply
    <3>2. job[c] # None
      BY <3>1 DEF PaymentInvariant, PostedWasAccepted
    <3>3. job[c].reply = "success" /\ GoTo(c, "polling")
      BY <1>1, <2>2 DEF ReadReply
    <3> QED
      BY <1>1, <3>1, <3>2, <3>3
  <2>3. CASE VerifyOnChain(c)
    <3>1. call[c].pc = "polling" /\ UNCHANGED <<job, ledger>>
      BY <2>3 DEF VerifyOnChain
    <3>2. job[c] # None /\ job[c].reply = "success"
      BY <3>1 DEF SuccessWasTold
    <3>3. Verified(job[c].sig, call[c].total) /\ GoTo(c, "ok")
      BY <1>1, <2>3 DEF VerifyOnChain
    <3> QED
      BY <1>1, <3>1, <3>2, <3>3
  <2> QED
    BY <2>1, <2>2, <2>3
<1> QED
  BY <1>2, <1>3

LEMMA OkInvariantKept ==
    ASSUME PaymentInvariant, OkInvariant, [X402Next]_x402Vars
    PROVE  OkInvariant'
<1> USE DEF OkInvariant
<1>1. SuccessWasTold'
  BY ComesFrom DEF SuccessWasTold
<1>2. ASSUME NEW c \in Calls, call'[c].pc = "ok", job'[c].sig = job'[c].tx
      PROVE  Verified(call[c].payload.tx, call[c].total)'
  <2>1. /\ job'[c] = job[c] /\ job[c] # None
        /\ call'[c].payload = call[c].payload /\ call'[c].total = call[c].total
        /\ \/ call'[c] = call[c]
           \/ ledger' = ledger /\ Verified(job[c].sig, call[c].total)
    BY <1>2, ComesFrom
  <2>2. call[c].payload.tx = job[c].tx /\ job[c].tx \in Txs
    <3>1. job[c] # None /\ job[c] \in Jobs
      BY <2>1 DEF PaymentInvariant, X402Type, FacilitatorType
    <3>2. call[c].payload = [scheme |-> "exact", network |-> Network, tx |-> job[c].tx]
      BY <3>1 DEF PaymentInvariant, PostedWasAccepted
    <3>3. job[c].tx \in Txs
      BY <3>1 DEF Jobs
    <3> QED
      BY <3>2, <3>3
  <2>3. Verified(call[c].payload.tx, call[c].total)
    BY <1>2, <2>1, <2>2 DEF OkIsOfItsPayment
  <2>4. ledger'[call[c].payload.tx] = "finalized"
    BY <2>2, <2>3, FinalStaysFinal DEF Verified
  <2> QED
    BY <2>1, <2>3, <2>4 DEF Verified
<1>3. OkIsOfItsPayment'
  BY <1>2 DEF OkIsOfItsPayment
<1> QED
  BY <1>1, <1>3

\* With a facilitator that names the transaction it was given, Ok is of the call's
\* own payment.
THEOREM OkIsOwn == X402Spec => []OkIsOfItsPayment
<1>1. X402Init => OkInvariant
  BY DEF X402Init, OkInvariant, SuccessWasTold, OkIsOfItsPayment
<1>2. PaymentInvariant /\ OkInvariant /\ [X402Next]_x402Vars => OkInvariant'
  BY OkInvariantKept
<1>3. OkInvariant => OkIsOfItsPayment
  BY DEF OkInvariant
<1> QED
  BY <1>1, <1>2, <1>3, PaymentInvariantHolds, PTL DEF X402Spec

=============================================================================
