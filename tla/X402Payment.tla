---------------------------- MODULE X402Payment ----------------------------
(***************************************************************************)
(* verify_and_settle of the x402 handler (payments/x402_solana.rs), await  *)
(* by await, over the facilitator:                                         *)
(*                                                                         *)
(*   idle -> supported -> posting -> waiting -> polling -> ok | error      *)
(*                                                                         *)
(* MerchantServer has the calls that reach the facilitator, as steps of a  *)
(* handler; here are the checks of the payment header before them, and the *)
(* facilitator runs beside the handler.  When the poll asks is the subject *)
(* of PollSchedule and what it finds of TokenBalances: here it gives up at *)
(* some time, and a transaction is worth a fixed amount.                   *)
(***************************************************************************)
EXTENDS Facilitator

CONSTANTS
    Schemes,  \* payment schemes in the payloads, "exact" among them
    Network,  \* the network of this handler
    Amount,   \* transaction -> what it pays the merchant in USDC
    Totals    \* totals of the checkouts

ASSUME PaymentAssumption ==
    /\ "exact" \in Schemes
    /\ Network \in SolanaNetworks /\ SolanaNetworks \subseteq Networks
    /\ Amount \in [Txs -> Nat]
    /\ Totals \subseteq Nat
    /\ None \notin Txs

\* The header, decoded: scheme and network are those the payload says were
\* accepted.
Payloads == [scheme : Schemes, network : Networks, tx : Txs]

ASSUME NoneIsNoRecord == None \notin Payloads /\ None \notin Jobs

VARIABLE call  \* call -> where it is, its payload (None: garbled), its total

x402Vars == <<call, job, ledger>>

Waits == {"supported", "posting", "waiting", "polling"}

CallRecords ==
    [ pc : Waits \cup {"idle", "ok", "error"},
      payload : Payloads \cup {None},
      total : Totals \cup {0} ]

X402Type == FacilitatorType /\ call \in [Calls -> CallRecords]

X402Init ==
    /\ FacilitatorInit
    /\ call = [c \in Calls |-> [pc |-> "idle", payload |-> None, total |-> 0]]

-----------------------------------------------------------------------------

GoTo(c, pc) == call' = [call EXCEPT ![c].pc = pc]

\* A check that leaves the scheme to the facilitator.
AcceptsAnyScheme(payload) == payload # None /\ payload.network = Network

\* base64 and JSON decode, and the scheme and the network are this handler's.
Accepts(payload) ==
    /\ payload # None
    /\ payload.scheme = "exact"
    /\ payload.network = Network

VerifyAndSettle(c, payload, total) ==
    /\ call[c].pc = "idle"
    /\ call' = [call EXCEPT ![c] =
                  [ pc      |-> IF Accepts(payload) THEN "supported" ELSE "error",
                    payload |-> payload,
                    total   |-> total ]]
    /\ UNCHANGED <<job, ledger>>

\* GET /supported answers or not: the requirements are built all the same.
FetchFeePayer(c) ==
    /\ call[c].pc = "supported"
    /\ GoTo(c, "posting")
    /\ UNCHANGED <<job, ledger>>

PostSettle(c) ==
    /\ call[c].pc = "posting"
    /\ GoTo(c, "waiting")
    /\ job' = [job EXCEPT ![c] = [ tx      |-> call[c].payload.tx,
                                   network |-> call[c].payload.network,
                                   reply   |-> "pending",
                                   sig     |-> None ]]
    /\ UNCHANGED ledger

Unreachable(c) ==
    /\ call[c].pc = "posting"
    /\ GoTo(c, "error")
    /\ UNCHANGED <<job, ledger>>

\* A success is followed by the poll; a failure is a 400; else no answer.
ReadReply(c) ==
    /\ call[c].pc = "waiting"
    /\ ~Pending(c)
    /\ GoTo(c, IF job[c].reply = "success" THEN "polling" ELSE "error")
    /\ UNCHANGED <<job, ledger>>

\* The connection breaks, or the answer does not parse.
LoseReply(c) ==
    /\ call[c].pc = "waiting"
    /\ GoTo(c, "error")
    /\ UNCHANGED <<job, ledger>>

OnChain(t) == ledger[t] \in {"finalized", "failed"}

\* A handler that trusts settle_resp.success.
BelievesFacilitator(c) ==
    LET k == call[c]
    IN  /\ k.pc = "polling"
        /\ GoTo(c, "ok")
        /\ UNCHANGED <<job, ledger>>

Verified(t, total) == ledger[t] = "finalized" /\ Amount[t] >= total

\* A check that looks for any transfer to the merchant that is large enough.
VerifyAnyTransfer(c) ==
    /\ call[c].pc = "polling"
    /\ \E t \in Txs :
          /\ OnChain(t)
          /\ GoTo(c, IF Verified(t, call[c].total) THEN "ok" ELSE "error")
    /\ UNCHANGED <<job, ledger>>

\* The transaction the facilitator named is looked up, not the one in the header.
VerifyOnChain(c) ==
    LET t == job[c].sig
    IN  /\ call[c].pc = "polling"
        /\ t # None /\ OnChain(t)
        /\ GoTo(c, IF Verified(t, call[c].total) THEN "ok" ELSE "error")
        /\ UNCHANGED <<job, ledger>>

\* The attempts are used up, or what the facilitator named is no signature.
GiveUp(c) ==
    /\ call[c].pc = "polling"
    /\ GoTo(c, "error")
    /\ UNCHANGED <<job, ledger>>

\* The client is gone and the handler is dropped.
Drop(c) ==
    /\ call[c].pc \in Waits
    /\ GoTo(c, "error")
    /\ UNCHANGED <<job, ledger>>

CallStep(c) ==
    \/ FetchFeePayer(c) \/ PostSettle(c) \/ Unreachable(c) \/ ReadReply(c)
    \/ VerifyOnChain(c) \/ GiveUp(c)

X402Next ==
    \/ \E c \in Calls :
          \/ \E payload \in Payloads \cup {None}, total \in Totals :
                VerifyAndSettle(c, payload, total)
          \/ CallStep(c)
          \/ LoseReply(c)
          \/ Drop(c)
    \/ FacilitatorNext /\ UNCHANGED call

X402Spec == X402Init /\ [][X402Next]_x402Vars

-----------------------------------------------------------------------------

\* The refinement mapping to the contract of the trait.
verdictOf ==
    [c \in Calls |-> IF call[c].pc = "idle" THEN "none"
                     ELSE IF call[c].pc \in Waits THEN "running" ELSE call[c].pc]

handedTo ==
    [c \in Calls |->
        IF call[c].pc = "idle" THEN None
        ELSE [ payment |-> IF call[c].payload = None THEN None ELSE call[c].payload.tx,
               total   |-> call[c].total ]]

finalized == { t \in Txs : ledger[t] = "finalized" }

Contract == INSTANCE PaymentContract
              WITH Payments <- Txs, verdict <- verdictOf, handed <- handedTo,
                   settled <- finalized

(***************************************************************************)
(* The x402 handler implements the contract of PaymentHandler: whatever    *)
(* the facilitator answers, and whenever it or the client goes away, Ok is *)
(* said only on the strength of a finalized transaction that pays the      *)
(* total, and no transaction moves that no call was handed.  A facilitator *)
(* cannot make the handler believe in money that is not there; it can make *)
(* it take another payment for this one.                                   *)
(***************************************************************************)
ImplementsContract == Contract!ContractSpec

(***************************************************************************)
(* A transaction reaches the chain only when some call accepted it for the *)
(* scheme and on the network of this handler: a payload the handler        *)
(* refuses is not settled, although the facilitator, which checks only for *)
(* "solana:", would settle it.                                             *)
(***************************************************************************)
OnlyAcceptedMoves ==
    \A t \in Txs \ Earlier : ledger[t] # "signed" =>
        \E c \in Calls :
            /\ call[c].payload = [scheme |-> "exact", network |-> Network, tx |-> t]
            /\ call[c].pc # "idle"

(***************************************************************************)
(* With a facilitator that names the transaction it was given, as the      *)
(* repository's does, Ok means that this call's own transaction is final   *)
(* and covers the total: not an earlier one, and not another call's, which *)
(* may be settling beside it.                                              *)
(***************************************************************************)
OkIsOfItsPayment ==
    \A c \in Calls : call[c].pc = "ok" /\ job[c].sig = job[c].tx =>
        Verified(call[c].payload.tx, call[c].total)

(***************************************************************************)
(* "re-serialize checkout requirements so the facilitator can cross-check  *)
(* amount/recipient": what a call submits pays the total of its checkout.  *)
(***************************************************************************)
UnderpaidNotSubmitted ==
    \A c \in Calls :
        /\ job[c] # None
        /\ job[c].reply = "success" /\ job[c].sig = job[c].tx
        /\ ledger[job[c].tx] # "signed"
        => Amount[job[c].tx] >= call[c].total

(***************************************************************************)
(* What the refinement rests on: a posted job is that of an accepted call, *)
(* and so is every transaction that left the buyer's hands.                *)
(***************************************************************************)
PostedWasAccepted ==
    \A c \in Calls :
        /\ call[c].pc \in Waits \cup {"ok"} =>
              \E t \in Txs : call[c].payload = [scheme |-> "exact", network |-> Network, tx |-> t]
        /\ job[c] # None =>
              /\ call[c].payload = [scheme |-> "exact", network |-> Network, tx |-> job[c].tx]
              /\ call[c].pc # "idle"
        /\ call[c].pc \in {"waiting", "polling"} => job[c] # None

\* The answer a call went on with does not change any more.
SuccessWasTold ==
    \A c \in Calls : call[c].pc \in {"polling", "ok"} =>
        job[c] # None /\ job[c].reply = "success"

=============================================================================
