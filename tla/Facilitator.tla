---------------------------- MODULE Facilitator ----------------------------
(***************************************************************************)
(* The facilitator (x402-facilitator-demo/facilitator/src/facilitator.ts), *)
(* a process of its own, with Kora and the chain behind it.  POST /settle  *)
(* hands the transaction to Kora, which signs it as the fee payer and      *)
(* sends it; the job goes on when the server has stopped waiting for it.   *)
(* GET /supported and POST /verify only reply: the second has Kora sign    *)
(* the transaction and drops what it signed.                               *)
(*                                                                         *)
(* The server may be pointed at any facilitator, and means not to trust    *)
(* it: beside the repository's there is one that answers what it likes.    *)
(***************************************************************************)
EXTENDS Integers

CONSTANTS
    Calls,           \* the calls of verify_and_settle, each of one /settle
    Txs,             \* transactions: those buyers have signed, and
    Earlier,         \* those that were final before any of these calls
    Networks,        \* network identifiers in the payloads
    SolanaNetworks,  \* those that start with "solana:"
    None

ASSUME EarlierAssumption == Earlier \subseteq Txs

VARIABLES
    job,    \* call -> the /settle it posted and the answer to it, or None
    ledger  \* transaction -> how far it got

Replies == {"pending", "success", "failure", "gone"}

\* sig: the transaction whose signature the answer names; None in a failure, and
\* for a text that is no signature.
Jobs == [tx : Txs, network : Networks, reply : Replies, sig : Txs \cup {None}]

TxStates == {"signed", "submitted", "finalized", "failed", "expired"}

FacilitatorType ==
    /\ job \in [Calls -> Jobs \cup {None}]
    /\ ledger \in [Txs -> TxStates]

FacilitatorInit ==
    /\ job = [c \in Calls |-> None]
    /\ ledger = [t \in Txs |-> IF t \in Earlier THEN "finalized" ELSE "signed"]

-----------------------------------------------------------------------------

Pending(c) == job[c] # None /\ job[c].reply = "pending"

Reply(c, reply, sig) ==
    job' = [job EXCEPT ![c] =
              [tx |-> job[c].tx, network |-> job[c].network, reply |-> reply, sig |-> sig]]

\* Kora sends the transaction.  One that was sent before has its signature.
Send(t) ==
    /\ ledger[t] # "expired"
    /\ ledger' = [ledger EXCEPT ![t] = IF @ = "signed" THEN "submitted" ELSE @]

\* signAndSendTransaction returns a signature.  The requirements that came
\* with the payload are not looked at.
SettleSucceeds(c) ==
    /\ Pending(c)
    /\ job[c].network \in SolanaNetworks
    /\ Send(job[c].tx)
    /\ Reply(c, "success", job[c].tx)

\* Kora sends the transaction and the call of Kora fails all the same.
SendsAndFails(c) ==
    /\ Pending(c)
    /\ job[c].network \in SolanaNetworks
    /\ Send(job[c].tx)
    /\ Reply(c, "failure", None)

\* Another network, Kora refuses or is not there: 400.
SettleFails(c) ==
    /\ Pending(c)
    /\ Reply(c, "failure", None)
    /\ UNCHANGED ledger

\* Another facilitator says that it settled some transaction, which need not be
\* the one it was given, nor one that was sent.
Misreports(c, sig) ==
    /\ Pending(c)
    /\ Send(job[c].tx) \/ UNCHANGED ledger
    /\ Reply(c, "success", sig)

\* The process stops and is started again: the connections are gone.
FacilitatorRestart ==
    /\ \E c \in Calls : Pending(c)
    /\ job' = [c \in Calls |-> IF Pending(c) THEN [job[c] EXCEPT !.reply = "gone"] ELSE job[c]]
    /\ UNCHANGED ledger

ChainDecides(t) ==
    /\ ledger[t] = "submitted"
    /\ \E s \in {"finalized", "failed", "expired"} : ledger' = [ledger EXCEPT ![t] = s]
    /\ UNCHANGED job

JobStep(c) == SettleSucceeds(c) \/ SendsAndFails(c) \/ SettleFails(c)

FacilitatorNext ==
    \/ \E c \in Calls : JobStep(c) \/ \E sig \in Txs \cup {None} : Misreports(c, sig)
    \/ FacilitatorRestart
    \/ \E t \in Txs : ChainDecides(t)

=============================================================================
