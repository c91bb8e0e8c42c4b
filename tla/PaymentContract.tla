--------------------------- MODULE PaymentContract ---------------------------
(***************************************************************************)
(* What the routes rely on of any PaymentHandler (payments/mod.rs): a call *)
(* of verify_and_settle is handed a payment and a total; it says Ok only   *)
(* when some settled payment covers the total, and nothing is settled that *)
(* no call was handed.  That the settled payment is the one it was handed, *)
(* or one that was not used before, it does not promise; nor does an error *)
(* promise anything: the payment may settle later, or may have.            *)
(***************************************************************************)
EXTENDS Integers

CONSTANTS
    Calls,     \* calls of verify_and_settle, one after another or at a time
    Payments,
    Earlier,   \* payments that moved before any of these calls
    Amount,    \* payment -> what it pays the merchant
    Totals,
    None

VARIABLES
    verdict,  \* call -> "none", "running", "ok" or "error"
    handed,   \* call -> its payment and total, None before it
    settled   \* the payments that moved

contractVars == <<verdict, handed, settled>>

ContractInit ==
    /\ verdict = [c \in Calls |-> "none"]
    /\ handed = [c \in Calls |-> None]
    /\ settled = Earlier

\* The header need not hold a payment: None.
Begin(c, payment, total) ==
    /\ verdict[c] = "none"
    /\ \E v \in {"running", "error"} : verdict' = [verdict EXCEPT ![c] = v]
    /\ handed' = [handed EXCEPT ![c] = [payment |-> payment, total |-> total]]
    /\ UNCHANGED settled

Settle(c) ==
    /\ verdict[c] # "none"
    /\ handed[c].payment # None
    /\ settled' = settled \cup {handed[c].payment}
    /\ UNCHANGED <<verdict, handed>>

SayOk(c) ==
    /\ verdict[c] = "running"
    /\ \E payment \in settled : Amount[payment] >= handed[c].total
    /\ verdict' = [verdict EXCEPT ![c] = "ok"]
    /\ UNCHANGED <<handed, settled>>

SayError(c) ==
    /\ verdict[c] = "running"
    /\ verdict' = [verdict EXCEPT ![c] = "error"]
    /\ UNCHANGED <<handed, settled>>

ContractNext ==
    \E c \in Calls :
        \/ \E payment \in Payments \cup {None}, total \in Totals : Begin(c, payment, total)
        \/ Settle(c)
        \/ SayOk(c)
        \/ SayError(c)

ContractSpec == ContractInit /\ [][ContractNext]_contractVars

=============================================================================
