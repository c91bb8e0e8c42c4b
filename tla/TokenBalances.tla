--------------------------- MODULE TokenBalances ---------------------------
(***************************************************************************)
(* What verify_payment_on_chain (payments/x402_solana.rs) concludes from   *)
(* the token balances a final transaction reports: the merchant's balance  *)
(* before and after, found by mint and owner, and their difference.        *)
(*                                                                         *)
(* The accounts a transaction names are numbered in its order.  The        *)
(* metadata lists the token accounts among them, in that order, as they    *)
(* were before and as they are after.  The runtime executes a transaction  *)
(* of transfers and of openings and closings of accounts; it is signed by  *)
(* a buyer and by Kora, so it takes nothing from the merchant.             *)
(***************************************************************************)
EXTENDS Integers

CONSTANTS
    Positions,  \* positions of the accounts in the transaction
    Owners,     \* wallets that own token accounts
    Mints,      \* tokens
    Merchant,   \* merchant_wallet
    Usdc,       \* usdc_mint
    Supply,     \* no balance of a token is larger
    None

ASSUME BalanceAssumption ==
    /\ Positions \subseteq Nat
    /\ Merchant \in Owners
    /\ Usdc \in Mints
    /\ Supply \in Nat

TokenAccounts == [owner : Owners, mint : Mints, amount : 0 .. Supply]

ASSUME NoneIsNoAccount == None \notin TokenAccounts

VARIABLES
    phase,    \* "idle", "running" or "final": the transaction
    account,  \* position -> token account, or None
    before,   \* the accounts when the transaction began
    meta      \* what the RPC reports: an error, the list before, the list after

balanceVars == <<phase, account, before, meta>>

\* err: the transaction failed; pre, post: the list of balances is in the answer.
Metas == [err : BOOLEAN, pre : BOOLEAN, post : BOOLEAN]

BalanceType ==
    /\ phase \in {"idle", "running", "final"}
    /\ account \in [Positions -> TokenAccounts \cup {None}]
    /\ before \in [Positions -> TokenAccounts \cup {None}]
    /\ meta \in Metas

BalanceInit ==
    /\ phase = "idle"
    /\ account \in [Positions -> TokenAccounts \cup {None}]
    /\ before = account
    /\ meta = [err |-> FALSE, pre |-> FALSE, post |-> FALSE]

-----------------------------------------------------------------------------
(* The runtime.                                                            *)

BeginTransaction ==
    /\ phase # "running"
    /\ phase' = "running"
    /\ before' = account
    /\ UNCHANGED <<account, meta>>

Signs(owner) == owner # Merchant

Transfer(p, q, n) ==
    /\ phase = "running"
    /\ p # q /\ account[p] # None /\ account[q] # None
    /\ account[p].mint = account[q].mint
    /\ Signs(account[p].owner)
    /\ n <= account[p].amount /\ account[q].amount + n <= Supply
    /\ account' = [account EXCEPT ![p].amount = @ - n, ![q].amount = @ + n]
    /\ UNCHANGED <<phase, before, meta>>

\* Anyone can open a token account, also for the merchant.
OpenAccount(p, owner, mint) ==
    /\ phase = "running"
    /\ account[p] = None
    /\ account' = [account EXCEPT ![p] = [owner |-> owner, mint |-> mint, amount |-> 0]]
    /\ UNCHANGED <<phase, before, meta>>

CloseAccount(p) ==
    /\ phase = "running"
    /\ account[p] # None
    /\ account[p].amount = 0 /\ Signs(account[p].owner)
    /\ account' = [account EXCEPT ![p] = None]
    /\ UNCHANGED <<phase, before, meta>>

\* A failed transaction moves nothing.  Each list of balances may be missing from
\* what the RPC reports.
Finalize ==
    /\ phase = "running"
    /\ phase' = "final"
    /\ meta' \in Metas
    /\ account' = IF meta'.err THEN before ELSE account
    /\ UNCHANGED before

BalanceNext ==
    \/ BeginTransaction
    \/ Finalize
    \/ \E p \in Positions :
          \/ \E q \in Positions, n \in 1 .. Supply : Transfer(p, q, n)
          \/ \E owner \in Owners, mint \in Mints : OpenAccount(p, owner, mint)
          \/ CloseAccount(p)

BalanceSpec == BalanceInit /\ [][BalanceNext]_balanceVars

-----------------------------------------------------------------------------
(* The handler.                                                            *)

\* The answer's pre_token_balances or post_token_balances: a missing list is empty.
Reported(accounts, listed) ==
    IF listed THEN accounts ELSE [p \in Positions |-> None]

\* The positions of the entries of the merchant's owner, of any mint.
MerchantEntriesOfAnyMint(balances) ==
    { p \in Positions : balances[p] # None /\ balances[p].owner = Merchant }

MerchantEntries(balances) ==
    { p \in Positions : /\ balances[p] # None
                        /\ balances[p].mint = Usdc
                        /\ balances[p].owner = Merchant }

FirstOf(S) == CHOOSE p \in S : \A q \in S : p <= q

FindMerchantBalance(balances) ==
    LET mine == MerchantEntries(balances)
    IN  IF mine = {} THEN 0 ELSE balances[FirstOf(mine)].amount

\* A subtraction that does not stop at zero.
AbsoluteDifference(a, b) == IF a >= b THEN a - b ELSE b - a

SaturatingSub(a, b) == IF a >= b THEN a - b ELSE 0

Delta == SaturatingSub(FindMerchantBalance(Reported(account, meta.post)),
                       FindMerchantBalance(Reported(before, meta.pre)))

VerifyPayment(required) == ~meta.err /\ Delta >= required

-----------------------------------------------------------------------------

\* An account of the merchant's wallet that holds USDC.
HoldsUsdc(accounts, p) ==
    /\ accounts[p] # None
    /\ accounts[p].owner = Merchant
    /\ accounts[p].mint = Usdc

\* The transaction added at least n to the merchant's account at p, which it
\* may have opened itself.
Received(p, n) ==
    /\ HoldsUsdc(account, p)
    /\ account[p].amount >= n + (IF HoldsUsdc(before, p) THEN before[p].amount ELSE 0)

(***************************************************************************)
(* A payment is accepted only if the transaction added the required amount *)
(* to one account of the merchant's, also when accounts are opened and     *)
(* closed by the transaction, when the merchant has several, and when the  *)
(* balances after it, or both lists, are missing.  The list before may not *)
(* be the only one that is missing (see DeltaIsReceived).  (Any            *)
(* transaction covers a total of zero.)                                    *)
(***************************************************************************)
VerifiedIsReceived ==
    phase = "final" /\ (meta.post => meta.pre) =>
        \A n \in 1 .. Supply :
            VerifyPayment(n) => \E p \in Positions : Received(p, n)

(***************************************************************************)
(* "What matters is the delta, not the absolute balance": what is accepted *)
(* was received, whichever lists the RPC reports.  It does not hold: an    *)
(* answer with the list after and without the list before makes the whole  *)
(* balance the difference.                                                 *)
(***************************************************************************)
DeltaIsReceived ==
    phase = "final" => \A n \in 1 .. Supply :
        VerifyPayment(n) => \E p \in Positions : Received(p, n)

(***************************************************************************)
(* With one account of the merchant's in a transaction whose balances      *)
(* after it are reported, every amount it received is accepted, whatever   *)
(* other accounts are beside it.                                           *)
(***************************************************************************)
SoleAccountIsSeen ==
    phase = "final" /\ ~meta.err /\ meta.post =>
        \A p \in Positions, n \in 1 .. Supply :
            /\ Received(p, n)
            /\ \A q \in Positions : HoldsUsdc(account, q) => q = p
            => VerifyPayment(n)

(***************************************************************************)
(* "What matters is who controls it, not its exact address": an amount     *)
(* received on any account the merchant owns is accepted.                  *)
(***************************************************************************)
AnyAccountCounts ==
    phase = "final" /\ ~meta.err /\ meta.pre /\ meta.post =>
        \A p \in Positions, n \in 1 .. Supply : Received(p, n) => VerifyPayment(n)

(***************************************************************************)
(* Why VerifiedIsReceived holds: the merchant signs nothing, so each of    *)
(* its accounts is still there after the transaction, with no less in it.  *)
(* The first one found after is the first one found before, or stands in   *)
(* front of it and was opened in between.                                  *)
(***************************************************************************)
MerchantKeepsAccounts ==
    \A p \in Positions : HoldsUsdc(before, p) =>
        HoldsUsdc(account, p) /\ account[p].amount >= before[p].amount

=============================================================================
