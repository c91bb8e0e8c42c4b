----------------------------- MODULE MCPayment -----------------------------
(* A small instance of the x402 handler and its facilitator.               *)
EXTENDS X402Payment, TLC

CONSTANTS c1, c2, t1, t2, t3

MCCalls == {c1, c2}

\* t3 is an earlier payment.
MCAmount == t1 :> 1 @@ t2 :> 2 @@ t3 :> 1

=============================================================================
