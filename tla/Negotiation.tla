----------------------------- MODULE Negotiation -----------------------------
(***************************************************************************)
(* How an agent and the merchant agree on a payment: the discovery profile *)
(* (models/profile.rs) names handlers, the registry (main.rs) has some,    *)
(* complete_checkout (routes/checkout.rs) dispatches on the one a session  *)
(* names and on the payment header, and the handlers quote and verify.     *)
(* The four are written by hand in four files, and no type ties them.      *)
(*                                                                         *)
(* One agent has a session to itself and sends one request at a time.  It  *)
(* is one of                                                               *)
(*   "skill"  docs/skills/ucp-buyer.md, which takes a handler from the     *)
(*            profile;                                                     *)
(*   "v2"     a client of x402 version 2, as buyer-testing has it, or one  *)
(*            that knows MPP, with the handler's name built in;            *)
(*   "v1"     the same with the header of version 1;                       *)
(*   "hasty"  a client of version 2 that does not look at the status, may  *)
(*            leave the handler out, and may name one of another merchant. *)
(***************************************************************************)
EXTENDS Checkout

Mock == "mock_1"
X402 == "x402_solana_devnet"
Mpp  == "mpp_stripe"
Stripe == "stripe_1"  \* in the minimal profile of docs/architecture.md

Kinds == {"skill", "v1", "v2", "hasty"}

Headers == {"PAYMENT-SIGNATURE", "X-Payment"}

\* What complete answers: 200, 409, 422 without a handler, 400 for one that is
\* not registered, 402 before and after a payment.
Replies == {"completed", "conflict", "no_handler", "unsupported",
            "payment_required", "payment_refused"}

ASSUME NegotiationAssumption ==
    /\ {Mock, X402, Mpp, Stripe} \subseteq HandlerIds
    /\ None \notin Replies \cup Headers

VARIABLES
    kind,       \* the kind of agent
    pc,         \* what it does next; "done" at the end
    picked,     \* the payment handler it chose
    session,    \* its checkout
    presented,  \* the header it sent its payment in
    answer,     \* the answer to its last complete
    settled     \* history: its payment was submitted, and becomes final

negotiationVars == <<kind, pc, picked, session, presented, answer, settled>>

\* The merchant's profile.  Its maps are hash maps: an agent finds the entries
\* in any order.
ForMerchant == {Mock, X402}

\* A registry without the handler the profile names.
RegisteredForgets == {Mpp}

\* AppState::payment_handlers
Registered == {X402, Mpp}

NegotiationInit ==
    /\ kind \in Kinds
    /\ pc = "discover"
    /\ picked = None /\ session = None /\ presented = None /\ answer = None
    /\ settled = FALSE

-----------------------------------------------------------------------------
(* Up to a checkout that is ready.                                         *)

\* The skill takes "the first entry under payment_handlers".
Discover ==
    /\ pc = "discover"
    /\ picked' \in CASE kind = "skill" -> ForMerchant
                     [] kind = "hasty" -> {X402, Stripe, None}
                     [] OTHER          -> {X402, Mpp}
    /\ pc' = "create"
    /\ UNCHANGED <<kind, session, presented, answer, settled>>

CreateSession(cart, email) ==
    /\ pc = "create"
    /\ session' = New(cart, email)
    /\ pc' = "attach"
    /\ UNCHANGED <<kind, picked, presented, answer, settled>>

Put(email) ==
    session' = ApplyUpdate(session,
        [line_items |-> None, email |-> email, payment_handler_id |-> picked])

\* Anything but ready_for_complete ends the scripts; the skill first sends the
\* update again with the e-mail that may be missing.
AttachHandler ==
    /\ pc = "attach"
    /\ Put(None)
    /\ pc' = IF kind = "hasty" \/ session'.status = "ReadyForComplete" THEN "complete"
             ELSE IF kind = "skill" THEN "correct" ELSE "done"
    /\ UNCHANGED <<kind, picked, presented, answer, settled>>

CorrectBuyer ==
    /\ pc = "correct"
    /\ Put(TRUE)
    /\ pc' = IF session'.status = "ReadyForComplete" THEN "complete" ELSE "done"
    /\ UNCHANGED <<kind, picked, presented, answer, settled>>

-----------------------------------------------------------------------------
(* complete_checkout.                                                      *)

\* The 402 before a payment: the requirements are in the PAYMENT-REQUIRED
\* header, the body has the error.
PaymentRequired ==
    [ header |-> {"x402Version", "error", "resource", "accepts"}, body |-> {"error"} ]

\* Only the header of version 2 is read.
PaymentHeader == IF presented = "PAYMENT-SIGNATURE" THEN presented ELSE None

\* complete(), saved whether it was Ok or not.
Completes ==
    /\ session' = Complete(session)
    /\ answer' = IF CanComplete(session) THEN "completed" ELSE "conflict"

Outcomes == [ok : BOOLEAN, settles : BOOLEAN]

\* The x402 handler, with the repository's facilitator: Ok, an error with nothing
\* moved, or an error although the payment moves: the answer was lost, the poll
\* gave up before it was final, or it is too little.
X402Outcomes == { o \in Outcomes : o.ok => o.settles }

\* A stub that says Ok.
VerifyAndSettleStubbed(handler) ==
    IF handler = X402 THEN X402Outcomes ELSE {[ok |-> TRUE, settles |-> FALSE]}

\* What verify_and_settle comes to: MPP is a stub that always errs.
VerifyAndSettle(handler) ==
    IF handler = X402 THEN X402Outcomes ELSE {[ok |-> FALSE, settles |-> FALSE]}

\* A request that leaves the session as it is.
Refuses(reply) == answer' = reply /\ UNCHANGED session

\* The arms that answer before any payment is looked at.
CompleteUnpaid ==
    LET handler == session.payment_handler_id
    IN  \/ handler = None /\ Refuses("no_handler")
        \/ handler = Mock /\ Completes
        \/ handler \notin Registered \cup {Mock, None} /\ Refuses("unsupported")
        \/ handler \in Registered /\ PaymentHeader = None /\ Refuses("payment_required")

\* The 402 before a payment and the one after it: the second has no header.
CompleteCheckout ==
    \/ CompleteUnpaid /\ UNCHANGED settled
    \/ /\ session.payment_handler_id \in Registered /\ PaymentHeader # None
       /\ \E outcome \in VerifyAndSettle(session.payment_handler_id) :
             /\ settled' = (settled \/ outcome.settles)
             /\ IF outcome.ok THEN Completes ELSE Refuses("payment_refused")

-----------------------------------------------------------------------------
(* From complete on.                                                       *)

RequestComplete ==
    /\ pc = "complete"
    /\ CompleteCheckout
    /\ pc' = "read"
    /\ UNCHANGED <<kind, picked, presented>>

HeaderOf == IF kind = "v1" THEN "X-Payment" ELSE "PAYMENT-SIGNATURE"

\* "look for an instructionsUrl field inside accepts[0].extra in the 402 body"
FindsInstructions == "accepts" \in PaymentRequired.body

\* The clients answer the first 402 with a payment and give up on the next;
\* the skill pays if it finds how.  (A client of version 1, which would look
\* for the requirements in the body, is taken to know them.)
Pays ==
    /\ answer = "payment_required" /\ presented = None
    /\ kind = "skill" => FindsInstructions

ReadAnswer ==
    /\ pc = "read"
    /\ IF Pays THEN presented' = HeaderOf /\ pc' = "complete"
       ELSE presented' = presented /\ pc' = "done"
    /\ UNCHANGED <<kind, picked, session, answer, settled>>

NegotiationNext ==
    \/ Discover
    \/ \E cart \in Carts, email \in BOOLEAN : CreateSession(cart, email)
    \/ AttachHandler
    \/ CorrectBuyer
    \/ RequestComplete
    \/ ReadAnswer

NegotiationSpec == NegotiationInit /\ [][NegotiationNext]_negotiationVars

-----------------------------------------------------------------------------
(* Properties.                                                             *)

(***************************************************************************)
(* What the profile advertises, the routes accept: an agent that takes any *)
(* of its handlers is never told, a session later, that the handler is not *)
(* supported.  The profile is a constant and the registry is built from    *)
(* the handlers' own names.                                                *)
(***************************************************************************)
AdvertisedIsAccepted ==
    kind = "skill" => answer \notin {"unsupported", "no_handler"}

(***************************************************************************)
(* An agent that waits for ready_for_complete and has its session to       *)
(* itself reads 200 if and only if its checkout is completed, and, but for *)
(* the mock handler, has paid for it.  It may pay and have nothing, when   *)
(* verify_and_settle errs after the money moved: then it reads the 402     *)
(* that refuses a payment, never the one that asks for one, nor a 409, and *)
(* its checkout is still ready for completion.                             *)
(***************************************************************************)
PaidIsCompletedOrRefused ==
    session # None /\ kind # "hasty" =>
        /\ answer = "completed" <=> session.status = "Completed"
        /\ session.status = "Completed" /\ picked # Mock => settled
        /\ settled /\ session.status # "Completed" =>
              answer = "payment_refused" /\ session.status = "ReadyForComplete"

(***************************************************************************)
(* routes/checkout.rs of the mock handler: "Not advertised in              *)
(* /.well-known/ucp for real agents", so an agent that follows the skill   *)
(* buys nothing without paying.                                            *)
(***************************************************************************)
RealAgentsPay == kind = "skill" /\ answer = "completed" => settled

(***************************************************************************)
(* routes/checkout.rs: the payment header is PAYMENT-SIGNATURE in version  *)
(* 2 and X-Payment in version 1, and "We check both so v1 clients still    *)
(* work": who presented a payment is not asked for one.                    *)
(***************************************************************************)
EitherHeaderIsRead ==
    pc = "read" /\ presented # None => answer # "payment_required"

(***************************************************************************)
(* ucp-buyer.md: the way to pay is in accepts[0].extra "in the 402 body".  *)
(***************************************************************************)
InstructionsAreInTheBody ==
    kind = "skill" /\ answer = "payment_required" => FindsInstructions

(***************************************************************************)
(* PaymentHandler::handler_id: "The id this handler is registered under in *)
(* the UCP profile and in AppState::payment_handlers", so a handler that   *)
(* asks for a payment is one an agent could have found.                    *)
(***************************************************************************)
ServedIsAdvertised == answer = "payment_required" => picked \in ForMerchant

=============================================================================
