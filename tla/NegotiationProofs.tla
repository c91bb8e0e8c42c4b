------------------------- MODULE NegotiationProofs -------------------------
(***************************************************************************)
(* What is advertised is accepted, and the answer tells completion and     *)
(* payment, for every set of carts and handler names.                      *)
(***************************************************************************)
EXTENDS Negotiation, CheckoutProofs

\* The handlers an agent may choose.
Choices(k) ==
    CASE k = "skill" -> ForMerchant
      [] k = "hasty" -> {X402, Stripe, None}
      [] OTHER       -> {X402, Mpp}

Begun == pc \in {"attach", "correct", "complete", "read", "done"}

NegotiationType ==
    /\ kind \in Kinds
    /\ pc \in {"discover", "create", "attach", "correct", "complete", "read", "done"}
    /\ picked \in IF pc = "discover" THEN {None} ELSE Choices(kind)
    /\ IF Begun THEN session \in Checkouts ELSE session = None
    /\ presented \in Headers \cup {None}
    /\ answer \in Replies \cup {None}
    /\ settled \in BOOLEAN

\* Until the first complete nothing was answered and nothing paid, and once the
\* handler is attached the session names the one that was picked.
Ordered ==
    /\ pc \in {"discover", "create", "attach", "correct"} =>
          answer = None /\ presented = None /\ ~settled
    /\ pc \in {"attach", "correct"} => ~IsTerminal(session.status)
    /\ pc = "attach" => session.payment_handler_id = None
    /\ pc \in {"correct", "complete", "read", "done"} =>
          session.payment_handler_id = picked

\* Whoever looks at the status asks for completion only of a ready checkout, which
\* it has not paid for, and leaves it ready or has the answer "completed"; the
\* scripts that stop before they ask have neither.
Careful ==
    kind # "hasty" =>
        /\ pc = "complete" => session.status = "ReadyForComplete" /\ answer # "completed" /\ ~settled
        /\ pc = "read" => answer # None
        /\ pc = "read" /\ answer # "completed" => session.status = "ReadyForComplete"
        /\ answer = "completed" <=> Begun /\ session.status = "Completed"
        /\ answer = "completed" /\ picked # Mock => settled
        /\ settled /\ answer # "completed" =>
              answer = "payment_refused" /\ session.status = "ReadyForComplete"

NegotiationInvariant ==
    NegotiationType /\ Ordered /\ Careful /\ AdvertisedIsAccepted

-----------------------------------------------------------------------------

LEMMA InitNegotiates == NegotiationInit => NegotiationInvariant
  BY NegotiationAssumption
  DEF NegotiationInit, NegotiationInvariant, Replies, Headers, NegotiationType, Ordered, Careful,
         Begun, AdvertisedIsAccepted

LEMMA DiscoverNegotiates ==
    ASSUME NegotiationInvariant, Discover
    PROVE  NegotiationInvariant'
<1> USE DEF NegotiationInvariant
<1>1. picked' \in Choices(kind)
  BY DEF Discover, Choices
<1> QED
  BY <1>1, NegotiationAssumption
  DEF Discover, NegotiationType, Ordered, Careful, Begun, AdvertisedIsAccepted

LEMMA CreateNegotiates ==
    ASSUME NegotiationInvariant, NEW cart \in Carts, NEW email \in BOOLEAN,
           CreateSession(cart, email)
    PROVE  NegotiationInvariant'
<1> USE DEF NegotiationInvariant
<1>1. New(cart, email) \in Checkouts
  BY NewIsSound
<1>2. /\ session' \in Checkouts /\ session'.status = "Incomplete"
      /\ session'.payment_handler_id = None
  BY <1>1 DEF CreateSession, New
<1> QED
  BY <1>2, NegotiationAssumption
  DEF CreateSession, NegotiationType, Ordered, Careful, Begun, IsTerminal,
      AdvertisedIsAccepted

\* What a PUT of the picked handler does to a session that is open.
LEMMA PutOpens ==
    ASSUME NegotiationInvariant, pc \in {"attach", "correct"},
           NEW email \in BOOLEAN \cup {None}, Put(email)
    PROVE  /\ session' \in Checkouts
           /\ ~IsTerminal(session'.status)
           /\ session'.payment_handler_id = picked
<1> USE DEF NegotiationInvariant
<1> DEFINE update == [line_items |-> None, email |-> email, payment_handler_id |-> picked]
<1>1. session \in Checkouts /\ ~IsTerminal(session.status)
  BY DEF NegotiationType, Ordered, Begun
<1>2. picked \in Handlers
  BY NegotiationAssumption DEF NegotiationType, Choices, Handlers, ForMerchant
<1>3. update \in UpdateCheckoutRequest
  BY <1>2 DEF UpdateCheckoutRequest
<1>4. /\ ApplyUpdate(session, update) \in Checkouts
      /\ ApplyUpdate(session, update).payment_handler_id
           = Given(picked, session.payment_handler_id)
      /\ ~IsTerminal(ApplyUpdate(session, update).status)
  BY <1>1, <1>3, ApplyUpdateFields DEF StatusAfter, IsTerminal
<1>5. Given(picked, session.payment_handler_id) = picked
  BY DEF Given, Ordered
<1> QED
  BY <1>4, <1>5 DEF Put

LEMMA AttachNegotiates ==
    ASSUME NegotiationInvariant, AttachHandler
    PROVE  NegotiationInvariant'
<1> USE DEF NegotiationInvariant
<1>1. pc = "attach" /\ None \in BOOLEAN \cup {None}
  BY DEF AttachHandler
<1>2. /\ session' \in Checkouts /\ ~IsTerminal(session'.status)
      /\ session'.payment_handler_id = picked
  BY <1>1, PutOpens DEF AttachHandler
<1>3. pc' \in {"complete", "correct", "done"}
  BY DEF AttachHandler
<1>4. kind # "hasty" /\ pc' = "complete" => session'.status = "ReadyForComplete"
  BY DEF AttachHandler
<1> QED
  BY <1>1, <1>2, <1>3, <1>4, NegotiationAssumption
  DEF AttachHandler, NegotiationType, Ordered, Careful, Begun, IsTerminal, Replies,
      AdvertisedIsAccepted

LEMMA CorrectNegotiates ==
    ASSUME NegotiationInvariant, CorrectBuyer
    PROVE  NegotiationInvariant'
<1> USE DEF NegotiationInvariant
<1>1. pc = "correct" /\ TRUE \in BOOLEAN \cup {None}
  BY DEF CorrectBuyer
<1>2. /\ session' \in Checkouts /\ ~IsTerminal(session'.status)
      /\ session'.payment_handler_id = picked
  BY <1>1, PutOpens DEF CorrectBuyer
<1>3. pc' \in {"complete", "done"}
  BY DEF CorrectBuyer
<1>4. pc' = "complete" => session'.status = "ReadyForComplete"
  BY DEF CorrectBuyer
<1> QED
  BY <1>1, <1>2, <1>3, <1>4, NegotiationAssumption
  DEF CorrectBuyer, NegotiationType, Ordered, Careful, Begun, IsTerminal, Replies,
      AdvertisedIsAccepted

\* complete_checkout as the careful agents meet it: their session is ready, so
\* whichever handler says Ok completes it.
LEMMA CompleteOfReady ==
    ASSUME NegotiationInvariant, pc = "complete", kind # "hasty", CompleteCheckout
    PROVE  /\ answer' \in Replies
           /\ \/ /\ answer' = "completed" /\ session'.status = "Completed"
                 /\ picked # Mock => settled' = TRUE
              \/ /\ answer' # "completed" /\ session' = session
                 /\ settled' => answer' = "payment_refused"
           /\ kind = "skill" => answer' \notin {"unsupported", "no_handler"}
<1> USE DEF NegotiationInvariant
<1>1. /\ session \in Checkouts /\ CanComplete(session)
      /\ session.payment_handler_id = picked /\ picked \in Choices(kind)
  BY DEF NegotiationType, Ordered, Careful, Begun, CanComplete
<1>2. Complete(session).status = "Completed"
  BY <1>1 DEF Complete, Checkouts
<1>3. picked \in {Mock, X402, Mpp} /\ (kind = "skill" => picked # Mpp)
  BY <1>1 DEF NegotiationType, Choices, ForMerchant, Kinds, Mock, X402, Mpp
<1>4. /\ X402 \in Registered /\ Mpp \in Registered /\ Mock \notin Registered
      /\ Mock # X402 /\ Mpp # X402 /\ Mpp # Mock
      /\ None \notin {Mock, X402, Mpp}
  BY NegotiationAssumption, CheckoutAssumption DEF Registered, Mock, X402, Mpp
<1>5. CASE CompleteUnpaid /\ UNCHANGED settled
  <2>1. ~settled'
    BY <1>5 DEF Careful
  <2>2. CASE picked = Mock /\ Completes
    BY <1>1, <1>2, <1>4, <2>1, <2>2 DEF Completes, Replies
  <2>3. CASE Refuses("payment_required")
    BY <2>1, <2>3 DEF Refuses, Replies
  <2> QED
    BY <1>1, <1>3, <1>4, <1>5, <2>2, <2>3 DEF CompleteUnpaid
<1>6. ASSUME NEW outcome \in VerifyAndSettle(picked), settled' = (settled \/ outcome.settles),
             IF outcome.ok THEN Completes ELSE Refuses("payment_refused")
      PROVE  /\ answer' \in Replies
             /\ \/ answer' = "completed" /\ session'.status = "Completed" /\ settled' = TRUE
                \/ answer' = "payment_refused" /\ session' = session
  <2>1. outcome.ok => outcome.settles = TRUE
    BY DEF VerifyAndSettle, X402Outcomes, Outcomes
  <2>2. CASE outcome.ok
    BY <1>1, <1>2, <1>6, <2>1, <2>2 DEF Completes, Replies
  <2>3. CASE ~outcome.ok
    BY <1>6, <2>3 DEF Refuses, Replies
  <2> QED
    BY <2>2, <2>3
<1> QED
  BY <1>1, <1>5, <1>6 DEF CompleteCheckout

LEMMA RequestNegotiates ==
    ASSUME NegotiationInvariant, RequestComplete
    PROVE  NegotiationInvariant'
<1> USE DEF NegotiationInvariant
<1>1. pc = "complete" /\ pc' = "read" /\ UNCHANGED <<kind, picked, presented>>
  BY DEF RequestComplete
<1>2. /\ session' \in {session, Complete(session)} /\ answer' \in Replies
      /\ settled' \in BOOLEAN
  BY DEF RequestComplete, CompleteCheckout, CompleteUnpaid, Completes, Refuses, Replies,
         NegotiationType
<1>3. /\ session' \in Checkouts
      /\ session'.payment_handler_id = session.payment_handler_id
  BY <1>1, <1>2 DEF NegotiationType, Begun, Complete, Checkouts, CheckoutStatus
<1>4. NegotiationType'
  BY <1>1, <1>2, <1>3 DEF NegotiationType, Begun
<1>5. Ordered'
  BY <1>1, <1>3 DEF Ordered
<1>6. CASE kind = "hasty"
  BY <1>1, <1>4, <1>5, <1>6 DEF Careful, AdvertisedIsAccepted
<1>7. CASE kind # "hasty"
  BY <1>1, <1>4, <1>5, <1>7, CompleteOfReady, NegotiationAssumption
  DEF RequestComplete, Careful, AdvertisedIsAccepted, Begun, NegotiationType
<1> QED
  BY <1>6, <1>7

LEMMA ReadNegotiates ==
    ASSUME NegotiationInvariant, ReadAnswer
    PROVE  NegotiationInvariant'
<1> USE DEF NegotiationInvariant
<1>1. /\ pc = "read" /\ pc' \in {"complete", "done"}
      /\ pc' = "complete" => answer = "payment_required"
      /\ presented' \in Headers \cup {None}
      /\ UNCHANGED <<kind, picked, session, answer, settled>>
  BY DEF ReadAnswer, Pays, HeaderOf, Headers, NegotiationType
<1>2. NegotiationType'
  BY <1>1 DEF NegotiationType, Begun
<1> QED
  BY <1>1, <1>2 DEF Ordered, Careful, Begun, AdvertisedIsAccepted

LEMMA StepNegotiates ==
    ASSUME NegotiationInvariant, [NegotiationNext]_negotiationVars
    PROVE  NegotiationInvariant'
<1>1. CASE UNCHANGED negotiationVars
  BY <1>1 DEF negotiationVars, NegotiationInvariant, NegotiationType, Ordered,
              Careful, Begun, AdvertisedIsAccepted
<1> QED
  BY <1>1, DiscoverNegotiates, CreateNegotiates, AttachNegotiates, CorrectNegotiates,
     RequestNegotiates, ReadNegotiates DEF NegotiationNext

\* The conjuncts above hold together in every reachable state.
THEOREM Negotiates == NegotiationSpec => []NegotiationInvariant
<1>1. NegotiationInvariant /\ [NegotiationNext]_negotiationVars => NegotiationInvariant'
  BY StepNegotiates
<1> QED
  BY InitNegotiates, <1>1, PTL DEF NegotiationSpec

\* An agent that takes a handler from the profile is never told that it is not
\* supported, whatever is in its cart.
THEOREM AdvertisedHandlersAreAccepted == NegotiationSpec => []AdvertisedIsAccepted
<1>1. NegotiationInvariant => AdvertisedIsAccepted
  BY DEF NegotiationInvariant
<1> QED
  BY <1>1, Negotiates, PTL

\* Every agent that looks at the status before it asks is told whether its checkout
\* is completed, and reads a refusal when it paid for nothing.
THEOREM PaymentsMatchAnswers == NegotiationSpec => []PaidIsCompletedOrRefused
<1>1. NegotiationInvariant => PaidIsCompletedOrRefused
  BY DEF NegotiationInvariant, NegotiationType, Careful, PaidIsCompletedOrRefused
<1> QED
  BY <1>1, Negotiates, PTL

=============================================================================
