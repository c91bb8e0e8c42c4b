---------------------------- MODULE PollSchedule ----------------------------
(***************************************************************************)
(* When verify_payment_on_chain (payments/x402_solana.rs) asks the RPC for *)
(* a transaction: ten attempts with an exponential backoff in between, one *)
(* that is capped.  Times are in seconds since the facilitator said that   *)
(* the transaction is submitted.                                           *)
(***************************************************************************)
EXTENDS Integers

CONSTANTS
    Latencies,     \* what a call of the RPC can take: its client waits 30 seconds
                   \* for an answer, and asks again when the RPC limits the rate
    FinalityTimes  \* when the transaction can become final, if it does

ASSUME ScheduleAssumption ==
    /\ Latencies \subseteq Nat
    /\ FinalityTimes \subseteq Nat

MaxAttempts       == 10
InitialDelay      == 1
MaxTimeoutSeconds == 300  \* what the payment requirements quote

VARIABLES
    now,
    pc,       \* "asking", "found" or "gaveUp"
    attempt,
    finalAt,  \* a time of FinalityTimes
    errors,   \* history: attempts that failed for another reason than finality
    asked     \* history: the time spent in calls of the RPC

pollVars == <<now, pc, attempt, finalAt, errors, asked>>

PollType ==
    /\ now \in Nat
    /\ pc \in {"asking", "found", "gaveUp"}
    /\ attempt \in 0 .. (MaxAttempts - 1)
    /\ finalAt \in Nat
    /\ errors \in 0 .. MaxAttempts
    /\ asked \in Nat

PollInit ==
    /\ now = 0
    /\ pc = "asking"
    /\ attempt = 0
    /\ finalAt \in FinalityTimes
    /\ errors = 0
    /\ asked = 0

\* A backoff without the cap.
UncappedDelay(n) == InitialDelay * 2 ^ n

\* A fixed pause.
FixedDelay(n) == InitialDelay + 0 * n

Delay(n) == IF InitialDelay * 2 ^ n < 8 THEN InitialDelay * 2 ^ n ELSE 8

\* The RPC returns the transaction, which was final by the time it answered.
Found(latency) ==
    /\ pc = "asking"
    /\ finalAt <= now + latency
    /\ pc' = "found"
    /\ now' = now + latency
    /\ asked' = asked + latency
    /\ UNCHANGED <<attempt, finalAt, errors>>

\* After an attempt without the transaction: pause and ask again, or give up.
Retry(latency) ==
    /\ pc = "asking"
    /\ IF attempt + 1 < MaxAttempts
       THEN /\ now' = now + latency + Delay(attempt)
            /\ attempt' = attempt + 1
            /\ pc' = pc
       ELSE /\ now' = now + latency
            /\ pc' = "gaveUp"
            /\ attempt' = attempt
    /\ asked' = asked + latency
    /\ UNCHANGED finalAt

\* The transaction was not final when it was asked for: the answer is null.
NotFinal(latency) ==
    /\ finalAt > now
    /\ Retry(latency)
    /\ UNCHANGED errors

\* The call fails, or is not answered in time.
RpcError(latency) == Retry(latency) /\ errors' = errors + 1

PollNext ==
    \E latency \in Latencies : Found(latency) \/ NotFinal(latency) \/ RpcError(latency)

PollSpec == PollInit /\ [][PollNext]_pollVars

-----------------------------------------------------------------------------

(***************************************************************************)
(* The poll overruns the time that the server quotes for the payment only  *)
(* when the RPC itself took more than 245 seconds: the nine pauses, of     *)
(* which the cap keeps the last six short, add at most 55.                 *)
(***************************************************************************)
OverrunIsTheRpcs == now > MaxTimeoutSeconds => asked > 245

(***************************************************************************)
(* The poll ends within the time that is quoted.  It does not hold: nothing*)
(* bounds the poll but its attempts, and ten calls of 30 seconds with the  *)
(* pauses take 355.                                                        *)
(***************************************************************************)
AnsweredInTime == now <= MaxTimeoutSeconds

(***************************************************************************)
(* "Finalized status takes ~10-15s to be reached": a transaction that is   *)
(* final by then is missed only if the RPC errs on all of the last six     *)
(* attempts, however fast the others were answered.                        *)
(***************************************************************************)
TypicalFinalityIsSeen ==
    pc = "gaveUp" /\ finalAt <= 15 => errors >= 6

(***************************************************************************)
(* Why these hold: attempt n is made when the pauses before it and the     *)
(* calls are over; from the fifth attempt on a typical transaction is      *)
(* final, so only an error can prevent its finding.                        *)
(***************************************************************************)
Paused(n) ==
    IF n <= 3 THEN CASE n = 0 -> 0 [] n = 1 -> 1 [] n = 2 -> 3 [] n = 3 -> 7
              ELSE 15 + 8 * (n - 4)

OnSchedule ==
    LET tries == IF pc = "asking" THEN attempt ELSE attempt + 1
    IN  /\ now = Paused(attempt) + asked
        /\ finalAt <= 15 /\ pc # "found" => errors >= tries - 4
        /\ errors <= tries
        /\ pc = "gaveUp" => attempt + 1 = MaxAttempts

=============================================================================
