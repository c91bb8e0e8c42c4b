-------------------------- MODULE CheckoutLifecycle --------------------------
(***************************************************************************)
(* What the API promises of a checkout, one indivisible step per request:  *)
(* a session is edited while it is open, completed once, when it is ready  *)
(* and has been paid for, and canceled for good.                           *)
(***************************************************************************)
CONSTANT Ids

VARIABLES
    status,  \* id -> its status, "none" before it is created
    paid     \* the ids with a completed payment

Open == {"Incomplete", "ReadyForComplete"}

LifecycleInit ==
    /\ status = [id \in Ids |-> "none"]
    /\ paid = {}

Create(id) ==
    /\ status[id] = "none"
    /\ status' = [status EXCEPT ![id] = "Incomplete"]
    /\ UNCHANGED paid

Edit(id) ==
    /\ status[id] \in Open
    /\ \E s \in Open : status' = [status EXCEPT ![id] = s]
    /\ UNCHANGED paid

\* Only a checkout that is ready earns a payment receipt.
Pay(id) ==
    /\ status[id] = "ReadyForComplete"
    /\ paid' = paid \cup {id}
    /\ UNCHANGED status

Complete(id) ==
    /\ status[id] = "ReadyForComplete"
    /\ id \in paid
    /\ status' = [status EXCEPT ![id] = "Completed"]
    /\ UNCHANGED paid

Cancel(id) ==
    /\ status[id] # "none"
    /\ status' = [status EXCEPT ![id] = "Canceled"]
    /\ UNCHANGED paid

LifecycleNext ==
    \E id \in Ids : Create(id) \/ Edit(id) \/ Pay(id) \/ Complete(id) \/ Cancel(id)

LifecycleSpec == LifecycleInit /\ [][LifecycleNext]_<<status, paid>>

=============================================================================
