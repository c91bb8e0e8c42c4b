--------------------------- MODULE ServerLifecycle ---------------------------
(***************************************************************************)
(* The refinement mapping from the server to the lifecycle: the status     *)
(* each row stores, and the checkouts some handler has a receipt for.      *)
(***************************************************************************)
EXTENDS MerchantServer

shownStatus ==
    [id \in Ids |-> IF Exists(id) THEN Stored(id).status ELSE "none"]

paidIds == { rc.chk : rc \in receipts }

Lifecycle == INSTANCE CheckoutLifecycle WITH status <- shownStatus, paid <- paidIds

(***************************************************************************)
(* When the requests on a checkout do not overlap, the get-work-save       *)
(* handlers, with failures at every await, implement the lifecycle: each   *)
(* write of a row is one lifecycle step of the status it replaces.         *)
(***************************************************************************)
ImplementsLifecycle == Lifecycle!LifecycleSpec

-----------------------------------------------------------------------------

\* The statuses the code assigns.
Assigned == {"Incomplete", "ReadyForComplete", "Completed", "Canceled"}

\* Over a row in status old, writing status new is a lifecycle step.
Step(id, old, new) ==
    \/ new = old
    \/ old \in Lifecycle!Open /\ new \in Lifecycle!Open
    \/ old = "ReadyForComplete" /\ new = "Completed" /\ id \in paidIds
    \/ new = "Canceled"

(***************************************************************************)
(* Why requests that do not overlap implement the lifecycle: a checkout is *)
(* in the hands of one handler at a time, so the copy that is being paid   *)
(* for is the row itself, and the copy about to be saved is one lifecycle  *)
(* step from the row it will replace.                                      *)
(***************************************************************************)
OwnedCopies ==
    /\ \A q, r \in Reqs :
          task[q] # Idle /\ task[r] # Idle /\ task[q].chk = task[r].chk => q = r
    /\ \A id \in Ids : Exists(id) => Stored(id).status \in Assigned
    /\ \A r \in Reqs : task[r] # Idle =>
          LET k == task[r]
          IN  /\ Exists(k.chk)
              /\ k.pc \in {"settle", "poll"} => k.work = Stored(k.chk)
              /\ k.pc = "save" => Step(k.chk, Stored(k.chk).status, k.work.status)

=============================================================================
