--------------------------- MODULE ConnectionPool ---------------------------
(***************************************************************************)
(* The handlers as users of the pool of Postgres connections (main.rs):    *)
(* each is a sequence of awaits, of statements, which need a connection,   *)
(* and of calls to the facilitator and the RPC, which may take long.  The  *)
(* store runs each statement on the pool itself, so a connection goes back *)
(* when its statement ends.                                                *)
(*                                                                         *)
(* The pool hands connections out in the order in which they were asked    *)
(* for.  The facilitator can be up, refuse connections, or be silent: take *)
(* them and not answer, for which the HTTP client has no timeout.          *)
(***************************************************************************)
EXTENDS Naturals, SequencesExt

CONSTANTS
    Reqs,           \* request slots
    MaxConnections  \* max_connections, 5 in the code

ASSUME PoolAssumption == MaxConnections \in Nat \ {0}

VARIABLES
    plan,        \* slot -> the awaits still ahead, <<>> when idle
    queue,       \* the slots that wait for a connection
    held,        \* the slots that have one
    facilitator

poolVars == <<plan, queue, held, facilitator>>

\* What each handler awaits, in order.
Create == <<"sql">>
Get    == <<"sql">>
Write  == <<"sql", "sql">>                 \* PUT, cancel, complete with mock_1
Quote  == <<"sql", "supported">>           \* complete without a payment
Pay    == <<"sql", "supported", "settle", "rpc", "sql">>

Plans == {Create, Get, Write, Quote, Pay}

PoolType ==
    /\ plan \in [Reqs -> UNION { Suffixes(p) : p \in Plans }]
    /\ queue \in Seq(Reqs)
    /\ held \subseteq Reqs
    /\ facilitator \in {"up", "refusing", "silent"}

PoolInit ==
    /\ plan = [r \in Reqs |-> <<>>]
    /\ queue = <<>>
    /\ held = {}
    /\ facilitator = "up"

-----------------------------------------------------------------------------

Awaits(r, what) == plan[r] # <<>> /\ Head(plan[r]) = what

Queued(r) == \E i \in DOMAIN queue : queue[i] = r

\* The queue, with r at its end if it now needs a connection.
JoinQueue(r, ahead) ==
    IF ahead # <<>> /\ Head(ahead) = "sql" THEN Append(queue, r) ELSE queue

\* A transaction around the whole handler: the connection is kept until the
\* answer.
AdvanceInTransaction(r, ahead) ==
    /\ plan' = [plan EXCEPT ![r] = ahead]
    /\ held' = IF ahead = <<>> THEN held \ {r} ELSE held
    /\ queue' = IF r \in held THEN queue ELSE JoinQueue(r, ahead)

\* The handler goes on to what is ahead, without a connection.
Advance(r, ahead) ==
    /\ plan' = [plan EXCEPT ![r] = ahead]
    /\ held' = held \ {r}
    /\ queue' = JoinQueue(r, ahead)

Arrive(r, p) ==
    /\ plan[r] = <<>>
    /\ Advance(r, p)
    /\ UNCHANGED facilitator

Acquire ==
    /\ queue # <<>>
    /\ Cardinality(held) < MaxConnections
    /\ held' = held \cup {Head(queue)}
    /\ queue' = Tail(queue)
    /\ UNCHANGED <<plan, facilitator>>

\* The statement ends; after an error, or when there is no such checkout, the
\* handler answers at once.
StatementEnds(r) ==
    /\ r \in held /\ Awaits(r, "sql")
    /\ Advance(r, Tail(plan[r])) \/ Advance(r, <<>>)
    /\ UNCHANGED facilitator

\* GET /supported answers or errs: the handler goes on without a fee payer.
SupportedReturns(r) ==
    /\ Awaits(r, "supported")
    /\ facilitator # "silent"
    /\ Advance(r, Tail(plan[r]))
    /\ UNCHANGED facilitator

\* POST /settle answers, or errs and ends the handler.
SettleReturns(r) ==
    /\ Awaits(r, "settle")
    /\ facilitator # "silent"
    /\ \/ facilitator = "up" /\ Advance(r, Tail(plan[r]))
       \/ Advance(r, <<>>)
    /\ UNCHANGED facilitator

\* The poll of the chain ends: its attempts are counted, and the client of the
\* RPC has a timeout.
PollEnds(r) ==
    /\ Awaits(r, "rpc")
    /\ Advance(r, Tail(plan[r])) \/ Advance(r, <<>>)
    /\ UNCHANGED facilitator

\* acquire_timeout of the pool, or a client that is gone: the handler ends.
Abandon(r) ==
    /\ plan[r] # <<>>
    /\ plan' = [plan EXCEPT ![r] = <<>>]
    /\ held' = held \ {r}
    /\ \/ ~Queued(r) /\ UNCHANGED queue
       \/ \E i \in DOMAIN queue : queue[i] = r /\ queue' = RemoveAt(queue, i)
    /\ UNCHANGED facilitator

\* Once silent, it stays so.
FacilitatorChanges ==
    /\ facilitator # "silent"
    /\ \E f \in {"up", "refusing", "silent"} \ {facilitator} : facilitator' = f
    /\ UNCHANGED <<plan, queue, held>>

CallReturns(r) == SupportedReturns(r) \/ SettleReturns(r) \/ PollEnds(r)

PoolNext ==
    \/ \E r \in Reqs :
          \/ \E p \in Plans : Arrive(r, p)
          \/ StatementEnds(r)
          \/ CallReturns(r)
          \/ Abandon(r)
    \/ Acquire
    \/ FacilitatorChanges

\* Statements end, calls that can return do, and a free connection is given
\* to the first that waits.  Nothing times out or goes away of necessity.
PoolSpec ==
    /\ PoolInit /\ [][PoolNext]_poolVars
    /\ WF_poolVars(Acquire)
    /\ \A r \in Reqs : WF_poolVars(StatementEnds(r) \/ CallReturns(r))

-----------------------------------------------------------------------------

(***************************************************************************)
(* A connection is somebody's only while a statement of his is executed,   *)
(* never while he waits for the facilitator or the chain; there are no     *)
(* more of them than the pool has; and whoever has a statement to execute  *)
(* holds one, or waits for one at a single place of the queue: an abandoned *)
(* wait or statement leaves neither a connection nor a place behind.       *)
(***************************************************************************)
ConnectionsServeStatements ==
    /\ Cardinality(held) <= MaxConnections
    /\ \A r \in Reqs : Awaits(r, "sql") <=> r \in held \/ Queued(r)
    /\ \A r \in held : ~Queued(r)
    /\ IsInjective(queue)

(***************************************************************************)
(* A handler that needs a connection gets one, without help from the       *)
(* acquire timeout and whatever the facilitator does: those that wait for  *)
(* the facilitator keep none.                                              *)
(***************************************************************************)
PoolNeverStarves ==
    \A r \in Reqs : Awaits(r, "sql") ~> r \in held \/ plan[r] = <<>>

(***************************************************************************)
(* fetch_fee_payer "does not fail the checkout if the facilitator is       *)
(* down": a request for the payment requirements is answered.              *)
(***************************************************************************)
QuotedWithoutFacilitator ==
    \A r \in Reqs : plan[r] = <<"supported">> ~> plan[r] # <<"supported">>

=============================================================================
