# Formal model of merchant-ucp

TLA+ modules, TLC configurations and TLAPS proofs about the merchant server of
this repository: a UCP checkout API in Rust (`merchant-server/`), paid through
x402 on Solana by way of a facilitator (`x402-facilitator-demo/`) and exercised
by a buyer script (`buyer-testing/`). File and line references are to the
repository.

## The system

| Component | State it keeps | Operations |
|---|---|---|
| Checkout session (`models/checkout.rs`) | status, items, buyer, total, currency, handler | `new`, `calculate_total`, `apply_update`, `refresh_status`, `complete`, `cancel` |
| Store (`store/`, `migrations/`) | the `checkouts` table | `insert`, `get`, `save`: one SQL statement each, no transaction around them |
| Routes (`routes/checkout.rs`) | each handler's own copy of a checkout | create, get, update, complete, cancel |
| x402 handler (`payments/x402_solana.rs`) | the attempt of its poll | `payment_requirements`, `verify_and_settle` (settle, then verify on chain) |
| MPP handler (`payments/mpp.rs`) | none, a stub | requirements; verification always errs |
| Facilitator (`facilitator.ts`) | none | `/verify`, `/supported`, `/settle` (through Kora) |
| Discovery (`models/profile.rs`, `routes/well_known.rs`) | none, a constant document | `GET /.well-known/ucp` |
| Registry and startup (`main.rs`) | handlers by id, a pool of five connections | start, migrate, serve |
| Buyer script (`buyer-testing/index.ts`) | its progress through the purchase | create, attach a handler, complete, pay on 402 |

The handlers are concurrent tasks of one tokio process. They share the table
and nothing else: each reads a row, works on a copy, and writes the whole copy
back. `complete` with a payment calls the facilitator in between, which submits
the buyer's transaction through Kora, and then asks a Solana RPC for it up to
ten times, so the copy may be a minute old when it is written.

What is hard here, and what is at stake:

* **Interleaving.** Nothing orders the read and the write of two handlers on one
  checkout. A status that was closed must stay closed, and a row must never mix
  parts of two copies.
* **Failure.** A save can fail, a client can disconnect (its handler is dropped
  at an await), the process can die: before or after the money moved. What the
  table says must never be better than what happened.
* **Delay.** A transaction becomes final after the poll has given up; answers of
  the facilitator are lost; the same signed transaction is sent again.
* **Order.** The payment is settled before the status is looked at.
* **Boundaries.** u64 totals wrap in release builds and are stored as signed
  BIGINT; balances are found in lists, either of which may be missing, and
  subtracted with saturation; ten attempts wait for finality and should fit a time
  that was quoted; five connections serve everybody.
* **Trust.** The facilitator is not believed (`x402_solana.rs:192-194`), and yet it
  names the transaction that is looked up (450); and nothing ties a transaction to
  a checkout or to one use.
* **Agreement by hand.** The profile, the registry, the dispatch of `complete`
  and the agent's instructions name handlers and headers each in its own file.

## Modules

| Module | What it holds |
|---|---|
| `Checkout` | the session as a record, the methods of `impl Checkout` as operators |
| `CheckoutStore` | the row, the constraints of the table, the conversions both ways |
| `CheckoutSession` | one session, one request at a time, over many carts |
| `MerchantServer` | handlers as tasks over the table, the chain, the facilitator |
| `CheckoutLifecycle` | abstract: what the API promises of a checkout, one step per request |
| `ServerLifecycle` | the refinement mapping from the server to the lifecycle, and why it holds |
| `Purchase` | the buyer script composed with `MerchantServer` |
| `PaymentContract` | abstract: what the routes rely on of any `PaymentHandler` |
| `Facilitator` | `/settle` as a process of its own, with Kora and the chain behind it |
| `X402Payment` | `verify_and_settle` over `Facilitator`, and its mapping to the contract |
| `TokenBalances` | what the handler concludes from the balances of a final transaction |
| `PollSchedule` | when the handler asks the RPC, in seconds |
| `ConnectionPool` | the handlers as users of the pool of connections |
| `Negotiation` | profile, registry, dispatch and headers against four kinds of agent |
| `MC...` | small instances for TLC |
| `CheckoutProofs` | lemmas on the operators, the sum over the items and the stored form |
| `CheckoutSessionProofs` | totals, rows, retries and commutation |
| `MerchantServerProofs` | the inductive invariant, the safety theorems, the refinement to the lifecycle |
| `PurchaseProofs` | the script's invariant, over that of the server, and its own refinement to the lifecycle |
| `X402PaymentProofs` | the refinement to the contract |
| `OnChainProofs` | the verdict on the balances and the schedule of the poll |
| `NegotiationProofs` | the agents' invariant |
| `PoolProofs` | the queue and the connections |

`MerchantServer` is the centre. `Purchase` adds one client to it. The modules of
the x402 handler open what is one step there: `X402Payment` the calls to the
facilitator with their header checks, `PollSchedule` the times of the poll,
`TokenBalances` the amount a transaction is worth.

### How the server's state and actions correspond to the code

`db` is the table. `task[r]` is the handler that slot `r` runs: where it waits
(`pc`), the checkout (`chk`), its copy (`work`), the transaction it was given
(`tx`) and the attempt of its poll. `ledger[t]` is what became of a transaction
a buyer may sign: the amount it moves and how far it got; it names no checkout.
`receipts` is a history variable: each time `complete()` returns Ok, the
checkout, the transaction (none for `mock_1`) and the total at that moment.

One action is what a handler does between two awaits. The `get` and the
synchronous work after it are one action, because the copy belongs to the
handler from the moment the row is read; the next await is another. So `PUT` is
`UpdateCheckout` then `Save` or `SaveFails`; `complete` with a payment is
`CompletePay`, `SettleAccepted`, some `PollAgain`, `PollVerified`, `Save`, with
an error exit at each. `Disconnect` ends a handler at any await, `Restart` ends
all of them. A statement whose handler is dropped is taken to have been executed
(`Save`, the answer lost) or not (`Disconnect`), but not later.

An answer of the RPC without metadata is an error like a rejected payment; its
effect on the state is that of `Disconnect` at the poll. Requests that only
reply (GET, 404, unknown or absent handler, MPP, an undecodable header, another
scheme or network) are stuttering steps.

The clients are the environment. They send any of `Updates` in any order. A
buyer signs a transaction for the amount a 402 quoted, and it is presented for
any checkout, as often as anybody likes: the server keeps no record of the
transactions it has accepted. The facilitator is the repository's, or one that
says that it settled another transaction (`SettleMisreported`). `Exclusive` says whether
clients wait for each answer before they send the next request on the same
checkout (TRUE), or several clients or a client that timed out may overlap
(FALSE). The code enforces neither.

Statuses `CompleteInProgress` and `RequiresEscalation` are in the type because
the table admits them; no code assigns them.

### The payment path

`X402Payment` has one action per await of `verify_and_settle`, with `call[c].pc`
as the place it waits at; `VerifyAndSettle` is everything up to the first await,
the checks of the header included. `job[c]` is the `/settle` it posted. The
facilitator does not notice that a caller is gone, so a job outlives a call that
lost its reply or was dropped. Kora may refuse, send, or send and err
(`SendsAndFails`); a facilitator that restarts forgets its jobs and breaks their
connections. A transaction sent twice is the same transaction. Beside the
repository's facilitator there is one that answers what it likes: `Misreports` names
any transaction, sent or not, an `Earlier` payment among them, or none. The
handler polls for the transaction that is named (`job[c].sig`), as the code does.
`/verify` has Kora
sign and drops the result, `/supported` replies: neither has an action.

`PaymentContract` is the doc comment of the trait (`payments/mod.rs:63-69`) with
what the routes need of it: Ok is said only when a settled payment covers the
total. That it is the payment in the header the handler cannot promise, since it
looks up the one the facilitator names; `OkIsOfItsPayment` says it for a facilitator
that names what it was given. `Settle` is enabled at any time after `Begin`: an error
promises nothing about the money.

`TokenBalances` runs arbitrary transactions of transfers, openings and closings
of token accounts. `Signs` is the assumption on the environment: a transaction a
buyer hands in is signed by the buyer and by Kora, so it takes nothing from the
merchant's accounts. Each list of balances is reported or missing, and a missing one
is empty to the code. `VerifiedIsReceived` leaves out one of the four cases, the list
after without the list before; `MissingBefore` below shows what the code does then.

`PollSchedule` counts seconds from the answer of `/settle`. `NotFinal` is an
answer to a question asked before the transaction was final, `RpcError` any
other failure; the code treats them alike. `asked` sums up the time in calls of the
RPC. Nothing in the code bounds it but the attempts: the client waits 30 seconds for
an answer and asks again by itself when the RPC limits the rate.

### The purchase

`Purchase` follows the buyer script. `slot` is the handler whose answer it waits
for, and `Hears` couples the last step of that handler with the answer: the
status code the handler returns, or none. When `fetch` throws or times out, the
script ends and its handler goes on. `RunAgain` is a person who starts the script
again; it creates another checkout. `report[id]` is what the run said of its
checkout: success (200), failed (another code), error (an exception).

### Negotiation and the pool

An agent of `Negotiation` has its session to itself, so `complete` is one action;
its kinds are listed in the module. `ForMerchant` is the set of handlers in the
profile's hash map, `Registered` the keys of `AppState::payment_handlers`. For a
session the handler of which is x402, `verify_and_settle` is Ok, or errs before the
money moves, or errs although it moves (`X402Outcomes`).

`ConnectionPool` reduces every handler to the awaits still ahead of it (`plan`).
The pool is fair as sqlx's is: first come, first served. Its acquire timeout may
strike at any time (`Abandon`), and no property relies on it.

## What is checked

| Run | Shows |
|---|---|
| `server_concurrent` | under every overlap of two handlers: each only comes closer to its end; types, totals match items, readiness matches the fields, a completion is written with a total that was verified; a completed checkout was paid for, though its items change meanwhile and its transaction was signed for a smaller total |
| `server_exclusive` | without overlap: the server implements `CheckoutLifecycle`, closed checkouts stay closed, each handler owns its copy; a checkout that is completed with a payment is completed on a final transaction that covered its total, with transactions presented for either of two checkouts, any number of times, and a facilitator that may name the other one |
| `session_arithmetic` | the total a client reads back is the exact sum modulo the size of u64; rows survive being read and saved; an update sent twice is harmless; updates of different fields commute |
| `purchase` | what the script reports as a success is completed and paid and stays so; its requests never meet on a checkout; no payment of it buys two; its payments complete what they pay for; so the server implements `CheckoutLifecycle` for it although requests may overlap; a request the facilitator has answered is answered, the transaction final or not; a run of the script ends |
| `x402_contract` | the x402 handler implements `PaymentContract`; no transaction moves that no call accepted; with a facilitator that names what it was given, Ok is of the call's own payment |
| `token_balances` | an accepted payment was received, unless only the list of balances before it is missing; a payment into the merchant's only account is accepted |
| `poll_schedule` | the poll overruns the 300 seconds quoted only when the RPC alone took more than 245; a transaction that is final within 15 is missed only if the RPC fails at the end |
| `connection_pool` | connections are held for statements only, and waited for once; whoever needs a connection gets one, whatever the facilitator does |
| `negotiation` | what is advertised is accepted; 200 means completed and paid, and who pays without it reads the 402 of a refused payment |

Three runs are expected to fail, and show where the code and what is written of
it part:

* `lost_update`: with overlapping requests a completed or canceled checkout is
  open again, because `save` overwrites whatever is stored.
* `settled_not_completed`: `verify_and_settle` returns Ok and the checkout is
  not completed, because the status is looked at after the payment moved
  (`routes/checkout.rs:200-209`). The buyer has paid and reads 409. The same
  property holds in `purchase`, for a client that asks for the status before it
  pays and has its checkout to itself.
* `quoted_currency`: an update replaces the items and keeps the currency of the
  first ones (`models/checkout.rs:133`), and `mpp_stripe` quotes the new sum in
  it.

### Configurations beside the runs

Thirteen more configurations are not part of the runs, and neither the runs nor
the proofs rely on them. Two look at larger instances of what the runs check, and
pass in a minute or two:

* `ServerPayments` (`MCServer`): `CompletedIsPaidFor` with two checkouts of
  different totals, two transactions and clients that do not wait.
* `ServerAnswers` (`MCServer`): `SettledRequestsAnswered` for clients that need not
  be the buyer script, under `FairSpec`.

Eleven state what a comment or a document says, one property each, and TLC finds
each violated within seconds:

| Configuration | Module | Shows |
|---|---|---|
| `SkipsInProgress` | `MCServer` | the documented `complete_in_progress` (`models/checkout.rs:7`) is never entered |
| `SecondAccount` | `MCBalances` | a payment into the second token account of the merchant is not seen (`x402_solana.rs:294`), where the comment says that the address does not matter (287-290) |
| `MissingBefore` | `MCBalances` | an answer with the balances after the transaction and without those before it makes the merchant's whole balance the payment (`x402_solana.rs:278-285`), where the comment says "What matters is the delta, not the absolute balance" (305) |
| `QuotedTimeout` | `PollSchedule` | ten calls of 30 seconds and the pauses exceed the 300 the requirements quote (`x402_solana.rs:347`) |
| `UnderpaidSubmitted` | `MCPayment` | the facilitator sends a transaction that pays less than the requirements it was given "so the facilitator can cross-check amount/recipient" (`x402_solana.rs:400`) |
| `SilentFacilitator` | `ConnectionPool` | a facilitator that accepts connections and does not answer holds a request for ever (`x402_solana.rs:140`), where the comment says that the checkout does not fail (173) |
| `MockAdvertised` | `MCNegotiation` | `mock_1`, "not advertised" (`routes/checkout.rs:115`), is in the profile, and an agent may complete with it without paying |
| `OldHeader` | `MCNegotiation` | `X-Payment` of version 1 is not read (`routes/checkout.rs:144`), where the comment says "We check both" |
| `NoInstructions` | `MCNegotiation` | the body of the 402 (`routes/checkout.rs:186`) lacks the `accepts` the skill sends an agent to (`ucp-buyer.md:139`) |
| `HiddenHandler` | `MCNegotiation` | `mpp_stripe` is registered (`main.rs:68`) and not in the profile, where `payments/mod.rs:48` says that it is |
| `FailedButCompleted` | `MCPurchase` | the script says "checkout did not complete" (`index.ts:101`) of one that did, when the acknowledgement of the last UPDATE is lost |

### Bounds

* `U64 = 16`. The carts are chosen around the edges: `Cheap` totals 2 and `Dear`
  12, which the column holds as -4; the session run has items at 15 (the largest
  u64), 8 (the least negative i64) and 18 (wraps).
* Two request slots: a lost update needs one handler that reads before and
  writes after another, and the properties relate a row to one handler's copy
  at a time. One checkout and one transaction in `server_concurrent`, whose
  properties are of one row, or of one handler and the total it works with. Two of
  each in `server_exclusive`, where the mapping is a function of all checkouts, and
  where a transaction can be presented for the checkout it was not quoted for, for
  both, or be named instead of the other; there all carts are the same and the only
  updates are the two that choose a handler (checkouts are created with an e-mail or
  without). `server_concurrent` has different totals, `ServerPayments` both, and the
  proofs have every cart and update.
* A transaction can be quoted at one total and settled at another, sent again,
  refused, lost, final late, failed or expired.
* `MaxAttempts = 2` for the 10 of the code: one attempt that is repeated
  and one that is the last. `PollSchedule` has all ten.
* `Purchase`: two runs of the script, two slots, two transactions: a given-up
  handler of the first run beside the second. Its cart totals 12, negative in
  the table.
* `X402Payment`: two calls, which can present one transaction twice or two, one
  of them too small for one of the totals, beside a third of the same size that was
  final before; three networks (the handler's, another Solana one, another) and two
  schemes.
* `TokenBalances`: three accounts, the number at which the merchant's first
  account can be preceded by one that is opened and paid from a third; amounts
  up to 2.
* `PollSchedule`: calls that take 0, 1, 30 or 130 seconds, finality at times around
  each of the first pauses, at 15, and never within the poll.
* `ConnectionPool`: three handlers and two connections, so that one waits.
* `Negotiation` needs none but three carts.
* The proofs need none of these bounds.

### Fairness

The safety properties need none. The liveness properties rest on:

* `purchase`: of the handlers (`Serve(r)`), and of the script, which is a sequence of
  awaits (`BuyerStep`). The tokio runtime polls every ready task, and past `/settle`
  each step of a handler waits for something that answers or errs: a statement on
  the pool, or a call of the RPC client, which has a timeout. The HTTP client that
  calls the facilitator is built without one (`payments/x402_solana.rs:140`), so
  `SettledRequestsAnswered` begins where the facilitator has answered: it uses
  the fairness of the poll and the save only, which is all that `FairSpec` of
  `ServerAnswers` assumes, and `SilentFacilitator` shows what happens without an answer.
  For `RunEnds` the facilitator is taken to answer: the code of the
  server does not see to it, but `fetch` of Node gives up on an answer by itself, so
  a run ends all the same. `TimesOut` is not fair, so that what the run shows is
  that it ends without it, and neither is the person who runs the script again.
* `connection_pool`: of the pool (`Acquire`), and of each statement or call that
  can return. A silent facilitator is one whose calls cannot. A client that goes
  away or an acquire timeout is not fair.

Nothing is assumed of the chain or of new requests.

## What is proved

TLAPS proves, for every value of the constants that satisfies the named
assumptions of the modules:

* `Spec => []TypeOK`, `[]TotalMatchesItems`, `[]ReadinessConsistent`,
  `[]CompletedIsPaidFor`, `[]CompletionWritesVerifiedTotal` and
  `HandlersOnlyAdvance`, for clients that present any transaction for any checkout
  and a facilitator that names any, in `MerchantServerProofs`;
* for `Exclusive` clients, `Spec => ImplementsLifecycle`, `ClosedStaysClosed` and
  `[]OwnedCopies`, in `MerchantServerProofs`;
* `PurchaseSpec => Spec`, `[]SuccessMeansPaid`, `[]RequestsNeverMeet`,
  `[]PaymentsBuyOnce`, `[]SettledPaymentCompletes`, and, without `Exclusive`, `ImplementsLifecycle` and
  `ClosedStaysClosed`, in `PurchaseProofs`;
* `X402Spec => ImplementsContract`, `[]OnlyAcceptedMoves` and `[]OkIsOfItsPayment`,
  in `X402PaymentProofs`;
* `BalanceSpec => []VerifiedIsReceived` and `[]SoleAccountIsSeen`,
  `PollSpec => []OverrunIsTheRpcs` and `[]TypicalFinalityIsSeen`, in `OnChainProofs`;
* `SessionSpec => []TotalIsSumModuloU64`, `[]SavedIsRead`,
  `[]RetriedUpdateIsHarmless`, `[]IndependentUpdatesCommute`, in
  `CheckoutSessionProofs`, and `RowRoundTrip` in `CheckoutProofs`;
* `NegotiationSpec => []AdvertisedIsAccepted` and `[]PaidIsCompletedOrRefused`, in
  `NegotiationProofs`;
* `PoolSpec => []ConnectionsServeStatements`, in `PoolProofs`.

**Server.** The first five follow from one `InductiveInvariant`. None of them is
inductive: a save replaces a row by a handler's copy, so the claim about rows must
hold of every copy (`GoodTask`); a completed copy may be written, or written again
by an update of a completed checkout, long after its payment, so the receipts it
rests on must stay good, which they do because a final transaction never
changes, and because only an unsigned one is given an amount. The proof states once
what every step preserves (`Monotone`) and has one lemma per action.

`HandlersOnlyAdvance` is an action property over the same invariant: `StepsLeft`
falls with every step of a handler, and is at most MaxAttempts + 2.

**Lifecycle.** The refinement rests on `OwnedCopies`: a checkout is in the hands of
one handler, a paying handler's copy equals the row, and a copy to be saved is one
lifecycle step away from the row. Each is false for overlapping requests, as
`lost_update` shows. The lemmas about one step do not ask for `Exclusive` but for
`StaysApart`: that this step, for whatever reason, brings no two handlers to one
checkout.

**Purchase.** Every step of script and server is a step of the server or leaves it
alone, so the server's invariant holds. On top of it `ScriptInvariant` says that a
run has a checkout nothing was said of yet and waits exactly for the handler it
names; that a handler at work is that one or belongs to a run that ended in an
error, so no two share a checkout; that every row and copy has the script's cart,
so that a verified total is the price; and that the script pays only for a row that
is ready, which no handler is left to change. A 200 to the second `complete` then
comes from a copy that is completed, with a receipt, written by nobody else.
`PaymentInvariant` says that wherever a transaction is found, with the script, in a
handler or on a receipt, it is found with the same checkout: the server does not
see to it, but the library signs anew for every 402, and only what is unsigned.
That no two handlers share a checkout is also what `StaysApart` asks, so the server
that serves the script refines the lifecycle with `Exclusive` FALSE: the order in
which the script awaits and gives up does what the server leaves to its clients.

**Payment.** `PostedWasAccepted` ties jobs to accepted calls: a job outlives its
call, and only the payload it carries shows that the call passed the checks of the
header. A call says Ok from a finalized transaction, its own or not, which maps to
`SayOk`; `ChainDecides` maps to `Settle` of the call that posted, since an `Earlier`
transaction is final already and is not decided on again. That the Ok is of the
call's own payment rests on `SuccessWasTold`: the answer a call went on with is the
one that its job still holds, and what is final stays final.

**Balances.** `MerchantKeepsAccounts`: each account of the merchant before the
transaction is there after it, with no less in it. The first found after is thus
the first found before, or stands before it and was opened by the transaction with
nothing in it; either way the difference was received on one account. A list that
is missing makes a balance zero: without the list after, nothing is accepted, and
without the list before, the proof has no case.

With one account of the merchant's, the first found after is that account, and the
first found before is too, or there is none and its balance counts as zero; if the
list before is missing, the difference only grows.

**Totals.** `CalculateTotal` is a recursive function over the items that wraps at
every product and every sum; `ExactTotal` is the sum that does not. That both are
what they say for a cart of any length needs an induction. The library's
induction theorems are out of the provers' reach, so `IntervalInduction` states it
for a set instead of a predicate, from the well-foundedness of < on the naturals;
`RecursionExists` builds the function that solves a recursion, by the same
induction; and `ModuloOfSum` is the step, that a remainder may be taken before or
after an addition. The total of every cart is then a u64 (`CalculateTotalTyped`),
and equals the exact sum modulo the size of u64 (`TotalIsExactModuloU64`).

**Negotiation.** `NegotiationInvariant` follows an agent from step to step: what it
has when (`Ordered`); that an agent that is not hasty completes only a session
that is ready with the handler it picked, until it is completed, and that it
completes at most once with a payment, so that the answer to that request tells what
became of it (`Careful`).

**Pool.** `PoolInvariant` adds to the property only types and that the handlers that
hold a connection are finitely many. It needs what a queue without repetition
becomes when its head leaves, when one joins that is not in it, and when one
leaves from anywhere.

**Schedule.** `OnSchedule` says that the time of attempt n is that of the pauses
before it, 55 seconds at most, and of the calls. From the fifth attempt on 15
seconds have passed, so only errors can hide a transaction that is final.

Assumptions: U64 is even; `None` differs from every value it is compared with;
`Updates` are typed and carts are sequences of line items; the cart and the update
of the script are among those the server is modelled with; the four handlers that
`Negotiation` names are among the handler ids; and a pool has a connection.
No assumption is made on the latencies of the RPC. TLC evaluates all ASSUMEs in the
runs.

Only model-checked: liveness (`SettledRequestsAnswered`, `RunEnds`,
`PoolNeverStarves`), since TLAPS has no rule for it here. Of
the first, `HandlersOnlyAdvance` is the part that can be proved: a handler cannot
go on for ever. Every invariant, action property and refinement of the passing
runs has a theorem.

## What the server does not ensure

Some of what one would like to say of a payment is not in the code, and the
properties stop where it does:

* A transaction is tied neither to a checkout nor to one use. `CompletedIsPaidFor`
  and `CompletionWritesVerifiedTotal` say that a final transaction covered the total,
  not that it was meant for this checkout. For the buyer script, which presents a
  transaction of its own for each checkout, `PaymentsBuyOnce` holds.
* What the facilitator names is what is looked up. A facilitator cannot make the
  handler believe in money that is not on chain, but it can have another payment
  taken for the one in the header (`ImplementsContract`, `OkIsOfItsPayment`).
* An error of `verify_and_settle` says nothing of the money, and nothing records a
  payment that was settled and not verified (`PaidIsCompletedOrRefused`).
* Neither the call of the facilitator nor the poll has a deadline.
* An update of a completed checkout replaces its items and its total.

## Not modelled

* The contents of titles, names and messages (no code path depends on them),
  timestamps, tracing, static files, environment variables, the migration.
* The encodings: base64 and JSON decode or do not (`Payloads \cup {None}`), and
  the bytes of a transaction are an amount and an identity.
* A buyer who is charged twice. A run after FAILED signs a transaction of its own
  for a checkout of its own, and a 402 of a poll that gave up invites it; nothing
  in the code ties the two and no document promises that it cannot happen.
* Kora's own policy, the configuration of Docker and systemd: programs and files
  no code here reads. Kora and the chain are actions of the environment.
* A chain that takes back what was final, and an RPC that lies: the code trusts
  both.
* In `PollSchedule`, the requests that the RPC client repeats by itself when the rate
  is limited: an attempt has one latency, however it came about and however long.
