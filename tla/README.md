# A verification development for PGJP_Trading

PGJP_Trading connects a strategy to Interactive Brokers (or to a mock broker). It
persists everything in SQLite, trades one futures contract, and refuses to trade unless
a long list of conditions holds. This directory holds TLA+ models of the parts whose
correctness depends on *order*: crashes between two writes, two processes on one
database, fills that arrive between two reads, callbacks of a second thread, sessions
that drop, switches latched while an order is under way, settings edited under a running
process. TLC checks the models on small instances. TLAPS proves the
central safety properties for every value of the constants.

Paths below are relative to `src/`. "The map" is the `map` of `PROJECT.json`: it gives
the source lines of every definition that models code.

## 1. The system

| Component | State | Operations | Interacts with |
|---|---|---|---|
| Application (`app/main.py`) | `state`, `account`, `reconciliation`, `contract`, `_connect_attempt`, reconcile deadline | main loop: connect with backoff, reconcile, resolve, tick, handle intent | everything |
| Order pipeline (`app/execution/order_manager.py`, `order_models.py`) | the `Order` in memory | `submit_intent`: insert, risk, gate, mark pending, place, record | database, broker |
| Durable state (`app/state/`) | orders, signals, fills, positions, risk decisions, the kill-switch latch | one autocommitted statement per call; `replace_all` is a transaction | trading process and operator commands |
| Reconciliation (`app/portfolio/`) | `PositionBook` | ingest fills, compare positions and orders, adopt | broker reads, database |
| Operator command (`app/execution/operator_order.py`, `app/cli.py`) | a process of its own | connect, reconcile, one intent, wait for a status, reconcile again | the same database, the same broker |
| Risk manager and gate (`app/risk`, `app/safety/gate.py`) | none | pure decisions over a context | pipeline |
| Kill switch (`app/safety/killswitch.py`) | latch in the database | `engage`; there is no disengage | tick, risk |
| Market data (`app/market_data`) | quotes, subscriptions | subscribe, poll, clear | adapter |
| IBKR adapter (`app/broker/ibkr_broker.py`) | session, pending requests, market-data request ids, order statuses | requests answered by callbacks on a reader thread | gateway |
| Mock broker | positions, orders, fills | fills market orders at once | pipeline |
| Signal validator | `_seen_intent_ids` | `validate`, `seed_seen` | signals table |
| Configuration (`app/config.py`) | none; the process environment is fixed with its container | `from_env`, `validate` | everything, once at start |
| Posture check, checkout (`app/safety/posture.py`, `app/broker/checkout.py`) | none | `verify` judges a configuration; `ibkr-checkout` probes the gateway without an order | operator |

Monitoring, the historical-bar commands, logging and id/time utilities keep no state that
trading depends on. `PROJECT.json` lists every component with its status and, where it is
not modelled, the reason.

What makes the system hard:

* **Crashes.** A process can die between any two database statements, and between the
  broker taking an order and the row saying so.
* **Two processes.** `place-order` is a second process on the trader's database and
  broker. Nothing locks across the two; in-memory state (the book, the validator's
  memory) is per process.
* **A broker that acts by itself.** An order fills or is cancelled between any two of the
  reads a reconciliation is made of, or after a status request timed out.
* **Sessions.** The connection drops while the loop stands anywhere; what was learned in
  one session may be used in the next.
* **Two threads.** ibapi answers on a thread of its own. It finds the request an answer is
  for by a number, and by then the coroutine may have given up, or asked again.
* **A switch from outside.** The kill switch is latched by another process at any moment.
* **Settings from outside.** The `.env` file, the container's environment and what the
  running bot parsed are three things, and a command executed beside the bot parses a
  fourth time.

What makes each part correct:

* pipeline: an intent is sent at most once; nothing sent is forgotten; what is sent was
  approved at that size; limits hold at the broker, not only in the count;
* reconciliation: the book is what the recorded executions say; READY means no order's
  fate is unknown; the position limit holds; disagreements that should heal do;
* lifecycle: READY is earned, orders trust only their own session, the switch ends READY
  for good, recovery needs nobody;
* adapter: a request is answered by its own rows or fails, and nobody waits for ever;
* controls: an order takes every permission spelled out, stays within the limits, and
  never belies what `verify` or the checkout said of its container; editing towards
  safety is safe.

## 2. Modules

| Module | Models | Proofs | Instances |
|---|---|---|---|
| `TransmitOnce` | the promise about one intent: commit durably, call at most once | | |
| `OrderPipeline` | `_handle_intent`, `SignalValidator`, `submit_intent`, orders and signals tables; implements `TransmitOnce` | `OrderPipeline_proofs`, `OrderPipeline_limits`, `OrderPipeline_hours` | `MC_OrderPipeline` |
| `Reconciliation` | `_reconcile`, `_ingest_fills`, `Reconciler`, `PositionBook`, orders sent against it, the operator command, the broker; implements `TransmitOnce` for the orders sized from its book | `Reconciliation_proofs` | `MC_Reconciliation` |
| `TradingSession` | the promise about one order: approved on what was learnt from the session it goes to, handed over to that one or not at all, at most one after the latch | | |
| `Lifecycle` | `_main_loop` with its handlers, the flags a trade depends on, and the world; implements `TradingSession` | `Lifecycle_proofs` | `MC_Lifecycle` |
| `Controls` | the pure decisions: `Config.from_env` and `validate`, risk manager, transmit gate, posture, checkout | (in `Deployment_proofs`) | |
| `Deployment` | `Controls` at work: `.env` file, container, bot, commands, latch, orders | `Deployment_proofs` | `MC_Deployment` |
| `Answers` | the promise about one request: its own rows, or a failure | | |
| `IBSession` | `IBKRBroker` and `_IBSession`: connecting, requests, the reader thread's callbacks, ids, errors, timeouts; implements `Answers` | `IBSession_proofs`, `IBSession_refinement` | `MC_IBSession` |

The modules look at one program at different magnifications. What one treats as a step
another opens: `Lifecycle.ReconcileSucceeds` is a whole pass of `Reconciliation`;
`Reconciliation.Submit`, `Send` and `Acknowledge` are `OrderPipeline`'s way from
`BuildContext` to `RecordAccepted`, and both implement the same `TransmitOnce`; each of `Reconciliation`'s three reads is a request of
`IBSession`; `OrderPipeline.RiskApprove` and the gate are every check of `Controls`.

### OrderPipeline

`rows`, `signals` and `approvals` are the tables (`approvals` keeps the quantity of the
last approval only). They survive `Stop`. `pc`, `cur`, `order`, `ctx` and `seen` are a
process's memory. `wire` is what left for the broker. Every action is at most one
committed statement or one broker call, because those are the points where another
process or a crash can come in between; nothing is awaited in between inside a process.

| Action | Code |
|---|---|
| `Start`, `Stop` | `startup` seeds the validator; shutdown, exception, crash |
| `Accept`, `Reject` | `SignalValidator.validate` and `signals.record` |
| `BuildContext` | delta, counts (`_build_risk_context`) |
| `InsertOrder`, `ReuseStoredOrder`, `SuppressDuplicate` | the three outcomes of `insert_if_absent` |
| `RiskApprove`, `Block`, `MarkPending` | risk, gate, the write before the call |
| `PlaceOrder`, `PlaceFails` | `Broker.place_order` |
| `RecordFailure`, `RecordAccepted` | the writes after it |
| `AwaitStatus` | the operator command's: what the broker says became of the order, written to the row found by broker order id |

`Found` is the row that lookup may give. IBKR counts order ids per client id, and the
commands have a client id of their own, so the number may also be on a row of the trading
process.

Abstractions: an intent is its idempotency key; quantities are a small set of signed
sizes; everything happens within one hour, so `stamped` stands for `transmitted_at`;
`created_at` is not kept, so any `SeedLimit` recorded intents may be the newest;
`PARTIALLY_FILLED` is left out because only `Order.apply_fill` assigns it and nothing
calls that. The contexts `submit_intent` is given are built where the code builds them,
before the insert.

### Reconciliation

One contract, so the book is a number. `work` and `position` are the broker's truth,
`row`, `size`, `fills` and `saved` the tables, the rest is per process. The three reads
are three steps. `Ingest` takes one execution at a time because each is a commit of its
own. `Compare` ends the pass. `Fill` and `Cancel` are the broker's and happen at any time. An
order is identified directly rather than by a broker id, and an order fills as a whole.
`InstantFill` distinguishes `MockBroker`, which fills market orders inside `place_order`
and returns FILLED, from IBKR, which returns PENDING_SUBMIT and fills later. Recording a
fill (a select and an insert) is one step.

### Lifecycle

One coroutine runs the loop, so the code between two awaits is one step, and `pc` says
where the loop stands. `session` counts broker sessions, which is what lets a quote, a
reconciliation or a subscription be attributed to the one it came from (`quote.of`,
`reconOf`, `asked`). `account`, `recon`, `contract`, `resolved` and `subscribed` are the
attributes of the same meaning. Under the refinement `TradingSession.trusted` is `reconOf`,
`seen` is `quote.of`, and an order is in hand at "place". `late` counts orders that left after the latch; it and
`reconOf` are history and no guard reads them. The `broker.is_connected()` the code
asks is `up`.

Left out: `TRADING_MODE=disabled` (no broker, no steps); admin instances; the branch of
`_connect_with_backoff` for a `BrokerPermissionError` (main.py:354-369), which neither
adapter raises from `connect`; numeric risk limits; what a reconciliation compares.

### Controls and Deployment

`Controls` has no variables. An environment is what its texts mean: `absent`, a word that
means something, or `garbage`; a number is itself, negative for every refused text, 0 for
absent too, since 0 is every default. A configuration is what `from_env` makes of it. Every
check of the risk manager and of the gate is an operator of its own, TRUE when the check
adds no reason, over an observation: what the application knows when an intent is handled.
The checkout is a function from what its probes read to a report, in the order of
`run_checkout`; `Reports` is the set of outcomes.

`Deployment` asks what the decisions are worth in operation. `file` is edited (`EditFile`);
`container` is created from it, or from it with a value a control panel puts over it
(`Recreate`); `bot` is what the running process parsed (`Start`, `Stop`); `latched` is the
durable switch (`EngageKillSwitch`). `Verify` and `Checkout` say something of the
container, kept in `assurance` and `passed`. `BotOrder` uses what the bot parsed,
`OperatorOrder` parses anew. `Checkout` parses the container's environment too, or that with
`TRADING_MODE` put to paper for the one command, as `RUNBOOK.md` and
`docs/IBKR_GATEWAY_DOCKER.md` run it. `wire` is the last order with all it rested on, `loss` what
was lost today. `before`, `assurance`, `passed` and `loss` are history that no guard reads
(but the bound on `loss`). An order's observation is any element of `Observations`: how the
application comes to know it is the matter of `Lifecycle` and `Reconciliation`.

The age of a quote is read twice in the code, by the risk manager and by the gate;
`late` is the time between.

### IBSession

`request`, `caller` and `future` are the coroutine's side, `pending` and `noted` the
dictionaries both sides use, `reader` what the reader thread is in the middle of. A request
is a number; under which id it goes is `IdFor`: a fixed one for positions and open orders,
the session's next for the rest, IBKR's next order id for orders and previews.

| Action | Code |
|---|---|
| `Connect`, `ManagedAccounts`, `NextValidId`, `FinishConnect`, `Disconnect` | `connect` with the callbacks it waits for, `disconnect` |
| `Ask`, `Receive`, `GiveUp` | a request registered and sent; `_await_request`; its timeout, which leaves the entry |
| `Poll` | the polling loops: ticks, order status, the preview's state |
| `RowArrives`, `EndArrives`, `TakeEntry`, `SetFuture` | the callbacks of a read. The end is three steps, because `_resolve` copies the rows, pops the entry and sets the future with the coroutine running in between |
| `NewsArrives`, `OpenOrderArrives`, `ErrorArrives` | messages without a pending read, or refusing one |
| `StatusElsewhere`, `OpenOrderElsewhere`, `ErrorElsewhere` | the same callbacks for an order that is not this session's |
| `FailAll` | `connectionClosed`, connectivity codes |

Messages carry the request they are really about (`by`, `of`). No action of the code's
side reads that; the properties do. A new session starts when the reader of the old one is
at rest: its registry is empty by then, and what it does touches the old session only.

The callbacks know an order by its number and nothing else. `orderStatus` files what comes
under that number, `error` rejects what is pending under it, and `reqAllOpenOrders` brings
the orders of every client. So the session also hears of orders that are not its own,
those of other clients (`OtherOrders`) and those it placed before a reconnect; together
they are `Elsewhere`, and `by` or `of` is 0 for all of them. Such a message may come at any
time: before the session gives the same number out, while it waits, or after.
`await_order_status` takes at once whatever lies under its number.

A `"quote"` is the first quote of a subscription and draws a fresh id. That
`request_market_data` takes the id of an earlier subscription up again is in `Lifecycle`
(`lifecycle_feed`).

What an answer may be is said by `Answers`. A request that fails in a session *spoils*
kinds: positions and open orders, which have one id each, spoil their own kind, since rows
that come late find the next request; a preview spoils the open orders, since its reply is
appended to whatever read of open orders is pending. The status of an order is a kind whose
numbers are shared with others (`Shared`): it is spoilt while a status of an order
elsewhere is on record, and no longer (`Overhear`). An answer of a kind not spoilt has all
its rows and no others. (Rows of orders placed meanwhile, or elsewhere, are among the open
orders rightly.) The next session starts clean.

## 3. Runs

Passing runs:

| Run | Instance | Shows |
|---|---|---|
| `pipeline_single` | one process, 4 interchangeable intents, 4 starts, limits 2 and 3, two sizes | `OpenLimit`, `HourlyLimit`, `SentAsApproved` |
| `pipeline_replay` | trader and operator, own intents, 2 starts each, `SeedLimit` 0 | `TypeOK`, `AtMostOnce`, `NoOrphan`, `TransmittedIsForever`, `TransmitOnceSpec` |
| `recon_life` | one process, one life, 2 orders, targets -1, 0, 2 | `BookReflectsFills`, `PositionExplained` |
| `recon_operator` | operator commands in turn, 4 starts, 3 orders, one open order allowed | `TypeOK`, `PositionLimit`, `ReadyMeansResolved`, `TrustedBook`, `SendsOnce`, `FillsMoveOneBook` |
| `recon_mock` | a broker that fills at once | `ReadyAgain` |
| `lifecycle_trouble` | IBKR, 3 sessions, one restart, fairness | `TypeOK`, `ReadyIsEarned`, `TrustsThisSession`, `OneLateOrder`, `NoReadyAfterLatch`, `ServesOneSession`, `RecoversToReady`, `HaltEndsReady` |
| `interlocks` | two `.env` files, two edits, every switch and two numbers edited, observations that differ from all-green in one thing, a loss of 1 | `TypeOK`, `ExplicitConsent`, `WithinLimits`, `AssurancesHold`, `ListsAgree`, `PassedMeansObserved`, `LiveTakesTwoEdits`, `TighterIsSafer` |
| `session_answers` | two requests, two sessions, two rows, ids from 3, order ids from 2, another client's order 3 | `TypeOK`, `BlameCrossesSpacesOnly`, `StatusIsOfTheNumber`, `NobodyWaitsForTheDead`, `RightAccountOnly`, `AnswersSpec` |

Why the bounds are enough to see the interesting cases. Four intents exceed both limits of
`pipeline_single`, and four starts give every one of them a crash. With `SeedLimit` 0 the
validator forgets everything at a restart, so every replay reaches the idempotency key.
Two orders are needed for a stale delta and for an order that works while another is
reconciled; target -1 after 2 reverses a position; four starts and three orders let a
crash fall into a send and be followed by two more commands. Three sessions let something from
session one meet session three. Two edits are the fewest that arm a container or take it
live, and one file halts while the other is armed. One request leaves its id behind and the
next one meets it; two rows tell an incomplete answer from a complete one. Every collision
of numbers happens: the first order has the number of the open orders, the second that of
the first fresh request and of another client's order, and an order of the first session
has the number the second session gives out first. (Order ids from 1, which
run into the positions' id, with other clients' orders 1 and 2 are explored without a
violation too, at five times the states. So are `FillsMoveOneBook` and `SendsOnce` with the trading process and the
commands side by side, and `TrustedBook` with two orders open at a time in the trading
process.) Each property has a mutant, a plausible bug in a mapped definition, under
which the same run fails (`mutants` in `PROJECT.json`).

`HourlyLimit` allows one order more for every further process. The bound is tight: with
`Procs = {trader, operator}`, three intents and `MaxHourlyOrders = 1` two orders leave, and
never three.

Runs that show a disagreement between the code and what it says of itself
(`findings` in `PROJECT.json` quotes the sentences):

| Run | What happens |
|---|---|
| `recon_restart` | A fill stored by a reconciliation that failed is skipped for ever after a restart: the book never gets it. |
| `recon_stuck` | Nothing closes the row of a filled IBKR order; the next reconciliations all fail. |
| `lifecycle_feed` | After a drop the adapter takes the old request id for a subscription; no quote ever comes. |
| `daily_loss` | Orders go on leaving past `MAX_DAILY_LOSS_USD`: nothing writes the row the check reads. |

The same modules show the following as well, with the properties and constants named. They
are kept out of the runs, being neighbours of the above or disagreements of wording.

Orders and reconciliation:

* the fill of `recon_restart` is lost in the same way when an operator command records it
  and the trading process skips it (main.py:729; `Procs = {trader, operator}`);
* the same command twice doubles the position while the first order works
  (`PositionLimit`, `MaxOpenOrders = 2`, operator commands in turn), against
  operator_order.py:84-88. It has a twin in one trading process: two intents between two
  reconciliations are sized from the same book (`Procs = {trader}`), against limits.py:51;
* with `Handles` giving two processes the same intent, `AtMostOnce` fails: the insert's
  loser is handed a row that is still NEW and sends too, against repositories.py:73;
* by the ambiguous broker order id of `Found` an operator command may write its order's
  status to a row of the trading process, and leave its own in PENDING_SUBMIT, against the
  comment at operator_order.py:333.

Lifecycle:

* a drop noticed at the top of the loop skips `_handle_disconnect` (main.py:282), so
  quotes outlive their session, against ARCHITECTURE.md:317: `quote.of \in {0, session}`
  is no invariant. `TrustsThisSession` shows that no order is sent on such a quote;
* the tick puts HALTED over the SAFE of a failed reconciliation (main.py:527), against
  ARCHITECTURE.md:159: `state = "HALTED" => recon # "failed"` is no invariant;
* the timer returns to READY without the human of the comment at main.py:402. Another
  comment, main.py:326, wants exactly that: the two cannot both be right;
* a first reconciliation that fails and heals leaves the process READY with no contract
  (`ReadyGetsContract` under `FairSpec`, `Ibkr = FALSE`, one session, no restart);
* the power in `delay_for_attempt` overflows a float at attempt 1025 and ends the process
  (`NeverGivesUp`, one session, one start, `MaxExponent = 2` in place of 1023).

Adapter (`IBSession`):

* a late `openOrderEnd` completes the next read of open orders, possibly before its rows:
  `Exact` is no invariant of answers, against ibkr_broker.py:957, "Every working order at
  the broker". `AnswersSpec` says when this happens: after a failure of that kind, in the
  same session;
* the reply to a preview is appended to the open orders before it is recorded separately,
  against the comment there ("so it can never be mistaken for a working order",
  ibkr_broker.py:494);
* `connect` ignores whether the next order id came, against the comment above it ("Both
  are required", ibkr_broker.py:754). An order without one is refused;
* order ids and request ids share their numbers, so an order's error fails a read that has
  that number, and an error kept from a request refuses a preview. The order need not be
  this session's: an error about order 2 of another client rejects the open orders that are
  being read. `BlameCrossesSpacesOnly` is as much as holds;
* who places an order may be told the status of another client's order, or of one placed
  before a reconnect, that has the same number and was filed first:
  `StatusIsOfTheNumber` without its second alternative is no invariant, against
  ibkr_broker.py:1196, "Wait for the broker to say what it did with an order";
* a timeout between the reader's look at a future and its `set_result` makes that raise,
  and the reader thread ends with the session (`SetFuture`).

Controls (`Deployment`):

* an absent `STRATEGY_ENABLED` is true (config.py:475), against "every absent variable
  falls back to the most restrictive value" (config.py:9). The other permissions being off
  by default, `ExplicitConsent` holds;
* both lists of checks are independent but not equal: the gate does not see the latched
  switch or the numeric limits, the risk manager does not see delayed quotes. `ListsAgree`
  says exactly that;
* the refusal probed by the checkout is the gate's, on a context in which everything else
  is green; given the preconditions of the checkout it cannot fail.

Deadlock is not checked: in every module processes really end, and with the bounds on
starts, orders, edits or sessions used up nothing more need happen.

## 4. Fairness

`Reconciliation.Fairness`: a process starts, its reconciliation goes on, and a call to
the broker ends. The loop is one coroutine, and each request has a timeout
(`IBKRBroker._await_request`), so it returns or fails. Nothing is assumed of fills,
cancels or new intents. `BrokerAnswers` says reads do not fail for ever; without it no
reconciliation need ever succeed.

`Lifecycle.Fairness`: the loop goes on, and the reconcile timer expires (the clock moves).
Success is not assumed of any step. `TroubleEnds` is the environment's part of the claim: from
some point on connecting, reading, comparing, resolving and polling stop failing and the
database can be read. Drops and restarts are bounded by `MaxSessions` and `MaxStarts`. The
liveness properties are claims about recovery after trouble, so trouble has to end.

`OrderPipeline`, `Deployment` and `IBSession` state safety only: nobody owes the broker an
order or the operator a command, and every wait of the adapter ends by a timeout (`GiveUp`),
which would make liveness of the adapter a statement about its timers.

## 5. Proofs

All proofs are hierarchical, one step per action, and are checked by `tlapm` without
trusted leaves. Constants are constrained only by the `ASSUME` of each module.

**OrderPipeline_proofs.** `TypeCorrect`; `SentAtMostOnce`, `NothingOrphaned`,
`NeverSendableAgain` and `ImplementsTransmitOnce`. All but the first assume `OwnIntents`:
every intent is handed to one process, which holds as intent ids are generated where the
intent is, and without which it does not hold (section 3). Neither the database's
UNIQUE constraint nor the validator's memory is what carries the argument. It is that one process at a
time can hold an intent, that its `order` agrees with the row it will overwrite, and that
a row left in PENDING_SUBMIT or later is never loaded again. The inductive invariant says
what is in hand at each `pc`: up to "approved" the row is not transmitted and nothing
was sent; at "pending" the row is PENDING_SUBMIT and nothing was sent; from "answered" on
at most one order was. `AtMostOnce` alone is not inductive: `PlaceOrder` needs to know
that nothing has left yet.

**Reconciliation_proofs.** `TypeCorrect`. `ReadyKnowsEveryFate`, with one process on the
database: between a send and its acknowledgement the process is not READY, a crash
leaves the row in PENDING_SUBMIT, and a reconciliation that finds such a row fails. The
inductive invariant follows what is read and not yet compared: an order that starts
working after the read of open orders cannot exist, since the only process that sends is
the one that reads. `PositionStaysLimited`, with one open order allowed and IBKR's way of
filling: while no row is open nothing works at the broker, so the position read is the
position when the next order is sized; an order is let through only if no row is open,
so at most one order works and position plus its size is the approved target. The
two disagreements of section 3 about `PositionLimit` show that the assumption of one open
order is needed.

`FillsMoveOneBookOnce` and `ImplementsTransmitOnce` hold of any number of processes and
assume nothing. For the first, an execution that is recorded adds its size to the sum of
the recorded ones, and the process that records it is the one that moves its book. For the
second, `OrderInv` says what is in hand at each step of a send: at "sending" the row is
known to the database, and no other process is about to send the same order, because an
order gets its row in the step that takes it in hand.

The sum is `Total`, a function defined by recursion. Induction over data being out of
reach (below), the facts about it are proved from a least counterexample: the set of
numbers at which a claim fails is a set of naturals, hence empty or with a least element
(`WFMin`, `NoFirst`), and the claim for the number before it refutes it. So `TotalAdds` (two
vectors that differ in one place have totals that differ by as much), `TotalZero` and
`TotalInt` are facts about all lengths.

`BookIsTheFills` is `BookReflectsFills` for one process that is started once (`OneLife`).
The assumption is needed: `recon_restart` breaks the property with a second start, and a
second process breaks it by recording a fill the first then skips. The invariant adds to
the property that before its only start the process is down with nothing recorded or
adopted. A step moves either both the book and the sum, by the same quantity, or neither;
and what is adopted is, by the comparison before, what the book already says.

`BookCanBeTrusted` is what survives restarts: one process, IBKR's way of filling, any
number of open orders. The book may be wrong for as long as READY is withheld or an
order is open, and never else: a reconciliation succeeds only with the book equal
to the position it read, and after that read a position moves only by an order that has a
row still open. `InstantFill = TRUE` breaks it (the mock closes the row at the moment of the
fill, a reconciliation before the book learns of it), so the assumption stays.

**Lifecycle_proofs.** `TypeCorrect`; `ReadyAlwaysEarned`; `AlwaysTrustsThisSession`, whose
invariant ties each place of the loop to what has been established there (only a session
that was reconciled can reach the tick in READY, and a quote shown to the strategy is of
the moment it was polled); `AtMostOneLateOrder`, whose invariant says that once an order
was late no further order has been approved, because every approval looks at the latch.
`LatchKeepsFromReady` is the safety half of `HaltEndsReady`: READY is not left at once, as a
loop in the middle of something shows the state it had, but once left it does not come back.
`ImplementsTradingSession` needs the invariants of the two theorems before it: an approval
maps to one of `TradingSession` because the two sessions are the latest, a late order because
none was late before. Every other step of the loop is a loss or a gain of knowledge with no
order in hand.

**OrderPipeline_limits**, for one process on the database (`OneProcess`).
`OpenLimitHolds`: the count an order was approved by is still the table's when the order is
stored, and from then until its outcome is recorded the *other* rows leave room for one.
`SizeIsApproved` assumes besides that a starting process reads back every intent
(`RemembersAll`, the number of intents is at most `SeedLimit`): whatever has a row is in the
validator's memory, so a row with another size is never taken up again. Both assumptions
are needed: several processes can overrun the open orders by stale counts and by
`AwaitStatus` reopening a closed row, and a forgotten intent is sent at the size stored.

**OrderPipeline_hours.** `HourlyLimitHolds`, for any number of processes that own their
intents. A *permit* is a process that has counted, found room and not yet stored its order.
Permits are given out only while the stamps are below the limit, and storing an order turns
a permit into a stamp, so stamps and permits together stay below the limit plus the number
of processes. This is the invariant; the limit by itself is not inductive for two
processes.

**Deployment_proofs.** `TypeCorrect` and the seven other properties of the run. `Pinned` says that
what the bot parsed is what its container says, and that what was said of the container
rests on settings that cannot change under it. `Cleared` says that the last order passed
every check under the container's configuration. `ExplicitConsent`, `WithinLimits` and
`AssurancesHold` follow from the two by the checks alone, so nothing is
assumed of the observations. `LiveNeedsTwoEdits` is about any two environments that start,
whatever happened in between. `SaferByEveryEdit` compares two configurations check by check
(`LooserPermits`): a check that passes under the tighter setting passes under the looser
one, a limit of zero being the tightest of all.

**IBSession_proofs.** `TypeCorrect`, `TheDeadAreBuried`, `OnlyTheRightAccount`,
`BlameIsBounded` and `StatusOfTheNumber`. The invariants are layers, each resting on the ones before: `Numbering`
(which ids are drawn from where, and are below their counters), `Distinct` (two requests of
one session with one id are of one fixed kind, or one of them carries an order id),
`Coroutine` (at most one request is open, the caller's), `Registry` (an open read is
pending or in the reader's hand, never both; a closed socket leaves nothing pending),
`Notes` (what is recorded under an id is of a request with that id, of the kind the tag
says, or of an order elsewhere with that number). Nothing is assumed of the numbers
`nextValidId` announces or other clients use. What is elsewhere for a session only grows
while it lasts (`ElsewhereGrows`), so a note once explained stays explained, and an order's
caller is told of its own order or of one in `Elsewhere`, two orders of one session having
different numbers.

**IBSession_refinement.** `ImplementsAnswers`: `Init` and every step of `IBSession` is one
of `Answers` or a stutter. The invariant follows the rows of the requests whose kind is not
spoilt: while IBKR answers, their entry has every row sent so far and none of another
request, but orders really there, here or elsewhere; so have the copy the reader takes and the answer given. Spoilt
kinds are let go; a step that fails a request must therefore show that it spoils all it
disturbs. For the statuses `Notes` and `Distinct` suffice: what is on record under the number of an
order of this session is that order's or came from elsewhere, and then `Answers` counts the
kind as spoilt. The spoiling of this kind comes and goes with what is recorded, hence
`Overhear`, which a step of the callbacks maps to.

Not proved, only model-checked: liveness (`PositionExplained`, `ReadyAgain`,
`RecoversToReady`, `HaltEndsReady`), since TLAPS cannot reason about fairness and ENABLED.
Every other property of the passing runs is stated by a theorem. No module declares a
RECURSIVE operator, and the library's induction theorems, which take an operator as a
parameter, are not used.

## 6. Not modelled

* *When a tick came.* The adapter stamps a cached tick when it is read
  (ibkr_broker.py:1108), so a feed that goes quiet looks fresh. Every property here about
  freshness is about the stamp.
* *The memory of refused market-data permissions* (market_data/manager.py:110): no decision
  reads it. A refusal is a poll without a price.
* *Time.* Executions stay readable, where the adapter asks for the last 24 hours; the hour
  of the hourly limit does not pass, so old orders do not make room for new ones; timers
  are steps that may happen.
* *The two statements of `FillRepository.record`.* A second process may insert between
  them; the error ends `run()`, which is a stop of that process at that point.
* *Broker order ids in `Reconciliation`*: an order is identified directly. Their ambiguity
  is in `OrderPipeline.Found`, and that a status may be another order's in `IBSession`;
  `OrderPipeline.AwaitStatus` lets any status come, `Reconciliation.AwaitStatus` the order's
  own.
* *Trading from outside the bot*: orders and positions that neither the bot nor its
  commands made are not in `Reconciliation`'s environment. `TrustedBook` says nothing of
  them.
* *Arithmetic of the book*: average price and realised P&L, which no decision reads.
* *`modify_order`, `cancel_order`, `OrderManager.cancel_all_orders`, `Order.apply_fill`*:
  nothing in the program calls them. The command `cancel-all-orders` asks the broker
  directly, which is `Reconciliation.Cancel`.
* *Subscriptions to positions*, account values other than the account's type, ports and
  client ids of the adapter; what a contract must match.
* *Several processes in the runs of `HourlyLimit` and `FillsMoveOneBook`*: these have one
  process at a time. That the properties hold of any number of processes is the theorems'
  (`HourlyLimitHolds`, `FillsMoveOneBookOnce`).
* *An earlier session's reader thread* (see `IBSession` above).
* *Historical bars, migrations, monitoring, logging, utilities*: a batch import nothing in
  trading reads, schema changes at start by one process, reports, formatting, ids and
  clocks. They change nothing the properties are about.

## 7. Running it

    tlc -config OrderPipeline_replay.cfg MC_OrderPipeline
    tlapm OrderPipeline_proofs.tla

`PROJECT.json` names the module and configuration of each run.
