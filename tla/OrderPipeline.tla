--------------------------- MODULE OrderPipeline ---------------------------
(***************************************************************************)
(* One trade intent on its way to the broker: TradingApplication.          *)
(* _handle_intent, SignalValidator, OrderManager.submit_intent, the orders *)
(* and signals tables it writes, and the broker's place_order.  Several    *)
(* operating-system processes (the trading process, operator commands)     *)
(* share the database.                                                     *)
(*                                                                         *)
(* Inside a process nothing is awaited between validation and place_order, *)
(* so the steps below are the points where another process, or a crash,    *)
(* can come in between: each is at most one committed database statement   *)
(* or one call to the broker.  `rows', `signals' and `approvals' are       *)
(* durable; `pc', `cur', `order', `ctx' and `seen' die with the process.   *)
(***************************************************************************)
EXTENDS Integers, FiniteSets

CONSTANTS
  Procs,          \* processes that run the pipeline on one database
  Operators,      \* those that are place-order commands
  Intents,        \* trade intents, one idempotency key each
  Handles,        \* Handles[p]: the intents process p may be given
  Quantities,     \* order sizes, signed: positive buys, negative sells
  None,           \* no intent in hand
  SeedLimit,      \* how many recorded intents a starting process reads back
  MaxOpenOrders,  \* RISK limit: open orders
  MaxHourlyOrders,\* RISK limit: orders transmitted in the last hour
  MaxStarts       \* bound: process starts explored, per process

ASSUME PipelineAssumption ==
  /\ Operators \subseteq Procs
  /\ IsFiniteSet(Intents)
  /\ Handles \in [Procs -> SUBSET Intents]
  /\ Quantities \subseteq Int \ {0}
  /\ None \notin Intents
  /\ {SeedLimit, MaxOpenOrders, MaxHourlyOrders, MaxStarts} \subseteq Nat

ASSUME ProcessAssumption == IsFiniteSet(Procs) /\ Procs # {}

VARIABLES
  rows,       \* orders table: rows[i] is the row under i's idempotency key
  signals,    \* signals table: the intents ever recorded
  approvals,  \* history of risk_decisions: the quantity last approved for i
  pc,         \* where process p stands in the handling of cur[p]
  cur,        \* the intent in hand
  order,      \* the Order object in memory
  ctx,        \* the RiskContext built for it
  seen,       \* SignalValidator._seen_intent_ids
  starts,     \* process starts so far
  wire        \* per intent, the quantities of the orders handed to the broker

vars == <<rows, signals, approvals, pc, cur, order, ctx, seen, starts, wire>>

-----------------------------------------------------------------------------
(* Order rows.  A broker order id is reduced to whether the row has one.   *)

\* (PARTIALLY_FILLED is left out: only Order.apply_fill assigns it, and nothing in the
\* program calls that.)
OpenStatuses_NoPending == {"SUBMITTED", "ACKNOWLEDGED", "CANCEL_PENDING"}
OpenStatuses == {"PENDING_SUBMIT", "SUBMITTED", "ACKNOWLEDGED", "CANCEL_PENDING"}
Statuses == OpenStatuses \cup
            {"NEW", "BLOCKED", "FILLED", "CANCELLED", "REJECTED", "ERROR"}

\* stamped: transmitted_at is set (everything explored happens in one hour).
Row == [status : Statuses, hasId : BOOLEAN, stamped : BOOLEAN, qty : Quantities]

\* No row under that key.
Absent == [status |-> "ABSENT", hasId |-> FALSE, stamped |-> FALSE, qty |-> 0]

\* Order.mark_*: what they leave in the columns kept here.
MarkStatus(o, status) == [o EXCEPT !.status = status]
MarkPendingSubmit(o) == [o EXCEPT !.status = "PENDING_SUBMIT", !.stamped = TRUE]
MarkSubmitted(o, status) == [o EXCEPT !.status = status, !.hasId = TRUE]

\* orders.update: the columns a stored row takes over from the Order in memory,
\* all of them but the quantity.
Columns(o, row) == [o EXCEPT !.qty = row.qty]

ReachedBroker(status) == status \notin {"ABSENT", "NEW", "BLOCKED"}
WasTransmitted_IdOnly(row) == row.hasId
WasTransmitted(row) == ReachedBroker(row.status) \/ row.hasId

OpenOrderCount == Cardinality({i \in Intents : rows[i].status \in OpenStatuses})
OrdersLastHour_Acknowledged == Cardinality({i \in Intents : rows[i].hasId})
OrdersLastHour == Cardinality({i \in Intents : rows[i].stamped})

\* What place_order may return for an order it accepted.
AckStatuses == {"PENDING_SUBMIT", "SUBMITTED", "FILLED"}
\* What IBKR may report later of an order it has (IB_STATUS_MAP).
BrokerStatuses == OpenStatuses \cup {"FILLED", "CANCELLED", "REJECTED"}

Steps == {"down", "idle", "validated", "sized", "built", "approved", "pending",
          "answered", "acked"}
Answers == AckStatuses \cup {"REJECTED", "ERROR"}
NoContext == [qty |-> 0, open |-> 0, hour |-> 0, answer |-> "none"]
Context == [qty : Quantities \cup {0}, open : Nat, hour : Nat,
            answer : Answers \cup {"none"}]

TypeOK ==
  /\ rows \in [Intents -> Row \cup {Absent}]
  /\ signals \subseteq Intents
  /\ approvals \in [Intents -> Quantities \cup {0}]
  /\ pc \in [Procs -> Steps]
  /\ cur \in [Procs -> Intents \cup {None}]
  /\ order \in [Procs -> Row \cup {Absent}]
  /\ ctx \in [Procs -> Context]
  /\ seen \in [Procs -> SUBSET Intents]
  /\ starts \in [Procs -> 0 .. MaxStarts]
  /\ wire \in [Intents -> [n : Nat, qty : Quantities \cup {0}]]

Init ==
  /\ rows = [i \in Intents |-> Absent]
  /\ signals = {}
  /\ approvals = [i \in Intents |-> 0]
  /\ pc = [p \in Procs |-> "down"]
  /\ cur = [p \in Procs |-> None]
  /\ order = [p \in Procs |-> Absent]
  /\ ctx = [p \in Procs |-> NoContext]
  /\ seen = [p \in Procs |-> {}]
  /\ starts = [p \in Procs |-> 0]
  /\ wire = [i \in Intents |-> [n |-> 0, qty |-> 0]]

-----------------------------------------------------------------------------
(* Process life.                                                           *)

\* The handling of the intent in hand is over; the process waits for the next.
BackTo(p, step) ==
  /\ pc' = [pc EXCEPT ![p] = step]
  /\ cur' = [cur EXCEPT ![p] = None]
  /\ order' = [order EXCEPT ![p] = Absent]
  /\ ctx' = [ctx EXCEPT ![p] = NoContext]

\* startup: the validator is seeded with the newest SeedLimit recorded intents.
\* (created_at is not modelled, so any SeedLimit of them may be the newest.)
Start_NoSeed(p) ==
  /\ pc[p] = "down" /\ starts[p] < MaxStarts
  /\ starts' = [starts EXCEPT ![p] = @ + 1]
  /\ pc' = [pc EXCEPT ![p] = "idle"]
  /\ UNCHANGED <<rows, signals, approvals, cur, order, ctx, seen, wire>>

Start(p) ==
  /\ pc[p] = "down" /\ starts[p] < MaxStarts
  /\ starts' = [starts EXCEPT ![p] = @ + 1]
  /\ pc' = [pc EXCEPT ![p] = "idle"]
  /\ \E known \in SUBSET signals :
       /\ \/ known = signals
          \/ Cardinality(known) = SeedLimit
       /\ Cardinality(known) <= SeedLimit
       /\ seen' = [seen EXCEPT ![p] = known]
  /\ UNCHANGED <<rows, signals, approvals, cur, order, ctx, wire>>

\* Shutdown, an exception that ends run(), or the process being killed: whatever
\* was in memory is gone, whatever was committed stays.
Stop(p) ==
  /\ pc[p] # "down"
  /\ BackTo(p, "down")
  /\ seen' = [seen EXCEPT ![p] = {}]
  /\ UNCHANGED <<rows, signals, approvals, starts, wire>>

-----------------------------------------------------------------------------
(* _handle_intent up to the order manager.                                 *)

\* An operator's intent carries an id generated for that command.
Offered(p, i) ==
  /\ pc[p] = "idle" /\ i \in Handles[p]
  /\ p \in Operators => i \notin signals

\* validate accepts, and the signal is recorded (ON CONFLICT DO NOTHING).
Accept(p, i) ==
  /\ Offered(p, i) /\ i \notin seen[p]
  /\ seen' = [seen EXCEPT ![p] = @ \cup {i}]
  /\ signals' = signals \cup {i}
  /\ cur' = [cur EXCEPT ![p] = i]
  /\ pc' = [pc EXCEPT ![p] = "validated"]
  /\ UNCHANGED <<rows, approvals, order, ctx, starts, wire>>

\* validate refuses, as a duplicate or for any other reason; it is recorded too.
Reject(p, i) ==
  /\ Offered(p, i)
  /\ signals' = signals \cup {i}
  /\ UNCHANGED <<rows, approvals, pc, cur, order, ctx, seen, starts, wire>>

\* No contract, nothing to change, or build_order finds the order malformed.
Drop(p) ==
  /\ pc[p] \in {"validated", "sized"}
  /\ BackTo(p, "idle")
  /\ UNCHANGED <<rows, signals, approvals, seen, starts, wire>>

\* Side and size from the book (any of Quantities), the counts from the table.
BuildContext_ZeroDelta(p) ==
  /\ pc[p] = "validated"
  /\ \E q \in Quantities \cup {0} :
       ctx' = [ctx EXCEPT ![p] = [qty |-> q, open |-> OpenOrderCount,
                                  hour |-> OrdersLastHour, answer |-> "none"]]
  /\ pc' = [pc EXCEPT ![p] = "sized"]
  /\ UNCHANGED <<rows, signals, approvals, cur, order, seen, starts, wire>>

BuildContext(p) ==
  /\ pc[p] = "validated"
  /\ \E q \in Quantities :
       ctx' = [ctx EXCEPT ![p] = [qty |-> q, open |-> OpenOrderCount,
                                  hour |-> OrdersLastHour, answer |-> "none"]]
  /\ pc' = [pc EXCEPT ![p] = "sized"]
  /\ UNCHANGED <<rows, signals, approvals, cur, order, seen, starts, wire>>

-----------------------------------------------------------------------------
(* OrderManager.submit_intent.                                             *)

Update(p, o) == rows' = [rows EXCEPT ![cur[p]] = Columns(o, @)]

NewOrder(q) == [status |-> "NEW", hasId |-> FALSE, stamped |-> FALSE, qty |-> q]

\* insert_if_absent found no row under the key.
InsertOrder(p) ==
  /\ pc[p] = "sized" /\ rows[cur[p]] = Absent
  /\ rows' = [rows EXCEPT ![cur[p]] = NewOrder(ctx[p].qty)]
  /\ order' = [order EXCEPT ![p] = NewOrder(ctx[p].qty)]
  /\ pc' = [pc EXCEPT ![p] = "built"]
  /\ UNCHANGED <<signals, approvals, cur, ctx, seen, starts, wire>>

\* It found one that never reached the broker: carry on with the stored record.
ReuseStoredOrder(p) ==
  /\ pc[p] = "sized" /\ rows[cur[p]] # Absent
  /\ ~ WasTransmitted(rows[cur[p]])
  /\ order' = [order EXCEPT ![p] = rows[cur[p]]]
  /\ pc' = [pc EXCEPT ![p] = "built"]
  /\ UNCHANGED <<rows, signals, approvals, cur, ctx, seen, starts, wire>>

\* It found one that may be at the broker: DUPLICATE_SUPPRESSED.
SuppressDuplicate(p) ==
  /\ pc[p] = "sized"
  /\ WasTransmitted(rows[cur[p]])
  /\ BackTo(p, "idle")
  /\ UNCHANGED <<rows, signals, approvals, seen, starts, wire>>

\* The risk manager approves and the decision is recorded.
RiskApprove(p) ==
  /\ pc[p] = "built"
  /\ ctx[p].open < MaxOpenOrders /\ ctx[p].hour < MaxHourlyOrders
  /\ approvals' = [approvals EXCEPT ![cur[p]] = ctx[p].qty]
  /\ pc' = [pc EXCEPT ![p] = "approved"]
  /\ UNCHANGED <<rows, signals, cur, order, ctx, seen, starts, wire>>

\* The risk manager ("built") or the transmit gate ("approved") refuses.
Block(p) ==
  /\ pc[p] \in {"built", "approved"}
  /\ Update(p, MarkStatus(order[p], "BLOCKED"))
  /\ BackTo(p, "idle")
  /\ UNCHANGED <<signals, approvals, seen, starts, wire>>

\* The gate allows; the order is stored as PENDING_SUBMIT before the call.
MarkPending_InMemory(p) ==
  /\ pc[p] = "approved"
  /\ order' = [order EXCEPT ![p] = MarkPendingSubmit(@)]
  /\ pc' = [pc EXCEPT ![p] = "pending"]
  /\ UNCHANGED <<rows, signals, approvals, cur, ctx, seen, starts, wire>>

MarkPending(p) ==
  /\ pc[p] = "approved"
  /\ order' = [order EXCEPT ![p] = MarkPendingSubmit(@)]
  /\ Update(p, MarkPendingSubmit(order[p]))
  /\ pc' = [pc EXCEPT ![p] = "pending"]
  /\ UNCHANGED <<signals, approvals, cur, ctx, seen, starts, wire>>

Answered(c, answer) == [c EXCEPT !.answer = answer]

\* place_order raises, or refuses, before anything leaves the process.
PlaceFails(p) ==
  /\ pc[p] = "pending"
  /\ \E answer \in {"REJECTED", "ERROR"} :
       ctx' = [ctx EXCEPT ![p] = Answered(@, answer)]
  /\ pc' = [pc EXCEPT ![p] = "answered"]
  /\ UNCHANGED <<rows, signals, approvals, cur, order, seen, starts, wire>>

\* place_order hands the order over and returns at once.
PlaceOrder(p) ==
  /\ pc[p] = "pending"
  /\ wire' = [wire EXCEPT ![cur[p]] = [n |-> @.n + 1, qty |-> order[p].qty]]
  /\ \E answer \in AckStatuses :
       ctx' = [ctx EXCEPT ![p] = Answered(@, answer)]
  /\ pc' = [pc EXCEPT ![p] = "answered"]
  /\ UNCHANGED <<rows, signals, approvals, cur, order, seen, starts>>

\* The outcome of the call is written to the row.
RecordFailure_Retry(p) ==
  /\ pc[p] = "answered" /\ ctx[p].answer \in {"REJECTED", "ERROR"}
  /\ Update(p, MarkStatus(order[p],
                  IF ctx[p].answer = "ERROR" THEN "NEW" ELSE "REJECTED"))
  /\ BackTo(p, "idle")
  /\ UNCHANGED <<signals, approvals, seen, starts, wire>>

RecordFailure(p) ==
  /\ pc[p] = "answered" /\ ctx[p].answer \in {"REJECTED", "ERROR"}
  /\ Update(p, MarkStatus(order[p], ctx[p].answer))
  /\ BackTo(p, "idle")
  /\ UNCHANGED <<signals, approvals, seen, starts, wire>>

RecordAccepted(p) ==
  /\ pc[p] = "answered" /\ ctx[p].answer \in AckStatuses
  /\ Update(p, MarkSubmitted(order[p], ctx[p].answer))
  /\ IF p \in Operators
       THEN /\ pc' = [pc EXCEPT ![p] = "acked"]
            /\ UNCHANGED <<cur, order, ctx>>
       ELSE BackTo(p, "idle")
  /\ UNCHANGED <<signals, approvals, seen, starts, wire>>

\* get_by_broker_order_id: the rows with the number p's order got at the broker.  IBKR
\* counts per client id, and the commands' is not the trading process's, so it may be a
\* row of that one.
Found(p) ==
  {cur[p]} \cup {i \in Intents :
                   rows[i].hasId /\ \E q \in Procs \ Operators : i \in Handles[q]}

\* The operator command asks the broker what became of the order and writes the
\* answer to the row it finds by broker order id; a timeout writes nothing.
AwaitStatus(p) ==
  /\ pc[p] = "acked" /\ p \in Operators
  /\ \/ \E i \in Found(p), status \in BrokerStatuses :
          rows' = [rows EXCEPT ![i] = MarkStatus(@, status)]
     \/ UNCHANGED rows
  /\ BackTo(p, "idle")
  /\ UNCHANGED <<signals, approvals, seen, starts, wire>>

-----------------------------------------------------------------------------
Next ==
  \E p \in Procs :
    \/ Start(p) \/ Stop(p)
    \/ \E i \in Intents : Accept(p, i) \/ Reject(p, i)
    \/ Drop(p) \/ BuildContext(p)
    \/ InsertOrder(p) \/ ReuseStoredOrder(p) \/ SuppressDuplicate(p)
    \/ RiskApprove(p) \/ Block(p) \/ MarkPending(p)
    \/ PlaceFails(p) \/ PlaceOrder(p)
    \/ RecordFailure(p) \/ RecordAccepted(p) \/ AwaitStatus(p)

Spec == Init /\ [][Next]_vars

-----------------------------------------------------------------------------
(* Properties.                                                             *)

\* Every intent is handed to one process: what the properties of the whole pipeline
\* rest on (intent ids are generated where the intent is).
OwnIntents ==
  \A p, q \in Procs : p # q => Handles[p] \cap Handles[q] = {}

\* An intent reaches the broker at most once, whatever crashes, restarts and
\* replays come in between (OrderManager.submit_intent, was_transmitted).
AtMostOnce == \A i \in Intents : wire[i].n <= 1

\* An order the broker was handed is visible to reconciliation: its row has the
\* broker's id, or is still PENDING_SUBMIT without one, which reconciliation
\* refuses to trade past (the write before the call in submit_intent).
NoOrphan ==
  \A i \in Intents :
    wire[i].n > 0 => rows[i].hasId \/ rows[i].status = "PENDING_SUBMIT"

\* No write takes a row that may be at the broker back to one that may be sent
\* again, nor loses its broker order id (update writes whole rows from memory).
KeepsTransmitted ==
  \A i \in Intents :
    /\ ReachedBroker(rows[i].status) => ReachedBroker(rows'[i].status)
    /\ rows[i].hasId => rows'[i].hasId
TransmittedIsForever == [][KeepsTransmitted]_rows

\* One process: the orders at the broker that no row calls finished never exceed
\* the limit, although the count is taken steps, and crashes, before the send.
OpenLimit ==
  Cardinality({i \in Intents :
     /\ wire[i].n > 0
     /\ rows[i].status \notin {"FILLED", "CANCELLED", "REJECTED", "ERROR"}})
    <= MaxOpenOrders

\* No more orders leave in the hour than the limit allows, also when a crash loses
\* the broker's answer, and at most one more for each further process: nothing locks
\* the table between the count and the send (_build_risk_context).
HourlyLimit ==
  Cardinality({i \in Intents : wire[i].n > 0}) <= MaxHourlyOrders + Cardinality(Procs) - 1

\* The order sent is the size the risk manager approved: submit_intent may reuse
\* a stored row, whose quantity is not the one evaluated, and only the validator's
\* memory of past intents keeps it from doing so.
SentAsApproved ==
  \A i \in Intents : wire[i].n > 0 => wire[i].qty = approvals[i]

-----------------------------------------------------------------------------
(* Refinement: TransmitOnce.                                               *)

Committed(i) == \E p \in Procs : pc[p] = "pending" /\ cur[p] = i
fate == [i \in Intents |-> IF ~ WasTransmitted(rows[i]) THEN "open"
                          ELSE IF Committed(i) THEN "committed" ELSE "settled"]
sent == {i \in Intents : wire[i].n > 0}

\* The pipeline implements its promise: commit durably, then call at most once.
Once == INSTANCE TransmitOnce WITH Intents <- Intents, fate <- fate, sent <- sent
TransmitOnceSpec == Once!Spec

=============================================================================
