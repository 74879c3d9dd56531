--------------------------- MODULE Reconciliation ---------------------------
(***************************************************************************)
(* How the position book follows the broker: TradingApplication._reconcile *)
(* (_ingest_fills, Reconciler, adoption), the orders it sends against that *)
(* book, the operator command that does the same in a process of its own,  *)
(* the database both use, and the broker they both talk to.                *)
(*                                                                         *)
(* One contract, so the book is a number.  Each read of the broker is      *)
(* awaited and each database statement commits by itself, so another       *)
(* process, a fill at the broker or a crash can come between any two steps *)
(* below.  What happens to one intent between validation and place_order   *)
(* is OrderPipeline's subject; here it is Submit, Send and Acknowledge.    *)
(***************************************************************************)
EXTENDS Integers, FiniteSets

CONSTANTS
  Procs,         \* processes on one database
  Operators,     \* those that are place-order commands
  NOrders,       \* bound: orders placed in all
  Targets,       \* positions an intent may ask for
  MaxPosition,   \* RISK limit: contracts held, either way
  MaxOpenOrders, \* RISK limit: open orders
  InstantFill,   \* the broker fills at once and says so (MockBroker), or not (IBKR)
  MaxStarts      \* bound: process starts explored, per process

ASSUME ReconciliationAssumption ==
  /\ Operators \subseteq Procs
  /\ NOrders \in Nat /\ MaxStarts \in Nat
  /\ Targets \subseteq Int
  /\ MaxPosition \in Nat /\ MaxOpenOrders \in Nat
  /\ InstantFill \in BOOLEAN

Orders == 1 .. NOrders
NoOrder == 0

VARIABLES
  work,      \* work[o]: what the broker makes of order o
  position,  \* the position at the broker
  row,       \* orders table: what the database says of o
  size,      \* orders table: signed quantity of o
  fills,     \* fills table: the orders whose execution is recorded
  saved,     \* positions table: the quantity last adopted
  pc,        \* where process p stands
  book,      \* PositionBook: the quantity p believes in
  snap,      \* what the reconciliation in progress has read
  verdict,   \* reconciliation.succeeded
  hand,      \* the order p is sending, or has sent (operator)
  starts     \* process starts so far

broker == <<work, position>>
database == <<row, size, fills, saved>>
vars == <<broker, database, pc, book, snap, verdict, hand, starts>>

-----------------------------------------------------------------------------
WorkStates == {"none", "live", "filled", "cancelled"}

\* pending: PENDING_SUBMIT, no broker order id.  open: any open status, with the id.
\* closed: a status that is no longer open.
RowStates == {"none", "pending", "open", "closed"}
OpenRows == {o \in Orders : row[o] \in {"pending", "open"}}

Executions == {o \in Orders : work[o] = "filled"}
Live == {o \in Orders : work[o] = "live"}

Steps == {"down", "idle", "account", "positions", "orders", "fills", "ingest",
          "sending", "sent", "await", "exit"}

NothingRead == [account |-> FALSE, position |-> 0, live |-> {}, fills |-> {}]

TypeOK ==
  /\ work \in [Orders -> WorkStates] /\ position \in Int
  /\ row \in [Orders -> RowStates] /\ size \in [Orders -> Int]
  /\ fills \subseteq Orders /\ saved \in Int
  /\ pc \in [Procs -> Steps] /\ book \in [Procs -> Int]
  /\ snap \in [Procs -> [account : BOOLEAN, position : Int,
                         live : SUBSET Orders, fills : SUBSET Orders]]
  /\ verdict \in [Procs -> BOOLEAN]
  /\ hand \in [Procs -> Orders \cup {NoOrder}]
  /\ starts \in [Procs -> 0 .. MaxStarts]

Init ==
  /\ work = [o \in Orders |-> "none"] /\ position = 0
  /\ row = [o \in Orders |-> "none"] /\ size = [o \in Orders |-> 0]
  /\ fills = {} /\ saved = 0
  /\ pc = [p \in Procs |-> "down"] /\ book = [p \in Procs |-> 0]
  /\ snap = [p \in Procs |-> NothingRead]
  /\ verdict = [p \in Procs |-> FALSE]
  /\ hand = [p \in Procs |-> NoOrder]
  /\ starts = [p \in Procs |-> 0]

Goto(p, step) == pc' = [pc EXCEPT ![p] = step]

-----------------------------------------------------------------------------
(* Process life.                                                           *)

\* startup loads the book from the positions table; _after_connect reconciles.
Start(p) ==
  /\ pc[p] = "down" /\ starts[p] < MaxStarts
  /\ starts' = [starts EXCEPT ![p] = @ + 1]
  /\ book' = [book EXCEPT ![p] = saved]
  /\ Goto(p, "account")
  /\ UNCHANGED <<broker, database, snap, verdict, hand>>

\* The end of an operator command; a shutdown or a crash anywhere, explored while
\* the process may start again.  What is in memory goes; the broker and the database
\* do not notice.
Stop(p) ==
  /\ pc[p] # "down" /\ (pc[p] = "exit" \/ starts[p] < MaxStarts)
  /\ Goto(p, "down")
  /\ book' = [book EXCEPT ![p] = 0]
  /\ snap' = [snap EXCEPT ![p] = NothingRead]
  /\ verdict' = [verdict EXCEPT ![p] = FALSE]
  /\ hand' = [hand EXCEPT ![p] = NoOrder]
  /\ UNCHANGED <<broker, database, starts>>

-----------------------------------------------------------------------------
(* _reconcile.                                                             *)

\* The timer (_maybe_reconcile) in a trading process.
BeginReconcile(p) ==
  /\ pc[p] = "idle" /\ p \notin Operators
  /\ Goto(p, "account")
  /\ UNCHANGED <<broker, database, book, snap, verdict, hand, starts>>

ReadAccount(p) ==
  /\ pc[p] = "account"
  /\ snap' = [snap EXCEPT ![p] = [NothingRead EXCEPT !.account = TRUE]]
  /\ Goto(p, "positions")
  /\ UNCHANGED <<broker, database, book, verdict, hand, starts>>

AccountFails(p) ==
  /\ pc[p] = "account"
  /\ snap' = [snap EXCEPT ![p] = NothingRead]
  /\ Goto(p, "positions")
  /\ UNCHANGED <<broker, database, book, verdict, hand, starts>>

ReadPositions_Table(p) ==
  /\ pc[p] = "positions"
  /\ snap' = [snap EXCEPT ![p].position = saved]
  /\ Goto(p, "orders")
  /\ UNCHANGED <<broker, database, book, verdict, hand, starts>>

ReadPositions(p) ==
  /\ pc[p] = "positions"
  /\ snap' = [snap EXCEPT ![p].position = position]
  /\ Goto(p, "orders")
  /\ UNCHANGED <<broker, database, book, verdict, hand, starts>>

ReadOrders(p) ==
  /\ pc[p] = "orders"
  /\ snap' = [snap EXCEPT ![p].live = Live]
  /\ Goto(p, "fills")
  /\ UNCHANGED <<broker, database, book, verdict, hand, starts>>

ReadFills(p) ==
  /\ pc[p] = "fills"
  /\ snap' = [snap EXCEPT ![p].fills = Executions]
  /\ Goto(p, "ingest")
  /\ UNCHANGED <<broker, database, book, verdict, hand, starts>>

\* After a reconciliation a trading process goes on; an operator command that has
\* sent its order is done.
Conclude(p, ok) ==
  /\ verdict' = [verdict EXCEPT ![p] = ok]
  /\ snap' = [snap EXCEPT ![p] = NothingRead]
  /\ Goto(p, IF p \in Operators /\ hand[p] # NoOrder THEN "exit" ELSE "idle")
  /\ UNCHANGED <<hand, starts, broker>>

\* A BrokerError from one of the three reads.
ReadFails(p) ==
  /\ pc[p] \in {"positions", "orders", "fills"}
  /\ Conclude(p, FALSE)
  /\ UNCHANGED <<database, book>>

\* _ingest_fills, one execution: record it, and apply it if it was not known.
Ingest_Unconditional(p) ==
  /\ pc[p] = "ingest"
  /\ \E o \in snap[p].fills :
       /\ snap' = [snap EXCEPT ![p].fills = @ \ {o}]
       /\ fills' = fills \cup {o}
       /\ book' = [book EXCEPT ![p] = @ + size[o]]
  /\ UNCHANGED <<broker, row, size, saved, pc, verdict, hand, starts>>

Ingest_CountOnly(p) ==
  /\ pc[p] = "ingest"
  /\ \E o \in snap[p].fills :
       /\ snap' = [snap EXCEPT ![p].fills = @ \ {o}]
       /\ fills' = fills \cup {o}
  /\ UNCHANGED <<broker, row, size, saved, pc, book, verdict, hand, starts>>

Ingest(p) ==
  /\ pc[p] = "ingest"
  /\ \E o \in snap[p].fills :
       /\ snap' = [snap EXCEPT ![p].fills = @ \ {o}]
       /\ fills' = fills \cup {o}
       /\ book' = [book EXCEPT ![p] = IF o \in fills THEN @ ELSE @ + size[o]]
  /\ UNCHANGED <<broker, row, size, saved, pc, verdict, hand, starts>>

\* _compare_orders: every working order is ours, and every open row is working.
OrdersAgree_IdsOnly(p) == snap[p].live = {o \in Orders : row[o] = "open"}
OrdersAgree(p) ==
  /\ snap[p].live = {o \in Orders : row[o] = "open"}
  /\ \A o \in Orders : row[o] # "pending"
PositionsAgree(p) == book[p] = snap[p].position

\* The comparison, and on success the adoption of the broker's positions.
Compare(p) ==
  /\ pc[p] = "ingest" /\ snap[p].fills = {}
  /\ LET ok == PositionsAgree(p) /\ OrdersAgree(p) /\ snap[p].account
     IN  /\ Conclude(p, ok)
         /\ book' = [book EXCEPT ![p] = IF ok THEN snap[p].position ELSE @]
         /\ saved' = IF ok THEN snap[p].position ELSE saved
  /\ UNCHANGED <<row, size, fills>>

-----------------------------------------------------------------------------
(* Orders.                                                                 *)

\* READY, and between two reconciliations.
Ready(p) == pc[p] = "idle" /\ verdict[p]

\* The delta from the book to the target, if risk finds the target and the number
\* of open orders within limits; the order is written as PENDING_SUBMIT.
WithinLimits_OffByOne(target) ==
  /\ MaxPosition > 0
  /\ target \in -MaxPosition .. MaxPosition
  /\ Cardinality(OpenRows) <= MaxOpenOrders
WithinLimits(target) ==
  /\ MaxPosition > 0
  /\ target \in -MaxPosition .. MaxPosition
  /\ Cardinality(OpenRows) < MaxOpenOrders

NextOrder == {o \in Orders : row[o] = "none" /\ \A x \in 1 .. o - 1 : row[x] # "none"}

Submit_WritesLater(p) ==
  /\ Ready(p)
  /\ \E target \in Targets \ {book[p]}, o \in NextOrder :
       /\ WithinLimits(target)
       /\ size' = [size EXCEPT ![o] = target - book[p]]
       /\ hand' = [hand EXCEPT ![p] = o]
  /\ Goto(p, "sending")
  /\ UNCHANGED <<broker, row, fills, saved, book, snap, verdict, starts>>

Submit(p) ==
  /\ Ready(p)
  /\ \E target \in Targets \ {book[p]}, o \in NextOrder :
       /\ WithinLimits(target)
       /\ size' = [size EXCEPT ![o] = target - book[p]]
       /\ row' = [row EXCEPT ![o] = "pending"]
       /\ hand' = [hand EXCEPT ![p] = o]
  /\ Goto(p, "sending")
  /\ UNCHANGED <<broker, fills, saved, book, snap, verdict, starts>>

\* place_order reaches the broker.
Send(p) ==
  /\ pc[p] = "sending"
  /\ LET o == hand[p]
     IN  /\ work' = [work EXCEPT ![o] = IF InstantFill THEN "filled" ELSE "live"]
         /\ position' = IF InstantFill THEN position + size[o] ELSE position
  /\ Goto(p, "sent")
  /\ UNCHANGED <<database, book, snap, verdict, hand, starts>>

\* The handling of the order is over: a trading process waits for the next tick,
\* an operator command asks about the order it sent, or exits.
Finish(p, reached) ==
  /\ hand' = [hand EXCEPT ![p] = IF p \in Operators THEN @ ELSE NoOrder]
  /\ Goto(p, IF p \notin Operators THEN "idle" ELSE IF reached THEN "await" ELSE "exit")

\* It fails before it got there: REJECTED or ERROR.
SendFails(p) ==
  /\ pc[p] = "sending"
  /\ row' = [row EXCEPT ![hand[p]] = "closed"]
  /\ Finish(p, FALSE)
  /\ UNCHANGED <<broker, size, fills, saved, book, snap, verdict, starts>>

\* The broker's order id, and the status place_order returned, go to the row.
\* Nothing in a trading process writes the row again.
Acknowledge_AlwaysOpen(p) ==
  /\ pc[p] = "sent"
  /\ row' = [row EXCEPT ![hand[p]] = "open"]
  /\ Finish(p, TRUE)
  /\ UNCHANGED <<broker, size, fills, saved, book, snap, verdict, starts>>

Acknowledge(p) ==
  /\ pc[p] = "sent"
  /\ row' = [row EXCEPT ![hand[p]] = IF InstantFill THEN "closed" ELSE "open"]
  /\ Finish(p, TRUE)
  /\ UNCHANGED <<broker, size, fills, saved, book, snap, verdict, starts>>

\* _await_broker_status: the answer goes to the row, a timeout leaves it; after a
\* fill the command reconciles again.  (MockBroker has nothing to ask.)
AwaitStatus_Unmapped(p) ==
  /\ pc[p] = "await"
  /\ row' = [row EXCEPT ![hand[p]] = work[hand[p]]]
  /\ Goto(p, IF work[hand[p]] = "filled" THEN "account" ELSE "exit")
  /\ UNCHANGED <<broker, size, fills, saved, book, snap, verdict, hand, starts>>

AwaitStatus(p) ==
  /\ pc[p] = "await" /\ ~ InstantFill
  /\ row' = [row EXCEPT ![hand[p]] = IF work[hand[p]] = "live" THEN @ ELSE "closed"]
  /\ Goto(p, IF work[hand[p]] = "filled" THEN "account" ELSE "exit")
  /\ UNCHANGED <<broker, size, fills, saved, book, snap, verdict, hand, starts>>

AwaitTimesOut(p) ==
  /\ pc[p] = "await"
  /\ Goto(p, "exit")
  /\ UNCHANGED <<broker, database, book, snap, verdict, hand, starts>>

-----------------------------------------------------------------------------
(* The broker.                                                             *)

Fill(o) ==
  /\ work[o] = "live"
  /\ work' = [work EXCEPT ![o] = "filled"]
  /\ position' = position + size[o]
  /\ UNCHANGED <<database, pc, book, snap, verdict, hand, starts>>

\* Cancelled or rejected by the broker, or by a person.
Cancel(o) ==
  /\ work[o] = "live"
  /\ work' = [work EXCEPT ![o] = "cancelled"]
  /\ UNCHANGED <<position, database, pc, book, snap, verdict, hand, starts>>

-----------------------------------------------------------------------------
Reconcile(p) ==
  \/ BeginReconcile(p) \/ ReadAccount(p) \/ AccountFails(p)
  \/ ReadPositions(p) \/ ReadOrders(p) \/ ReadFills(p) \/ ReadFails(p)
  \/ Ingest(p) \/ Compare(p)

Trade(p) ==
  \/ Submit(p) \/ Send(p) \/ SendFails(p) \/ Acknowledge(p)
  \/ AwaitStatus(p) \/ AwaitTimesOut(p)

Next ==
  \/ \E p \in Procs : Start(p) \/ Stop(p) \/ Reconcile(p) \/ Trade(p)
  \/ \E o \in Orders : Fill(o) \/ Cancel(o)

Spec == Init /\ [][Next]_vars

\* The main loop runs, and a call to the broker returns or fails (it has a timeout).
\* Nothing is assumed of fills, of cancels or of Submit.
Fairness ==
  \A p \in Procs :
    /\ WF_vars(Start(p)) /\ WF_vars(Reconcile(p)) /\ WF_vars(Send(p) \/ SendFails(p))
    /\ WF_vars(Acknowledge(p)) /\ WF_vars(AwaitStatus(p) \/ AwaitTimesOut(p))

\* The broker is not for ever failing one read or another.
BrokerAnswers == <>[][\A p \in Procs : ~ AccountFails(p) /\ ~ ReadFails(p)]_vars

FairSpec == Spec /\ Fairness /\ BrokerAnswers

-----------------------------------------------------------------------------
(* Properties.                                                             *)

\* What quantities, one for each order, add up to.
Total(quantity) ==
  LET upTo[n \in 0 .. NOrders] == IF n = 0 THEN 0 ELSE upTo[n - 1] + quantity[n]
  IN  upTo[NOrders]

Sum(S) == Total([o \in Orders |-> IF o \in S THEN size[o] ELSE 0])

\* "Already known; the book already reflects it": the book is what the executions
\* recorded in the database add up to, which is what makes it right to skip a
\* recorded one in _ingest_fills.
BookReflectsFills ==
  \A p \in Procs : pc[p] # "down" => book[p] = Sum(fills)

\* The running processes whose book a step moves.
Moved == {p \in Procs : pc[p] # "down" /\ pc'[p] # "down" /\ book'[p] # book[p]}

OneBookMoves ==
  /\ \A p \in Moved : book'[p] - book[p] = Sum(fills)' - Sum(fills)
  /\ fills' # fills => Cardinality(Moved) = 1

\* An execution moves one book, in the step that records it and by its quantity; no
\* other step moves the book of a running process.  (However many processes, commands
\* and restarts: FillRepository.record decides who applies it.)
FillsMoveOneBook == [][OneBookMoves]_vars

\* A process that may trade and lists no open order believes in the position the
\* broker holds, whatever was lost, recorded or skipped before (one process, IBKR's
\* way of filling): "adopt the broker's positions" is safe exactly then.
TrustedBook ==
  \A p \in Procs : Ready(p) /\ OpenRows = {} => book[p] = position

\* A process that may trade knows the fate of every order: nothing is stuck in
\* PENDING_SUBMIT, and nothing works at the broker that its database does not list
\* as open (one process on the database: a crash at any point of a send).
ReadyMeansResolved ==
  \A p \in Procs : Ready(p) =>
    /\ \A o \in Orders : row[o] # "pending"
    /\ \A o \in Live : row[o] = "open"

\* The position at the broker stays within the limit risk checks targets against.
PositionLimit == position \in -MaxPosition .. MaxPosition

\* A position that moved through a fill is explained sooner or later: the position
\* part of a reconciliation cannot stay in disagreement (_ingest_fills runs before
\* the comparison).
PositionExplained ==
  \A p \in Procs : []<>(pc[p] # "down" /\ book[p] = position)

\* A process is about to send o.
InHand(o) == \E p \in Procs : pc[p] = "sending" /\ hand[p] = o

fate == [o \in Orders |-> IF row[o] = "none" THEN "open"
                         ELSE IF InHand(o) THEN "committed" ELSE "settled"]
sent == {o \in Orders : work[o] # "none"}

\* Orders sized from a book are sent the way TransmitOnce promises: written down first,
\* handed over at most once, and never again after a crash or by a later command.
Once == INSTANCE TransmitOnce WITH Intents <- Orders, fate <- fate, sent <- sent
SendsOnce == Once!Spec

\* Recovery is as automatic as the drop: a running process is READY again and again.
ReadyAgain == \A p \in Procs : []<>Ready(p)

=============================================================================
