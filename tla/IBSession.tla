------------------------------ MODULE IBSession ------------------------------
(***************************************************************************)
(* The IBKR adapter: one coroutine that asks, ibapi's reader thread that   *)
(* runs the callbacks, and the registry of pending requests between them.  *)
(* Positions and open orders have a fixed request id each, the other       *)
(* requests draw a fresh one, and orders draw theirs from IBKR's counter.  *)
(* A callback knows a request by its id alone.                             *)
(*                                                                         *)
(* A request is its number c.  The dictionaries of _IBSession are sets of  *)
(* entries: pending holds requests with the rows they have so far, noted   *)
(* what was recorded under an id (ticks, order statuses, whatIf states,    *)
(* errors).                                                                *)
(* The messages of IBKR carry the request they are about in the model      *)
(* (by, of); no guard of the code's side reads it.  IBKR also sends word   *)
(* of orders that are not this session's, those of other clients and those *)
(* placed before a reconnect; in by and of all of these are 0.             *)
(***************************************************************************)
EXTENDS Naturals, FiniteSets

CONSTANTS
  MaxCalls,        \* bound on the requests made
  MaxSessions,     \* bound on the connections made
  Rows,            \* the rows of a complete answer
  FirstRequestId,  \* 1001 in the code, smaller here so that ids can meet
  FirstOrderIds,   \* what nextValidId may announce
  OtherOrders,     \* the numbers of other clients' orders
  Expected         \* expected_account_type, "any" when none is configured

ASSUME BoundsAssumption ==
  /\ MaxCalls \in Nat /\ MaxSessions \in Nat /\ Rows \in Nat \ {0}

\* _next_request_id starts above the two fixed ids; IBKR's order ids start at 1.
ASSUME IdsAssumption ==
  /\ FirstRequestId \in Nat /\ FirstRequestId > 2
  /\ FirstOrderIds \subseteq Nat \ {0} /\ OtherOrders \subseteq Nat \ {0}

VARIABLES
  session,      \* which _IBSession the adapter holds
  link,         \* the adapter's _state
  socket,       \* session.isConnected()
  accounts,     \* type of the managed accounts, "none" before the callback
  nextRequest,  \* the id the next request will draw
  nextOrder,    \* _next_order_id, 0 before nextValidId
  request,      \* kind, id and session of each request made
  caller,       \* the request the coroutine awaits, 0 when none
  pending,      \* _pending: the requests whose answer is still to be taken
  future,       \* state of each request's future (of its wait, if it has none)
  answer,       \* the rows each request was given
  lapsed,       \* the requests whose caller gave up waiting
  noted,        \* what callbacks recorded under an id for somebody to poll
  progress,     \* how much of the answer to each request IBKR has sent
  reader,       \* what the reader thread is in the middle of
  cause         \* history: whose refusal made a request fail, itself by default

vars == <<session, link, socket, accounts, nextRequest, nextOrder, request, caller,
          pending, future, answer, lapsed, noted, progress, reader, cause>>

connection == <<session, link, socket, accounts>>
counters == <<nextRequest, nextOrder>>

-----------------------------------------------------------------------------
Calls == 1..MaxCalls
Fixed == {"positions", "orders"}
\* have a future in _pending; "fills" stands for the account summary, the executions and
\* the contract details, which draw a fresh id each.
Awaited == Fixed \cup {"fills"}
Numbered == {"order", "preview"}               \* carry an order id
Kinds == Awaited \cup {"quote"} \cup Numbered

POSITION_REQ_ID == 1
OPEN_ORDERS_REQ_ID == 2

NoRequest == [kind |-> "none", id |-> 0, session |-> 0]
Row(c, n) == [of |-> c, n |-> n]
OwnRows(c) ==
  IF request[c].kind \in Awaited THEN {Row(c, n) : n \in 1..Rows} ELSE {Row(c, 1)}

Idle == [at |-> "idle", id |-> 0, call |-> 0, value |-> {}, ok |-> FALSE]

\* The entry of _pending under an id: at most one request's.
Entry(id) == {e \in pending : request[e.call].id = id}
AddRow(id, row) ==
  pending' = (pending \ Entry(id)) \cup {[e EXCEPT !.rows = @ \cup {row}] : e \in Entry(id)}

\* What was recorded under an id in one of the session's dictionaries.
Recorded(tag, id) == {m \in noted : m.tag = tag /\ m.id = id}
Record(tag, id, by) ==
  noted' = (noted \ Recorded(tag, id)) \cup {[tag |-> tag, id |-> id, by |-> by]}

Connected == link = "up" /\ socket
Made(c) == request[c].kind # "none"
Live(c) == socket /\ request[c].session = session

\* The numbers of the orders that are not session s's own: those of other clients, and
\* those of the adapter's own earlier sessions.
Elsewhere(s) ==
  OtherOrders \cup
    {request[c].id : c \in {d \in Calls : request[d].kind = "order" /\ request[d].session < s}}

Init ==
  /\ session = 0 /\ link = "down" /\ socket = FALSE /\ accounts = "none"
  /\ nextRequest = FirstRequestId /\ nextOrder = 0
  /\ request = [c \in Calls |-> NoRequest]
  /\ caller = 0 /\ pending = {} /\ noted = {} /\ lapsed = {}
  /\ future = [c \in Calls |-> "none"]
  /\ answer = [c \in Calls |-> {}]
  /\ progress = [c \in Calls |-> 0]
  /\ reader = Idle
  /\ cause = [c \in Calls |-> c]

-----------------------------------------------------------------------------
(* Connecting.  The thread of an earlier session touches only that session, *)
(* whose requests have all ended: a new one starts when it is at rest.      *)

\* Mutant: what the old session recorded is carried over.
Connect_Bug ==
  /\ ~ Connected /\ link # "opening" /\ caller = 0 /\ reader = Idle
  /\ session < MaxSessions
  /\ session' = session + 1
  /\ \E reached \in BOOLEAN :
       /\ socket' = reached
       /\ link' = IF reached THEN "opening" ELSE "down"
  /\ accounts' = "none"
  /\ nextRequest' = FirstRequestId /\ nextOrder' = 0
  /\ pending' = {}
  /\ progress' = [c \in Calls |-> 0]
  /\ UNCHANGED <<request, caller, future, answer, lapsed, noted, reader, cause>>

\* connect: a new session object, and a socket if the gateway can be reached.
Connect ==
  /\ ~ Connected /\ link # "opening" /\ caller = 0 /\ reader = Idle
  /\ session < MaxSessions
  /\ session' = session + 1
  /\ \E reached \in BOOLEAN :
       /\ socket' = reached
       /\ link' = IF reached THEN "opening" ELSE "down"
  /\ accounts' = "none"
  /\ nextRequest' = FirstRequestId /\ nextOrder' = 0
  /\ pending' = {} /\ noted' = {}
  /\ progress' = [c \in Calls |-> 0]
  /\ UNCHANGED <<request, caller, future, answer, lapsed, reader, cause>>

\* Callbacks of the handshake.
ManagedAccounts ==
  /\ link = "opening" /\ socket /\ accounts = "none"
  /\ accounts' \in {"paper", "live", "unknown"}
  /\ UNCHANGED <<session, link, socket, counters, request, caller, pending, future,
                 answer, lapsed, noted, progress, reader, cause>>

NextValidId ==
  /\ socket /\ nextOrder = 0
  /\ nextOrder' \in FirstOrderIds
  /\ UNCHANGED <<connection, nextRequest, request, caller, pending, future, answer,
                 lapsed, noted, progress, reader, cause>>

\* disconnect: the session is dropped and its socket closed.
CloseSession ==
  /\ link' = "down" /\ socket' = FALSE /\ pending' = {}

\* Mutant: an account type that cannot be told is let through.
FinishConnect_Bug ==
  /\ link = "opening"
  /\ IF accounts # "none" /\ (Expected \in {accounts, "any"} \/ accounts = "unknown")
       THEN link' = "up" /\ UNCHANGED <<socket, pending>>
       ELSE CloseSession
  /\ UNCHANGED <<session, accounts, counters, request, caller, future, answer,
                 lapsed, noted, progress, reader, cause>>

\* connect goes on when the accounts are known.  Whether the order id came is not
\* looked at.  The wrong kind of account ends the session, as a timeout does.
FinishConnect ==
  /\ link = "opening"
  /\ IF accounts # "none" /\ Expected \in {accounts, "any"}
       THEN link' = "up" /\ UNCHANGED <<socket, pending>>
       ELSE CloseSession
  /\ UNCHANGED <<session, accounts, counters, request, caller, future, answer,
                 lapsed, noted, progress, reader, cause>>

Disconnect ==
  /\ link = "up" /\ caller = 0
  /\ CloseSession
  /\ UNCHANGED <<session, accounts, counters, request, caller, future, answer,
                 lapsed, noted, progress, reader, cause>>

-----------------------------------------------------------------------------
(* The coroutine.                                                           *)

\* Mutant: executions are read under the id of the positions.
IdFor_Bug(k) ==
  CASE k \in {"positions", "fills"} -> POSITION_REQ_ID
    [] k = "orders"    -> OPEN_ORDERS_REQ_ID
    [] k \in Numbered  -> nextOrder
    [] OTHER           -> nextRequest

\* The id of a request: fixed, the session's next, or IBKR's next order id.
IdFor(k) ==
  CASE k = "positions" -> POSITION_REQ_ID
    [] k = "orders"    -> OPEN_ORDERS_REQ_ID
    [] k \in Numbered  -> nextOrder
    [] OTHER           -> nextRequest

\* Mutant: the number is given out and not counted on.
TakeOrderId_Bug(k) == nextOrder

\* take_order_id: an order and a preview use a number up.
TakeOrderId(k) == IF k \in Numbered THEN nextOrder + 1 ELSE nextOrder

\* A request is made: pending under its id, which replaces an entry left there,
\* and sent.  Between the two nothing the reader does can tell them apart.  A quote is
\* the first of a subscription; taking the id of one already made up again is in Lifecycle.
Ask(c, k) ==
  /\ Connected /\ caller = 0
  /\ ~ Made(c) /\ \A d \in 1..(c - 1) : Made(d)
  /\ k \in Numbered => nextOrder # 0
  /\ request' = [request EXCEPT ![c] = [kind |-> k, id |-> IdFor(k), session |-> session]]
  /\ nextRequest' = IF k \in {"fills", "quote"} THEN nextRequest + 1 ELSE nextRequest
  /\ nextOrder' = TakeOrderId(k)
  /\ pending' = IF k \in Awaited THEN (pending \ Entry(IdFor(k))) \cup {[call |-> c, rows |-> {}]}
                                    ELSE pending
  /\ future' = [future EXCEPT ![c] = "open"]
  /\ caller' = c
  /\ UNCHANGED <<connection, answer, lapsed, noted, progress, reader, cause>>

\* _await_request returns or raises what the future holds.
Receive(c) ==
  /\ caller = c /\ request[c].kind \in Awaited
  /\ future[c] \in {"result", "error"}
  /\ caller' = 0
  /\ UNCHANGED <<connection, counters, request, pending, future, answer, lapsed,
                 noted, progress, reader, cause>>

\* The wait runs out.  The future is cancelled if nothing is in it yet; its entry
\* stays where it is.
GiveUp(c) ==
  /\ caller = c
  /\ future' = [future EXCEPT ![c] = IF @ = "open" THEN "cancelled" ELSE @]
  /\ lapsed' = lapsed \cup {c}
  /\ caller' = 0
  /\ UNCHANGED <<connection, counters, request, pending, answer, noted, progress,
                 reader, cause>>

\* Where a request without a future looks for its answer, and for its refusal.
AnswerTag(k) == CASE k = "quote" -> "tick" [] k = "order" -> "status" [] OTHER -> "whatif"
NotedAnswer(c) == Recorded(AnswerTag(request[c].kind), request[c].id)
NotedError(c) == IF request[c].kind = "order" THEN {} ELSE Recorded("error", request[c].id)

\* The polling loops of request_market_data, await_order_status and
\* probe_futures_permission: first the answer, then the refusal.
Poll(c) ==
  /\ caller = c /\ request[c].kind \notin Awaited
  /\ \/ \E m \in NotedAnswer(c) :
          /\ future' = [future EXCEPT ![c] = "result"]
          /\ answer' = [answer EXCEPT ![c] = {Row(m.by, 1)}]
          /\ noted' = IF request[c].kind = "preview" THEN noted \ {m} ELSE noted
          /\ UNCHANGED cause
     \/ /\ NotedAnswer(c) = {}
        /\ \E m \in NotedError(c) :
             /\ future' = [future EXCEPT ![c] = "error"]
             /\ cause' = [cause EXCEPT ![c] = m.by]
        /\ UNCHANGED <<answer, noted>>
  /\ caller' = 0
  /\ UNCHANGED <<connection, counters, request, pending, lapsed, progress, reader>>

-----------------------------------------------------------------------------
(* The reader thread: callbacks in the order IBKR sends them.               *)

\* Mutant: a row counted once too often.
RowArrives_Bug(c) ==
  /\ Live(c) /\ reader = Idle
  /\ request[c].kind \in Awaited /\ progress[c] <= Rows
  /\ progress' = [progress EXCEPT ![c] = @ + 1]
  /\ AddRow(request[c].id, Row(c, progress[c] + 1))
  /\ UNCHANGED <<connection, counters, request, caller, future, answer,
                 lapsed, noted, reader, cause>>

\* position, openOrder, execDetails, accountSummary, contractDetails: one row goes
\* to the entry the id has now.
RowArrives(c) ==
  /\ Live(c) /\ reader = Idle
  /\ request[c].kind \in Awaited /\ progress[c] < Rows
  /\ progress' = [progress EXCEPT ![c] = @ + 1]
  /\ AddRow(request[c].id, Row(c, progress[c] + 1))
  /\ UNCHANGED <<connection, counters, request, caller, future, answer,
                 lapsed, noted, reader, cause>>

\* positionEnd and its like: the rows of the entry are copied ...
EndArrives(c) ==
  /\ Live(c) /\ reader = Idle
  /\ request[c].kind \in Awaited /\ progress[c] = Rows
  /\ progress' = [progress EXCEPT ![c] = Rows + 1]
  /\ reader' = [Idle EXCEPT !.at = "copied", !.id = request[c].id,
                            !.value = UNION {e.rows : e \in Entry(request[c].id)}]
  /\ UNCHANGED <<connection, counters, request, caller, pending, future, answer,
                 lapsed, noted, cause>>

\* A popped entry's future is settled in a moment, unless it is done already.  One
\* request is awaited at a time, so no more than one future is open.
Unsettled(es) == {c \in {e.call : e \in es} : future[c] = "open"}
Settling(es, value, ok) ==
  reader' = IF Unsettled(es) = {} THEN Idle
            ELSE [Idle EXCEPT !.at = "checked", !.call = CHOOSE c \in Unsettled(es) : TRUE,
                              !.value = value, !.ok = ok]

\* ... the entry is taken out of _pending (_resolve) ...
TakeEntry ==
  /\ reader.at = "copied"
  /\ pending' = pending \ Entry(reader.id)
  /\ Settling(Entry(reader.id), reader.value, TRUE)
  /\ UNCHANGED <<connection, counters, request, caller, future, answer, lapsed,
                 noted, progress, cause>>

\* ... and its future is given the result or the error.  If the wait ran out since
\* the future was looked at, that raises; the thread ends, closes the session and fails
\* what is pending.
SetFuture ==
  /\ reader.at = "checked"
  /\ LET c == reader.call IN
       IF future[c] = "open"
         THEN /\ future' = [future EXCEPT ![c] = IF reader.ok THEN "result" ELSE "error"]
              /\ answer' = [answer EXCEPT ![c] = reader.value]
              /\ reader' = Idle
              /\ UNCHANGED <<socket, pending>>
         ELSE /\ socket' = FALSE /\ pending' = {}
              /\ Settling(pending, {}, FALSE)
              /\ UNCHANGED <<future, answer>>
  /\ UNCHANGED <<session, link, accounts, counters, request, caller, lapsed, noted,
                 progress, cause>>

\* tickPrice, orderStatus: recorded under the id for whoever polls.
NewsArrives(c) ==
  /\ Live(c) /\ reader = Idle
  /\ request[c].kind \in {"quote", "order"}
  /\ Record(AnswerTag(request[c].kind), request[c].id, c)
  /\ UNCHANGED <<connection, counters, request, caller, pending, future, answer,
                 lapsed, progress, reader, cause>>

\* openOrder for an order just placed or previewed, asked for by nobody: it joins the
\* open orders if they are being read, and a preview's is recorded besides.
OpenOrderArrives(c) ==
  /\ Live(c) /\ reader = Idle
  /\ request[c].kind \in Numbered /\ progress[c] <= Rows
  /\ progress' = IF request[c].kind = "order" THEN progress
                 ELSE [progress EXCEPT ![c] = Rows + 1]
  /\ AddRow(OPEN_ORDERS_REQ_ID, Row(c, 1))
  /\ IF request[c].kind = "preview" THEN Record("whatif", request[c].id, c) ELSE UNCHANGED noted
  /\ UNCHANGED <<connection, counters, request, caller, future, answer,
                 lapsed, reader, cause>>

\* error with an id: the pending request of that id fails; with none, the error is
\* recorded.
Refuse(id, by) ==
  LET es == Entry(id) IN
    /\ pending' = pending \ es
    /\ Settling(es, {}, FALSE)
    /\ cause' = [d \in Calls |-> IF d \in Unsettled(es) THEN by ELSE cause[d]]
    /\ IF es = {} THEN Record("error", id, by) ELSE UNCHANGED noted

\* IBKR refuses a request, or reports on an order, at any time.
ErrorArrives(c) ==
  /\ Live(c) /\ reader = Idle
  /\ request[c].kind \notin Fixed /\ progress[c] <= Rows
  /\ progress' = IF request[c].kind = "order" THEN progress
                 ELSE [progress EXCEPT ![c] = Rows + 1]
  /\ Refuse(request[c].id, c)
  /\ UNCHANGED <<connection, counters, request, caller, future, answer, lapsed>>

\* The same callbacks, for an order that is not this session's.  They look at the number
\* of the order and not at whose it is, and the session may give the number out itself
\* before or after.
StatusElsewhere(id) ==
  /\ socket /\ reader = Idle
  /\ Record("status", id, 0)
  /\ UNCHANGED <<connection, counters, request, caller, pending, future, answer,
                 lapsed, progress, reader, cause>>

OpenOrderElsewhere ==
  /\ socket /\ reader = Idle /\ Elsewhere(session) # {}
  /\ AddRow(OPEN_ORDERS_REQ_ID, Row(0, 1))
  /\ UNCHANGED <<connection, counters, request, caller, future, answer,
                 lapsed, noted, progress, reader, cause>>

ErrorElsewhere(id) ==
  /\ socket /\ reader = Idle
  /\ Refuse(id, 0)
  /\ UNCHANGED <<connection, counters, request, caller, future, answer, lapsed, progress>>

\* Mutant: the requests are forgotten, not failed.
FailAll_Bug ==
  /\ link # "down" /\ socket /\ reader = Idle
  /\ socket' \in BOOLEAN
  /\ pending' = {}
  /\ UNCHANGED <<session, link, accounts, counters, request, caller, future, answer,
                 lapsed, noted, progress, reader, cause>>

\* fail_all: every pending request fails.  Codes such as 1100 without a request
\* leave the socket open; connectionClosed does not.
FailAll ==
  /\ link # "down" /\ socket /\ reader = Idle
  /\ socket' \in BOOLEAN
  /\ pending' = {}
  /\ Settling(pending, {}, FALSE)
  /\ UNCHANGED <<session, link, accounts, counters, request, caller, future, answer,
                 lapsed, noted, progress, cause>>

-----------------------------------------------------------------------------
Next ==
  \/ Connect \/ ManagedAccounts \/ NextValidId \/ FinishConnect \/ Disconnect
  \/ \E c \in Calls :
       \/ \E k \in Kinds : Ask(c, k)
       \/ Receive(c) \/ GiveUp(c) \/ Poll(c)
       \/ RowArrives(c) \/ EndArrives(c) \/ NewsArrives(c) \/ OpenOrderArrives(c)
       \/ ErrorArrives(c)
  \/ \E id \in Elsewhere(session) : StatusElsewhere(id) \/ ErrorElsewhere(id)
  \/ OpenOrderElsewhere
  \/ TakeEntry \/ SetFuture \/ FailAll

Spec == Init /\ [][Next]_vars

-----------------------------------------------------------------------------
(* Properties.                                                              *)

RowType == [of : 0..MaxCalls, n : 1..Rows]
TypeOK ==
  /\ session \in 0..MaxSessions
  /\ link \in {"down", "opening", "up"} /\ socket \in BOOLEAN
  /\ accounts \in {"none", "paper", "live", "unknown"}
  /\ nextRequest \in Nat /\ nextOrder \in Nat
  /\ request \in [Calls -> [kind : Kinds \cup {"none"}, id : Nat, session : 0..MaxSessions]]
  /\ caller \in 0..MaxCalls
  /\ pending \subseteq [call : Calls, rows : SUBSET RowType]
  /\ lapsed \subseteq Calls
  /\ future \in [Calls -> {"none", "open", "result", "error", "cancelled"}]
  /\ answer \in [Calls -> SUBSET RowType]
  /\ noted \subseteq [tag : {"tick", "status", "whatif", "error"}, id : Nat, by : 0..MaxCalls]
  /\ progress \in [Calls -> 0..(Rows + 1)]
  /\ reader \in [at : {"idle", "copied", "checked"}, id : Nat, call : 0..MaxCalls,
                 value : SUBSET RowType, ok : BOOLEAN]
  /\ cause \in [Calls -> 0..MaxCalls]

\* The caller has been handed an answer.
Answered(c) == future[c] = "result" /\ caller # c /\ c \notin lapsed
Failed(c) == Made(c) /\ caller # c /\ ~ Answered(c)

\* All the rows asked for, and no others but those of orders that are really there.
Exact(c) ==
  /\ OwnRows(c) \subseteq answer[c]
  /\ \A r \in answer[c] : r.of \in {0, c} \/ request[r.of].kind = "order"

\* A request is failed by a refusal that is not its own only where two number spaces
\* meet: of two requests of a session one has an order id and the other has not, or an
\* order elsewhere has its number.  An order is never failed by another's refusal (error,
\* _reject, request_error).
BlameCrossesSpacesOnly ==
  \A c \in Calls : cause[c] # c =>
    /\ request[c].kind # "order"
    /\ IF cause[c] = 0
         THEN request[c].id \in Elsewhere(request[c].session)
         ELSE /\ request[cause[c]].session = request[c].session
              /\ (request[c].kind \in Numbered) # (request[cause[c]].kind \in Numbered)

\* Who placed an order is told the status of that order, or that of an order elsewhere
\* with the same number; never that of another order of the session (take_order_id,
\* orderStatus, await_order_status).
StatusIsOfTheNumber ==
  \A c \in Calls : request[c].kind = "order" /\ future[c] = "result" =>
    \/ answer[c] = {Row(c, 1)}
    \/ answer[c] = {Row(0, 1)} /\ request[c].id \in Elsewhere(request[c].session)

\* When the connection is gone nobody waits for an answer that cannot come: every
\* pending request was failed, whatever was being resolved at that moment
\* (connectionClosed, fail_all, and the thread that dies in set_result).
NobodyWaitsForTheDead ==
  ~ socket /\ reader = Idle =>
    \A c \in Calls : request[c].kind \in Awaited => future[c] # "open"

\* Orders and reads go to the kind of account the process is configured for, also
\* when the handshake races with its timeout (connect's last check).
RightAccountOnly ==
  \A c \in Calls : Made(c) /\ request[c].session = session =>
    accounts # "none" /\ Expected \in {accounts, "any"}

-----------------------------------------------------------------------------
(* Refinement: Answers.                                                     *)

\* Which kinds may be answered wrongly after one of kind k failed: late rows and a
\* late end find the next request of the kind, a late preview the open orders.
Spoils == [k \in Kinds |-> IF k = "preview" THEN {"orders"} ELSE {k} \cap Fixed]

kind == [c \in Calls |-> request[c].kind]
outcome ==
  [c \in Calls |-> CASE ~ Made(c)   -> "unasked"
                     [] caller = c  -> "asked"
                     [] Failed(c)   -> "failed"
                     [] OTHER       -> IF Exact(c) THEN "exact" ELSE "mixed"]
SpoiltByFailure ==
  UNION {Spoils[request[c].kind] : c \in {d \in Calls : request[d].session = session /\ Failed(d)}}

\* The kinds that share their numbers with orders elsewhere, and those of them under
\* whose numbers the session holds an answer that is not its own.
Shared == {"order"}
Overheard == {"order" : m \in {n \in noted : n.tag = "status" /\ n.by = 0}}
spoilt == SpoiltByFailure \cup Overheard

\* The adapter keeps its promise: what it hands out is exact, unless an earlier
\* failure in the session has spoilt the kind; or, for an order's status, unless one of
\* an order elsewhere has been filed.
Promise == INSTANCE Answers WITH
  MaxCalls <- MaxCalls, Kinds <- Kinds, Spoils <- Spoils, Shared <- Shared,
  kind <- kind, outcome <- outcome, spoilt <- spoilt
AnswersSpec == Promise!Spec

=============================================================================
