------------------------- MODULE IBSession_refinement -------------------------
(***************************************************************************)
(* The adapter keeps the promise of Answers, for any number of requests,   *)
(* sessions, rows and ids, and any orders elsewhere.                       *)
(***************************************************************************)
EXTENDS IBSession_proofs

USE BoundsAssumption, IdsAssumption

-----------------------------------------------------------------------------
(* What IBSession_proofs shows, in one formula.                             *)

Base == TypeOK /\ Numbering /\ Distinct /\ Coroutine /\ Registry /\ Notes

LEMMA BaseInit == Init => Base
  BY TypeInit, NumberingInit, CoroutineInit, RegistryInit DEF Init, Notes, Base

LEMMA BaseNext == Base /\ [Next]_vars => Base'
  BY TypeNext, NumberingNext, DistinctNext, CoroutineNext, RegistryNext, NotesNext DEF Base

-----------------------------------------------------------------------------
(* What a failure spoils, and what changes it.                              *)

Clean(c) == request[c].kind \notin SpoiltByFailure

LEMMA SpoilsFacts ==
  \A k \in Kinds, j \in Kinds :
    j \in Spoils[k] <=> (j = k /\ k \in Fixed) \/ (j = "orders" /\ k = "preview")
  BY DEF Spoils, Kinds, Awaited, Fixed, Numbered

\* A kind is spoilt by a failed request of the session.
LEMMA SpoiltBy ==
  ASSUME TypeOK, NEW k \in Kinds
  PROVE  k \in SpoiltByFailure <=>
           \E c \in Calls : /\ request[c].session = session /\ Failed(c)
                            /\ \/ request[c].kind = k /\ k \in Fixed
                               \/ request[c].kind = "preview" /\ k = "orders"
<1>1. \A c \in Calls : Failed(c) => request[c].kind \in Kinds
  BY DEF TypeOK, Failed, Made
<1>2. k \in SpoiltByFailure <=>
        \E c \in Calls : request[c].session = session /\ Failed(c) /\ k \in Spoils[request[c].kind]
  BY DEF SpoiltByFailure
<1> QED BY <1>1, <1>2, SpoilsFacts

\* Steps that leave the requests, their futures and their caller alone.
LEMMA Quiet ==
  ASSUME UNCHANGED <<session, request, caller, future, answer, lapsed>>
  PROVE  /\ UNCHANGED <<kind, outcome, SpoiltByFailure>>
         /\ \A c : /\ Clean(c)' = Clean(c) /\ Made(c)' = Made(c) /\ Exact(c)' = Exact(c)
                  /\ Answered(c)' = Answered(c) /\ OwnRows(c)' = OwnRows(c)
<1>1. \A c : /\ Made(c)' = Made(c) /\ Exact(c)' = Exact(c)
            /\ Answered(c)' = Answered(c) /\ OwnRows(c)' = OwnRows(c)
  BY DEF Made, Answered, Exact, OwnRows
<1>2. UNCHANGED <<kind, outcome, SpoiltByFailure>>
  BY DEF kind, outcome, SpoiltByFailure, Made, Answered, Failed, Exact, OwnRows
<1> QED BY <1>1, <1>2 DEF Clean

\* A request is made once, and settled once its caller has turned away.
LEMMA Settled ==
  ASSUME Base, [Next]_vars, NEW c \in Calls, Made(c)
  PROVE  /\ request'[c] = request[c] /\ Made(c)'
         /\ caller # c => /\ caller' # c
                          /\ future'[c] = future[c] /\ answer'[c] = answer[c]
                          /\ c \in lapsed' <=> c \in lapsed
<1>1. CASE UNCHANGED <<request, caller, future, answer, lapsed>>
  BY <1>1 DEF Made
<1>2. ASSUME NEW d \in Calls, NEW k \in Kinds, Ask(d, k)
      PROVE  /\ request'[c] = request[c] /\ caller' # c
             /\ future'[c] = future[c] /\ UNCHANGED <<answer, lapsed>>
  BY <1>2 DEF Ask, Base, TypeOK
<1>3. ASSUME NEW d \in Calls, Receive(d) \/ GiveUp(d) \/ Poll(d)
      PROVE  /\ request' = request
             /\ caller # c => /\ caller' # c
                              /\ future'[c] = future[c] /\ answer'[c] = answer[c]
                              /\ c \in lapsed' <=> c \in lapsed
  <2>1. caller = d /\ caller' = 0 /\ request' = request /\ 0 # c
    BY <1>3 DEF Receive, GiveUp, Poll, Calls
  <2>2. caller # c => future'[c] = future[c]
    BY <1>3, <2>1 DEF Receive, GiveUp, Poll, Base, TypeOK
  <2>3. caller # c => answer'[c] = answer[c]
    BY <1>3, <2>1 DEF Receive, GiveUp, Poll, Base, TypeOK
  <2>4. caller # c => (c \in lapsed' <=> c \in lapsed)
    BY <1>3, <2>1 DEF Receive, GiveUp, Poll
  <2> QED BY <2>1, <2>2, <2>3, <2>4
<1>4. CASE SetFuture
  <2>1. UNCHANGED <<request, caller, lapsed>>
    BY <1>4 DEF SetFuture
  <2>2. CASE future[reader.call] = "open"
    <3>1. reader.call = caller
      BY <1>4, <2>2 DEF SetFuture, Base, Coroutine, Registry
    <3>2. /\ \E v \in {"result", "error"} : future' = [future EXCEPT ![reader.call] = v]
          /\ answer' = [answer EXCEPT ![reader.call] = reader.value]
      BY <1>4, <2>2, Zenon DEF SetFuture
    <3> QED BY <2>1, <3>1, <3>2 DEF Made, Base, TypeOK
  <2>3. CASE future[reader.call] # "open"
    BY <1>4, <2>1, <2>3 DEF SetFuture, Made
  <2> QED BY <2>2, <2>3
<1>5. CASE \/ Connect \/ ManagedAccounts \/ NextValidId \/ FinishConnect \/ Disconnect
           \/ OpenOrderElsewhere \/ TakeEntry \/ FailAll \/ UNCHANGED vars
  BY <1>1, <1>5 DEF Connect, ManagedAccounts, NextValidId, FinishConnect, Disconnect,
                    OpenOrderElsewhere, TakeEntry, FailAll, vars
<1>6. ASSUME NEW d \in Calls,
             \/ RowArrives(d) \/ EndArrives(d) \/ NewsArrives(d) \/ OpenOrderArrives(d)
             \/ ErrorArrives(d)
      PROVE  UNCHANGED <<request, caller, future, answer, lapsed>>
  BY <1>6 DEF RowArrives, EndArrives, NewsArrives, OpenOrderArrives, ErrorArrives
<1>7. ASSUME NEW id, StatusElsewhere(id) \/ ErrorElsewhere(id)
      PROVE  UNCHANGED <<request, caller, future, answer, lapsed>>
  BY <1>7 DEF StatusElsewhere, ErrorElsewhere
<1> QED BY <1>1, <1>2, <1>3, <1>4, <1>5, <1>6, <1>7 DEF Next, Made

\* Within a session what a failure has spoilt stays spoilt.
LEMMA SpoiltGrows ==
  ASSUME Base, [Next]_vars, session' = session
  PROVE  SpoiltByFailure \subseteq SpoiltByFailure'
<1>1. ASSUME NEW c \in Calls, Failed(c)
      PROVE  Failed(c)' /\ request'[c] = request[c]
  BY <1>1, Settled DEF Failed, Answered
<1> QED BY <1>1 DEF SpoiltByFailure

-----------------------------------------------------------------------------
(* How the rows of an answer come together.                                 *)

OnlyOwn(c, rows) == \A r \in rows : r.of \in {0, c} \/ request[r.of].kind = "order"

Untouched ==
  /\ \A c \in Calls : ~ Made(c) => progress[c] = 0 /\ c \notin lapsed
  /\ caller \notin lapsed

\* No row is of a request that was not made.
Known(r) == r.of = 0 \/ (r.of \in Calls /\ Made(r.of))
Traced ==
  /\ \A c \in Calls : \A r \in answer[c] : Known(r)
  /\ \A e \in pending : \A r \in e.rows : Known(r)
  /\ \A r \in reader.value : Known(r)

\* While they come in: the rows sent so far, and the end not unless it is being handled.
Gathered ==
  \A e \in pending : future[e.call] = "open" /\ Clean(e.call) =>
    /\ \A n \in 1..Rows : n <= progress[e.call] => Row(e.call, n) \in e.rows
    /\ OnlyOwn(e.call, e.rows)
    /\ progress[e.call] = Rows + 1 => reader.at = "copied" /\ reader.id = request[e.call].id

\* When they are copied: complete, and nobody asks under this id before they are taken
\* unless the kind is spoilt by then.
Copied ==
  reader.at = "copied" =>
    /\ \A e \in Entry(reader.id) : future[e.call] = "open" /\ Clean(e.call) =>
         /\ OwnRows(e.call) \subseteq reader.value
         /\ OnlyOwn(e.call, reader.value)
         /\ progress[e.call] = Rows + 1
    /\ \E d \in Calls :
         /\ request[d].id = reader.id /\ request[d].session = session
         /\ request[d].kind \in Awaited
         /\ \/ request[d].kind \in SpoiltByFailure \cup {"fills"}
            \/ caller = d /\ future[d] # "result"

\* When the future is about to be set.
Checked ==
  reader.at = "checked" /\ reader.ok /\ future[reader.call] = "open" /\ Clean(reader.call) =>
    /\ OwnRows(reader.call) \subseteq reader.value
    /\ OnlyOwn(reader.call, reader.value)
    /\ progress[reader.call] = Rows + 1

\* Once the future is set: nothing of the request is still to come.
Given ==
  /\ \A c \in Calls : request[c].session = session =>
       /\ request[c].kind \in Fixed /\ Clean(c) /\ future[c] = "result" => progress[c] = Rows + 1
       /\ request[c].kind = "preview" /\ Answered(c) => progress[c] = Rows + 1
  /\ caller # 0 /\ future[caller] = "result" /\ Clean(caller) => Exact(caller)

Kept == Untouched /\ Traced /\ Gathered /\ Copied /\ Checked /\ Given

LEMMA KeptInit == Init => Kept
  BY DEF Init, Kept, Untouched, Traced, Gathered, Copied, Checked, Given, NoRequest, Idle, Made,
         Awaited, Fixed

\* No other request's rows or end can reach the entry of the open one.
LEMMA Alone ==
  ASSUME Base, Given, NEW e \in pending, future[e.call] = "open", Clean(e.call),
         NEW d \in Calls, Live(d), request[d].kind \in Awaited,
         request[d].id = request[e.call].id, d # e.call
  PROVE  progress[d] = Rows + 1
<1> DEFINE c == e.call
<1>1. c \in Calls /\ request[c].session = session /\ request[c].kind \in Awaited /\ Made(c)
  BY KindFacts DEF Base, TypeOK, Registry, Made
<1>2. request[d].session = session /\ Made(d)
  BY LiveMade DEF Live, Base
<1>3. request[d].kind = request[c].kind /\ request[d].kind \in Fixed
  BY <1>1, <1>2, KindFacts DEF Base, Distinct, Confused
<1>4. caller = c
  BY <1>1 DEF Base, Coroutine
<1>5. ~ Failed(d)
  <2>1. request[c].kind \notin SpoiltByFailure /\ request[c].kind \in Kinds
    BY <1>1, KindFacts DEF Clean
  <2> QED BY <1>2, <1>3, <2>1, SpoiltBy DEF Base
<1>6. future[d] = "result"
  BY <1>2, <1>4, <1>5 DEF Failed, Answered
<1>7. Clean(d)
  BY <1>3 DEF Clean
<1> QED BY <1>2, <1>3, <1>6, <1>7 DEF Given

\* Nor can a preview's.
LEMMA NoPreview ==
  ASSUME Base, Given, NEW e \in pending, future[e.call] = "open", Clean(e.call),
         request[e.call].id = OPEN_ORDERS_REQ_ID,
         NEW d \in Calls, Live(d), request[d].kind \in Numbered, progress[d] <= Rows
  PROVE  request[d].kind = "order"
<1> DEFINE c == e.call
<1>1. c \in Calls /\ request[c].session = session /\ request[c].kind \in Awaited
  BY DEF Base, TypeOK, Registry
<1>2. request[d].session = session /\ Made(d)
  BY LiveMade DEF Live, Base
<1>3. request[c].kind = "orders"
  BY <1>1 DEF Base, Numbering, Awaited, Fixed, Fresh, POSITION_REQ_ID, OPEN_ORDERS_REQ_ID
<1>4. caller = c /\ d # c
  BY <1>1, KindFacts DEF Base, Coroutine
<1>5. SUFFICES ASSUME request[d].kind = "preview" PROVE FALSE
  BY DEF Numbered
<1>6. ~ Failed(d)
  BY <1>2, <1>3, <1>5, SpoiltBy DEF Base, Clean, Kinds, Awaited, Fixed
<1>7. progress[d] = Rows + 1
  BY <1>2, <1>4, <1>5, <1>6 DEF Given, Failed
<1> QED BY <1>7 DEF Base, TypeOK

LEMMA AddRowIs ==
  ASSUME TypeOK, NEW id, NEW row, AddRow(id, row)
  PROVE  \A f \in pending' : \E e \in pending :
           /\ f.call = e.call
           /\ f.rows = IF request[e.call].id = id THEN e.rows \cup {row} ELSE e.rows
<1> SUFFICES ASSUME NEW f \in pending'
             PROVE  \E e \in pending :
                      /\ f.call = e.call
                      /\ f.rows = IF request[e.call].id = id THEN e.rows \cup {row} ELSE e.rows
  OBVIOUS
<1>1. \A e \in pending : /\ e.call = [e EXCEPT !.rows = @ \cup {row}].call
                         /\ e.rows \cup {row} = [e EXCEPT !.rows = @ \cup {row}].rows
  BY DEF TypeOK
<1>2. \/ f \in pending \ Entry(id)
      \/ \E e \in Entry(id) : f = [e EXCEPT !.rows = @ \cup {row}]
  BY DEF AddRow
<1> QED BY <1>1, <1>2 DEF Entry

\* What a poll finds is the answer to the very request, or the status of an order
\* elsewhere.
LEMMA PolledIsOwn ==
  ASSUME Base, NEW c \in Calls, Poll(c), NEW m \in NotedAnswer(c)
  PROVE  \/ m.by = c /\ (request[c].kind = "preview" => progress[c] = Rows + 1)
         \/ m.by = 0 /\ request[c].kind = "order" /\ "order" \in Overheard
<1>1. Made(c) /\ request[c].session = session
  BY DEF Poll, Base, Coroutine, Calls
<1>2. request[c].kind \in {"quote", "order", "preview"}
  BY <1>1 DEF Poll, Base, TypeOK, Made, Kinds, Numbered
<1>3. m \in noted /\ m.tag = AnswerTag(request[c].kind) /\ m.id = request[c].id
  BY DEF NotedAnswer, Recorded
<1>4. CASE m.by \in Calls /\ OwnNote(m)
  <2>1. /\ Made(m.by) /\ request[m.by].id = request[c].id
        /\ request[m.by].session = session /\ request[m.by].kind = request[c].kind
        /\ request[c].kind = "preview" => progress[m.by] = Rows + 1
    BY <1>2, <1>3, <1>4 DEF OwnNote, AnswerTag
  <2>2. m.by = c
    BY <1>1, <1>2, <1>4, <2>1 DEF Base, Distinct, Confused, Fixed
  <2> QED BY <2>1, <2>2
<1>5. CASE m.by = 0 /\ m.tag \in {"status", "error"}
  <2>1. request[c].kind = "order" /\ m.tag = "status"
    BY <1>2, <1>3, <1>5 DEF AnswerTag
  <2> QED BY <1>3, <1>5, <2>1 DEF Overheard
<1> QED BY <1>3, <1>4, <1>5 DEF Base, Notes

-----------------------------------------------------------------------------
(* Each step keeps it.                                                      *)

\* Steps of other threads and the wire: futures and the coroutine stay put.
LEMMA KeptQuietly ==
  ASSUME Base, Kept, UNCHANGED <<session, request, caller, future, answer, lapsed>>,
         pending' \subseteq pending, UNCHANGED <<progress, reader>>
  PROVE  Kept'
<1>1. Untouched' /\ Traced'
  BY Quiet DEF Kept, Untouched, Traced, Known
<1>5. Given'
  BY Quiet DEF Kept, Given
<1>2. Gathered'
  BY Quiet DEF Kept, Gathered, OnlyOwn, Base, TypeOK
<1>3. Copied'
  BY Quiet DEF Kept, Copied, OnlyOwn, Entry, Base, TypeOK
<1>4. Checked'
  BY Quiet DEF Kept, Checked, OnlyOwn, Base, Registry
<1> QED BY <1>1, <1>2, <1>3, <1>4, <1>5 DEF Kept

\* Requests are refused or lost: what is taken out is not about to be answered.
LEMMA KeptFailing ==
  ASSUME Base, Kept, UNCHANGED <<session, request, caller, future, answer, lapsed>>,
         NEW es \in SUBSET pending, pending' = pending \ es, Settling(es, {}, FALSE),
         reader.at # "copied",
         progress' \in [Calls -> 0..(Rows + 1)],
         \A c \in Calls : progress'[c] # progress[c] =>
           /\ Made(c) /\ request[c].kind \notin Fixed
           /\ progress'[c] = Rows + 1
           /\ \A e \in pending' : e.call # c
  PROVE  Kept'
<1>1. /\ reader'.at # "copied" /\ reader'.value = {}
      /\ reader'.at = "checked" => ~ reader'.ok
  <2>1. \/ reader' = Idle
        \/ reader'.at = "checked" /\ reader'.value = {} /\ reader'.ok = FALSE
    BY SettlingFacts DEF Base
  <2> QED BY <2>1 DEF Idle
<1>2. Untouched' /\ Traced'
  BY <1>1, Quiet DEF Kept, Untouched, Traced, Known
<1>3. Given'
  BY Quiet DEF Kept, Given
<1>4. Gathered'
  BY <1>1, Quiet DEF Kept, Gathered, OnlyOwn, Base, TypeOK
<1>5. Copied' /\ Checked'
  BY <1>1 DEF Copied, Checked
<1> QED BY <1>2, <1>3, <1>4, <1>5 DEF Kept

LEMMA KeptRow ==
  ASSUME Base, Kept, NEW d \in Calls, RowArrives(d)
  PROVE  Kept'
<1>1. /\ UNCHANGED <<session, request, caller, future, answer, lapsed>>
      /\ reader = Idle /\ reader' = Idle /\ Live(d) /\ request[d].kind \in Awaited
      /\ progress[d] < Rows /\ AddRow(request[d].id, Row(d, progress[d] + 1))
  BY DEF RowArrives, connection
<1>2. progress'[d] = progress[d] + 1 /\ \A c \in Calls \ {d} : progress'[c] = progress[c]
  BY DEF RowArrives, Base, TypeOK
<1>3. progress[d] \in Nat /\ Made(d)
  BY <1>1, LiveMade DEF Base, TypeOK
<1>4. \A f \in pending' : \E e \in pending :
        /\ f.call = e.call
        /\ f.rows = IF request[e.call].id = request[d].id
                      THEN e.rows \cup {Row(d, progress[d] + 1)} ELSE e.rows
  BY <1>1, AddRowIs DEF Base
<1>5. Row(d, progress[d] + 1).of = d
  BY DEF Row
<1>6. Untouched' /\ Traced'
  <2>1. Untouched'
    BY <1>1, <1>2, <1>3, Quiet DEF Kept, Untouched
  <2>2. \A f \in pending' : \A r \in f.rows : Known(r)
    BY <1>3, <1>4, <1>5 DEF Kept, Traced, Known
  <2> QED BY <1>1, <2>1, <2>2, Quiet DEF Kept, Traced, Known, Made, Idle
<1>7. Given'
  BY <1>1, <1>2, <1>3, Quiet, KindFacts DEF Kept, Given, Awaited, Fixed
<1>8. Copied' /\ Checked'
  BY <1>1 DEF Copied, Checked, Idle
<1>9. Gathered'
  <2> SUFFICES ASSUME NEW f \in pending', future[f.call] = "open", Clean(f.call)
               PROVE  /\ \A n \in 1..Rows : n <= progress'[f.call] => Row(f.call, n) \in f.rows
                      /\ OnlyOwn(f.call, f.rows)
                      /\ progress'[f.call] # Rows + 1
    <3>1. \A f \in pending' : f.call \in Calls
      BY <1>4 DEF Base, TypeOK
    <3> QED BY <1>1, <3>1, Quiet DEF Gathered, OnlyOwn
  <2>1. PICK e \in pending :
          /\ f.call = e.call
          /\ f.rows = IF request[e.call].id = request[d].id
                        THEN e.rows \cup {Row(d, progress[d] + 1)} ELSE e.rows
    BY <1>4
  <2>2. /\ \A n \in 1..Rows : n <= progress[e.call] => Row(e.call, n) \in e.rows
        /\ OnlyOwn(e.call, e.rows)
        /\ progress[e.call] # Rows + 1 /\ e.call \in Calls
    BY <1>1, <2>1 DEF Kept, Gathered, Idle, Base, TypeOK
  <2>3. CASE e.call = d
    <3>1. f.rows = e.rows \cup {Row(d, progress[d] + 1)}
      BY <2>1, <2>3
    <3>2. \A n \in 1..Rows : n <= progress[d] + 1 => n <= progress[d] \/ n = progress[d] + 1
      BY <1>3
    <3> QED BY <1>1, <1>2, <1>3, <1>5, <2>1, <2>2, <2>3, <3>1, <3>2 DEF OnlyOwn
  <2>4. CASE e.call # d
    <3>1. request[e.call].id # request[d].id
      BY <1>1, <1>3, <2>1, <2>4, Alone DEF Kept
    <3> QED BY <1>2, <2>1, <2>2, <2>4, <3>1
  <2> QED BY <2>3, <2>4
<1> QED BY <1>6, <1>7, <1>8, <1>9 DEF Kept

LEMMA KeptOpenOrder ==
  ASSUME Base, Kept, NEW d \in Calls, OpenOrderArrives(d)
  PROVE  Kept'
<1>1. /\ UNCHANGED <<session, request, caller, future, answer, lapsed>>
      /\ reader = Idle /\ reader' = Idle /\ Live(d) /\ request[d].kind \in Numbered
      /\ progress[d] <= Rows /\ AddRow(OPEN_ORDERS_REQ_ID, Row(d, 1))
  BY DEF OpenOrderArrives, connection
<1>2. progress'[d] \in {progress[d], Rows + 1} /\ \A c \in Calls \ {d} : progress'[c] = progress[c]
  BY DEF OpenOrderArrives, Base, TypeOK
<1>3. Made(d) /\ request[d].kind \notin Awaited
  BY <1>1, LiveMade, KindFacts DEF Base
<1>4. \A f \in pending' : \E e \in pending :
        /\ f.call = e.call
        /\ f.rows = IF request[e.call].id = OPEN_ORDERS_REQ_ID
                      THEN e.rows \cup {Row(d, 1)} ELSE e.rows
  <2> DEFINE id == OPEN_ORDERS_REQ_ID
             row == Row(d, 1)
  <2>1. TypeOK /\ AddRow(id, row)
    BY <1>1 DEF Base
  <2> HIDE DEF id, row
  <2>2. \A f \in pending' : \E e \in pending :
          /\ f.call = e.call
          /\ f.rows = IF request[e.call].id = id THEN e.rows \cup {row} ELSE e.rows
    BY <2>1, AddRowIs
  <2> QED BY <2>2 DEF id, row
<1>5. Row(d, 1).of = d
  BY DEF Row
<1>6. Untouched' /\ Traced'
  <2>1. Untouched'
    BY <1>1, <1>2, <1>3, Quiet DEF Kept, Untouched
  <2>2. \A f \in pending' : \A r \in f.rows : Known(r)
    BY <1>3, <1>4, <1>5 DEF Kept, Traced, Known
  <2> QED BY <1>1, <2>1, <2>2, Quiet DEF Kept, Traced, Known, Made, Idle
<1>7. Given'
  BY <1>1, <1>2, <1>3, Quiet, KindFacts DEF Kept, Given, Awaited, Fixed
<1>8. Copied' /\ Checked'
  BY <1>1 DEF Copied, Checked, Idle
<1>9. Gathered'
  <2> SUFFICES ASSUME NEW f \in pending', future[f.call] = "open", Clean(f.call)
               PROVE  /\ \A n \in 1..Rows : n <= progress'[f.call] => Row(f.call, n) \in f.rows
                      /\ OnlyOwn(f.call, f.rows)
                      /\ progress'[f.call] # Rows + 1
    <3>1. \A f \in pending' : f.call \in Calls
      BY <1>4 DEF Base, TypeOK
    <3> QED BY <1>1, <3>1, Quiet DEF Gathered, OnlyOwn
  <2>1. PICK e \in pending :
          /\ f.call = e.call
          /\ f.rows = IF request[e.call].id = OPEN_ORDERS_REQ_ID
                        THEN e.rows \cup {Row(d, 1)} ELSE e.rows
    BY <1>4
  <2>2. /\ \A n \in 1..Rows : n <= progress[e.call] => Row(e.call, n) \in e.rows
        /\ OnlyOwn(e.call, e.rows)
        /\ progress[e.call] # Rows + 1 /\ e.call \in Calls
    BY <1>1, <2>1 DEF Kept, Gathered, Idle, Base, TypeOK
  <2>3. progress'[e.call] = progress[e.call]
    BY <1>2, <1>3, <2>2 DEF Base, Registry
  <2>4. request[e.call].id = OPEN_ORDERS_REQ_ID => request[d].kind = "order"
    BY <1>1, <2>1, NoPreview DEF Kept
  <2> QED BY <1>5, <2>1, <2>2, <2>3, <2>4 DEF OnlyOwn
<1> QED BY <1>6, <1>7, <1>8, <1>9 DEF Kept

LEMMA KeptOpenOrderElsewhere ==
  ASSUME Base, Kept, OpenOrderElsewhere
  PROVE  Kept'
<1>1. /\ UNCHANGED <<session, request, caller, future, answer, lapsed, progress>>
      /\ reader = Idle /\ reader' = Idle /\ AddRow(OPEN_ORDERS_REQ_ID, Row(0, 1))
  BY DEF OpenOrderElsewhere, connection
<1>2. \A f \in pending' : \E e \in pending :
        f.call = e.call /\ (f.rows = e.rows \/ f.rows = e.rows \cup {Row(0, 1)})
  <2> DEFINE id == OPEN_ORDERS_REQ_ID
             row == Row(0, 1)
  <2>1. TypeOK /\ AddRow(id, row)
    BY <1>1 DEF Base
  <2> HIDE DEF id, row
  <2>2. \A f \in pending' : \E e \in pending :
          /\ f.call = e.call
          /\ f.rows = IF request[e.call].id = id THEN e.rows \cup {row} ELSE e.rows
    BY <2>1, AddRowIs
  <2> QED BY <2>2 DEF id, row
<1>3. Row(0, 1).of = 0
  BY DEF Row
<1>4. Untouched' /\ Traced'
  <2>1. Untouched'
    BY <1>1, Quiet DEF Kept, Untouched
  <2>2. \A f \in pending' : \A r \in f.rows : Known(r)
    BY <1>2, <1>3 DEF Kept, Traced, Known
  <2> QED BY <1>1, <2>1, <2>2, Quiet DEF Kept, Traced, Known, Made, Idle
<1>5. Given'
  BY <1>1, Quiet DEF Kept, Given
<1>6. Copied' /\ Checked'
  BY <1>1 DEF Copied, Checked, Idle
<1>7. Gathered'
  <2> SUFFICES ASSUME NEW f \in pending', future[f.call] = "open", Clean(f.call)
               PROVE  /\ \A n \in 1..Rows : n <= progress[f.call] => Row(f.call, n) \in f.rows
                      /\ OnlyOwn(f.call, f.rows)
                      /\ progress[f.call] # Rows + 1
    BY <1>1, Quiet DEF Gathered, OnlyOwn
  <2>1. PICK e \in pending :
          f.call = e.call /\ (f.rows = e.rows \/ f.rows = e.rows \cup {Row(0, 1)})
    BY <1>2
  <2>2. /\ \A n \in 1..Rows : n <= progress[e.call] => Row(e.call, n) \in e.rows
        /\ OnlyOwn(e.call, e.rows)
        /\ progress[e.call] # Rows + 1
    BY <1>1, <2>1 DEF Kept, Gathered, Idle
  <2> QED BY <1>3, <2>1, <2>2 DEF OnlyOwn
<1> QED BY <1>4, <1>5, <1>6, <1>7 DEF Kept

LEMMA KeptEnd ==
  ASSUME Base, Kept, NEW d \in Calls, EndArrives(d)
  PROVE  Kept'
<1>1. /\ UNCHANGED <<session, request, caller, future, answer, lapsed, pending>>
      /\ reader = Idle /\ Live(d) /\ request[d].kind \in Awaited
      /\ progress[d] = Rows
  BY DEF EndArrives, connection
<1>2. progress'[d] = Rows + 1 /\ \A c \in Calls \ {d} : progress'[c] = progress[c]
  BY DEF EndArrives, Base, TypeOK
<1>3. /\ reader'.at = "copied" /\ reader'.id = request[d].id
      /\ reader'.value = UNION {e.rows : e \in Entry(request[d].id)}
  BY DEF EndArrives, Idle
<1>4. request[d].session = session /\ Made(d) /\ Rows # Rows + 1
  BY <1>1, LiveMade DEF Live, Base
<1>5. Untouched' /\ Traced'
  <2>1. Untouched'
    BY <1>1, <1>2, <1>4, Quiet DEF Kept, Untouched
  <2>2. \A r \in reader'.value : Known(r)
    BY <1>3 DEF Kept, Traced, Entry
  <2> QED BY <1>1, <2>1, <2>2, Quiet DEF Kept, Traced, Known
<1>6. Given'
  BY <1>1, <1>2, Quiet, KindFacts DEF Kept, Given, Awaited, Fixed
<1>7. Checked'
  BY <1>3 DEF Checked
<1>8. ASSUME NEW e \in pending, future[e.call] = "open", Clean(e.call)
      PROVE  /\ \A n \in 1..Rows : n <= progress[e.call] => Row(e.call, n) \in e.rows
             /\ OnlyOwn(e.call, e.rows)
             /\ progress[e.call] # Rows + 1 /\ e.call \in Calls
             /\ request[e.call].id = request[d].id => e.call = d
  <2>1. /\ \A n \in 1..Rows : n <= progress[e.call] => Row(e.call, n) \in e.rows
        /\ OnlyOwn(e.call, e.rows)
        /\ progress[e.call] # Rows + 1 /\ e.call \in Calls
    BY <1>1, <1>8 DEF Kept, Gathered, Idle, Base, TypeOK
  <2>2. request[e.call].id = request[d].id => e.call = d
    BY <1>1, <1>4, <1>8, Alone DEF Kept
  <2> QED BY <2>1, <2>2
<1>9. Gathered'
  <2> SUFFICES ASSUME NEW e \in pending, future[e.call] = "open", Clean(e.call)
               PROVE  /\ \A n \in 1..Rows : n <= progress'[e.call] => Row(e.call, n) \in e.rows
                      /\ OnlyOwn(e.call, e.rows)
                      /\ progress'[e.call] = Rows + 1 =>
                           reader'.at = "copied" /\ reader'.id = request[e.call].id
    BY <1>1, Quiet DEF Gathered, OnlyOwn
  <2>1. CASE e.call = d
    BY <1>1, <1>2, <1>3, <1>8, <2>1
  <2>2. CASE e.call # d
    BY <1>2, <1>8, <2>2
  <2> QED BY <2>1, <2>2
<1>10. Copied'
  <2>1. ASSUME NEW e \in Entry(request[d].id), future[e.call] = "open", Clean(e.call)
        PROVE  /\ OwnRows(e.call) \subseteq reader'.value
               /\ OnlyOwn(e.call, reader'.value)
               /\ progress'[e.call] = Rows + 1
    <3>1. e \in pending /\ request[e.call].id = request[d].id
      BY DEF Entry
    <3>2. e.call = d
      BY <1>8, <2>1, <3>1
    <3>3. OnlyOwn(d, e.rows) /\ \A n \in 1..Rows : n <= progress[d] => Row(d, n) \in e.rows
      BY <1>8, <2>1, <3>1, <3>2
    <3>4. \A n \in 1..Rows : n <= progress[d]
      BY <1>1
    <3>5. \A f \in Entry(request[d].id) : f = e
      BY <3>1 DEF Entry, Base, Registry
    <3>6. reader'.value = e.rows
      BY <1>3, <3>1, <3>5 DEF Entry
    <3>7. OwnRows(d) \subseteq e.rows
      BY <1>1, <3>3, <3>4 DEF OwnRows
    <3> QED BY <1>2, <3>2, <3>3, <3>6, <3>7
  <2>2. request[d].kind \in SpoiltByFailure \cup {"fills"} \/ (caller = d /\ future[d] # "result")
    <3> SUFFICES ASSUME request[d].kind # "fills", Clean(d)
                 PROVE  caller = d /\ future[d] # "result"
      BY DEF Clean
    <3>1. request[d].kind \in Fixed /\ request[d].kind \in Kinds
      BY <1>1, KindFacts DEF Awaited
    <3>2. future[d] # "result"
      BY <1>1, <1>4, <3>1 DEF Kept, Given
    <3>3. ~ Failed(d)
      BY <1>4, <3>1, SpoiltBy DEF Clean, Base
    <3> QED BY <1>4, <3>2, <3>3 DEF Failed, Answered
  <2>3. Entry(reader.id)' = Entry(request[d].id)
    BY <1>1, <1>3 DEF Entry
  <2>4. ASSUME NEW e \in Entry(reader.id)', future'[e.call] = "open", Clean(e.call)'
        PROVE  /\ OwnRows(e.call)' \subseteq reader'.value
               /\ OnlyOwn(e.call, reader.value)'
               /\ progress'[e.call] = Rows + 1
    BY <1>1, <2>1, <2>3, <2>4, Quiet DEF OnlyOwn
  <2>5. /\ request'[d].id = reader'.id /\ request'[d].session = session'
        /\ request'[d].kind \in Awaited
        /\ \/ request'[d].kind \in SpoiltByFailure' \cup {"fills"}
           \/ caller' = d /\ future'[d] # "result"
    BY <1>1, <1>3, <1>4, <2>2, Quiet
  <2> QED BY <2>4, <2>5 DEF Copied
<1> QED BY <1>5, <1>6, <1>7, <1>9, <1>10 DEF Kept

LEMMA KeptTake ==
  ASSUME Base, Kept, TakeEntry
  PROVE  Kept'
<1> DEFINE es == Entry(reader.id)
<1>1. /\ UNCHANGED <<session, request, caller, future, answer, lapsed, progress>>
      /\ reader.at = "copied" /\ pending' = pending \ es /\ Settling(es, reader.value, TRUE)
  BY DEF TakeEntry, connection
<1>2. \/ Unsettled(es) = {} /\ reader' = Idle
      \/ /\ reader'.at = "checked" /\ reader'.call \in Unsettled(es)
         /\ reader'.value = reader.value
  <2>1. es \in SUBSET pending /\ reader.value \in SUBSET RowType
    BY DEF Entry, Base, TypeOK
  <2> QED BY <1>1, <2>1, SettlingFacts DEF Base
<1>3. reader'.at # "copied" /\ (reader'.value = {} \/ reader'.value = reader.value)
  BY <1>2 DEF Idle
<1>4. Untouched' /\ Traced' /\ Given'
  BY <1>1, <1>3, Quiet DEF Kept, Untouched, Traced, Known, Given
<1>5. Gathered'
  <2>1. \A e \in pending' : e \in pending /\ request[e.call].id # reader.id
    BY <1>1 DEF Entry
  <2> QED BY <1>1, <2>1, Quiet DEF Kept, Gathered, OnlyOwn, Base, TypeOK
<1>6. Copied'
  BY <1>3 DEF Copied
<1>7. Checked'
  <2>1. \A c \in Unsettled(es) : \E e \in es : e.call = c
    BY DEF Unsettled
  <2>2. reader'.at = "checked" =>
          /\ reader'.call \in Unsettled(es) /\ reader'.value = reader.value
    BY <1>2 DEF Idle
  <2> QED BY <1>1, <2>1, <2>2, Quiet DEF Kept, Copied, Checked, OnlyOwn
<1> QED BY <1>4, <1>5, <1>6, <1>7 DEF Kept

LEMMA KeptSet ==
  ASSUME Base, Kept, SetFuture
  PROVE  Kept'
<1>0. PICK c \in Calls : c = reader.call
  BY DEF SetFuture, Base, Registry
<1>1. /\ UNCHANGED <<session, request, caller, lapsed, progress>> /\ reader.at = "checked"
      /\ c \in Calls /\ \A e \in pending : e.call # c
  BY <1>0 DEF SetFuture, Base, Registry
<1>2. CASE future[c] = "open"
  <2>1. caller = c /\ c # 0
    BY <1>1, <1>2 DEF Base, Coroutine, Calls
  <2>2. /\ future' = [future EXCEPT ![c] = IF reader.ok THEN "result" ELSE "error"]
        /\ answer' = [answer EXCEPT ![c] = reader.value]
        /\ reader' = Idle /\ pending' = pending
    BY <1>0, <1>2 DEF SetFuture
  <2>3. /\ future'[c] = IF reader.ok THEN "result" ELSE "error"
        /\ answer'[c] = reader.value
        /\ \A d \in Calls \ {c} : future'[d] = future[d] /\ answer'[d] = answer[d]
    BY <2>2 DEF Base, TypeOK
  <2>4. \A d \in Calls : Answered(d)' = Answered(d) /\ Failed(d)' = Failed(d)
    BY <1>1, <2>1, <2>3 DEF Answered, Failed, Made
  <2>5. SpoiltByFailure' = SpoiltByFailure
    BY <1>1, <2>4 DEF SpoiltByFailure
  <2>6. \A d \in Calls : future'[d] # "open"
    BY <2>1, <2>3 DEF Base, Coroutine
  <2>7. Untouched' /\ Traced'
    BY <1>1, <2>2, <2>3 DEF Kept, Untouched, Traced, Known, Made, Idle
  <2>8. Gathered' /\ Copied' /\ Checked'
    BY <2>2, <2>6 DEF Gathered, Copied, Checked, Idle, Base, TypeOK
  <2>9. reader.ok /\ Clean(c) => /\ OwnRows(c) \subseteq reader.value
                                /\ OnlyOwn(c, reader.value)
                                /\ progress[c] = Rows + 1
    BY <1>0, <1>1, <1>2 DEF Kept, Checked
  <2>10. Given'
    <3>1. ASSUME NEW d \in Calls, request[d].session = session
          PROVE  /\ request[d].kind \in Fixed /\ Clean(d) /\ future'[d] = "result"
                      => progress[d] = Rows + 1
                 /\ request[d].kind = "preview" /\ Answered(d) => progress[d] = Rows + 1
      BY <2>3, <2>9, <3>1 DEF Kept, Given
    <3>2. future'[c] = "result" /\ Clean(c) => Exact(c)'
      BY <1>1, <2>3, <2>9 DEF Exact, OwnRows, OnlyOwn
    <3> QED BY <1>1, <2>1, <2>4, <2>5, <3>1, <3>2 DEF Given, Clean
  <2> QED BY <2>7, <2>8, <2>10 DEF Kept
<1>3. CASE future[c] # "open"
  <2>1. /\ Settling(pending, {}, FALSE) /\ pending' = pending \ pending
        /\ UNCHANGED <<future, answer>>
    BY <1>0, <1>3 DEF SetFuture
  <2>2. progress' \in [Calls -> 0..(Rows + 1)]
    BY <1>1 DEF Base, TypeOK
  <2> QED BY <1>1, <2>1, <2>2, KeptFailing
<1> QED BY <1>2, <1>3

LEMMA KeptConnect ==
  ASSUME Base, Kept, Connect
  PROVE  Kept'
<1>1. /\ UNCHANGED <<request, caller, future, answer, lapsed, reader>> /\ caller = 0
      /\ reader = Idle /\ pending' = {} /\ session' = session + 1
      /\ progress' = [c \in Calls |-> 0]
  BY DEF Connect
<1>2. \A c \in Calls : request'[c].session # session'
  BY <1>1 DEF Base, TypeOK, Numbering
<1>3. Untouched' /\ Traced'
  BY <1>1 DEF Kept, Untouched, Traced, Known, Made
<1>4. Gathered' /\ Copied' /\ Checked' /\ Given'
  BY <1>1, <1>2 DEF Gathered, Copied, Checked, Given, Idle
<1> QED BY <1>3, <1>4 DEF Kept

LEMMA KeptAsk ==
  ASSUME Base, Base', Kept, [Next]_vars, NEW c \in Calls, NEW k \in Kinds, Ask(c, k)
  PROVE  Kept'
<1>1. /\ UNCHANGED <<session, answer, lapsed, progress, reader>>
      /\ caller = 0 /\ caller' = c /\ ~ Made(c) /\ c # 0
  BY DEF Ask, connection, Calls
<1>2. /\ request'[c] = [kind |-> k, id |-> IdFor(k), session |-> session]
      /\ future'[c] = "open"
      /\ \A d \in Calls \ {c} : request'[d] = request[d] /\ future'[d] = future[d]
  BY DEF Ask, Base, TypeOK
<1>3. \A d \in Calls : future[d] # "open"
  BY <1>1 DEF Base, Coroutine, Calls
<1>4. SpoiltByFailure \subseteq SpoiltByFailure'
  BY <1>1, SpoiltGrows
<1>5. \A d \in Calls : Made(d) => d # c /\ Made(d)'
  BY <1>1, <1>2 DEF Made
<1>6. Made(c)'
  BY <1>2, KindFacts DEF Made
<1>7. \A f \in pending' : f \in pending \/ f = [call |-> c, rows |-> {}]
  BY DEF Ask
<1>8. Untouched'
  BY <1>1, <1>2, <1>5, <1>6 DEF Kept, Untouched, Made
<1>9. Traced'
  <2>1. ASSUME NEW r, Known(r) PROVE Known(r)'
    BY <1>5, <2>1 DEF Known
  <2> QED BY <1>1, <1>7, <2>1 DEF Kept, Traced
<1>10. ASSUME NEW f \in pending', future'[f.call] = "open"
       PROVE  f = [call |-> c, rows |-> {}] /\ f.call = c
  <2>1. CASE f \in pending
    <3>1. f.call \in Calls /\ Made(f.call)
      BY <2>1, KindFacts DEF Base, TypeOK, Registry, Made
    <3> QED BY <1>2, <1>3, <1>5, <1>10, <3>1
  <2> QED BY <1>7, <2>1
<1>11. Gathered'
  <2>1. progress'[c] = 0
    BY <1>1 DEF Kept, Untouched
  <2> QED BY <1>10, <2>1 DEF Gathered, OnlyOwn
<1>12. Copied'
  <2> SUFFICES ASSUME reader.at = "copied" PROVE Copied'
    BY <1>1 DEF Copied
  <2>1. PICK d \in Calls :
          /\ request[d].id = reader.id /\ request[d].session = session
          /\ request[d].kind \in Awaited /\ request[d].kind \in SpoiltByFailure \cup {"fills"}
    BY <1>1 DEF Kept, Copied, Calls
  <2>2. Made(d) /\ d # c /\ request'[d] = request[d] /\ Made(d)'
    BY <1>2, <1>5, <2>1, KindFacts DEF Made
  <2>3. ASSUME NEW f \in Entry(reader.id)', future'[f.call] = "open" PROVE ~ Clean(f.call)'
    <3>1. f.call = c /\ request'[c].id = reader.id /\ request'[c].kind \in Awaited
      BY <1>1, <1>10, <2>3 DEF Entry, Base, Registry
    <3>2. Confused(c, d)'
      BY <1>1, <1>2, <1>6, <2>1, <2>2, <3>1 DEF Confused
    <3>3. request'[c].kind = request'[d].kind /\ request'[c].kind \in Fixed
      BY <2>1, <2>2, <3>1, <3>2, KindFacts DEF Base, Distinct
    <3>4. request'[c].kind \in SpoiltByFailure'
      BY <1>4, <2>1, <2>2, <3>3, KindFacts
    <3> QED BY <3>1, <3>4 DEF Clean
  <2> QED BY <1>1, <1>4, <2>1, <2>2, <2>3 DEF Copied
<1>13. Checked'
  <2>1. reader.at = "checked" => reader.call \in Calls /\ Made(reader.call)
    BY KindFacts DEF Base, Registry, Made
  <2> QED BY <1>1, <1>2, <1>3, <1>5, <2>1 DEF Checked
<1>14. Given'
  <2>1. \A d \in Calls \ {c} : Clean(d)' => Clean(d)
    BY <1>2, <1>4 DEF Clean
  <2>2. \A d \in Calls \ {c} : Answered(d)' => Answered(d)
    BY <1>1, <1>2 DEF Answered, Calls
  <2>3. ~ Answered(c)'
    BY <1>2 DEF Answered
  <2> QED BY <1>1, <1>2, <2>1, <2>2, <2>3 DEF Kept, Given
<1> QED BY <1>8, <1>9, <1>11, <1>12, <1>13, <1>14 DEF Kept

\* The coroutine turns away: nobody waits, and if it was in vain the kind is spoilt.
LEMMA KeptTurning ==
  ASSUME Base, Kept, [Next]_vars, NEW c \in Calls, caller = c, caller' = 0,
         UNCHANGED <<session, request, pending, progress, reader>>,
         future'[c] # "open", \A d \in Calls \ {c} : future'[d] = future[d],
         lapsed' \in {lapsed, lapsed \cup {c}},
         \A d \in Calls : \A r \in answer'[d] : Known(r),
         request[c].kind \in Fixed /\ future[c] # "result" => Failed(c)',
         future'[c] = "result" /\ request[c].kind \in Awaited => future[c] = "result",
         Answered(c)' /\ request[c].kind = "preview" => progress[c] = Rows + 1
  PROVE  Kept'
<1>1. \A d \in Calls : future'[d] # "open"
  BY DEF Base, Coroutine
<1>2. SpoiltByFailure \subseteq SpoiltByFailure'
  BY SpoiltGrows
<1>3. Made(c) /\ request[c].session = session /\ c # 0
  BY DEF Base, Coroutine, Calls
<1>4. Untouched'
  <2>1. lapsed' \subseteq lapsed \cup {c} /\ \A d : Made(d)' = Made(d)
    BY DEF Made
  <2>2. 0 \notin lapsed'
    BY <1>3, <2>1 DEF Base, TypeOK, Calls
  <2>3. \A d \in Calls : ~ Made(d) => progress'[d] = 0 /\ d \notin lapsed'
    BY <1>3, <2>1 DEF Kept, Untouched
  <2> QED BY <2>1, <2>2, <2>3 DEF Untouched
<1>5. Traced'
  BY DEF Kept, Traced, Known, Made
<1>6. Gathered' /\ Checked'
  BY <1>1 DEF Gathered, Checked, Base, TypeOK, Registry
<1>7. Copied'
  <2> SUFFICES ASSUME reader.at = "copied" PROVE Copied'
    BY DEF Copied
  <2>1. PICK d \in Calls :
          /\ request[d].id = reader.id /\ request[d].session = session
          /\ request[d].kind \in Awaited
          /\ \/ request[d].kind \in SpoiltByFailure \cup {"fills"}
             \/ caller = d /\ future[d] # "result"
    BY DEF Kept, Copied
  <2>2. request[d].kind \in SpoiltByFailure' \cup {"fills"}
    <3>1. CASE request[d].kind \in SpoiltByFailure \cup {"fills"}
      BY <1>2, <3>1
    <3>2. CASE d = c /\ future[c] # "result" /\ request[c].kind # "fills"
      <4>1. request[c].kind \in Fixed
        BY <2>1, <3>2 DEF Awaited
      <4>2. Spoils[request[c].kind] = {request[c].kind}
        BY <4>1 DEF Spoils, Kinds, Awaited, Fixed
      <4>3. Failed(c)' /\ request'[c].session = session' /\ request'[c].kind = request[c].kind
        BY <1>3, <3>2, <4>1
      <4> QED BY <3>2, <4>2, <4>3 DEF SpoiltByFailure
    <3> QED BY <2>1, <3>1, <3>2
  <2>3. \A e \in Entry(reader.id)' : future'[e.call] # "open"
    BY <1>1 DEF Entry, Base, TypeOK
  <2> QED BY <2>1, <2>2, <2>3 DEF Copied
<1>8. Given'
  <2>1. \A d \in Calls \ {c} : Clean(d)' => Clean(d)
    BY <1>2 DEF Clean
  <2>2. Clean(c)' => Clean(c)
    BY <1>2 DEF Clean
  <2>3. \A d \in Calls \ {c} : Answered(d)' => Answered(d)
    BY DEF Answered
  <2> QED BY <2>1, <2>2, <2>3, KindFacts DEF Kept, Given
<1> QED BY <1>4, <1>5, <1>6, <1>7, <1>8 DEF Kept

LEMMA KeptReceive ==
  ASSUME Base, Kept, [Next]_vars, NEW c \in Calls, Receive(c)
  PROVE  Kept'
<1>1. /\ caller = c /\ caller' = 0 /\ 0 # c
      /\ UNCHANGED <<session, request, pending, future, answer, lapsed, progress, reader>>
      /\ request[c].kind \in Awaited /\ future[c] \in {"result", "error"}
  BY DEF Receive, connection, Calls
<1>2. future[c] # "result" => Failed(c)'
  BY <1>1, KindFacts DEF Failed, Answered, Made
<1>3. request[c].kind # "preview"
  BY <1>1, KindFacts DEF Numbered
<1>4. \A d \in Calls : \A r \in answer'[d] : Known(r)
  BY <1>1 DEF Kept, Traced, Known
<1> QED BY <1>1, <1>2, <1>3, <1>4, KeptTurning

LEMMA KeptGiveUp ==
  ASSUME Base, Kept, [Next]_vars, NEW c \in Calls, GiveUp(c)
  PROVE  Kept'
<1>1. /\ caller = c /\ caller' = 0 /\ lapsed' = lapsed \cup {c}
      /\ UNCHANGED <<session, request, pending, answer, progress, reader>>
  BY DEF GiveUp, connection
<1>2. /\ future'[c] = (IF future[c] = "open" THEN "cancelled" ELSE future[c])
      /\ \A d \in Calls \ {c} : future'[d] = future[d]
  BY DEF GiveUp, Base, TypeOK
<1>3. Made(c) /\ 0 # c
  BY <1>1 DEF Base, Coroutine, Calls
<1>4. Failed(c)' /\ ~ Answered(c)'
  BY <1>1, <1>3 DEF Failed, Answered, Made
<1>5. \A d \in Calls : \A r \in answer'[d] : Known(r)
  BY <1>1 DEF Kept, Traced, Known
<1> QED BY <1>1, <1>2, <1>4, <1>5, KeptTurning

\* A poll ends with the answer to the request, or the status of an order elsewhere, or
\* with a refusal.
LEMMA PollEnds ==
  ASSUME Base, NEW c \in Calls, Poll(c)
  PROVE  \/ /\ future'[c] = "result" /\ answer'[c] = {Row(c, 1)}
            /\ request[c].kind = "preview" => progress[c] = Rows + 1
         \/ /\ future'[c] = "result" /\ answer'[c] = {Row(0, 1)}
            /\ request[c].kind = "order" /\ "order" \in Overheard
         \/ future'[c] = "error" /\ answer'[c] = answer[c]
<1>1. \/ \E m \in NotedAnswer(c) : /\ future' = [future EXCEPT ![c] = "result"]
                                  /\ answer' = [answer EXCEPT ![c] = {Row(m.by, 1)}]
      \/ future' = [future EXCEPT ![c] = "error"] /\ answer' = answer
  BY DEF Poll
<1>2. CASE future' = [future EXCEPT ![c] = "error"] /\ answer' = answer
  BY <1>2 DEF Base, TypeOK
<1>3. ASSUME NEW m \in NotedAnswer(c),
             future' = [future EXCEPT ![c] = "result"],
             answer' = [answer EXCEPT ![c] = {Row(m.by, 1)}]
      PROVE  /\ future'[c] = "result" /\ answer'[c] = {Row(m.by, 1)}
             /\ \/ m.by = c /\ (request[c].kind = "preview" => progress[c] = Rows + 1)
                \/ m.by = 0 /\ request[c].kind = "order" /\ "order" \in Overheard
  <2>1. \/ m.by = c /\ (request[c].kind = "preview" => progress[c] = Rows + 1)
        \/ m.by = 0 /\ request[c].kind = "order" /\ "order" \in Overheard
    BY PolledIsOwn
  <2>2. future'[c] = "result" /\ answer'[c] = {Row(m.by, 1)}
    BY <1>3 DEF Base, TypeOK
  <2> QED BY <2>1, <2>2
<1> QED BY <1>1, <1>2, <1>3

LEMMA KeptPoll ==
  ASSUME Base, Kept, [Next]_vars, NEW c \in Calls, Poll(c)
  PROVE  Kept'
<1>1. /\ caller = c /\ caller' = 0 /\ lapsed' = lapsed
      /\ UNCHANGED <<session, request, pending, progress, reader>>
      /\ request[c].kind \notin Awaited
  BY DEF Poll, connection
<1>2. \A d \in Calls \ {c} : future'[d] = future[d] /\ answer'[d] = answer[d]
  BY DEF Poll, Base, TypeOK
<1>3. Made(c)
  BY <1>1 DEF Base, Coroutine, Calls
<1>4. future'[c] # "open" /\ (Answered(c)' /\ request[c].kind = "preview" => progress[c] = Rows + 1)
  BY PollEnds DEF Answered
<1>5. \A r \in answer'[c] : Known(r)
  BY <1>3, PollEnds DEF Kept, Traced, Known, Row
<1>6. \A d \in Calls : \A r \in answer'[d] : Known(r)
  BY <1>2, <1>5 DEF Kept, Traced, Known
<1> QED BY <1>1, <1>2, <1>4, <1>6, KeptTurning, KindFacts

LEMMA KeptNext == Base /\ Kept /\ [Next]_vars => Kept'
<1> SUFFICES ASSUME Base, Kept, [Next]_vars PROVE Kept'
  OBVIOUS
<1>1. Base' /\ progress \in [Calls -> 0..(Rows + 1)]
  BY BaseNext DEF Base, TypeOK
<1>2. CASE ManagedAccounts \/ NextValidId \/ FinishConnect \/ Disconnect \/ UNCHANGED vars
  <2>1. /\ UNCHANGED <<session, request, caller, future, answer, lapsed, progress, reader>>
        /\ pending' \subseteq pending
    BY <1>2 DEF ManagedAccounts, NextValidId, FinishConnect, Disconnect, CloseSession, vars,
                connection
  <2> QED BY <2>1, KeptQuietly
<1>3. ASSUME NEW c \in Calls, NewsArrives(c) PROVE Kept'
  BY <1>3, KeptQuietly DEF NewsArrives, connection
<1>4. CASE FailAll
  <2>1. /\ UNCHANGED <<session, request, caller, future, answer, lapsed, progress>>
        /\ Settling(pending, {}, FALSE) /\ pending' = pending \ pending
        /\ reader.at # "copied"
    BY <1>4 DEF FailAll, Idle
  <2> QED BY <1>1, <2>1, KeptFailing
<1>5. ASSUME NEW c \in Calls, ErrorArrives(c) PROVE Kept'
  <2> DEFINE es == Entry(request[c].id)
  <2>1. /\ UNCHANGED <<session, request, caller, future, answer, lapsed>>
        /\ Settling(es, {}, FALSE) /\ pending' = pending \ es /\ es \in SUBSET pending
        /\ reader.at # "copied" /\ request[c].kind \notin Fixed /\ Live(c)
    BY <1>5 DEF ErrorArrives, Refuse, Idle, connection, Entry
  <2>2. /\ progress' \in [Calls -> 0..(Rows + 1)]
        /\ \A d \in Calls : progress'[d] # progress[d] => d = c /\ progress'[d] = Rows + 1
    BY <1>1, <1>5 DEF ErrorArrives
  <2>3. \A e \in pending' : e.call # c
    BY <2>1 DEF Entry
  <2>4. Made(c)
    BY <2>1, LiveMade DEF Base
  <2> QED BY <2>1, <2>2, <2>3, <2>4, KeptFailing
<1>6. ASSUME NEW c \in Calls, NEW k \in Kinds, Ask(c, k) PROVE Kept'
  BY <1>1, <1>6, KeptAsk
<1>7. ASSUME NEW c \in Calls, Receive(c) \/ GiveUp(c) \/ Poll(c) PROVE Kept'
  BY <1>7, KeptReceive, KeptGiveUp, KeptPoll
<1>8. ASSUME NEW c \in Calls, RowArrives(c) \/ EndArrives(c) \/ OpenOrderArrives(c) PROVE Kept'
  BY <1>8, KeptRow, KeptEnd, KeptOpenOrder
<1>9. CASE Connect \/ TakeEntry \/ SetFuture
  BY <1>9, KeptConnect, KeptTake, KeptSet
<1>10. ASSUME NEW id, StatusElsewhere(id) PROVE Kept'
  BY <1>10, KeptQuietly DEF StatusElsewhere, connection
<1>11. ASSUME NEW id, ErrorElsewhere(id) PROVE Kept'
  <2>1. /\ UNCHANGED <<session, request, caller, future, answer, lapsed, progress>>
        /\ Settling(Entry(id), {}, FALSE) /\ pending' = pending \ Entry(id)
        /\ Entry(id) \in SUBSET pending /\ reader.at # "copied"
    BY <1>11 DEF ErrorElsewhere, Refuse, Idle, connection, Entry
  <2> QED BY <1>1, <2>1, KeptFailing
<1>12. CASE OpenOrderElsewhere
  BY <1>12, KeptOpenOrderElsewhere
<1> QED BY <1>2, <1>3, <1>4, <1>5, <1>6, <1>7, <1>8, <1>9, <1>10, <1>11, <1>12 DEF Next

-----------------------------------------------------------------------------
(* Each step is one of the promise's.                                       *)

LEMMA PromiseInit == Init => Promise!Init
  BY DEF Init, Promise!Init, Promise!Calls, Calls, kind, outcome, spoilt, SpoiltByFailure,
         Overheard, Made, Failed, NoRequest

\* What failures spoil is not what is shared.
LEMMA SpoiltFacts ==
  ASSUME TypeOK
  PROVE  "order" \notin SpoiltByFailure /\ Overheard \subseteq Shared
<1>1. "order" \in Kinds /\ "order" \notin Fixed
  BY DEF Kinds, Awaited, Fixed, Numbered
<1> QED BY <1>1, SpoiltBy DEF Overheard, Shared

\* When no request is concerned, all that may change is what is overheard.
LEMMA QuietIsPromised ==
  ASSUME Base, UNCHANGED <<session, request, caller, future, answer, lapsed>>
  PROVE  Promise!Next
<1>1. UNCHANGED <<kind, outcome, SpoiltByFailure>>
  BY Quiet
<1>2. Overheard' \subseteq Shared
  BY DEF Overheard, Shared
<1>3. spoilt' = (spoilt \ Shared) \cup Overheard'
  BY <1>1, SpoiltFacts DEF spoilt, Shared, Base
<1> QED BY <1>1, <1>2, <1>3 DEF Promise!Overhear, Promise!Next

\* outcome is a function, and so it is after a step.
LEMMA OutcomeFunction ==
  /\ outcome = [c \in Calls |-> outcome[c]]
  /\ outcome' = [c \in Calls |-> outcome'[c]]
  BY DEF outcome

\* The caller turns away: its request fails, or is answered exactly, or is of a kind
\* that was spoilt.
LEMMA TurningIsPromised ==
  ASSUME Base, Kept, [Next]_vars, NEW c \in Calls, caller = c, caller' = 0,
         UNCHANGED <<session, request, Overheard>>,
         Failed(c)' \/ Exact(c)' \/ request[c].kind \in spoilt
  PROVE  Promise!Next
<1>1. Made(c) /\ Made(c)' /\ request[c].session = session /\ c # 0 /\ c \in Promise!Calls
  BY DEF Base, Coroutine, Calls, Made, Promise!Calls
<1>2. ASSUME NEW d \in Calls \ {c}
      PROVE  outcome'[d] = outcome[d] /\ (Failed(d)' <=> Failed(d))
  <2>1. Made(d)' = Made(d) /\ 0 # d
    BY DEF Made, Calls
  <2>2. CASE Made(d)
    <3>1. /\ future'[d] = future[d] /\ answer'[d] = answer[d]
          /\ d \in lapsed' <=> d \in lapsed
      BY <2>2, Settled
    <3> QED BY <2>1, <3>1 DEF outcome, Failed, Answered, Exact, OwnRows
  <2>3. CASE ~ Made(d)
    BY <2>1, <2>3 DEF outcome, Failed
  <2> QED BY <2>2, <2>3
<1>3. /\ outcome[c] = "asked"
      /\ outcome'[c] = IF Failed(c)' THEN "failed" ELSE IF Exact(c)' THEN "exact" ELSE "mixed"
  <2>1. ~ Failed(c)
    BY DEF Failed
  <2>2. outcome[c] = "asked"
    BY <1>1, <2>1 DEF outcome
  <2>3. outcome'[c] = IF Failed(c)' THEN "failed" ELSE IF Exact(c)' THEN "exact" ELSE "mixed"
    BY <1>1 DEF outcome
  <2> QED BY <2>2, <2>3
<1>4. outcome' = [outcome EXCEPT ![c] = outcome'[c]]
  BY <1>2, OutcomeFunction
<1>5. ~ Failed(c)
  BY DEF Failed
<1>6. kind' = kind /\ kind[c] = request[c].kind
  BY DEF kind
<1>7. spoilt' = spoilt \cup (IF Failed(c)' THEN Spoils[request[c].kind] ELSE {})
  BY <1>1, <1>2, <1>5 DEF spoilt, SpoiltByFailure
<1>8. CASE Failed(c)'
  <2>1. Promise!Fail(c)
    BY <1>3, <1>4, <1>6, <1>7, <1>8 DEF Promise!Fail
  <2> QED BY <1>1, <2>1 DEF Promise!Next
<1>9. CASE ~ Failed(c)' /\ Exact(c)'
  <2>1. Promise!AnswerExactly(c)
    BY <1>3, <1>4, <1>6, <1>7, <1>9 DEF Promise!AnswerExactly
  <2> QED BY <1>1, <2>1 DEF Promise!Next
<1>10. CASE ~ Failed(c)' /\ ~ Exact(c)'
  <2>1. Promise!AnswerMixed(c)
    BY <1>3, <1>4, <1>6, <1>7, <1>10 DEF Promise!AnswerMixed
  <2> QED BY <1>1, <2>1 DEF Promise!Next
<1> QED BY <1>8, <1>9, <1>10

LEMMA PromiseNext == Base /\ Kept /\ [Next]_vars => [Promise!Next]_(Promise!vars)
<1> SUFFICES ASSUME Base, Kept, [Next]_vars PROVE [Promise!Next]_(Promise!vars)
  OBVIOUS
<1>1. CASE UNCHANGED <<session, request, caller, future, answer, lapsed>>
  BY <1>1, QuietIsPromised
<1>2. CASE Connect
  <2>1. UNCHANGED <<request, caller, future, answer, lapsed>> /\ caller = 0
        /\ session' = session + 1 /\ noted' = {}
    BY <1>2 DEF Connect
  <2>2. UNCHANGED <<kind, outcome>>
    BY <2>1 DEF kind, outcome, Made, Failed, Answered, Exact, OwnRows
  <2>3. \A c \in Calls : request'[c].session # session'
    BY <2>1 DEF Base, TypeOK, Numbering
  <2>4. spoilt' = {}
    BY <2>1, <2>3 DEF spoilt, SpoiltByFailure, Overheard
  <2>5. \A c \in Promise!Calls : outcome[c] # "asked"
    BY <2>1 DEF outcome, Promise!Calls, Calls
  <2>6. Promise!NewSession
    BY <2>2, <2>4, <2>5 DEF Promise!NewSession
  <2> QED BY <2>6 DEF Promise!Next
<1>3. ASSUME NEW c \in Calls, NEW k \in Kinds, Ask(c, k) PROVE Promise!Next
  <2>1. /\ UNCHANGED <<session, answer, lapsed, noted>>
        /\ caller = 0 /\ caller' = c /\ ~ Made(c)
    BY <1>3 DEF Ask, connection
  <2>2. request' = [request EXCEPT ![c] = [kind |-> k, id |-> IdFor(k), session |-> session]]
    BY <1>3 DEF Ask
  <2>3. /\ request'[c].kind = k
        /\ \A d \in Calls \ {c} : request'[d] = request[d] /\ future'[d] = future[d]
    BY <1>3, <2>2 DEF Ask, Base, TypeOK
  <2>4. Made(c)' /\ ~ Failed(c) /\ ~ Failed(c)'
    BY <2>1, <2>3, KindFacts DEF Made, Failed
  <2>5. ASSUME NEW d \in Calls \ {c}
        PROVE  outcome'[d] = outcome[d] /\ (Failed(d)' <=> Failed(d)) /\ outcome[d] # "asked"
    <3>1. /\ Made(d)' = Made(d) /\ Failed(d)' = Failed(d) /\ OwnRows(d)' = OwnRows(d)
          /\ caller' # d /\ caller # d
      BY <2>1, <2>3 DEF Made, Failed, Answered, OwnRows, Calls
    <3>2. \A r \in answer[d] : r.of = 0 \/ (r.of \in Calls /\ r.of # c)
      BY <2>1 DEF Kept, Traced, Known
    <3>3. Exact(d)' = Exact(d)
      BY <2>1, <2>3, <3>1, <3>2 DEF Exact
    <3> QED BY <3>1, <3>3 DEF outcome
  <2>6. outcome[c] = "unasked" /\ outcome'[c] = "asked"
    <3>1. caller # c
      BY <2>1 DEF Calls
    <3>2. outcome[c] = "unasked"
      BY <2>1, <2>4, <3>1 DEF outcome
    <3>3. outcome'[c] = "asked"
      BY <2>1, <2>4 DEF outcome
    <3> QED BY <3>2, <3>3
  <2>7. outcome' = [outcome EXCEPT ![c] = "asked"]
    BY <2>5, <2>6, OutcomeFunction
  <2>8. kind' = [kind EXCEPT ![c] = k]
    BY <2>3 DEF kind
  <2>9. spoilt' = spoilt
    BY <2>1, <2>3, <2>4, <2>5 DEF spoilt, SpoiltByFailure, Overheard
  <2>10. \A d \in Promise!Calls : outcome[d] # "asked"
    BY <2>5, <2>6 DEF Promise!Calls, Calls
  <2>11. Promise!Ask(c, k) /\ c \in Promise!Calls
    BY <2>6, <2>7, <2>8, <2>9, <2>10 DEF Promise!Ask, Promise!Calls, Calls
  <2> QED BY <2>11 DEF Promise!Next
<1>4. ASSUME NEW c \in Calls, Receive(c) PROVE Promise!Next
  <2>1. /\ caller = c /\ caller' = 0 /\ UNCHANGED <<session, request, future, answer, lapsed>>
        /\ request[c].kind \in Awaited /\ future[c] \in {"result", "error"} /\ c # 0
        /\ UNCHANGED Overheard
    BY <1>4 DEF Receive, connection, Calls, Overheard
  <2>2. CASE future[c] = "error"
    <3>1. Failed(c)'
      BY <2>1, <2>2, KindFacts DEF Failed, Answered, Made
    <3> QED BY <2>1, <3>1, TurningIsPromised
  <2>3. CASE future[c] = "result"
    <3>1. Clean(c) => Exact(c)
      BY <2>1, <2>3 DEF Kept, Given
    <3>2. Exact(c)' = Exact(c)
      BY <2>1 DEF Exact, OwnRows
    <3> QED BY <2>1, <3>1, <3>2, TurningIsPromised DEF Clean, spoilt
  <2> QED BY <2>1, <2>2, <2>3
<1>5. ASSUME NEW c \in Calls, GiveUp(c) PROVE Promise!Next
  <2>1. /\ caller = c /\ caller' = 0 /\ UNCHANGED <<session, request, Overheard>>
        /\ c \in lapsed' /\ c # 0
    BY <1>5 DEF GiveUp, connection, Calls, Overheard
  <2>2. Failed(c)'
    BY <2>1 DEF Failed, Answered, Made, Base, Coroutine
  <2> QED BY <2>1, <2>2, TurningIsPromised
<1>6. ASSUME NEW c \in Calls, Poll(c) PROVE Promise!Next
  <2>1. caller = c /\ caller' = 0 /\ UNCHANGED <<session, request>> /\ c # 0
        /\ request[c].kind \notin Awaited
    BY <1>6 DEF Poll, connection, Calls
  <2>0. UNCHANGED Overheard
    <3>1. \/ noted' = noted
          \/ \E m \in NotedAnswer(c) : noted' = noted \ {m} /\ request[c].kind = "preview"
      BY <1>6 DEF Poll
    <3>2. request[c].kind = "preview" => \A m \in NotedAnswer(c) : m.tag # "status"
      BY DEF NotedAnswer, Recorded, AnswerTag
    <3> QED BY <3>1, <3>2 DEF Overheard
  <2>2. CASE future'[c] = "error"
    <3>1. Failed(c)'
      BY <2>1, <2>2 DEF Failed, Answered, Made, Base, Coroutine
    <3> QED BY <2>0, <2>1, <3>1, TurningIsPromised
  <2>3. CASE answer'[c] = {Row(c, 1)}
    <3>1. Exact(c)'
      BY <2>1, <2>3 DEF Exact, OwnRows, Row
    <3> QED BY <2>0, <2>1, <3>1, TurningIsPromised
  <2>4. CASE request[c].kind = "order" /\ "order" \in Overheard
    BY <2>0, <2>1, <2>4, TurningIsPromised DEF spoilt
  <2> QED BY <1>6, <2>2, <2>3, <2>4, PollEnds
<1>7. CASE SetFuture
  <2>1. CASE future[reader.call] = "open"
    <3>1. PICK c \in Calls : c = reader.call
      BY <1>7 DEF SetFuture, Base, Registry
    <3>2. UNCHANGED <<session, request, caller, lapsed, noted>> /\ caller = c
      BY <1>7, <2>1, <3>1 DEF SetFuture, Base, Coroutine
    <3>3. \A d \in Calls \ {c} : future'[d] = future[d] /\ answer'[d] = answer[d]
      BY <1>7, <2>1, <3>1 DEF SetFuture, Base, TypeOK
    <3>4. \A d \in Calls : Made(d)' = Made(d) /\ Failed(d)' = Failed(d)
      BY <3>2, <3>3 DEF Failed, Answered, Made
    <3>5. \A d \in Calls \ {c} : Exact(d)' = Exact(d)
      BY <3>2, <3>3 DEF Exact, OwnRows
    <3>6. UNCHANGED <<kind, spoilt>>
      BY <3>2, <3>4 DEF kind, spoilt, SpoiltByFailure, Overheard
    <3>7. outcome' = outcome
      BY <3>2, <3>4, <3>5 DEF outcome
    <3> QED BY <3>6, <3>7 DEF Promise!vars
  <2>2. CASE future[reader.call] # "open"
    BY <1>1, <1>7, <2>2 DEF SetFuture
  <2> QED BY <2>1, <2>2
<1>8. CASE \/ ManagedAccounts \/ NextValidId \/ FinishConnect \/ Disconnect
           \/ OpenOrderElsewhere \/ TakeEntry \/ FailAll \/ UNCHANGED vars
  BY <1>1, <1>8 DEF ManagedAccounts, NextValidId, FinishConnect, Disconnect, OpenOrderElsewhere,
                    TakeEntry, FailAll, vars, connection
<1>9. ASSUME NEW c \in Calls,
             \/ RowArrives(c) \/ EndArrives(c) \/ NewsArrives(c) \/ OpenOrderArrives(c)
             \/ ErrorArrives(c)
      PROVE  [Promise!Next]_(Promise!vars)
  BY <1>1, <1>9 DEF RowArrives, EndArrives, NewsArrives, OpenOrderArrives, ErrorArrives,
                    connection
<1>10. ASSUME NEW id, StatusElsewhere(id) \/ ErrorElsewhere(id)
       PROVE  [Promise!Next]_(Promise!vars)
  BY <1>1, <1>10 DEF StatusElsewhere, ErrorElsewhere, connection
<1> QED BY <1>2, <1>3, <1>4, <1>5, <1>6, <1>7, <1>8, <1>9, <1>10 DEF Next

\* What the adapter hands out is exactly what was asked for, or the request fails, unless
\* an earlier failure in the session has spoilt the kind; or, for an order's status, one
\* of an order elsewhere is on record.
THEOREM ImplementsAnswers == Spec => AnswersSpec
<1> DEFINE Inv == Base /\ Kept
<1>1. Init => Inv
  BY BaseInit, KeptInit
<1>2. Inv /\ [Next]_vars => Inv'
  BY BaseNext, KeptNext
<1>3. Inv /\ [Next]_vars => [Promise!Next]_(Promise!vars)
  BY PromiseNext
<1> QED BY <1>1, <1>2, <1>3, PromiseInit, PTL DEF Spec, AnswersSpec, Promise!Spec

=============================================================================
