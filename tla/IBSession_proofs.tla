--------------------------- MODULE IBSession_proofs ---------------------------
(***************************************************************************)
(* What holds of the adapter for any number of requests, sessions, rows    *)
(* and ids, and any orders elsewhere.                                      *)
(***************************************************************************)
EXTENDS IBSession, TLAPS

USE BoundsAssumption, IdsAssumption

-----------------------------------------------------------------------------
(* Types.                                                                   *)

EntryType == [call : Calls, rows : SUBSET RowType]
NoteType == [tag : {"tick", "status", "whatif", "error"}, id : Nat, by : 0..MaxCalls]
ReaderType == [at : {"idle", "copied", "checked"}, id : Nat, call : 0..MaxCalls,
               value : SUBSET RowType, ok : BOOLEAN]

\* The kinds are different strings: what the provers need to know of them.
LEMMA KindFacts ==
  /\ Fixed \subseteq Awaited /\ Awaited \subseteq Kinds /\ Numbered \subseteq Kinds
  /\ Awaited \cap Numbered = {} /\ "quote" \notin Awaited \cup Numbered
  /\ "none" \notin Kinds /\ "fills" \notin Fixed
  /\ Kinds = Fixed \cup {"fills", "quote"} \cup Numbered
  BY DEF Fixed, Awaited, Numbered, Kinds

LEMMA RowTyped ==
  ASSUME NEW c \in 0..MaxCalls, NEW n \in 1..Rows
  PROVE  Row(c, n) \in RowType
  BY DEF Row, RowType

LEMMA AddRowTypes ==
  ASSUME TypeOK, NEW id, NEW row \in RowType, AddRow(id, row)
  PROVE  pending' \subseteq EntryType
<1>1. pending \subseteq EntryType
  BY DEF TypeOK, EntryType
<1>2. ASSUME NEW e \in EntryType PROVE [e EXCEPT !.rows = @ \cup {row}] \in EntryType
  BY DEF EntryType
<1> QED BY <1>1, <1>2 DEF AddRow, Entry

LEMMA RecordTypes ==
  ASSUME TypeOK, NEW tag \in {"tick", "status", "whatif", "error"}, NEW id \in Nat,
         NEW by \in 0..MaxCalls, Record(tag, id, by)
  PROVE  noted' \subseteq NoteType
<1>1. [tag |-> tag, id |-> id, by |-> by] \in NoteType
  BY DEF NoteType
<1> QED BY <1>1 DEF TypeOK, Record, NoteType

LEMMA CallsIn == Calls \subseteq 0..MaxCalls
  BY DEF Calls

LEMMA ElsewhereTyped ==
  ASSUME TypeOK, NEW s
  PROVE  Elsewhere(s) \subseteq Nat
  BY DEF Elsewhere, TypeOK

LEMMA IdleTyped == Idle \in ReaderType
  BY DEF Idle, ReaderType

\* The reader goes back to rest, or holds a future that was open.
LEMMA SettlingFacts ==
  ASSUME TypeOK, NEW es \in SUBSET pending, NEW value \in SUBSET RowType,
         NEW ok \in BOOLEAN, Settling(es, value, ok)
  PROVE  /\ reader' \in ReaderType
         /\ \/ Unsettled(es) = {} /\ reader' = Idle
            \/ /\ reader'.at = "checked" /\ reader'.call \in Unsettled(es)
               /\ reader'.call \in Calls
               /\ reader'.value = value /\ reader'.ok = ok
<1>1. Unsettled(es) \subseteq Calls
  BY DEF Unsettled, TypeOK
<1>2. CASE Unsettled(es) = {}
  BY <1>2, IdleTyped DEF Settling
<1>3. CASE Unsettled(es) # {}
  <2> DEFINE d == CHOOSE c \in Unsettled(es) : TRUE
  <2>1. d \in Unsettled(es) /\ d \in Calls
    BY <1>1, <1>3
  <2>2. reader' = [Idle EXCEPT !.at = "checked", !.call = d, !.value = value, !.ok = ok]
    BY <1>3 DEF Settling
  <2> HIDE DEF d
  <2>3. reader' = [at |-> "checked", id |-> 0, call |-> d, value |-> value, ok |-> ok]
    BY <2>2 DEF Idle
  <2>4. d \in 0..MaxCalls /\ 0 \in Nat
    BY <2>1 DEF Calls
  <2>5. reader' \in ReaderType
    BY <2>3, <2>4, Zenon DEF ReaderType
  <2>6. /\ reader'.at = "checked" /\ reader'.call = d
        /\ reader'.value = value /\ reader'.ok = ok
    BY <2>3, Zenon
  <2> QED BY <2>1, <2>5, <2>6
<1> QED BY <1>2, <1>3

LEMMA RefuseTypes ==
  ASSUME TypeOK, NEW id \in Nat, NEW by \in 0..MaxCalls, Refuse(id, by)
  PROVE  /\ pending' \subseteq pending /\ reader' \in ReaderType
         /\ cause' \in [Calls -> 0..MaxCalls] /\ noted' \subseteq NoteType
<1>1. pending' \subseteq pending
  BY DEF Refuse
<1>2. reader' \in ReaderType
  BY SettlingFacts DEF Refuse, Entry
<1>3. cause' \in [Calls -> 0..MaxCalls]
  BY DEF Refuse, TypeOK
<1>4. noted' \subseteq NoteType
  BY RecordTypes DEF Refuse, TypeOK, NoteType
<1> QED BY <1>1, <1>2, <1>3, <1>4

LEMMA TypeInit == Init => TypeOK
<1> SUFFICES ASSUME Init PROVE TypeOK
  OBVIOUS
<1>1. /\ session \in 0..MaxSessions /\ caller \in 0..MaxCalls
      /\ nextRequest \in Nat /\ nextOrder \in Nat
  BY DEF Init
<1>2. request \in [Calls -> [kind : Kinds \cup {"none"}, id : Nat, session : 0..MaxSessions]]
  BY DEF Init, NoRequest
<1>3. /\ future \in [Calls -> {"none", "open", "result", "error", "cancelled"}]
      /\ answer \in [Calls -> SUBSET RowType]
  BY DEF Init
<1>4. progress \in [Calls -> 0..(Rows + 1)] /\ cause \in [Calls -> 0..MaxCalls]
  BY CallsIn DEF Init
<1>5. reader \in ReaderType
  BY IdleTyped DEF Init
<1>6. /\ link \in {"down", "opening", "up"} /\ socket \in BOOLEAN
      /\ accounts \in {"none", "paper", "live", "unknown"}
      /\ pending = {} /\ noted = {} /\ lapsed = {}
  BY DEF Init
<1> QED BY <1>1, <1>2, <1>3, <1>4, <1>5, <1>6 DEF TypeOK, ReaderType

LEMMA TypeNext == TypeOK /\ [Next]_vars => TypeOK'
<1> SUFFICES ASSUME TypeOK, [Next]_vars PROVE TypeOK'
  OBVIOUS
<1>1. CASE Connect
  BY <1>1 DEF Connect, TypeOK
<1>2. CASE ManagedAccounts
  BY <1>2 DEF ManagedAccounts, TypeOK, counters
<1>3. CASE NextValidId
  BY <1>3 DEF NextValidId, TypeOK, connection
<1>4. CASE FinishConnect
  BY <1>4 DEF FinishConnect, TypeOK, CloseSession, counters
<1>5. CASE Disconnect
  BY <1>5 DEF Disconnect, TypeOK, CloseSession, counters
<1>6. ASSUME NEW c \in Calls, NEW k \in Kinds, Ask(c, k) PROVE TypeOK'
  <2>1. IdFor(k) \in Nat
    BY DEF TypeOK, IdFor, POSITION_REQ_ID, OPEN_ORDERS_REQ_ID
  <2>2. request' \in [Calls -> [kind : Kinds \cup {"none"}, id : Nat, session : 0..MaxSessions]]
    BY <1>6, <2>1 DEF TypeOK, Ask
  <2>3. pending' \subseteq EntryType
    <3>1. [call |-> c, rows |-> {}] \in EntryType
      BY DEF EntryType
    <3> QED BY <1>6, <3>1 DEF TypeOK, Ask, EntryType
  <2>4. caller' \in 0..MaxCalls /\ nextRequest' \in Nat /\ nextOrder' \in Nat
    BY <1>6 DEF TypeOK, Ask, TakeOrderId, Calls
  <2>5. future' \in [Calls -> {"none", "open", "result", "error", "cancelled"}]
    BY <1>6 DEF TypeOK, Ask
  <2> QED BY <1>6, <2>2, <2>3, <2>4, <2>5 DEF TypeOK, Ask, connection, EntryType
<1>7. ASSUME NEW c \in Calls, Receive(c) PROVE TypeOK'
  BY <1>7 DEF Receive, TypeOK, connection, counters
<1>8. ASSUME NEW c \in Calls, GiveUp(c) PROVE TypeOK'
  BY <1>8 DEF GiveUp, TypeOK, connection, counters
<1>9. ASSUME NEW c \in Calls, Poll(c) PROVE TypeOK'
  <2>1. \A m \in noted : m.by \in 0..MaxCalls /\ {Row(m.by, 1)} \subseteq RowType
    <3>1. \A m \in noted : m.by \in 0..MaxCalls
      BY DEF TypeOK
    <3> QED BY <3>1, RowTyped
  <2>2. answer' \in [Calls -> SUBSET RowType] /\ noted' \subseteq NoteType
    BY <1>9, <2>1 DEF Poll, TypeOK, NotedAnswer, Recorded, NoteType
  <2>3. cause' \in [Calls -> 0..MaxCalls]
    <3>1. NotedError(c) \subseteq noted
      BY DEF NotedError, Recorded
    <3>2. UNCHANGED cause \/ \E m \in NotedError(c) : cause' = [cause EXCEPT ![c] = m.by]
      BY <1>9 DEF Poll
    <3> QED BY <2>1, <3>1, <3>2 DEF TypeOK
  <2>4. future' \in [Calls -> {"none", "open", "result", "error", "cancelled"}]
    BY <1>9 DEF Poll, TypeOK
  <2> QED BY <1>9, <2>2, <2>3, <2>4 DEF Poll, TypeOK, connection, counters, NoteType
<1>10. ASSUME NEW c \in Calls, RowArrives(c) PROVE TypeOK'
  <2>1. progress[c] + 1 \in 1..Rows /\ progress[c] + 1 \in 0..(Rows + 1)
    BY <1>10 DEF RowArrives, TypeOK
  <2>2. pending' \subseteq EntryType
    BY <1>10, <2>1, CallsIn, RowTyped, AddRowTypes DEF RowArrives
  <2> QED BY <1>10, <2>1, <2>2 DEF RowArrives, TypeOK, connection, counters, EntryType
<1>11. ASSUME NEW c \in Calls, EndArrives(c) PROVE TypeOK'
  <2>1. UNION {e.rows : e \in Entry(request[c].id)} \subseteq RowType
    BY DEF TypeOK, Entry
  <2>2. reader' \in ReaderType
    BY <1>11, <2>1 DEF EndArrives, TypeOK, Idle, ReaderType
  <2>3. progress' \in [Calls -> 0..(Rows + 1)]
    BY <1>11 DEF EndArrives, TypeOK
  <2>4. UNCHANGED <<connection, counters, request, caller, pending, future, answer, lapsed,
                    noted, cause>>
    BY <1>11 DEF EndArrives
  <2> QED BY <2>2, <2>3, <2>4 DEF TypeOK, connection, counters, ReaderType
<1>12. ASSUME NEW c \in Calls, NewsArrives(c) PROVE TypeOK'
  <2>1. AnswerTag(request[c].kind) \in {"tick", "status"}
    BY <1>12 DEF NewsArrives, AnswerTag
  <2>2. noted' \subseteq NoteType
    <3>1. request[c].id \in Nat /\ c \in 0..MaxCalls
      BY CallsIn DEF TypeOK
    <3> QED BY <1>12, <2>1, <3>1, RecordTypes DEF NewsArrives
  <2> QED BY <1>12, <2>2 DEF NewsArrives, TypeOK, connection, counters, NoteType
<1>13. ASSUME NEW c \in Calls, OpenOrderArrives(c) PROVE TypeOK'
  <2>1. pending' \subseteq EntryType
    BY <1>13, CallsIn, RowTyped, AddRowTypes DEF OpenOrderArrives
  <2>2. noted' \subseteq NoteType
    <3>1. request[c].id \in Nat /\ c \in 0..MaxCalls
      BY CallsIn DEF TypeOK
    <3> QED BY <1>13, <3>1, RecordTypes DEF OpenOrderArrives, TypeOK, NoteType
  <2>3. progress' \in [Calls -> 0..(Rows + 1)]
    BY <1>13 DEF OpenOrderArrives, TypeOK
  <2> QED BY <1>13, <2>1, <2>2, <2>3
             DEF OpenOrderArrives, TypeOK, connection, counters, EntryType, NoteType
<1>14. ASSUME NEW c \in Calls, ErrorArrives(c) PROVE TypeOK'
  <2>1. progress' \in [Calls -> 0..(Rows + 1)]
    BY <1>14 DEF ErrorArrives, TypeOK
  <2>2. /\ pending' \subseteq pending /\ reader' \in ReaderType
        /\ cause' \in [Calls -> 0..MaxCalls] /\ noted' \subseteq NoteType
    <3>1. request[c].id \in Nat /\ c \in 0..MaxCalls
      BY CallsIn DEF TypeOK
    <3> QED BY <1>14, <3>1, RefuseTypes DEF ErrorArrives
  <2> QED BY <1>14, <2>1, <2>2
             DEF ErrorArrives, TypeOK, connection, counters, ReaderType, NoteType
<1>15. CASE TakeEntry
  <2>1. reader.value \in SUBSET RowType
    BY DEF TypeOK
  <2>2. reader' \in ReaderType
    BY <1>15, <2>1, SettlingFacts DEF TakeEntry, Entry
  <2> QED BY <1>15, <2>2 DEF TakeEntry, TypeOK, connection, counters, ReaderType
<1>16. CASE SetFuture
  <2>1. reader' \in ReaderType
    BY <1>16, SettlingFacts, IdleTyped DEF SetFuture
  <2>2. answer' \in [Calls -> SUBSET RowType]
    BY <1>16 DEF SetFuture, TypeOK
  <2>3. future' \in [Calls -> {"none", "open", "result", "error", "cancelled"}]
    <3>1. \/ UNCHANGED future
          \/ \E v \in {"result", "error"} : future' = [future EXCEPT ![reader.call] = v]
      BY <1>16, Zenon DEF SetFuture
    <3> QED BY <3>1 DEF TypeOK
  <2>4. pending' \subseteq pending /\ socket' \in BOOLEAN
    BY <1>16 DEF SetFuture, TypeOK
  <2> QED BY <1>16, <2>1, <2>2, <2>3, <2>4 DEF SetFuture, TypeOK, counters, ReaderType
<1>17. CASE FailAll
  <2>1. reader' \in ReaderType
    BY <1>17, SettlingFacts DEF FailAll
  <2> QED BY <1>17, <2>1 DEF FailAll, TypeOK, counters, ReaderType
<1>18. ASSUME NEW id \in Elsewhere(session), StatusElsewhere(id) PROVE TypeOK'
  <2>1. noted' \subseteq NoteType
    BY <1>18, ElsewhereTyped, RecordTypes DEF StatusElsewhere
  <2> QED BY <1>18, <2>1 DEF StatusElsewhere, TypeOK, connection, counters, NoteType
<1>19. ASSUME NEW id \in Elsewhere(session), ErrorElsewhere(id) PROVE TypeOK'
  <2>1. /\ pending' \subseteq pending /\ reader' \in ReaderType
        /\ cause' \in [Calls -> 0..MaxCalls] /\ noted' \subseteq NoteType
    BY <1>19, ElsewhereTyped, RefuseTypes DEF ErrorElsewhere
  <2> QED BY <1>19, <2>1
             DEF ErrorElsewhere, TypeOK, connection, counters, ReaderType, NoteType
<1>20. CASE OpenOrderElsewhere
  <2>1. pending' \subseteq EntryType
    BY <1>20, RowTyped, AddRowTypes DEF OpenOrderElsewhere
  <2> QED BY <1>20, <2>1 DEF OpenOrderElsewhere, TypeOK, connection, counters, EntryType
<1>21. CASE UNCHANGED vars
  BY <1>21 DEF vars, TypeOK
<1> QED BY <1>1, <1>2, <1>3, <1>4, <1>5, <1>6, <1>7, <1>8, <1>9, <1>10, <1>11, <1>12, <1>13,
           <1>14, <1>15, <1>16, <1>17, <1>18, <1>19, <1>20, <1>21 DEF Next

\* Every variable of the adapter keeps its type, whatever the reader thread does to it.
THEOREM TypeCorrect == Spec => []TypeOK
  BY TypeInit, TypeNext, PTL DEF Spec

-----------------------------------------------------------------------------
(* Ids.  What two requests of one session may share.                        *)

Fresh == {"fills", "quote"}      \* draw _next_request_id

Numbering ==
  /\ socket => session > 0
  /\ \A c \in Calls : ~ Made(c) => request[c] = NoRequest
  /\ \A c \in Calls : request[c].session <= session
  /\ nextRequest >= FirstRequestId
  /\ \A c \in Calls :
       /\ request[c].kind = "positions" => request[c].id = POSITION_REQ_ID
       /\ request[c].kind = "orders" => request[c].id = OPEN_ORDERS_REQ_ID
       /\ request[c].kind \in Fresh =>
            /\ request[c].id >= FirstRequestId
            /\ request[c].session = session => request[c].id < nextRequest
       /\ request[c].kind \in Numbered =>
            (request[c].session = session => request[c].id < nextOrder)

\* Two requests that a callback cannot tell apart.
Confused(c, d) ==
  /\ c # d /\ Made(c) /\ Made(d)
  /\ request[c].session = request[d].session /\ request[c].id = request[d].id

\* They have the same fixed id, or one has an order id and the other has not.
Distinct ==
  \A c, d \in Calls : Confused(c, d) =>
    \/ request[c].kind = request[d].kind /\ request[c].kind \in Fixed
    \/ (request[c].kind \in Numbered) # (request[d].kind \in Numbered)

LEMMA NumberingInit == Init => Numbering /\ Distinct
  BY DEF Init, Numbering, Distinct, Confused, Made, NoRequest, Fresh, Numbered

LEMMA NumberingNext == TypeOK /\ Numbering /\ [Next]_vars => Numbering'
<1> SUFFICES ASSUME TypeOK, Numbering, [Next]_vars PROVE Numbering'
  OBVIOUS
<1>1. CASE Connect
  <2>1. \A c \in Calls : request'[c].session < session'
    BY <1>1 DEF Connect, TypeOK, Numbering
  <2> QED BY <1>1, <2>1 DEF Connect, TypeOK, Numbering, Made
<1>2. CASE NextValidId
  <2>1. nextOrder' >= nextOrder
    BY <1>2 DEF NextValidId, TypeOK
  <2> QED BY <1>2, <2>1 DEF NextValidId, TypeOK, Numbering, Made, connection
<1>3. ASSUME NEW c \in Calls, NEW k \in Kinds, Ask(c, k) PROVE Numbering'
  <2>1. request'[c] = [kind |-> k, id |-> IdFor(k), session |-> session]
    BY <1>3 DEF Ask, TypeOK
  <2>2. \A d \in Calls \ {c} : request'[d] = request[d]
    BY <1>3 DEF Ask, TypeOK
  <2>3. nextRequest' >= nextRequest /\ nextOrder' >= nextOrder
    BY <1>3 DEF Ask, TakeOrderId, TypeOK
  <2>4. k \in Fresh => IdFor(k) = nextRequest /\ nextRequest' = nextRequest + 1
    BY <1>3 DEF Ask, IdFor, Fresh, Numbered
  <2>5. k \in Numbered => IdFor(k) = nextOrder /\ nextOrder' = nextOrder + 1
    BY <1>3 DEF Ask, IdFor, TakeOrderId, Numbered
  <2>6. (k = "positions" => IdFor(k) = POSITION_REQ_ID)
        /\ (k = "orders" => IdFor(k) = OPEN_ORDERS_REQ_ID)
    BY DEF IdFor, Numbered
  <2>7. nextRequest \in Nat /\ nextRequest' \in Nat /\ nextOrder \in Nat /\ nextOrder' \in Nat
    BY <1>3 DEF TypeOK, Ask, TakeOrderId
  <2>8. session' = session /\ socket' = socket
    BY <1>3 DEF Ask, connection
  <2>9. k # "none"
    BY KindFacts
  <2>10. session \in Nat
    BY DEF TypeOK
  <2>11. /\ k \in Fresh => IdFor(k) >= FirstRequestId /\ IdFor(k) < nextRequest'
         /\ k \in Numbered => IdFor(k) < nextOrder'
    BY <2>4, <2>5, <2>7 DEF Numbering
  <2>12. \A d \in Calls \ {c} : request[d].id \in Nat
    BY DEF TypeOK
  <2>13. request'[c].kind = k /\ request'[c].id = IdFor(k) /\ request'[c].session = session
    BY <2>1
  <2>14. ASSUME NEW d \in Calls \ {c}, request[d].session = session
         PROVE  /\ request[d].kind \in Fresh => request[d].id < nextRequest'
                /\ request[d].kind \in Numbered => request[d].id < nextOrder'
    BY <2>3, <2>7, <2>12, <2>14 DEF Numbering
  <2>15. nextRequest' >= FirstRequestId
    BY <2>3, <2>7 DEF Numbering
  <2> QED BY <2>2, <2>6, <2>8, <2>9, <2>10, <2>11, <2>13, <2>14, <2>15 DEF Numbering, Made
<1>4. CASE /\ UNCHANGED <<session, request, nextRequest, nextOrder>>
           /\ socket' => socket
  BY <1>4 DEF Numbering, Made
<1>5. CASE ManagedAccounts \/ FinishConnect \/ Disconnect \/ TakeEntry \/ SetFuture \/ FailAll
  BY <1>4, <1>5 DEF ManagedAccounts, FinishConnect, Disconnect, CloseSession, TakeEntry, SetFuture,
                    FailAll, connection, counters
<1>6. ASSUME NEW c \in Calls, Receive(c) \/ GiveUp(c) \/ Poll(c)
      PROVE  Numbering'
  BY <1>4, <1>6 DEF Receive, GiveUp, Poll, connection, counters
<1>7. ASSUME NEW c \in Calls,
             \/ RowArrives(c) \/ EndArrives(c) \/ NewsArrives(c) \/ OpenOrderArrives(c)
             \/ ErrorArrives(c)
      PROVE  Numbering'
  BY <1>4, <1>7 DEF RowArrives, EndArrives, NewsArrives, OpenOrderArrives, ErrorArrives,
                    connection, counters
<1>8. ASSUME NEW id, StatusElsewhere(id) \/ ErrorElsewhere(id) \/ OpenOrderElsewhere
      PROVE  Numbering'
  BY <1>4, <1>8 DEF StatusElsewhere, ErrorElsewhere, OpenOrderElsewhere, connection, counters
<1>9. CASE UNCHANGED vars
  BY <1>4, <1>9 DEF vars
<1> QED BY <1>1, <1>2, <1>3, <1>5, <1>6, <1>7, <1>8, <1>9 DEF Next

LEMMA DistinctNext == TypeOK /\ Numbering /\ Distinct /\ [Next]_vars => Distinct'
<1> SUFFICES ASSUME TypeOK, Numbering, Distinct, [Next]_vars PROVE Distinct'
  OBVIOUS
<1>1. CASE UNCHANGED request
  BY <1>1 DEF Distinct, Confused, Made
<1>2. ASSUME NEW c \in Calls, NEW k \in Kinds, Ask(c, k) PROVE Distinct'
  <2>1. request'[c] = [kind |-> k, id |-> IdFor(k), session |-> session]
    BY <1>2 DEF Ask, TypeOK
  <2>2. \A d \in Calls \ {c} : request'[d] = request[d]
    BY <1>2 DEF Ask, TypeOK
  <2>3. ASSUME NEW d \in Calls \ {c}, Made(d), request[d].session = session,
               request[d].id = IdFor(k)
        PROVE  \/ request[d].kind = k /\ k \in Fixed
               \/ (request[d].kind \in Numbered) # (k \in Numbered)
    <3>1. request[d].kind \in Kinds /\ request[d].id \in Nat
      BY <2>3 DEF TypeOK, Made
    <3>2. nextRequest \in Nat /\ nextOrder \in Nat /\ nextRequest >= FirstRequestId
      BY DEF TypeOK, Numbering
    <3>3. CASE k \in Fresh
      <4>1. IdFor(k) = nextRequest
        BY <3>3 DEF IdFor, Fresh, Numbered
      <4>2. request[d].kind \notin Fresh \cup Fixed
        BY <2>3, <3>1, <3>2, <4>1
           DEF Numbering, Fixed, POSITION_REQ_ID, OPEN_ORDERS_REQ_ID
      <4> QED BY <3>1, <3>3, <4>2 DEF Kinds, Awaited, Fresh, Fixed, Numbered
    <3>4. CASE k \in Numbered
      <4>1. IdFor(k) = nextOrder
        BY <3>4 DEF IdFor, Numbered
      <4>2. request[d].kind \notin Numbered
        BY <2>3, <3>1, <3>2, <4>1 DEF Numbering
      <4> QED BY <3>4, <4>2
    <3>5. CASE k \in Fixed
      <4>1. IdFor(k) = IF k = "positions" THEN 1 ELSE 2
        BY <3>5 DEF IdFor, Fixed, Numbered, POSITION_REQ_ID, OPEN_ORDERS_REQ_ID
      <4>2. request[d].kind \notin Fresh
        BY <2>3, <3>1, <4>1 DEF Numbering
      <4>3. request[d].kind \in Fixed => request[d].kind = k
        BY <2>3, <3>5, <4>1 DEF Numbering, Fixed, POSITION_REQ_ID, OPEN_ORDERS_REQ_ID
      <4> QED BY <3>1, <3>5, <4>2, <4>3 DEF Kinds, Awaited, Fresh, Fixed, Numbered
    <3> QED BY <3>3, <3>4, <3>5, KindFacts DEF Fresh
  <2>4. ASSUME NEW a \in Calls, NEW b \in Calls, Confused(a, b)'
        PROVE  \/ request'[a].kind = request'[b].kind /\ request'[a].kind \in Fixed
               \/ (request'[a].kind \in Numbered) # (request'[b].kind \in Numbered)
    <3>1. CASE a # c /\ b # c
      BY <2>2, <2>4, <3>1 DEF Distinct, Confused, Made
    <3>2. CASE a = c
      BY <2>1, <2>2, <2>3, <2>4, <3>2 DEF Confused, Made
    <3>3. CASE b = c
      BY <2>1, <2>2, <2>3, <2>4, <3>3 DEF Confused, Made
    <3> QED BY <3>1, <3>2, <3>3
  <2> QED BY <2>4 DEF Distinct
<1>3. CASE \/ Connect \/ ManagedAccounts \/ NextValidId \/ FinishConnect \/ Disconnect
           \/ TakeEntry \/ SetFuture \/ FailAll \/ UNCHANGED vars
  BY <1>1, <1>3 DEF Connect, ManagedAccounts, NextValidId, FinishConnect, Disconnect, TakeEntry,
                    SetFuture, FailAll, vars
<1>4. ASSUME NEW c \in Calls,
             \/ Receive(c) \/ GiveUp(c) \/ Poll(c) \/ RowArrives(c) \/ EndArrives(c)
             \/ NewsArrives(c) \/ OpenOrderArrives(c) \/ ErrorArrives(c)
      PROVE  Distinct'
  BY <1>1, <1>4 DEF Receive, GiveUp, Poll, RowArrives, EndArrives, NewsArrives,
                    OpenOrderArrives, ErrorArrives
<1>5. ASSUME NEW id, StatusElsewhere(id) \/ ErrorElsewhere(id) \/ OpenOrderElsewhere
      PROVE  Distinct'
  BY <1>1, <1>5 DEF StatusElsewhere, ErrorElsewhere, OpenOrderElsewhere
<1> QED BY <1>2, <1>3, <1>4, <1>5 DEF Next

-----------------------------------------------------------------------------
(* The coroutine and the registry.                                          *)

\* One request is awaited, in the session at hand; no other future is open.
Coroutine ==
  /\ link # "up" => caller = 0
  /\ caller # 0 => Made(caller) /\ request[caller].session = session
  /\ \A c \in Calls : future[c] = "open" => caller = c

\* What is pending, and who will settle the future that is open.
Registry ==
  /\ ~ socket => pending = {}
  /\ \A e \in pending : request[e.call].session = session /\ request[e.call].kind \in Awaited
  /\ \A e, f \in pending : request[e.call].id = request[f.call].id => e = f
  /\ \A c \in Calls : future[c] = "open" /\ request[c].kind \in Awaited =>
       \/ \E e \in pending : e.call = c
       \/ reader.at = "checked" /\ reader.call = c
  /\ reader.at = "checked" =>
       /\ reader.call \in Calls
       /\ request[reader.call].kind \in Awaited
       /\ \A e \in pending : e.call # reader.call
  /\ \A c \in Calls : future[c] = "result" => \A e \in pending : e.call # c

LEMMA CoroutineInit == Init => Coroutine
  BY DEF Init, Coroutine

LEMMA CoroutineNext == TypeOK /\ Numbering /\ Coroutine /\ [Next]_vars => Coroutine'
<1> SUFFICES ASSUME TypeOK, Numbering, Coroutine, [Next]_vars PROVE Coroutine'
  OBVIOUS
<1>1. CASE UNCHANGED <<session, link, request, caller, future>>
  BY <1>1 DEF Coroutine, Made
<1>2. CASE Connect
  BY <1>2 DEF Connect, Coroutine
<1>3. CASE FinishConnect \/ Disconnect
  BY <1>3 DEF FinishConnect, Disconnect, CloseSession, Coroutine, Made
<1>4. ASSUME NEW c \in Calls, NEW k \in Kinds, Ask(c, k) PROVE Coroutine'
  <2>1. request'[c].kind = k /\ request'[c].session = session /\ caller' = c
    BY <1>4 DEF Ask, TypeOK
  <2>2. \A d \in Calls : d # c => future'[d] # "open"
    <3>1. \A d \in Calls : future[d] # "open"
      BY <1>4 DEF Ask, Coroutine, Calls
    <3> QED BY <1>4, <3>1 DEF Ask, TypeOK
  <2>3. session' = session /\ link' = "up"
    BY <1>4 DEF Ask, Connected, connection
  <2> QED BY <2>1, <2>2, <2>3, KindFacts DEF Coroutine, Made
<1>5. ASSUME NEW c \in Calls, Receive(c) \/ GiveUp(c) \/ Poll(c) PROVE Coroutine'
  <2>1. caller' = 0 /\ UNCHANGED <<session, link, request>> /\ caller = c
    BY <1>5 DEF Receive, GiveUp, Poll, connection
  <2>2. future'[c] # "open" /\ \A d \in Calls \ {c} : future'[d] = future[d]
    BY <1>5 DEF Receive, GiveUp, Poll, TypeOK
  <2> QED BY <2>1, <2>2 DEF Coroutine, Calls
<1>6. CASE SetFuture
  <2>1. UNCHANGED <<session, link, request, caller>>
    BY <1>6 DEF SetFuture
  <2>2. \/ UNCHANGED future
        \/ \E v \in {"result", "error"} : future' = [future EXCEPT ![reader.call] = v]
    BY <1>6, Zenon DEF SetFuture
  <2>3. \A d \in Calls : future'[d] = "open" => future[d] = "open"
    BY <2>2 DEF TypeOK
  <2> QED BY <2>1, <2>3 DEF Coroutine, Made
<1>7. CASE ManagedAccounts \/ NextValidId \/ TakeEntry \/ FailAll \/ UNCHANGED vars
  BY <1>1, <1>7 DEF ManagedAccounts, NextValidId, TakeEntry, FailAll, connection, vars
<1>8. ASSUME NEW c \in Calls,
             \/ RowArrives(c) \/ EndArrives(c) \/ NewsArrives(c) \/ OpenOrderArrives(c)
             \/ ErrorArrives(c)
      PROVE  Coroutine'
  BY <1>1, <1>8 DEF RowArrives, EndArrives, NewsArrives, OpenOrderArrives, ErrorArrives,
                    connection
<1>9. ASSUME NEW id, StatusElsewhere(id) \/ ErrorElsewhere(id) \/ OpenOrderElsewhere
      PROVE  Coroutine'
  BY <1>1, <1>9 DEF StatusElsewhere, ErrorElsewhere, OpenOrderElsewhere, connection
<1> QED BY <1>2, <1>3, <1>4, <1>5, <1>6, <1>7, <1>8, <1>9 DEF Next

LEMMA RegistryInit == Init => Registry
  BY DEF Init, Registry, Idle

\* Entries are taken out, and the future among them that is open is settled next.
LEMMA Settles ==
  ASSUME TypeOK, Coroutine, Registry,
         NEW es \in SUBSET pending, NEW value \in SUBSET RowType, NEW ok \in BOOLEAN,
         Settling(es, value, ok), pending' = pending \ es,
         reader.at = "checked" => future[reader.call] # "open",
         UNCHANGED <<session, request, future>>,
         (~ socket') => pending' = {}
  PROVE  Registry'
<1>1. \A c \in Unsettled(es) : future[c] = "open" /\ \E e \in es : e.call = c
  BY DEF Unsettled
<1>2. ASSUME NEW e \in es, NEW f \in pending, f.call = e.call PROVE f \in es
  BY <1>2 DEF Registry
<1>3. /\ reader'.at = "checked" =>
           /\ reader'.call \in Calls /\ reader'.call \in Unsettled(es)
      /\ Unsettled(es) # {} => reader'.at = "checked"
  <2>1. Idle.at = "idle"
    BY DEF Idle
  <2>2. \/ Unsettled(es) = {} /\ reader' = Idle
        \/ reader'.at = "checked" /\ reader'.call \in Unsettled(es) /\ reader'.call \in Calls
    BY SettlingFacts
  <2> QED BY <2>1, <2>2
<1>4. reader'.at = "checked" =>
        /\ request[reader'.call].kind \in Awaited
        /\ \A e \in pending' : e.call # reader'.call
  BY <1>1, <1>2, <1>3 DEF Registry
<1>5. ASSUME NEW c \in Calls, future[c] = "open", request[c].kind \in Awaited
      PROVE  \/ \E e \in pending' : e.call = c
             \/ reader'.at = "checked" /\ reader'.call = c
  <2>1. PICK e \in pending : e.call = c
    BY <1>5 DEF Registry
  <2>2. CASE e \in es
    <3>1. c \in Unsettled(es)
      BY <1>5, <2>1, <2>2 DEF Unsettled
    <3>2. reader'.at = "checked" /\ future[reader'.call] = "open" /\ reader'.call \in Calls
      BY <1>1, <1>3, <3>1
    <3>3. reader'.call = c
      BY <1>5, <3>2 DEF Coroutine
    <3> QED BY <3>2, <3>3
  <2>3. CASE e \notin es
    BY <2>1, <2>3
  <2> QED BY <2>2, <2>3
<1> QED BY <1>3, <1>4, <1>5 DEF Registry

\* A row is added to an entry: nothing changes but rows.
LEMMA AddsRow ==
  ASSUME TypeOK, Registry, socket', NEW id, NEW row, AddRow(id, row),
         UNCHANGED <<session, request, future, reader>>
  PROVE  Registry'
<1>1. \A e \in pending : e.call \in Calls /\ [e EXCEPT !.rows = @ \cup {row}].call = e.call
  BY DEF TypeOK
<1>2. \A f \in pending' : \E e \in pending : f.call = e.call
                            /\ f = IF request[e.call].id = id THEN [e EXCEPT !.rows = @ \cup {row}] ELSE e
  BY <1>1 DEF AddRow, Entry
<1>3. \A e \in pending : \E f \in pending' : f.call = e.call
  BY <1>1 DEF AddRow, Entry
<1>4. \A f, g \in pending' : request[f.call].id = request[g.call].id => f = g
  <2> SUFFICES ASSUME NEW f \in pending', NEW g \in pending',
                      request[f.call].id = request[g.call].id
               PROVE  f = g
    OBVIOUS
  <2>1. PICK d \in pending : f.call = d.call
          /\ f = IF request[d.call].id = id THEN [d EXCEPT !.rows = @ \cup {row}] ELSE d
    BY <1>2
  <2>2. PICK e \in pending : g.call = e.call
          /\ g = IF request[e.call].id = id THEN [e EXCEPT !.rows = @ \cup {row}] ELSE e
    BY <1>2
  <2>3. d = e
    BY <2>1, <2>2 DEF Registry
  <2> QED BY <2>1, <2>2, <2>3
<1>5. \A f \in pending' : \E e \in pending : f.call = e.call
  BY <1>2
<1>6. \A c \in Calls : future[c] = "open" /\ request[c].kind \in Awaited =>
        \/ \E f \in pending' : f.call = c
        \/ reader.at = "checked" /\ reader.call = c
  BY <1>3 DEF Registry
<1>7. /\ \A f \in pending' : request[f.call].session = session /\ request[f.call].kind \in Awaited
      /\ reader.at = "checked" => \A f \in pending' : f.call # reader.call
      /\ \A c \in Calls : future[c] = "result" => \A f \in pending' : f.call # c
  BY <1>5 DEF Registry
<1> QED BY <1>4, <1>6, <1>7 DEF Registry

LEMMA RegistryNext ==
  TypeOK /\ Numbering /\ Coroutine /\ Registry /\ [Next]_vars => Registry'
<1> SUFFICES ASSUME TypeOK, Numbering, Coroutine, Registry, [Next]_vars PROVE Registry'
  OBVIOUS
<1>1. CASE /\ UNCHANGED <<session, request, pending, future>>
           /\ (~ socket') => ~ socket \/ pending' = {}
           /\ reader'.at = "checked" => UNCHANGED reader
           /\ reader.at = "checked" => UNCHANGED reader
  BY <1>1 DEF Registry
<1>2. CASE Connect
  <2>1. \A c \in Calls : future[c] # "open"
    BY <1>2 DEF Connect, Coroutine, Calls
  <2> QED BY <1>2, <2>1 DEF Connect, Registry, Idle
<1>3. CASE FinishConnect \/ Disconnect
  <2>1. CASE link' = "up"
    BY <1>1, <1>3, <2>1 DEF FinishConnect, Disconnect, CloseSession
  <2>2. CASE CloseSession
    <3>1. \A c \in Calls : future[c] # "open"
      BY <1>3 DEF FinishConnect, Disconnect, Coroutine, Calls
    <3> QED BY <1>3, <2>2, <3>1 DEF FinishConnect, Disconnect, CloseSession, Registry
  <2> QED BY <1>3, <2>1, <2>2 DEF FinishConnect, Disconnect
<1>4. ASSUME NEW c \in Calls, NEW k \in Kinds, Ask(c, k) PROVE Registry'
  <2>1. request'[c] = [kind |-> k, id |-> IdFor(k), session |-> session]
    BY <1>4 DEF Ask, TypeOK
  <2>2. \A d \in Calls \ {c} : request'[d] = request[d] /\ future'[d] = future[d]
    BY <1>4 DEF Ask, TypeOK
  <2>3. /\ future'[c] = "open" /\ \A d \in Calls : future[d] # "open"
        /\ UNCHANGED <<session, socket, reader>> /\ socket
    BY <1>4 DEF Ask, TypeOK, Coroutine, Connected, connection, Calls
  <2>4. request[c].kind = "none" /\ "none" \notin Awaited
    BY <1>4, KindFacts DEF Ask, Made
  <2>5. \A e \in pending : e.call \in Calls \ {c}
    BY <2>4 DEF Registry, TypeOK
  <2>6. CASE k \in Awaited
    <3> DEFINE new == [call |-> c, rows |-> {}]
    <3>1. pending' = (pending \ Entry(IdFor(k))) \cup {new} /\ new.call = c
      BY <1>4, <2>6 DEF Ask
    <3>2. \A e \in pending \ Entry(IdFor(k)) : request[e.call].id # IdFor(k)
      BY DEF Entry
    <3> HIDE DEF new
    <3>3. \A e \in pending' : e = new \/ (e \in pending /\ request[e.call].id # IdFor(k))
      BY <3>1, <3>2
    <3>4. \A e, f \in pending' : request'[e.call].id = request'[f.call].id => e = f
      BY <2>1, <2>2, <2>5, <3>1, <3>3 DEF Registry
    <3>5. \A e \in pending' : request'[e.call].session = session
                                /\ request'[e.call].kind \in Awaited
      BY <2>1, <2>2, <2>5, <2>6, <3>1, <3>3 DEF Registry
    <3>6. reader.at = "checked" => reader.call \in Calls \ {c}
      BY <2>4 DEF Registry
    <3> QED BY <2>2, <2>3, <2>5, <3>1, <3>3, <3>4, <3>5, <3>6 DEF Registry
  <2>7. CASE k \notin Awaited
    <3>1. pending' = pending
      BY <1>4, <2>7 DEF Ask
    <3>2. reader.at = "checked" => reader.call \in Calls \ {c}
      BY <2>4 DEF Registry
    <3> QED BY <2>1, <2>2, <2>3, <2>5, <2>7, <3>1, <3>2 DEF Registry
  <2> QED BY <2>6, <2>7
<1>5. ASSUME NEW c \in Calls, Receive(c) PROVE Registry'
  BY <1>1, <1>5 DEF Receive, connection
<1>6. ASSUME NEW c \in Calls, GiveUp(c) PROVE Registry'
  <2>1. \A d \in Calls : \/ future'[d] = future[d]
                         \/ future'[d] = "cancelled"
    BY <1>6 DEF GiveUp, TypeOK
  <2>2. UNCHANGED <<session, socket, request, pending, reader>>
    BY <1>6 DEF GiveUp, connection
  <2> QED BY <2>1, <2>2 DEF Registry
<1>7. ASSUME NEW c \in Calls, Poll(c) PROVE Registry'
  <2>1. \A d \in Calls : \/ future'[d] = future[d]
                         \/ d = c /\ future'[d] \in {"result", "error"}
    BY <1>7 DEF Poll, TypeOK
  <2>2. UNCHANGED <<session, socket, request, pending, reader>>
        /\ request[c].kind \notin Awaited
    BY <1>7 DEF Poll, connection
  <2>3. \A e \in pending : e.call # c
    BY <2>2 DEF Registry
  <2> QED BY <2>1, <2>2, <2>3 DEF Registry
<1>8. ASSUME NEW c \in Calls, RowArrives(c) PROVE Registry'
  BY <1>8, AddsRow DEF RowArrives, Live, connection
<1>9. ASSUME NEW c \in Calls, OpenOrderArrives(c) PROVE Registry'
  BY <1>9, AddsRow DEF OpenOrderArrives, Live, connection
<1>10. ASSUME NEW c \in Calls, EndArrives(c) PROVE Registry'
  <2>1. reader.at = "idle" /\ reader'.at = "copied"
    BY <1>10 DEF EndArrives, Idle
  <2> QED BY <1>1, <1>10, <2>1 DEF EndArrives, connection
<1>11. ASSUME NEW c \in Calls, NewsArrives(c) PROVE Registry'
  BY <1>1, <1>11 DEF NewsArrives, connection
<1>12. ASSUME NEW id, NEW by, Refuse(id, by),
              reader = Idle, socket', UNCHANGED <<session, request, future>>
       PROVE  Registry'
  <2>1. Settling(Entry(id), {}, FALSE) /\ pending' = pending \ Entry(id)
    BY <1>12 DEF Refuse
  <2>2. reader.at = "idle"
    BY <1>12 DEF Idle
  <2>3. Entry(id) \subseteq pending
    BY DEF Entry
  <2> QED BY <1>12, <2>1, <2>2, <2>3, Settles
<1>13. CASE TakeEntry
  <2>1. /\ Settling(Entry(reader.id), reader.value, TRUE)
        /\ pending' = pending \ Entry(reader.id)
        /\ reader.at = "copied" /\ UNCHANGED <<session, socket, request, future>>
    BY <1>13 DEF TakeEntry, connection
  <2>2. Entry(reader.id) \subseteq pending /\ reader.value \subseteq RowType
    BY DEF Entry, TypeOK
  <2>3. (~ socket') => pending' = {}
    BY <2>1 DEF Registry
  <2> QED BY <2>1, <2>2, <2>3, Settles
<1>14. CASE SetFuture
  <2>1. CASE future[reader.call] = "open"
    <3>1. /\ reader' = Idle
          /\ UNCHANGED <<session, request, socket, pending>>
          /\ \E v \in {"result", "error"} : future' = [future EXCEPT ![reader.call] = v]
      BY <1>14, <2>1, Zenon DEF SetFuture
    <3>2. /\ reader.at = "checked" /\ reader.call \in Calls
          /\ \A e \in pending : e.call # reader.call
      BY <1>14 DEF SetFuture, Registry
    <3>3. \A c \in Calls : /\ future'[c] # "open"
                           /\ future'[c] = "result" => c = reader.call \/ future[c] = "result"
      BY <2>1, <3>1, <3>2 DEF TypeOK, Coroutine
    <3> QED BY <3>1, <3>2, <3>3 DEF Registry, Idle
  <2>2. CASE future[reader.call] # "open"
    <3>1. /\ Settling(pending, {}, FALSE) /\ pending' = pending \ pending
          /\ UNCHANGED <<session, request, future>>
      BY <1>14, <2>2 DEF SetFuture
    <3> QED BY <2>2, <3>1, Settles
  <2> QED BY <2>1, <2>2
<1>15. CASE FailAll
  <2>1. /\ Settling(pending, {}, FALSE) /\ pending' = pending \ pending
        /\ UNCHANGED <<session, request, future>> /\ reader.at = "idle"
    BY <1>15 DEF FailAll, Idle
  <2> QED BY <2>1, Settles
<1>16. CASE ManagedAccounts \/ NextValidId \/ UNCHANGED vars
  BY <1>1, <1>16 DEF ManagedAccounts, NextValidId, connection, vars
<1>17. ASSUME NEW c \in Calls, ErrorArrives(c) PROVE Registry'
  BY <1>12, <1>17 DEF ErrorArrives, Live, connection
<1>18. ASSUME NEW id, ErrorElsewhere(id) PROVE Registry'
  BY <1>12, <1>18 DEF ErrorElsewhere, connection
<1>19. ASSUME NEW id, StatusElsewhere(id) PROVE Registry'
  BY <1>1, <1>19 DEF StatusElsewhere, connection
<1>20. CASE OpenOrderElsewhere
  BY <1>20, AddsRow DEF OpenOrderElsewhere, connection
<1> QED BY <1>2, <1>3, <1>4, <1>5, <1>6, <1>7, <1>8, <1>9, <1>10, <1>11, <1>13, <1>14, <1>15,
           <1>16, <1>17, <1>18, <1>19, <1>20 DEF Next

\* A dead connection leaves nobody waiting, whatever the reader thread was in the
\* middle of when it died.
THEOREM TheDeadAreBuried == Spec => []NobodyWaitsForTheDead
<1> DEFINE Inv == TypeOK /\ Numbering /\ Coroutine /\ Registry
<1>1. Init => Inv
  BY TypeInit, NumberingInit, CoroutineInit, RegistryInit
<1>2. Inv /\ [Next]_vars => Inv'
  BY TypeNext, NumberingNext, CoroutineNext, RegistryNext
<1>3. Inv => NobodyWaitsForTheDead
  BY DEF Registry, NobodyWaitsForTheDead, Idle
<1> QED BY <1>1, <1>2, <1>3, PTL DEF Spec

-----------------------------------------------------------------------------
(* The account.                                                             *)

Admitted == link = "up" => accounts # "none" /\ Expected \in {accounts, "any"}

LEMMA AdmittedNext ==
  TypeOK /\ Numbering /\ Admitted /\ RightAccountOnly /\ [Next]_vars
    => Admitted' /\ RightAccountOnly'
<1> SUFFICES ASSUME TypeOK, Numbering, Admitted, RightAccountOnly, [Next]_vars
             PROVE  Admitted' /\ RightAccountOnly'
  OBVIOUS
<1>1. CASE UNCHANGED <<session, accounts, request>> /\ (link' = "up" => link = "up")
  BY <1>1 DEF Admitted, RightAccountOnly, Made
<1>2. CASE Connect
  <2>1. \A c \in Calls : request'[c].session # session'
    BY <1>2 DEF Connect, Numbering, TypeOK
  <2> QED BY <1>2, <2>1 DEF Connect, Admitted, RightAccountOnly
<1>3. CASE ManagedAccounts
  <2>1. \A c \in Calls : ~ (Made(c) /\ request[c].session = session)
    BY <1>3 DEF ManagedAccounts, RightAccountOnly
  <2> QED BY <1>3, <2>1 DEF ManagedAccounts, Admitted, RightAccountOnly, Made
<1>4. CASE FinishConnect
  BY <1>4 DEF FinishConnect, CloseSession, Admitted, RightAccountOnly, Made
<1>5. ASSUME NEW c \in Calls, NEW k \in Kinds, Ask(c, k)
      PROVE  Admitted' /\ RightAccountOnly'
  <2>1. link = "up" /\ UNCHANGED <<session, link, accounts>>
    BY <1>5 DEF Ask, Connected, connection
  <2> QED BY <2>1 DEF Admitted, RightAccountOnly
<1>6. CASE NextValidId \/ Disconnect \/ TakeEntry \/ SetFuture \/ FailAll \/ UNCHANGED vars
  BY <1>1, <1>6 DEF NextValidId, Disconnect, CloseSession, TakeEntry, SetFuture, FailAll, vars,
                    connection
<1>7. ASSUME NEW c \in Calls,
             \/ Receive(c) \/ GiveUp(c) \/ Poll(c) \/ RowArrives(c) \/ EndArrives(c)
             \/ NewsArrives(c) \/ OpenOrderArrives(c) \/ ErrorArrives(c)
      PROVE  Admitted' /\ RightAccountOnly'
  BY <1>1, <1>7 DEF Receive, GiveUp, Poll, RowArrives, EndArrives, NewsArrives,
                    OpenOrderArrives, ErrorArrives, connection
<1>8. ASSUME NEW id, StatusElsewhere(id) \/ ErrorElsewhere(id) \/ OpenOrderElsewhere
      PROVE  Admitted' /\ RightAccountOnly'
  BY <1>1, <1>8 DEF StatusElsewhere, ErrorElsewhere, OpenOrderElsewhere, connection
<1> QED BY <1>2, <1>3, <1>4, <1>5, <1>6, <1>7, <1>8 DEF Next

\* No request is made of an account of another kind than the configured one.
THEOREM OnlyTheRightAccount == Spec => []RightAccountOnly
<1> DEFINE Inv == TypeOK /\ Numbering /\ Admitted /\ RightAccountOnly
<1>1. Init => Inv
  BY TypeInit, NumberingInit DEF Init, Admitted, RightAccountOnly, Made, NoRequest
<1>2. Inv /\ [Next]_vars => Inv'
  BY TypeNext, NumberingNext, AdmittedNext
<1> QED BY <1>1, <1>2, PTL DEF Spec

-----------------------------------------------------------------------------
(* What is recorded, and who is blamed.                                     *)

\* What is recorded of the session's own requests: of one with that id, of this session.
OwnNote(m) ==
  /\ Made(m.by) /\ request[m.by].id = m.id /\ request[m.by].session = session
  /\ m.tag = "tick" => request[m.by].kind = "quote"
  /\ m.tag = "status" => request[m.by].kind = "order"
  /\ m.tag = "whatif" => request[m.by].kind = "preview" /\ progress[m.by] = Rows + 1
  /\ m.tag = "error" => request[m.by].kind \notin Fixed

\* The rest is a status or an error of an order elsewhere.
Notes ==
  \A m \in noted :
    \/ m.by \in Calls /\ OwnNote(m)
    \/ m.by = 0 /\ m.tag \in {"status", "error"} /\ m.id \in Elsewhere(session)

\* A live request has been made.
LEMMA LiveMade ==
  ASSUME TypeOK, Numbering, NEW c \in Calls, Live(c)
  PROVE  Made(c)
  BY DEF Numbering, Live, NoRequest, TypeOK

LEMMA RecordsOne ==
  ASSUME NEW tag, NEW id, NEW by, Record(tag, id, by)
  PROVE  \A m \in noted' : m \in noted \/ (m.tag = tag /\ m.id = id /\ m.by = by)
  BY DEF Record

\* A request is made once, so an order elsewhere stays one.
LEMMA MadeOnce ==
  ASSUME TypeOK, [Next]_vars, NEW c \in Calls, Made(c)
  PROVE  request'[c] = request[c]
<1>1. CASE UNCHANGED request
  BY <1>1
<1>2. ASSUME NEW d \in Calls, NEW k \in Kinds, Ask(d, k) PROVE request'[c] = request[c]
  BY <1>2 DEF Ask, TypeOK
<1>3. CASE \/ Connect \/ ManagedAccounts \/ NextValidId \/ FinishConnect \/ Disconnect
           \/ OpenOrderElsewhere \/ TakeEntry \/ SetFuture \/ FailAll \/ UNCHANGED vars
  BY <1>1, <1>3 DEF Connect, ManagedAccounts, NextValidId, FinishConnect, Disconnect,
                    OpenOrderElsewhere, TakeEntry, SetFuture, FailAll, vars
<1>4. ASSUME NEW d \in Calls,
             \/ Receive(d) \/ GiveUp(d) \/ Poll(d) \/ RowArrives(d) \/ EndArrives(d)
             \/ NewsArrives(d) \/ OpenOrderArrives(d) \/ ErrorArrives(d)
      PROVE  UNCHANGED request
  BY <1>4 DEF Receive, GiveUp, Poll, RowArrives, EndArrives, NewsArrives, OpenOrderArrives,
              ErrorArrives
<1>5. ASSUME NEW id, StatusElsewhere(id) \/ ErrorElsewhere(id) PROVE UNCHANGED request
  BY <1>5 DEF StatusElsewhere, ErrorElsewhere
<1> QED BY <1>1, <1>2, <1>3, <1>4, <1>5 DEF Next

LEMMA ElsewhereGrows ==
  ASSUME TypeOK, [Next]_vars, NEW s
  PROVE  Elsewhere(s) \subseteq Elsewhere(s)'
<1>1. \A c \in Calls : request[c].kind = "order" => request'[c] = request[c]
  BY MadeOnce DEF Made
<1> QED BY <1>1 DEF Elsewhere

LEMMA NotesNext == TypeOK /\ Numbering /\ Notes /\ [Next]_vars => Notes'
<1> SUFFICES ASSUME TypeOK, Numbering, Notes, [Next]_vars PROVE Notes'
  OBVIOUS
\* It is enough that the notes of one's own stay right, and that a new one is right.
<1>1. ASSUME session' = session,
             \A m \in noted' : \/ m \in noted
                               \/ m.by \in Calls /\ OwnNote(m)'
                               \/ /\ m.by = 0 /\ m.tag \in {"status", "error"}
                                  /\ m.id \in Elsewhere(session),
             \A d \in Calls : Made(d) =>
               progress'[d] = progress[d] \/ progress'[d] = Rows + 1
      PROVE  Notes'
  <2>1. \A m \in noted : m.by \in Calls /\ OwnNote(m) => OwnNote(m)'
    BY <1>1, MadeOnce DEF OwnNote, Made
  <2>2. Elsewhere(session) \subseteq Elsewhere(session)'
    BY <1>1, ElsewhereGrows
  <2> QED BY <1>1, <2>1, <2>2 DEF Notes
<1>2. CASE UNCHANGED <<session, noted, progress>>
  BY <1>1, <1>2
<1>3. CASE Connect
  BY <1>3 DEF Connect, Notes
<1>4. ASSUME NEW c \in Calls, NEW k \in Kinds, Ask(c, k) PROVE Notes'
  BY <1>2, <1>4 DEF Ask, connection
<1>5. ASSUME NEW c \in Calls, Poll(c) PROVE Notes'
  <2>1. noted' \subseteq noted /\ UNCHANGED <<session, progress>>
    BY <1>5 DEF Poll, connection
  <2> QED BY <1>1, <2>1
<1>6. ASSUME NEW c \in Calls, RowArrives(c) \/ EndArrives(c) PROVE Notes'
  <2>1. UNCHANGED <<session, request, noted>>
    BY <1>6 DEF RowArrives, EndArrives, connection
  <2>2. request[c].kind # "preview" /\ \A d \in Calls \ {c} : progress'[d] = progress[d]
    BY <1>6 DEF RowArrives, EndArrives, TypeOK, Awaited, Fixed
  <2>3. \A m \in noted : m.by \in Calls /\ OwnNote(m) => OwnNote(m)'
    BY <2>1, <2>2 DEF OwnNote, Made
  <2>4. Elsewhere(session)' = Elsewhere(session)
    BY <2>1 DEF Elsewhere
  <2> QED BY <2>1, <2>3, <2>4 DEF Notes
<1>7. ASSUME NEW c \in Calls, NewsArrives(c) PROVE Notes'
  <2>1. UNCHANGED <<session, request, progress>>
    BY <1>7 DEF NewsArrives, connection
  <2>2. request[c].session = session /\ Made(c)
    BY <1>7, LiveMade DEF NewsArrives, Live
  <2>3. ASSUME NEW m \in noted'
        PROVE  m \in noted \/ (/\ m.tag = AnswerTag(request[c].kind)
                               /\ m.id = request[c].id /\ m.by = c)
    BY <1>7, RecordsOne DEF NewsArrives
  <2>4. \/ request[c].kind = "quote" /\ AnswerTag(request[c].kind) = "tick"
        \/ request[c].kind = "order" /\ AnswerTag(request[c].kind) = "status"
    BY <1>7 DEF NewsArrives, AnswerTag
  <2>5. \A m \in noted' : m \in noted \/ (m.by \in Calls /\ OwnNote(m)')
    BY <2>1, <2>2, <2>3, <2>4 DEF OwnNote, Made
  <2> QED BY <1>1, <2>1, <2>5
<1>8. ASSUME NEW c \in Calls, OpenOrderArrives(c) PROVE Notes'
  <2>1. UNCHANGED <<session, request>> /\ request[c].session = session /\ Made(c)
    BY <1>8, LiveMade DEF OpenOrderArrives, Live, connection
  <2>2. ASSUME NEW m \in noted'
        PROVE  m \in noted \/ (/\ m.tag = "whatif" /\ request[c].kind = "preview"
                               /\ m.id = request[c].id /\ m.by = c)
    BY <1>8, RecordsOne DEF OpenOrderArrives
  <2>3. /\ \A d \in Calls : progress'[d] = progress[d] \/ progress'[d] = Rows + 1
        /\ request[c].kind = "preview" => progress'[c] = Rows + 1
    BY <1>8 DEF OpenOrderArrives, TypeOK
  <2>4. \A m \in noted' : m \in noted \/ (m.by \in Calls /\ OwnNote(m)')
    BY <2>1, <2>2, <2>3 DEF OwnNote, Made
  <2> QED BY <1>1, <2>1, <2>3, <2>4
<1>9. ASSUME NEW c \in Calls, ErrorArrives(c) PROVE Notes'
  <2>1. UNCHANGED <<session, request>> /\ request[c].session = session /\ Made(c)
    BY <1>9, LiveMade DEF ErrorArrives, Live, connection
  <2>2. ASSUME NEW m \in noted'
        PROVE  m \in noted \/ (m.tag = "error" /\ m.id = request[c].id /\ m.by = c)
    BY <1>9, RecordsOne DEF ErrorArrives, Refuse
  <2>3. /\ \A d \in Calls : progress'[d] = progress[d] \/ progress'[d] = Rows + 1
        /\ request[c].kind \notin Fixed
    BY <1>9 DEF ErrorArrives, TypeOK
  <2>4. \A m \in noted' : m \in noted \/ (m.by \in Calls /\ OwnNote(m)')
    BY <2>1, <2>2, <2>3 DEF OwnNote, Made
  <2> QED BY <1>1, <2>1, <2>3, <2>4
<1>10. CASE \/ ManagedAccounts \/ NextValidId \/ FinishConnect \/ Disconnect
            \/ OpenOrderElsewhere \/ TakeEntry \/ SetFuture \/ FailAll \/ UNCHANGED vars
  BY <1>2, <1>10 DEF ManagedAccounts, NextValidId, FinishConnect, Disconnect, CloseSession,
                     OpenOrderElsewhere, TakeEntry, SetFuture, FailAll, vars, connection
<1>11. ASSUME NEW c \in Calls, Receive(c) \/ GiveUp(c) PROVE Notes'
  BY <1>2, <1>11 DEF Receive, GiveUp, connection
<1>12. ASSUME NEW id \in Elsewhere(session), StatusElsewhere(id) \/ ErrorElsewhere(id)
       PROVE  Notes'
  <2>1. UNCHANGED <<session, progress>>
    BY <1>12 DEF StatusElsewhere, ErrorElsewhere, connection
  <2>2. ASSUME NEW m \in noted'
        PROVE  m \in noted \/ (m.tag \in {"status", "error"} /\ m.id = id /\ m.by = 0)
    BY <1>12, RecordsOne DEF StatusElsewhere, ErrorElsewhere, Refuse
  <2> QED BY <1>1, <2>1, <2>2
<1> QED BY <1>3, <1>4, <1>5, <1>6, <1>7, <1>8, <1>9, <1>10, <1>11, <1>12 DEF Next

\* Whoever made a request fail is a request or is elsewhere, and the one that failed
\* was made.
Blamed == \A c \in Calls : cause[c] # c => Made(c) /\ (cause[c] # 0 => Made(cause[c]))

LEMMA BlameNext ==
  TypeOK /\ Numbering /\ Distinct /\ Coroutine /\ Registry /\ Notes
    /\ Blamed /\ BlameCrossesSpacesOnly /\ [Next]_vars
    => Blamed' /\ BlameCrossesSpacesOnly'
<1> SUFFICES ASSUME TypeOK, Numbering, Distinct, Coroutine, Registry, Notes,
                    Blamed, BlameCrossesSpacesOnly, [Next]_vars
             PROVE  Blamed' /\ BlameCrossesSpacesOnly'
  OBVIOUS
\* Why a refusal by another may fail c: none of the three conditions ends.
<1> DEFINE Why(c, by) ==
      /\ Made(c) /\ request[c].kind # "order"
      /\ by # 0 => /\ Made(by) /\ request[by].session = request[c].session
                   /\ (request[c].kind \in Numbered) # (request[by].kind \in Numbered)
      /\ by = 0 => request[c].id \in Elsewhere(request[c].session)
<1>1. \A c \in Calls : cause[c] # 0 => cause[c] \in Calls
  BY DEF TypeOK, Calls
<1>2. \A c \in Calls : cause[c] = c \/ Why(c, cause[c])
  BY DEF Blamed, BlameCrossesSpacesOnly
<1>3. SUFFICES \A c \in Calls : cause'[c] = c \/ Why(c, cause[c])'
  BY DEF Blamed, BlameCrossesSpacesOnly
<1>4. ASSUME NEW c \in Calls, NEW by, by # 0 => by \in Calls, Why(c, by) PROVE Why(c, by)'
  <2>1. request'[c] = request[c] /\ (by # 0 => request'[by] = request[by])
    BY <1>4, MadeOnce
  <2>2. Elsewhere(request[c].session) \subseteq Elsewhere(request[c].session)'
    BY <2>1, ElsewhereGrows
  <2> QED BY <1>4, <2>1, <2>2 DEF Made
<1> HIDE DEF Why
<1>5. ASSUME UNCHANGED cause, NEW c \in Calls PROVE cause'[c] = c \/ Why(c, cause[c])'
  BY <1>1, <1>2, <1>4, <1>5
\* A request and the one it is blamed on have one id, and not both a fixed one.
<1>6. ASSUME NEW c \in Calls, NEW d \in Calls, c # d, Made(c), Made(d),
             request[c].session = request[d].session, request[c].id = request[d].id,
             request[d].kind \notin Fixed, request[c].kind # "order"
      PROVE  Why(c, d)
  BY <1>6 DEF Distinct, Confused, Why, Calls
<1>7. ASSUME NEW c \in Calls, Poll(c), NEW d \in Calls
      PROVE  cause'[d] = d \/ Why(d, cause[d])'
  <2>1. Made(c) /\ request[c].session = session
    BY <1>7 DEF Poll, Coroutine, Calls
  <2>2. CASE UNCHANGED cause
    BY <1>5, <2>2
  <2>3. CASE \E m \in NotedError(c) : cause' = [cause EXCEPT ![c] = m.by]
    <3>1. PICK m \in NotedError(c) : cause' = [cause EXCEPT ![c] = m.by]
      BY <2>3
    <3>2. m \in noted /\ m.tag = "error" /\ m.id = request[c].id /\ request[c].kind # "order"
      BY <3>1 DEF NotedError, Recorded
    <3>3. m.by = c \/ Why(c, m.by)
      <4>1. CASE m.by \in Calls /\ OwnNote(m)
        BY <1>6, <2>1, <3>2, <4>1 DEF OwnNote
      <4>2. CASE m.by = 0 /\ m.id \in Elsewhere(session)
        BY <2>1, <3>2, <4>2 DEF Why
      <4> QED BY <3>2, <4>1, <4>2 DEF Notes
    <3>4. cause'[c] = m.by /\ \A e \in Calls \ {c} : cause'[e] = cause[e]
      BY <3>1 DEF TypeOK
    <3>5. m.by # 0 => m.by \in Calls
      BY <3>2 DEF Notes
    <3> QED BY <1>1, <1>2, <1>4, <3>3, <3>4, <3>5
  <2> QED BY <1>7, <2>2, <2>3 DEF Poll
<1>8. ASSUME NEW id, NEW by, Refuse(id, by), by # 0 => by \in Calls,
             \A d \in Unsettled(Entry(id)) : d = by \/ Why(d, by),
             NEW d \in Calls
      PROVE  cause'[d] = d \/ Why(d, cause[d])'
  <2>1. \/ cause'[d] = cause[d]
        \/ cause'[d] = by /\ d \in Unsettled(Entry(id))
    BY <1>8 DEF Refuse
  <2> QED BY <1>1, <1>2, <1>4, <1>8, <2>1
\* What a refusal finds pending.
<1>9. ASSUME NEW id, NEW d \in Unsettled(Entry(id))
      PROVE  /\ d \in Calls /\ Made(d) /\ request[d].session = session
             /\ request[d].id = id /\ request[d].kind # "order"
  BY KindFacts DEF Unsettled, Entry, Registry, Made, TypeOK, Numbered
<1>10. ASSUME NEW c \in Calls, ErrorArrives(c), NEW d \in Calls
       PROVE  cause'[d] = d \/ Why(d, cause[d])'
  <2>1. /\ Made(c) /\ request[c].session = session /\ request[c].kind \notin Fixed
        /\ Refuse(request[c].id, c)
    BY <1>10, LiveMade DEF ErrorArrives, Live
  <2>2. \A e \in Unsettled(Entry(request[c].id)) : e = c \/ Why(e, c)
    BY <1>6, <1>9, <2>1
  <2> QED BY <1>8, <2>1, <2>2
<1>11. ASSUME NEW id \in Elsewhere(session), ErrorElsewhere(id), NEW d \in Calls
       PROVE  cause'[d] = d \/ Why(d, cause[d])'
  <2>1. \A e \in Unsettled(Entry(id)) : Why(e, 0)
    BY <1>9 DEF Why
  <2> QED BY <1>8, <1>11, <2>1 DEF ErrorElsewhere
<1>12. CASE \/ Connect \/ ManagedAccounts \/ NextValidId \/ FinishConnect \/ Disconnect
            \/ OpenOrderElsewhere \/ TakeEntry \/ SetFuture \/ FailAll \/ UNCHANGED vars
  <2>1. UNCHANGED cause
    BY <1>12 DEF Connect, ManagedAccounts, NextValidId, FinishConnect, Disconnect,
                 OpenOrderElsewhere, TakeEntry, SetFuture, FailAll, vars
  <2> QED BY <1>5, <2>1
<1>13. ASSUME NEW c \in Calls,
              \/ \E k \in Kinds : Ask(c, k)
              \/ Receive(c) \/ GiveUp(c) \/ RowArrives(c) \/ EndArrives(c)
              \/ NewsArrives(c) \/ OpenOrderArrives(c)
       PROVE  UNCHANGED cause
  BY <1>13 DEF Ask, Receive, GiveUp, RowArrives, EndArrives, NewsArrives, OpenOrderArrives
<1>14. ASSUME NEW id, StatusElsewhere(id) PROVE UNCHANGED cause
  BY <1>14 DEF StatusElsewhere
<1> QED BY <1>5, <1>7, <1>10, <1>11, <1>12, <1>13, <1>14 DEF Next

\* A refusal fails a request it is not about only between orders and the rest of a
\* session, or for an order elsewhere with the same number; never an order.
THEOREM BlameIsBounded == Spec => []BlameCrossesSpacesOnly
<1> DEFINE Inv == /\ TypeOK /\ Numbering /\ Distinct /\ Coroutine /\ Registry /\ Notes
                  /\ Blamed /\ BlameCrossesSpacesOnly
<1>1. Init => Inv
  BY TypeInit, NumberingInit, CoroutineInit, RegistryInit
     DEF Init, Notes, Blamed, BlameCrossesSpacesOnly
<1>2. Inv /\ [Next]_vars => Inv'
  BY TypeNext, NumberingNext, DistinctNext, CoroutineNext, RegistryNext, NotesNext, BlameNext
<1> QED BY <1>1, <1>2, PTL DEF Spec

-----------------------------------------------------------------------------
(* The status of an order.                                                  *)

LEMMA StatusNext ==
  TypeOK /\ Distinct /\ Coroutine /\ Registry /\ Notes /\ StatusIsOfTheNumber /\ [Next]_vars
    => StatusIsOfTheNumber'
<1> SUFFICES ASSUME TypeOK, Distinct, Coroutine, Registry, Notes, StatusIsOfTheNumber,
                    [Next]_vars, NEW c \in Calls, request'[c].kind = "order",
                    future'[c] = "result"
             PROVE  \/ answer'[c] = {Row(c, 1)}
                    \/ /\ answer'[c] = {Row(0, 1)}
                       /\ request'[c].id \in Elsewhere(request[c].session)'
  BY DEF StatusIsOfTheNumber, Row
\* An answer given earlier stays.
<1>1. CASE future[c] = "result" /\ answer'[c] = answer[c] /\ request'[c] = request[c]
  BY <1>1, ElsewhereGrows DEF StatusIsOfTheNumber
<1>2. CASE UNCHANGED <<request, future, answer>>
  BY <1>1, <1>2
<1>3. ASSUME NEW d \in Calls, NEW k \in Kinds, Ask(d, k)
      PROVE  future[c] = "result" /\ answer'[c] = answer[c] /\ request'[c] = request[c]
  BY <1>3 DEF Ask, TypeOK
<1>4. ASSUME NEW d \in Calls, GiveUp(d)
      PROVE  future[c] = "result" /\ answer'[c] = answer[c] /\ request'[c] = request[c]
  BY <1>4 DEF GiveUp, TypeOK
<1>5. CASE SetFuture
  <2>1. request' = request /\ reader.call # c /\ reader.call \in Calls
    BY <1>5, KindFacts DEF SetFuture, Registry, Numbered
  <2>2. \/ UNCHANGED <<future, answer>>
        \/ /\ \E v : future' = [future EXCEPT ![reader.call] = v]
           /\ \E v : answer' = [answer EXCEPT ![reader.call] = v]
    BY <1>5, Zenon DEF SetFuture
  <2>3. future'[c] = future[c] /\ answer'[c] = answer[c]
    BY <2>1, <2>2 DEF TypeOK
  <2> QED BY <1>1, <2>1, <2>3
<1>6. ASSUME NEW d \in Calls, Poll(d), d # c
      PROVE  future[c] = "result" /\ answer'[c] = answer[c] /\ request'[c] = request[c]
  BY <1>6 DEF Poll, TypeOK
\* A status is taken: the session's own orders have numbers of their own.
<1>7. CASE Poll(c)
  <2>1. request' = request /\ Made(c) /\ request[c].session = session
    BY <1>7 DEF Poll, Coroutine, Calls
  <2>2. PICK m \in NotedAnswer(c) : answer' = [answer EXCEPT ![c] = {Row(m.by, 1)}]
    BY <1>7 DEF Poll, TypeOK
  <2>3. m \in noted /\ m.tag = "status" /\ m.id = request[c].id
    BY <2>1, <2>2 DEF NotedAnswer, Recorded, AnswerTag
  <2>4. answer'[c] = {Row(m.by, 1)}
    BY <2>2 DEF TypeOK
  <2>5. CASE m.by \in Calls /\ OwnNote(m)
    <3>1. m.by = c
      BY <2>1, <2>3, <2>5 DEF OwnNote, Distinct, Confused, Fixed
    <3> QED BY <2>4, <3>1
  <2>6. CASE m.by = 0 /\ m.id \in Elsewhere(session)
    BY <2>1, <2>3, <2>4, <2>6, ElsewhereGrows
  <2> QED BY <2>3, <2>5, <2>6 DEF Notes
<1>8. CASE \/ Connect \/ ManagedAccounts \/ NextValidId \/ FinishConnect \/ Disconnect
           \/ OpenOrderElsewhere \/ TakeEntry \/ FailAll \/ UNCHANGED vars
  BY <1>2, <1>8 DEF Connect, ManagedAccounts, NextValidId, FinishConnect, Disconnect,
                    OpenOrderElsewhere, TakeEntry, FailAll, vars
<1>9. ASSUME NEW d \in Calls,
             \/ Receive(d) \/ RowArrives(d) \/ EndArrives(d) \/ NewsArrives(d)
             \/ OpenOrderArrives(d) \/ ErrorArrives(d)
      PROVE  UNCHANGED <<request, future, answer>>
  BY <1>9 DEF Receive, RowArrives, EndArrives, NewsArrives, OpenOrderArrives, ErrorArrives
<1>10. ASSUME NEW id, StatusElsewhere(id) \/ ErrorElsewhere(id)
       PROVE  UNCHANGED <<request, future, answer>>
  BY <1>10 DEF StatusElsewhere, ErrorElsewhere
<1> QED BY <1>1, <1>2, <1>3, <1>4, <1>5, <1>6, <1>7, <1>8, <1>9, <1>10 DEF Next

\* Two orders of a session are never told apart wrongly: a status that is not of the order
\* itself is of one with its number at another client or in an earlier session.
THEOREM StatusOfTheNumber == Spec => []StatusIsOfTheNumber
<1> DEFINE Inv == /\ TypeOK /\ Numbering /\ Distinct /\ Coroutine /\ Registry /\ Notes
                  /\ StatusIsOfTheNumber
<1>1. Init => Inv
  BY TypeInit, NumberingInit, CoroutineInit, RegistryInit DEF Init, Notes, StatusIsOfTheNumber
<1>2. Inv /\ [Next]_vars => Inv'
  BY TypeNext, NumberingNext, DistinctNext, CoroutineNext, RegistryNext, NotesNext, StatusNext
<1> QED BY <1>1, <1>2, PTL DEF Spec

=============================================================================
