------------------------ MODULE OrderPipeline_proofs ------------------------
(***************************************************************************)
(* What holds of the order pipeline for every set of processes, intents    *)
(* and limits.  TypeInv is inductive whatever the processes are handed;    *)
(* SafeInv needs each intent to belong to one process.                     *)
(***************************************************************************)
EXTENDS OrderPipeline, FiniteSetTheorems, TLAPS

Busy == Steps \ {"down", "idle"}
HasOrder == {"built", "approved", "pending", "answered", "acked"}

\* What is in memory at each step, as far as the types depend on it.
InHand(p) ==
  /\ pc[p] \in Busy => cur[p] \in Handles[p]
  /\ pc[p] \in Busy \ {"validated"} => ctx[p].qty \in Quantities
  /\ pc[p] \in HasOrder => order[p] \in Row /\ rows[cur[p]] \in Row
  /\ pc[p] = "answered" => ctx[p].answer \in Answers

TypeInv == TypeOK /\ \A p \in Procs : InHand(p)

USE PipelineAssumption

LEMMA RowNotAbsent == Absent \notin Row
  BY DEF Absent, Row, Statuses, OpenStatuses

\* What each write to an Order leaves in it.
LEMMA MarkStatusRow ==
  ASSUME NEW o \in Row, NEW s \in Statuses
  PROVE  /\ MarkStatus(o, s) \in Row
         /\ MarkStatus(o, s).status = s /\ MarkStatus(o, s).hasId = o.hasId
  BY DEF MarkStatus, Row

LEMMA MarkPendingSubmitRow ==
  ASSUME NEW o \in Row
  PROVE  /\ MarkPendingSubmit(o) \in Row
         /\ MarkPendingSubmit(o).status = "PENDING_SUBMIT"
         /\ MarkPendingSubmit(o).hasId = o.hasId
  BY DEF MarkPendingSubmit, Row, Statuses, OpenStatuses

LEMMA MarkSubmittedRow ==
  ASSUME NEW o \in Row, NEW s \in Statuses
  PROVE  /\ MarkSubmitted(o, s) \in Row
         /\ MarkSubmitted(o, s).status = s /\ MarkSubmitted(o, s).hasId
  BY DEF MarkSubmitted, Row

LEMMA ColumnsRow ==
  ASSUME NEW o \in Row, NEW row \in Row
  PROVE  /\ Columns(o, row) \in Row
         /\ Columns(o, row).status = o.status /\ Columns(o, row).hasId = o.hasId
  BY DEF Columns, Row

LEMMA AnsweredContext ==
  ASSUME NEW c \in Context, NEW a \in Answers
  PROVE  /\ Answered(c, a) \in Context
         /\ Answered(c, a).answer = a /\ Answered(c, a).qty = c.qty
  BY DEF Answered, Context

\* Every status and answer an action may write is one of the order's statuses.
LEMMA AnswersAreStatuses ==
  /\ Answers \subseteq Statuses /\ BrokerStatuses \subseteq Statuses
  /\ AckStatuses \subseteq Answers /\ {"REJECTED", "ERROR"} \subseteq Answers
  /\ "BLOCKED" \in Statuses
  BY DEF Answers, Statuses, BrokerStatuses, AckStatuses, OpenStatuses

\* The counts a RiskContext holds are natural numbers.
LEMMA CountsAreNat == OpenOrderCount \in Nat /\ OrdersLastHour \in Nat
<1>1. ASSUME NEW S \in SUBSET Intents PROVE Cardinality(S) \in Nat
  BY FS_Subset, FS_CardinalityType
<1>2. {i \in Intents : rows[i].status \in OpenStatuses} \in SUBSET Intents
  OBVIOUS
<1>3. {i \in Intents : rows[i].stamped} \in SUBSET Intents
  OBVIOUS
<1> QED BY <1>1, <1>2, <1>3 DEF OpenOrderCount, OrdersLastHour

LEMMA TypeInvInit == Init => TypeInv
  BY DEF Init, TypeInv, TypeOK, InHand, Busy, HasOrder, Steps, Context, NoContext,
         Absent

\* A row that is found has an order in it.
LEMMA FoundRow ==
  ASSUME TypeInv, NEW p \in Procs, pc[p] = "acked", NEW i \in Found(p)
  PROVE  i \in Intents /\ rows[i] \in Row
<1>1. CASE i = cur[p]
  BY <1>1 DEF TypeInv, TypeOK, InHand, HasOrder, Busy, Steps
<1>2. CASE rows[i].hasId /\ i \in Intents
  BY <1>2 DEF TypeInv, TypeOK, Absent
<1> QED BY <1>1, <1>2 DEF Found

LEMMA TypeInvNext == TypeInv /\ [Next]_vars => TypeInv'
<1> SUFFICES ASSUME TypeInv, [Next]_vars PROVE TypeInv'
  OBVIOUS
<1> USE DEF TypeInv, TypeOK, InHand, Busy, HasOrder
<1>1. ASSUME NEW p \in Procs, Start(p) PROVE TypeInv'
  BY <1>1 DEF Start, Steps
<1>2. ASSUME NEW p \in Procs, Stop(p) PROVE TypeInv'
  BY <1>2 DEF Stop, BackTo, Steps, NoContext, Context
<1>3. ASSUME NEW p \in Procs, NEW i \in Intents, Accept(p, i) PROVE TypeInv'
  BY <1>3 DEF Accept, Offered, Steps
<1>4. ASSUME NEW p \in Procs, NEW i \in Intents, Reject(p, i) PROVE TypeInv'
  BY <1>4 DEF Reject, Offered, Steps
<1>5. ASSUME NEW p \in Procs, Drop(p) PROVE TypeInv'
  BY <1>5 DEF Drop, BackTo, Steps, NoContext, Context
<1>6. ASSUME NEW p \in Procs, BuildContext(p) PROVE TypeInv'
  BY <1>6, CountsAreNat DEF BuildContext, Steps, Context
<1>7. ASSUME NEW p \in Procs, InsertOrder(p) PROVE TypeInv'
  BY <1>7 DEF InsertOrder, Steps, NewOrder, Row, Statuses
<1>8. ASSUME NEW p \in Procs, ReuseStoredOrder(p) PROVE TypeInv'
  BY <1>8 DEF ReuseStoredOrder, Steps
<1>9. ASSUME NEW p \in Procs, SuppressDuplicate(p) PROVE TypeInv'
  BY <1>9 DEF SuppressDuplicate, BackTo, Steps, NoContext, Context
<1>10. ASSUME NEW p \in Procs, RiskApprove(p) PROVE TypeInv'
  BY <1>10 DEF RiskApprove, Steps
<1>11. ASSUME NEW p \in Procs, Block(p) PROVE TypeInv'
  BY <1>11, MarkStatusRow, ColumnsRow, AnswersAreStatuses
     DEF Block, Update, BackTo, Steps, NoContext, Context
<1>12. ASSUME NEW p \in Procs, MarkPending(p) PROVE TypeInv'
  BY <1>12, MarkPendingSubmitRow, ColumnsRow DEF MarkPending, Update, Steps
<1>13. ASSUME NEW p \in Procs, PlaceFails(p) PROVE TypeInv'
  BY <1>13, AnsweredContext, AnswersAreStatuses DEF PlaceFails, Steps
<1>14. ASSUME NEW p \in Procs, PlaceOrder(p) PROVE TypeInv'
  <2>1. PICK a \in AckStatuses : ctx' = [ctx EXCEPT ![p] = Answered(@, a)]
    BY <1>14 DEF PlaceOrder
  <2>2. /\ Answered(ctx[p], a) \in Context
        /\ Answered(ctx[p], a).answer \in Answers
        /\ Answered(ctx[p], a).qty = ctx[p].qty
    BY AnsweredContext, AnswersAreStatuses
  <2>3. cur[p] \in Intents /\ order[p].qty \in Quantities
    BY <1>14 DEF PlaceOrder, Row, Steps
  <2>4. wire' \in [Intents -> [n : Nat, qty : Quantities \cup {0}]]
    BY <1>14, <2>3 DEF PlaceOrder
  <2> QED
    BY <1>14, <2>1, <2>2, <2>4 DEF PlaceOrder, Steps
<1>15. ASSUME NEW p \in Procs, RecordFailure(p) PROVE TypeInv'
  BY <1>15, MarkStatusRow, ColumnsRow, AnswersAreStatuses
     DEF RecordFailure, Update, BackTo, Steps, NoContext, Context
<1>16. ASSUME NEW p \in Procs, RecordAccepted(p) PROVE TypeInv'
  <2>1. rows' = [rows EXCEPT ![cur[p]] = rows'[cur[p]]] /\ rows'[cur[p]] \in Row
    BY <1>16, MarkSubmittedRow, ColumnsRow, AnswersAreStatuses
       DEF RecordAccepted, Update, Steps
  <2>2. pc[p] = "answered" /\ UNCHANGED <<signals, approvals, seen, starts, wire>>
    BY <1>16 DEF RecordAccepted
  <2>3. CASE /\ pc' = [pc EXCEPT ![p] = "acked"]
             /\ UNCHANGED <<cur, order, ctx>>
    BY <2>1, <2>2, <2>3 DEF Steps
  <2>4. CASE BackTo(p, "idle")
    BY <2>1, <2>2, <2>4 DEF BackTo, Steps, NoContext, Context
  <2> QED BY <1>16, <2>3, <2>4 DEF RecordAccepted
<1>17. ASSUME NEW p \in Procs, AwaitStatus(p) PROVE TypeInv'
  <2>1. CASE UNCHANGED rows
    BY <1>17, <2>1 DEF AwaitStatus, BackTo, Steps, NoContext, Context
  <2>2. ASSUME NEW i \in Found(p), NEW s \in BrokerStatuses,
               rows' = [rows EXCEPT ![i] = MarkStatus(@, s)]
        PROVE  TypeInv'
    <3>1. i \in Intents /\ MarkStatus(rows[i], s) \in Row
      BY <1>17, FoundRow, MarkStatusRow, AnswersAreStatuses DEF AwaitStatus
    <3> QED
      BY <1>17, <2>2, <3>1 DEF AwaitStatus, BackTo, Steps, NoContext, Context
  <2> QED BY <1>17, <2>1, <2>2 DEF AwaitStatus
<1>18. CASE UNCHANGED vars
  BY <1>18 DEF vars
<1> QED
  BY <1>1, <1>2, <1>3, <1>4, <1>5, <1>6, <1>7, <1>8, <1>9, <1>10, <1>11, <1>12,
     <1>13, <1>14, <1>15, <1>16, <1>17, <1>18 DEF Next

\* Every variable keeps its type, whatever the processes are handed.
THEOREM TypeCorrect == Spec => []TypeOK
<1>1. TypeInv => TypeOK
  BY DEF TypeInv
<1> QED
  BY TypeInvInit, TypeInvNext, <1>1, PTL DEF Spec

-----------------------------------------------------------------------------
(* What each write leaves in the row of the intent in hand.                *)

\* A step of p writes this row and no other.
Writes(p) ==
  /\ cur[p] \in Intents /\ order[p] \in Row /\ rows[cur[p]] \in Row
  /\ rows' = [rows EXCEPT ![cur[p]] = rows'[cur[p]]]

LEMMA InHandTypes ==
  ASSUME TypeInv, NEW p \in Procs, pc[p] \in HasOrder
  PROVE  /\ cur[p] \in Intents /\ order[p] \in Row /\ rows[cur[p]] \in Row
         /\ pc[p] \in Busy
  BY DEF TypeInv, InHand, HasOrder, Busy, Steps

LEMMA BlockWrites ==
  ASSUME TypeInv, NEW p \in Procs, Block(p)
  PROVE  /\ Writes(p)
         /\ rows'[cur[p]].status = "BLOCKED" /\ rows'[cur[p]].hasId = order[p].hasId
<1>1. cur[p] \in Intents /\ order[p] \in Row /\ rows[cur[p]] \in Row
  BY InHandTypes DEF Block, HasOrder
<1>2. LET o == MarkStatus(order[p], "BLOCKED")
      IN  o \in Row /\ o.status = "BLOCKED" /\ o.hasId = order[p].hasId
  BY <1>1, MarkStatusRow, AnswersAreStatuses
<1>3. rows' = [rows EXCEPT ![cur[p]] = Columns(MarkStatus(order[p], "BLOCKED"), @)]
  BY DEF Block, Update
<1> QED
  BY <1>1, <1>2, <1>3, ColumnsRow DEF Writes, TypeInv, TypeOK

LEMMA MarkPendingWrites ==
  ASSUME TypeInv, NEW p \in Procs, MarkPending(p)
  PROVE  /\ Writes(p)
         /\ rows'[cur[p]].status = "PENDING_SUBMIT"
         /\ rows'[cur[p]].hasId = order[p].hasId
         /\ order'[p].hasId = order[p].hasId
<1>1. cur[p] \in Intents /\ order[p] \in Row /\ rows[cur[p]] \in Row
  BY InHandTypes DEF MarkPending, HasOrder
<1> QED
  BY <1>1, MarkPendingSubmitRow, ColumnsRow
     DEF MarkPending, Update, Writes, TypeInv, TypeOK

LEMMA RecordFailureWrites ==
  ASSUME TypeInv, NEW p \in Procs, RecordFailure(p)
  PROVE  /\ Writes(p)
         /\ rows'[cur[p]].status \in {"REJECTED", "ERROR"}
         /\ rows'[cur[p]].hasId = order[p].hasId
<1>1. cur[p] \in Intents /\ order[p] \in Row /\ rows[cur[p]] \in Row
  BY InHandTypes DEF RecordFailure, HasOrder
<1>2. LET o == MarkStatus(order[p], ctx[p].answer)
      IN  /\ o \in Row /\ o.status \in {"REJECTED", "ERROR"}
          /\ o.hasId = order[p].hasId
  BY <1>1, MarkStatusRow, AnswersAreStatuses DEF RecordFailure
<1>3. rows' = [rows EXCEPT ![cur[p]] = Columns(MarkStatus(order[p], ctx[p].answer), @)]
  BY DEF RecordFailure, Update
<1> QED
  BY <1>1, <1>2, <1>3, ColumnsRow DEF Writes, TypeInv, TypeOK

LEMMA RecordAcceptedWrites ==
  ASSUME TypeInv, NEW p \in Procs, RecordAccepted(p)
  PROVE  /\ Writes(p)
         /\ rows'[cur[p]].status \in AckStatuses /\ rows'[cur[p]].hasId
<1>1. cur[p] \in Intents /\ order[p] \in Row /\ rows[cur[p]] \in Row
  BY InHandTypes DEF RecordAccepted, HasOrder
<1>2. LET o == MarkSubmitted(order[p], ctx[p].answer)
      IN  o \in Row /\ o.status \in AckStatuses /\ o.hasId
  BY <1>1, MarkSubmittedRow, AnswersAreStatuses DEF RecordAccepted
<1>3. rows' = [rows EXCEPT ![cur[p]] =
                 Columns(MarkSubmitted(order[p], ctx[p].answer), @)]
  BY DEF RecordAccepted, Update
<1> QED
  BY <1>1, <1>2, <1>3, ColumnsRow DEF Writes, TypeInv, TypeOK

\* The only write that may be to the row of another intent than the one in hand.
LEMMA AwaitStatusWrites ==
  ASSUME TypeInv, NEW p \in Procs, AwaitStatus(p)
  PROVE  \E i \in Found(p) :
           /\ i \in Intents /\ rows[i] \in Row
           /\ rows' = [rows EXCEPT ![i] = rows'[i]]
           /\ rows'[i].hasId = rows[i].hasId
           /\ rows'[i].stamped = rows[i].stamped
           /\ \/ UNCHANGED rows
              \/ rows'[i].status \in BrokerStatuses
<1>1. CASE UNCHANGED rows
  <2>1. cur[p] \in Found(p)
    BY DEF Found
  <2>2. cur[p] \in Intents /\ rows[cur[p]] \in Row
    BY <2>1, FoundRow DEF AwaitStatus
  <2> QED BY <1>1, <2>1, <2>2 DEF TypeInv, TypeOK
<1>2. ASSUME NEW i \in Found(p), NEW s \in BrokerStatuses,
             rows' = [rows EXCEPT ![i] = MarkStatus(@, s)]
      PROVE  /\ i \in Intents /\ rows[i] \in Row
             /\ rows' = [rows EXCEPT ![i] = rows'[i]]
             /\ rows'[i].hasId = rows[i].hasId
             /\ rows'[i].stamped = rows[i].stamped
             /\ rows'[i].status \in BrokerStatuses
  <2>1. i \in Intents /\ rows[i] \in Row
    BY FoundRow DEF AwaitStatus
  <2>2. rows'[i] = MarkStatus(rows[i], s)
    BY <1>2, <2>1 DEF TypeInv, TypeOK
  <2>3. rows' = [rows EXCEPT ![i] = rows'[i]]
    BY <1>2, <2>1, <2>2 DEF TypeInv, TypeOK
  <2>4. rows'[i].stamped = rows[i].stamped
    BY <2>1, <2>2 DEF MarkStatus, Row
  <2>5. /\ MarkStatus(rows[i], s).hasId = rows[i].hasId
        /\ MarkStatus(rows[i], s).status \in BrokerStatuses
    BY <2>1, MarkStatusRow, AnswersAreStatuses
  <2> QED BY <2>1, <2>2, <2>3, <2>4, <2>5, Zenon
<1> QED BY <1>1, <1>2 DEF AwaitStatus

-----------------------------------------------------------------------------
(* Safety, when every intent belongs to one process.                       *)

\* The row and the wire of the intent in p's hands, step by step.
InFlight(p) ==
  /\ pc[p] \in {"built", "approved"} =>
       /\ ~ WasTransmitted(rows[cur[p]])
       /\ ~ order[p].hasId
  /\ pc[p] \in {"pending", "answered"} =>
       /\ rows[cur[p]].status = "PENDING_SUBMIT"
       /\ ~ rows[cur[p]].hasId /\ ~ order[p].hasId
  /\ pc[p] = "pending" => wire[cur[p]].n = 0
  /\ pc[p] = "answered" /\ ctx[p].answer \notin AckStatuses => wire[cur[p]].n = 0
  /\ pc[p] = "acked" => rows[cur[p]].hasId

SafeInv ==
  /\ TypeInv
  /\ AtMostOnce
  /\ NoOrphan
  /\ \A p \in Procs : InFlight(p)

\* Two processes in the middle of something have different intents in hand.
LEMMA Private ==
  ASSUME OwnIntents, TypeInv,
         NEW p \in Procs, NEW q \in Procs, p # q,
         pc[p] \in Busy, pc[q] \in Busy
  PROVE  cur[p] # cur[q]
  BY DEF OwnIntents, TypeInv, InHand

\* A step of p that touches no row, no order and no memory but p's own only has to
\* be looked at where p stands.
LEMMA Frame ==
  ASSUME OwnIntents, SafeInv, TypeInv',
         NEW p \in Procs, pc[p] \in Busy,
         \A r \in Procs \ {p} : /\ pc'[r] = pc[r] /\ cur'[r] = cur[r]
                                /\ order'[r] = order[r] /\ ctx'[r] = ctx[r],
         \A j \in Intents \ {cur[p]} : rows'[j] = rows[j] /\ wire'[j] = wire[j],
         InFlight(p)',
         wire'[cur[p]].n <= 1,
         wire'[cur[p]].n > 0 =>
           rows'[cur[p]].hasId \/ rows'[cur[p]].status = "PENDING_SUBMIT"
  PROVE  SafeInv'
<1>1. AtMostOnce' /\ NoOrphan'
  BY DEF SafeInv, AtMostOnce, NoOrphan
<1>2. ASSUME NEW r \in Procs \ {p}, pc[r] \in Busy PROVE InFlight(r)'
  <2>1. cur[r] \in Intents \ {cur[p]}
    BY <1>2, Private DEF SafeInv, TypeInv, InHand
  <2>2. InFlight(r) /\ rows'[cur[r]] = rows[cur[r]] /\ wire'[cur[r]] = wire[cur[r]]
    BY <2>1 DEF SafeInv
  <2> QED BY <2>2 DEF InFlight, WasTransmitted, ReachedBroker
<1>3. ASSUME NEW r \in Procs \ {p}, pc[r] \notin Busy PROVE InFlight(r)'
  BY <1>3 DEF InFlight, Busy, Steps
<1> QED BY <1>1, <1>2, <1>3 DEF SafeInv

LEMMA SafeInvInit == Init => SafeInv
<1> SUFFICES ASSUME Init PROVE SafeInv
  OBVIOUS
<1>1. TypeInv
  BY TypeInvInit
<1> QED
  BY <1>1 DEF Init, SafeInv, InFlight, AtMostOnce, NoOrphan

LEMMA SafeInvNext ==
  ASSUME OwnIntents
  PROVE  SafeInv /\ [Next]_vars => SafeInv'
<1> SUFFICES ASSUME SafeInv, [Next]_vars PROVE SafeInv'
  OBVIOUS
<1>0. TypeInv /\ TypeInv' /\ TypeOK /\ \A p \in Procs : InHand(p)
  BY TypeInvNext DEF SafeInv, TypeInv
<1>a. ASSUME NEW p \in Procs, pc[p] \in Busy
      PROVE  \A q \in Procs : q # p /\ pc[q] \in Busy => cur[q] # cur[p]
  BY <1>0, <1>a, Private
<1> USE DEF SafeInv, InFlight, AtMostOnce, NoOrphan, TypeOK, Busy
<1>1. ASSUME NEW p \in Procs, Start(p) PROVE SafeInv'
  BY <1>0, <1>1 DEF Start
<1>2. ASSUME NEW p \in Procs, Stop(p) PROVE SafeInv'
  BY <1>0, <1>2 DEF Stop, BackTo
<1>3. ASSUME NEW p \in Procs, NEW i \in Intents, Accept(p, i) PROVE SafeInv'
  BY <1>0, <1>3 DEF Accept
<1>4. ASSUME NEW p \in Procs, NEW i \in Intents, Reject(p, i) PROVE SafeInv'
  BY <1>0, <1>4 DEF Reject
<1>5. ASSUME NEW p \in Procs, Drop(p) PROVE SafeInv'
  BY <1>0, <1>5 DEF Drop, BackTo
<1>6. ASSUME NEW p \in Procs, BuildContext(p) PROVE SafeInv'
  BY <1>0, <1>6 DEF BuildContext
<1>7. ASSUME NEW p \in Procs, InsertOrder(p) PROVE SafeInv'
  BY <1>0, <1>7, <1>a DEF InsertOrder, NewOrder, WasTransmitted, ReachedBroker, Steps,
     Absent, InHand
<1>8. ASSUME NEW p \in Procs, ReuseStoredOrder(p) PROVE SafeInv'
  BY <1>0, <1>8 DEF ReuseStoredOrder, WasTransmitted
<1>9. ASSUME NEW p \in Procs, SuppressDuplicate(p) PROVE SafeInv'
  BY <1>0, <1>9 DEF SuppressDuplicate, BackTo
<1>10. ASSUME NEW p \in Procs, RiskApprove(p) PROVE SafeInv'
  BY <1>0, <1>10 DEF RiskApprove
<1>11. ASSUME NEW p \in Procs, Block(p) PROVE SafeInv'
  <2>1. ~ order[p].hasId /\ wire[cur[p]].n = 0
    BY <1>0, <1>11, InHandTypes DEF Block, WasTransmitted, ReachedBroker, HasOrder
  <2> QED
    <3>1. /\ BackTo(p, "idle") /\ UNCHANGED wire /\ Writes(p)
          /\ pc[p] \in HasOrder
      BY <1>0, <1>11, BlockWrites DEF Block, HasOrder
    <3> QED BY <1>0, <2>1, <3>1, Frame, InHandTypes DEF BackTo, Writes
<1>12. ASSUME NEW p \in Procs, MarkPending(p) PROVE SafeInv'
  <2>1. ~ order[p].hasId /\ wire[cur[p]].n = 0
    BY <1>0, <1>12, InHandTypes DEF MarkPending, WasTransmitted, ReachedBroker, HasOrder
  <2> QED
    <3>1. /\ pc' = [pc EXCEPT ![p] = "pending"] /\ UNCHANGED <<wire, cur, ctx>>
          /\ order' = [order EXCEPT ![p] = order'[p]]
          /\ Writes(p) /\ pc[p] \in HasOrder
          /\ rows'[cur[p]].status = "PENDING_SUBMIT"
          /\ ~ rows'[cur[p]].hasId /\ ~ order'[p].hasId
      BY <1>0, <1>12, <2>1, MarkPendingWrites DEF MarkPending, HasOrder
    <3>2. InFlight(p)'
      BY <1>0, <2>1, <3>1, InHandTypes
    <3> QED BY <1>0, <2>1, <3>1, <3>2, Frame, InHandTypes DEF Writes
<1>13. ASSUME NEW p \in Procs, PlaceFails(p) PROVE SafeInv'
  <2>1. PICK a \in {"REJECTED", "ERROR"} : ctx' = [ctx EXCEPT ![p] = Answered(@, a)]
    BY <1>13 DEF PlaceFails
  <2> QED
    BY <1>0, <1>13, <2>1 DEF PlaceFails
<1>14. ASSUME NEW p \in Procs, PlaceOrder(p) PROVE SafeInv'
  <2>1. PICK a \in AckStatuses : ctx' = [ctx EXCEPT ![p] = Answered(@, a)]
    BY <1>14 DEF PlaceOrder
  <2>2. ctx'[p].answer \in AckStatuses
    BY <1>0, <2>1, AnsweredContext, AnswersAreStatuses
  <2>3. /\ cur[p] \in Intents
        /\ \A q \in Procs : q # p /\ pc[q] \in Busy => cur[q] # cur[p]
    BY <1>0, <1>14, <1>a DEF PlaceOrder, InHand, Steps
  <2>4. wire' = [wire EXCEPT ![cur[p]] = wire'[cur[p]]] /\ wire'[cur[p]].n = 1
    BY <1>0, <1>14, <2>3 DEF PlaceOrder
  <2> QED
    BY <1>0, Frame, <1>14, <2>1, <2>2, <2>3, <2>4 DEF PlaceOrder
<1>15. ASSUME NEW p \in Procs, RecordFailure(p) PROVE SafeInv'
  <2>1. BackTo(p, "idle") /\ UNCHANGED wire /\ pc[p] = "answered" /\ Writes(p)
    BY <1>0, <1>15, RecordFailureWrites DEF RecordFailure
  <2>2. wire[cur[p]].n = 0
    BY <1>15 DEF RecordFailure, AckStatuses
  <2>3. InFlight(p)' /\ wire'[cur[p]].n <= 1 /\ ~ (wire'[cur[p]].n > 0)
    BY <1>0, <2>1, <2>2 DEF BackTo
  <2>4. \A r \in Procs \ {p} : /\ pc'[r] = pc[r] /\ cur'[r] = cur[r]
                               /\ order'[r] = order[r] /\ ctx'[r] = ctx[r]
    BY <1>0, <2>1 DEF BackTo
  <2>5. \A j \in Intents \ {cur[p]} : rows'[j] = rows[j] /\ wire'[j] = wire[j]
    BY <1>0, <2>1 DEF Writes
  <2> QED BY <1>0, <2>1, <2>3, <2>4, <2>5, Frame DEF Steps
<1>16. ASSUME NEW p \in Procs, RecordAccepted(p) PROVE SafeInv'
  <2>1. pc[p] = "answered" /\ UNCHANGED wire /\ Writes(p) /\ rows'[cur[p]].hasId
    BY <1>0, <1>16, RecordAcceptedWrites DEF RecordAccepted
  <2>2. CASE pc' = [pc EXCEPT ![p] = "acked"] /\ UNCHANGED <<cur, order, ctx>>
    BY <1>0, <2>1, <2>2, Frame, InHandTypes DEF Writes, HasOrder
  <2>3. CASE BackTo(p, "idle")
    BY <1>0, <2>1, <2>3, Frame, InHandTypes DEF BackTo, Writes, HasOrder
  <2> QED BY <1>16, <2>2, <2>3 DEF RecordAccepted
<1>17. ASSUME NEW p \in Procs, AwaitStatus(p) PROVE SafeInv'
  <2>1. PICK i \in Found(p) :
          /\ i \in Intents /\ rows[i] \in Row
          /\ rows' = [rows EXCEPT ![i] = rows'[i]]
          /\ rows'[i].hasId = rows[i].hasId
    BY <1>0, <1>17, AwaitStatusWrites
  <2>2. rows[i].hasId
    BY <1>0, <1>17, <2>1 DEF Found, InFlight, AwaitStatus
  <2>3. \A j \in Intents : rows'[j].hasId = rows[j].hasId
    BY <1>0, <2>1 DEF TypeInv, TypeOK
  <2>4. UNCHANGED wire
    BY <1>17 DEF AwaitStatus
  <2>5. AtMostOnce' /\ NoOrphan'
    BY <2>1, <2>2, <2>3, <2>4, <1>0 DEF SafeInv, AtMostOnce, NoOrphan, TypeInv, TypeOK
  <2>6. InFlight(p)'
    BY <1>0, <1>17 DEF AwaitStatus, BackTo, InFlight, TypeInv, TypeOK
  <2>7. ASSUME NEW r \in Procs \ {p} PROVE InFlight(r)'
    <3>1. /\ pc'[r] = pc[r] /\ cur'[r] = cur[r] /\ order'[r] = order[r] /\ ctx'[r] = ctx[r]
      BY <1>0, <1>17, <2>7 DEF AwaitStatus, BackTo, TypeInv, TypeOK
    <3>2. CASE cur[r] # i
      <4>1. cur[r] \in Intents => rows'[cur[r]] = rows[cur[r]]
        BY <1>0, <2>1, <3>2 DEF TypeInv, TypeOK
      <4>2. pc[r] \in HasOrder => cur[r] \in Intents
        BY <1>0, <2>7, InHandTypes
      <4> QED BY <1>0, <2>4, <2>7, <3>1, <4>1, <4>2 DEF InFlight, HasOrder, WasTransmitted
    <3>3. CASE cur[r] = i
      <4>1. pc[r] \notin {"built", "approved", "pending", "answered"}
        BY <1>0, <2>2, <2>7, <3>3 DEF InFlight, WasTransmitted
      <4> QED BY <2>1, <2>2, <3>1, <3>3, <4>1 DEF InFlight
    <3> QED BY <3>2, <3>3
  <2> QED BY <1>0, <2>5, <2>6, <2>7 DEF SafeInv
<1>18. CASE UNCHANGED vars
  BY <1>0, <1>18 DEF vars
<1> QED
  BY <1>1, <1>2, <1>3, <1>4, <1>5, <1>6, <1>7, <1>8, <1>9, <1>10, <1>11, <1>12,
     <1>13, <1>14, <1>15, <1>16, <1>17, <1>18 DEF Next

\* Whatever crashes, restarts and replays happen, no intent reaches the broker twice.
THEOREM SentAtMostOnce == ASSUME OwnIntents PROVE Spec => []AtMostOnce
<1>1. SafeInv => AtMostOnce
  BY DEF SafeInv
<1> QED
  BY SafeInvInit, SafeInvNext, <1>1, PTL DEF Spec

\* Every order the broker was handed has a row reconciliation cannot overlook.
THEOREM NothingOrphaned == ASSUME OwnIntents PROVE Spec => []NoOrphan
<1>1. SafeInv => NoOrphan
  BY DEF SafeInv
<1> QED
  BY SafeInvInit, SafeInvNext, <1>1, PTL DEF Spec

-----------------------------------------------------------------------------
(* Action property: a row that may be at the broker stays so.              *)

LEMMA KeepsTransmittedNext ==
  ASSUME SafeInv, [Next]_vars
  PROVE  [KeepsTransmitted]_rows
<1>0. TypeInv /\ \A p \in Procs : InFlight(p)
  BY DEF SafeInv
<1>a. ASSUME NEW p \in Procs, Writes(p),
             /\ ReachedBroker(rows[cur[p]].status) => ReachedBroker(rows'[cur[p]].status)
             /\ rows[cur[p]].hasId => rows'[cur[p]].hasId
      PROVE  KeepsTransmitted
  BY <1>0, <1>a DEF KeepsTransmitted, Writes, TypeInv, TypeOK
<1>1. CASE UNCHANGED rows
  BY <1>1
<1>2. ASSUME NEW p \in Procs, InsertOrder(p) PROVE KeepsTransmitted
  BY <1>0, <1>2 DEF InsertOrder, KeepsTransmitted, Absent, ReachedBroker, TypeInv,
     TypeOK
<1>3. ASSUME NEW p \in Procs, Block(p) PROVE KeepsTransmitted
  BY <1>0, <1>3, <1>a, BlockWrites DEF Block, InFlight, WasTransmitted
<1>4. ASSUME NEW p \in Procs, MarkPending(p) PROVE KeepsTransmitted
  <2>1. ~ rows[cur[p]].hasId /\ ReachedBroker("PENDING_SUBMIT")
    BY <1>0, <1>4 DEF MarkPending, InFlight, WasTransmitted, ReachedBroker
  <2> QED BY <1>0, <1>4, <2>1, <1>a, MarkPendingWrites
<1>5. ASSUME NEW p \in Procs, RecordFailure(p) PROVE KeepsTransmitted
  <2>1. ~ rows[cur[p]].hasId /\ ReachedBroker("REJECTED") /\ ReachedBroker("ERROR")
    BY <1>0, <1>5 DEF RecordFailure, InFlight, ReachedBroker
  <2> QED BY <1>0, <1>5, <2>1, <1>a, RecordFailureWrites
<1>6. ASSUME NEW p \in Procs, RecordAccepted(p) PROVE KeepsTransmitted
  <2>1. \A s \in AckStatuses : ReachedBroker(s)
    BY DEF AckStatuses, ReachedBroker
  <2> QED BY <1>0, <1>6, <2>1, <1>a, RecordAcceptedWrites
<1>7. ASSUME NEW p \in Procs, AwaitStatus(p) PROVE KeepsTransmitted
  <2>1. \A s \in BrokerStatuses : ReachedBroker(s)
    BY DEF BrokerStatuses, OpenStatuses, ReachedBroker
  <2>2. PICK i \in Found(p) :
          /\ i \in Intents /\ rows' = [rows EXCEPT ![i] = rows'[i]]
          /\ rows'[i].hasId = rows[i].hasId
          /\ UNCHANGED rows \/ rows'[i].status \in BrokerStatuses
    BY <1>0, <1>7, AwaitStatusWrites
  <2>3. \A j \in Intents \ {i} : rows'[j] = rows[j]
    BY <1>0, <2>2 DEF TypeInv, TypeOK
  <2> QED BY <2>1, <2>2, <2>3 DEF KeepsTransmitted
<1> QED
  BY <1>1, <1>2, <1>3, <1>4, <1>5, <1>6, <1>7
     DEF Next, vars, Start, Stop, Accept, Reject, Drop, BuildContext, ReuseStoredOrder,
         SuppressDuplicate, RiskApprove, PlaceFails, PlaceOrder

\* No write ever makes an order that may be at the broker sendable again.
THEOREM NeverSendableAgain == ASSUME OwnIntents PROVE Spec => TransmittedIsForever
<1>1. SafeInv /\ [Next]_vars => [KeepsTransmitted]_rows
  BY KeepsTransmittedNext
<1> QED
  BY SafeInvInit, SafeInvNext, <1>1, PTL DEF Spec, TransmittedIsForever

-----------------------------------------------------------------------------
(* Refinement: every step of the pipeline is a step of TransmitOnce, or    *)
(* leaves what TransmitOnce sees unchanged.                                *)

LEMMA RefinesInit == Init => Once!Init
  BY DEF Init, Once!Init, fate, sent, WasTransmitted, ReachedBroker, Absent

\* A step that changes no row's transmitted flag, no process's call in progress and
\* nothing on the wire is a stutter.
LEMMA Stutter ==
  ASSUME \A i \in Intents : WasTransmitted(rows'[i]) <=> WasTransmitted(rows[i]),
         \A i \in Intents : Committed(i)' <=> Committed(i),
         UNCHANGED wire
  PROVE  UNCHANGED Once!vars
<1>1. fate' = fate
  BY DEF fate, WasTransmitted
<1>2. sent' = sent
  BY DEF sent
<1> QED BY <1>1, <1>2 DEF Once!vars

\* A step that moves the fate of one intent, and no other, as TransmitOnce says.
LEMMA Moves ==
  ASSUME NEW c \in Intents,
         \A i \in Intents \ {c} : /\ WasTransmitted(rows'[i]) <=> WasTransmitted(rows[i])
                                  /\ Committed(i)' <=> Committed(i)
                                  /\ wire'[i] = wire[i]
  PROVE  /\ fate' = [fate EXCEPT ![c] = fate'[c]]
         /\ sent' \ {c} = sent \ {c}
<1>1. \A i \in Intents \ {c} : fate'[i] = fate[i]
  BY DEF fate, WasTransmitted
<1>2. fate' \in [Intents -> {"open", "committed", "settled"}]
      /\ fate \in [Intents -> {"open", "committed", "settled"}]
  BY DEF fate
<1>3. fate' = [fate EXCEPT ![c] = fate'[c]]
  BY <1>1, <1>2
<1>4. sent' \ {c} = sent \ {c}
  BY DEF sent
<1> QED BY <1>3, <1>4

LEMMA RefinesNext ==
  ASSUME OwnIntents, SafeInv, SafeInv', [Next]_vars
  PROVE  [Once!Next]_(Once!vars)
<1>0. TypeInv /\ TypeOK /\ \A p \in Procs : InFlight(p)
  BY DEF SafeInv, TypeInv
\* A step of p that starts or ends no call leaves every call in progress alone.
<1>a. ASSUME NEW p \in Procs,
             \A q \in Procs \ {p} : pc'[q] = pc[q] /\ cur'[q] = cur[q],
             pc[p] # "pending", pc'[p] # "pending"
      PROVE  \A i \in Intents : Committed(i)' <=> Committed(i)
  BY <1>a DEF Committed
<1>b. ASSUME NEW p \in Procs, Writes(p), UNCHANGED wire,
             \A q \in Procs \ {p} : pc'[q] = pc[q] /\ cur'[q] = cur[q],
             pc[p] # "pending", pc'[p] # "pending",
             WasTransmitted(rows'[cur[p]]) <=> WasTransmitted(rows[cur[p]])
      PROVE  UNCHANGED Once!vars
  <2>1. \A i \in Intents : WasTransmitted(rows'[i]) <=> WasTransmitted(rows[i])
    BY <1>0, <1>b DEF Writes, TypeOK
  <2> QED BY <1>a, <1>b, <2>1, Stutter
<1>1. ASSUME NEW p \in Procs, InsertOrder(p) PROVE UNCHANGED Once!vars
  <2>1. cur[p] \in Intents
    BY <1>0, <1>1 DEF InsertOrder, TypeInv, InHand, Busy, Steps
  <2>2. \A i \in Intents : WasTransmitted(rows'[i]) <=> WasTransmitted(rows[i])
    BY <1>0, <1>1, <2>1 DEF InsertOrder, NewOrder, Absent, WasTransmitted,
       ReachedBroker, TypeOK
  <2>3. /\ UNCHANGED <<wire, cur>> /\ pc[p] = "sized"
        /\ pc' = [pc EXCEPT ![p] = "built"]
    BY <1>1 DEF InsertOrder
  <2>4. \A i \in Intents : Committed(i)' <=> Committed(i)
    BY <1>0, <1>a, <2>3 DEF TypeOK
  <2> QED BY <2>2, <2>3, <2>4, Stutter
<1>2. ASSUME NEW p \in Procs, Block(p) PROVE UNCHANGED Once!vars
  <2>1. /\ ~ WasTransmitted(rows[cur[p]]) /\ ~ WasTransmitted(rows'[cur[p]])
        /\ Writes(p) /\ UNCHANGED wire /\ BackTo(p, "idle") /\ pc[p] # "pending"
    BY <1>0, <1>2, BlockWrites DEF Block, InFlight, WasTransmitted, ReachedBroker
  <2> QED BY <1>0, <1>b, <2>1 DEF BackTo, TypeOK
<1>3. ASSUME NEW p \in Procs, RecordFailure(p) PROVE UNCHANGED Once!vars
  <2>1. /\ WasTransmitted(rows[cur[p]]) /\ WasTransmitted(rows'[cur[p]])
        /\ Writes(p) /\ UNCHANGED wire /\ BackTo(p, "idle") /\ pc[p] = "answered"
    BY <1>0, <1>3, RecordFailureWrites
       DEF RecordFailure, InFlight, WasTransmitted, ReachedBroker
  <2> QED BY <1>0, <1>b, <2>1 DEF BackTo, TypeOK
<1>4. ASSUME NEW p \in Procs, RecordAccepted(p) PROVE UNCHANGED Once!vars
  <2>1. /\ WasTransmitted(rows[cur[p]]) /\ WasTransmitted(rows'[cur[p]])
        /\ Writes(p) /\ UNCHANGED wire /\ pc[p] = "answered"
    BY <1>0, <1>4, RecordAcceptedWrites
       DEF RecordAccepted, InFlight, WasTransmitted, ReachedBroker
  <2>2. CASE pc' = [pc EXCEPT ![p] = "acked"] /\ UNCHANGED <<cur, order, ctx>>
    BY <1>0, <1>b, <2>1, <2>2 DEF TypeOK
  <2>3. CASE BackTo(p, "idle")
    BY <1>0, <1>b, <2>1, <2>3 DEF BackTo, TypeOK
  <2> QED BY <1>4, <2>2, <2>3 DEF RecordAccepted
<1>5. ASSUME NEW p \in Procs, AwaitStatus(p) PROVE UNCHANGED Once!vars
  <2>1. PICK i \in Found(p) :
          /\ i \in Intents /\ rows' = [rows EXCEPT ![i] = rows'[i]]
          /\ rows'[i].hasId = rows[i].hasId
    BY <1>0, <1>5, AwaitStatusWrites
  <2>2. rows[i].hasId
    BY <1>0, <1>5, <2>1 DEF Found, InFlight, AwaitStatus
  <2>3. \A j \in Intents : WasTransmitted(rows'[j]) <=> WasTransmitted(rows[j])
    BY <1>0, <2>1, <2>2 DEF WasTransmitted, TypeOK
  <2>4. UNCHANGED wire /\ BackTo(p, "idle") /\ pc[p] # "pending"
    BY <1>5 DEF AwaitStatus
  <2>5. \A j \in Intents : Committed(j)' <=> Committed(j)
    BY <1>0, <1>a, <2>4 DEF BackTo, TypeOK
  <2> QED BY <2>3, <2>4, <2>5, Stutter
<1>6. ASSUME NEW p \in Procs, MarkPending(p) PROVE Once!Next
  <2>1. /\ ~ WasTransmitted(rows[cur[p]]) /\ WasTransmitted(rows'[cur[p]])
        /\ Writes(p) /\ UNCHANGED <<wire, cur>>
        /\ pc[p] = "approved" /\ pc' = [pc EXCEPT ![p] = "pending"]
    BY <1>0, <1>6, MarkPendingWrites
       DEF MarkPending, InFlight, WasTransmitted, ReachedBroker
  <2>2. \A i \in Intents \ {cur[p]} : Committed(i)' <=> Committed(i)
    BY <1>0, <2>1 DEF Committed, TypeOK
  <2>3. \A i \in Intents \ {cur[p]} : rows'[i] = rows[i] /\ wire'[i] = wire[i]
    BY <1>0, <2>1 DEF Writes, TypeOK
  <2>4. cur[p] \in Intents /\ Committed(cur[p])'
    BY <1>0, <2>1 DEF Committed, TypeOK, Writes
  <2>5. fate[cur[p]] = "open" /\ fate'[cur[p]] = "committed"
    BY <2>1, <2>4 DEF fate
  <2>6. fate' = [fate EXCEPT ![cur[p]] = "committed"]
    BY <2>2, <2>3, <2>4, <2>5, Moves
  <2>7. UNCHANGED sent
    BY <2>1 DEF sent
  <2> QED BY <2>4, <2>5, <2>6, <2>7 DEF Once!Next, Once!Commit
\* The three ways a call in progress ends: the fate of its intent is settled.
<1>c. ASSUME NEW p \in Procs, pc[p] = "pending", UNCHANGED rows,
             \A q \in Procs \ {p} : pc'[q] = pc[q] /\ cur'[q] = cur[q],
             pc'[p] # "pending",
             \A i \in Intents \ {cur[p]} : wire'[i] = wire[i]
      PROVE  /\ cur[p] \in Intents
             /\ fate[cur[p]] = "committed"
             /\ fate' = [fate EXCEPT ![cur[p]] = "settled"]
             /\ sent' \ {cur[p]} = sent \ {cur[p]}
  <2>1. PICK c \in Intents : c = cur[p] /\ WasTransmitted(rows[c])
    BY <1>0, <1>c, InHandTypes DEF InFlight, WasTransmitted, ReachedBroker, HasOrder
  <2>2. Committed(c)
    BY <1>c, <2>1 DEF Committed
  <2>3. ~ Committed(c)'
    <3>1. \A q \in Procs \ {p} : pc[q] = "pending" => cur[q] # c
      BY <1>0, <1>c, <2>1, Private DEF Busy, Steps
    <3> QED BY <1>c, <3>1 DEF Committed
  <2>4. \A i \in Intents \ {c} : Committed(i)' <=> Committed(i)
    BY <1>c, <2>1 DEF Committed
  <2>5. fate[c] = "committed" /\ fate'[c] = "settled"
    BY <1>c, <2>1, <2>2, <2>3 DEF fate
  <2> QED BY <1>c, <2>1, <2>4, <2>5, Moves
<1>7. ASSUME NEW p \in Procs, PlaceFails(p) PROVE Once!Next
  <2>1. /\ pc[p] = "pending" /\ pc' = [pc EXCEPT ![p] = "answered"]
        /\ UNCHANGED <<rows, wire, cur>>
    BY <1>7 DEF PlaceFails
  <2>2. UNCHANGED sent
    BY <2>1 DEF sent
  <2> QED BY <1>0, <1>c, <2>1, <2>2 DEF Once!Next, Once!Abandon, TypeOK
<1>8. ASSUME NEW p \in Procs, PlaceOrder(p) PROVE Once!Next
  <2>1. /\ pc[p] = "pending" /\ pc' = [pc EXCEPT ![p] = "answered"]
        /\ UNCHANGED <<rows, cur>> /\ cur[p] \in Intents
        /\ wire' = [wire EXCEPT ![cur[p]] = [n |-> @.n + 1, qty |-> order[p].qty]]
    BY <1>0, <1>8, InHandTypes DEF PlaceOrder, HasOrder
  <2>2. cur[p] \in sent'
    BY <1>0, <2>1 DEF sent, TypeOK, InFlight
  <2>3. /\ cur[p] \in Intents /\ fate[cur[p]] = "committed"
        /\ fate' = [fate EXCEPT ![cur[p]] = "settled"]
        /\ sent' \ {cur[p]} = sent \ {cur[p]}
    BY <1>0, <1>c, <2>1 DEF TypeOK
  <2>4. sent' = sent \cup {cur[p]}
    BY <2>2, <2>3
  <2> QED BY <2>3, <2>4 DEF Once!Next, Once!Deliver
<1>9. ASSUME NEW p \in Procs, Stop(p) PROVE [Once!Next]_(Once!vars)
  <2>1. BackTo(p, "down") /\ UNCHANGED <<rows, wire>>
    BY <1>9 DEF Stop
  <2>2. CASE pc[p] = "pending"
    <3>1. UNCHANGED sent
      BY <2>1 DEF sent
    <3> QED
      BY <1>0, <1>c, <2>1, <2>2, <3>1 DEF BackTo, Once!Next, Once!Abandon, TypeOK
  <2>3. CASE pc[p] # "pending"
    <3>1. \A i \in Intents : Committed(i)' <=> Committed(i)
      BY <1>0, <1>a, <2>1, <2>3 DEF BackTo, TypeOK
    <3> QED BY <2>1, <3>1, Stutter
  <2> QED BY <2>2, <2>3
<1>10. ASSUME NEW p \in Procs,
              \/ Start(p) \/ \E i \in Intents : Accept(p, i) \/ Reject(p, i)
              \/ Drop(p) \/ BuildContext(p) \/ ReuseStoredOrder(p)
              \/ SuppressDuplicate(p) \/ RiskApprove(p)
       PROVE  UNCHANGED Once!vars
  <2>1. /\ \A q \in Procs \ {p} : pc'[q] = pc[q] /\ cur'[q] = cur[q]
        /\ pc[p] # "pending" /\ pc'[p] # "pending"
        /\ UNCHANGED <<rows, wire>>
    BY <1>0, <1>10 DEF Start, Accept, Reject, Offered, Drop, BuildContext,
       ReuseStoredOrder, SuppressDuplicate, RiskApprove, BackTo, TypeOK
  <2> QED BY <1>a, <2>1, Stutter
<1>11. CASE UNCHANGED vars
  <2>1. \A i \in Intents : Committed(i)' <=> Committed(i)
    BY <1>11 DEF vars, Committed
  <2> QED BY <1>11, <2>1, Stutter DEF vars
<1> QED
  <2>1. CASE Next
    <3>1. PICK p \in Procs :
            \/ Start(p) \/ Stop(p)
            \/ \E i \in Intents : Accept(p, i) \/ Reject(p, i)
            \/ Drop(p) \/ BuildContext(p)
            \/ InsertOrder(p) \/ ReuseStoredOrder(p) \/ SuppressDuplicate(p)
            \/ RiskApprove(p) \/ Block(p) \/ MarkPending(p)
            \/ PlaceFails(p) \/ PlaceOrder(p)
            \/ RecordFailure(p) \/ RecordAccepted(p) \/ AwaitStatus(p)
      BY <2>1 DEF Next
    <3> QED
      BY <3>1, <1>1, <1>2, <1>3, <1>4, <1>5, <1>6, <1>7, <1>8, <1>9, <1>10
  <2> QED BY <2>1, <1>11

\* The pipeline implements TransmitOnce.
THEOREM ImplementsTransmitOnce == ASSUME OwnIntents PROVE Spec => TransmitOnceSpec
<1>1. SafeInv /\ SafeInv' /\ [Next]_vars => [Once!Next]_(Once!vars)
  BY RefinesNext
<1> QED
  BY SafeInvInit, SafeInvNext, RefinesInit, <1>1, PTL
     DEF Spec, TransmitOnceSpec, Once!Spec

=============================================================================
