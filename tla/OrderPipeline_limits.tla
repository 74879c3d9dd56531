------------------------- MODULE OrderPipeline_limits -------------------------
(***************************************************************************)
(* What holds of the order pipeline when one process runs it: the limit on *)
(* open orders, and that orders have the approved size.  The count and the *)
(* size are taken steps before the order is sent.                          *)
(***************************************************************************)
EXTENDS OrderPipeline_proofs

USE PipelineAssumption

\* Nobody else writes to the database.
OneProcess == \A p, q \in Procs : p = q

LEMMA OneProcessOwns == ASSUME OneProcess PROVE OwnIntents
  BY DEF OneProcess, OwnIntents

OpenIntents == {i \in Intents : rows[i].status \in OpenStatuses}
StampedIntents == {i \in Intents : rows[i].stamped}

LEMMA OneMore ==
  ASSUME NEW S, NEW x, IsFiniteSet(S)
  PROVE  IsFiniteSet(S \cup {x}) /\ Cardinality(S \cup {x}) <= Cardinality(S) + 1
<1>1. Cardinality(S) \in Nat
  BY FS_CardinalityType
<1>2. /\ IsFiniteSet(S \cup {x})
      /\ Cardinality(S \cup {x}) = IF x \in S THEN Cardinality(S) ELSE Cardinality(S) + 1
  BY FS_AddElement
<1> QED BY <1>1, <1>2

LEMMA LimitsAreNat ==
  MaxOpenOrders \in Nat /\ MaxHourlyOrders \in Nat /\ SeedLimit \in Nat
  OBVIOUS

\* What the counts do when one row is written.
LEMMA Counting ==
  ASSUME NEW c \in Intents, \A j \in Intents \ {c} : rows'[j] = rows[j]
  PROVE  /\ (OpenIntents \ {c})' = OpenIntents \ {c}
         /\ Cardinality(OpenIntents \ {c}) \in Nat
         /\ Cardinality(OpenIntents \ {c}) <= OpenOrderCount
         /\ OpenOrderCount' <= Cardinality(OpenIntents \ {c}) + 1
         /\ rows'[c].status \notin OpenStatuses =>
              OpenOrderCount' = Cardinality(OpenIntents \ {c})
         /\ rows[c].status \notin OpenStatuses =>
              OpenOrderCount = Cardinality(OpenIntents \ {c})
         /\ rows'[c].stamped = rows[c].stamped => OrdersLastHour' = OrdersLastHour
         /\ OrdersLastHour' <= OrdersLastHour + 1
<1> DEFINE U == OpenIntents  T == StampedIntents  R == OpenIntents \ {c}
<1>1. /\ IsFiniteSet(U) /\ IsFiniteSet(U') /\ IsFiniteSet(T) /\ IsFiniteSet(T') /\ IsFiniteSet(R)
  BY FS_Subset DEF OpenIntents, StampedIntents
<1>2. R' = R
  BY DEF OpenIntents
<1>3. /\ OpenOrderCount = Cardinality(U) /\ OpenOrderCount' = Cardinality(U')
      /\ OrdersLastHour = Cardinality(T) /\ OrdersLastHour' = Cardinality(T')
  BY DEF OpenOrderCount, OrdersLastHour, OpenIntents, StampedIntents
<1>4. Cardinality(R) \in Nat /\ Cardinality(R) <= Cardinality(U)
  BY <1>1, FS_CardinalityType, FS_Subset
<1>5. Cardinality(U') <= Cardinality(R) + 1
  <2>1. Cardinality(R \cup {c}) <= Cardinality(R) + 1 /\ IsFiniteSet(R \cup {c})
    BY <1>1, OneMore
  <2>2. U' \subseteq R \cup {c}
    BY <1>2
  <2>3. Cardinality(U') <= Cardinality(R \cup {c})
    BY <2>1, <2>2, FS_Subset
  <2> QED BY <1>1, <1>4, <2>1, <2>3, FS_CardinalityType
<1>6. /\ rows'[c].status \notin OpenStatuses => U' = R
      /\ rows[c].status \notin OpenStatuses => U = R
  BY <1>2 DEF OpenIntents
<1>7. rows'[c].stamped = rows[c].stamped => T' = T
  BY DEF StampedIntents
<1>8. Cardinality(T') <= Cardinality(T) + 1
  <2>1. Cardinality(T \cup {c}) <= Cardinality(T) + 1 /\ IsFiniteSet(T \cup {c})
    BY <1>1, OneMore
  <2>2. T' \subseteq T \cup {c}
    BY DEF StampedIntents
  <2>3. Cardinality(T') <= Cardinality(T \cup {c})
    BY <2>1, <2>2, FS_Subset
  <2> QED BY <1>1, <2>1, <2>3, FS_CardinalityType
<1> QED BY <1>2, <1>3, <1>4, <1>5, <1>6, <1>7, <1>8

\* With one process a row that is found by broker order id is the right one.
LEMMA FindsOwnRow ==
  ASSUME OneProcess, TypeInv, NEW p \in Procs, AwaitStatus(p)
  PROVE  /\ Writes(p)
         /\ rows'[cur[p]].hasId = rows[cur[p]].hasId
         /\ UNCHANGED rows \/ rows'[cur[p]].status \in BrokerStatuses
<1>1. Found(p) = {cur[p]}
  BY DEF OneProcess, Found, AwaitStatus
<1>2. cur[p] \in Intents /\ order[p] \in Row /\ rows[cur[p]] \in Row
  BY InHandTypes DEF AwaitStatus, HasOrder
<1> QED BY <1>1, <1>2, AwaitStatusWrites DEF Writes

-----------------------------------------------------------------------------
(* The limits.                                                              *)

\* The count p decides by is the table's, up to the approval; without the order in hand
\* there is room for one.
Counted(p) ==
  /\ pc[p] \in {"sized", "built", "approved"} =>
       ctx[p].open = OpenOrderCount
  /\ pc[p] = "approved" => ctx[p].open < MaxOpenOrders
  /\ pc[p] \in {"pending", "answered", "acked"} =>
       Cardinality(OpenIntents \ {cur[p]}) < MaxOpenOrders

Recorded == \A i \in Intents : rows[i].hasId => ReachedBroker(rows[i].status)

CountInv ==
  /\ SafeInv /\ Recorded
  /\ OpenOrderCount <= MaxOpenOrders
  /\ \A p \in Procs : Counted(p)

LEMMA CountInvInit == Init => CountInv
<1> SUFFICES ASSUME Init PROVE CountInv
  OBVIOUS
<1>1. SafeInv
  BY SafeInvInit
<1>2. {i \in Intents : rows[i].status \in OpenStatuses} = {}
  BY DEF Init, Absent, OpenStatuses
<1>4. OpenOrderCount <= MaxOpenOrders
  <2>1. OpenOrderCount = 0
    BY <1>2, FS_EmptySet, Zenon DEF OpenOrderCount
  <2> QED BY <2>1, LimitsAreNat
<1> QED BY <1>1, <1>4 DEF Init, CountInv, Recorded, Counted, Absent

\* What is known while an order is in hand.
LEMMA OrderInHand ==
  ASSUME CountInv, NEW p \in Procs, pc[p] \in HasOrder
  PROVE  /\ cur[p] \in Intents /\ rows[cur[p]] \in Row
         /\ pc[p] # "acked" => order[p].hasId = FALSE
         /\ pc[p] \in {"built", "approved"} => wire[cur[p]].n = 0
         /\ Counted(p) /\ InFlight(p)
<1>1. TypeInv /\ InFlight(p) /\ Counted(p)
  BY DEF CountInv, SafeInv
<1>2. cur[p] \in Intents /\ order[p] \in Row /\ rows[cur[p]] \in Row
  BY <1>1, InHandTypes
<1>3. pc[p] # "acked" => pc[p] \in {"built", "approved", "pending", "answered"}
  BY DEF HasOrder
<1>4. pc[p] # "acked" => order[p].hasId = FALSE
  BY <1>1, <1>2, <1>3 DEF InFlight, Row
<1>5. pc[p] \in {"built", "approved"} => wire[cur[p]].n = 0
  <2> SUFFICES ASSUME pc[p] \in {"built", "approved"} PROVE wire[cur[p]].n = 0
    OBVIOUS
  <2>1. ~ rows[cur[p]].hasId /\ rows[cur[p]].status # "PENDING_SUBMIT"
    BY <1>1 DEF InFlight, WasTransmitted, ReachedBroker
  <2>2. ~ (wire[cur[p]].n > 0) /\ wire[cur[p]].n \in Nat
    BY <1>1, <1>2, <2>1 DEF CountInv, SafeInv, NoOrphan, TypeInv, TypeOK
  <2> QED BY <2>2
<1> QED BY <1>1, <1>2, <1>3, <1>4, <1>5 DEF Counted

\* The only process has taken a step that leaves the table alone.
LEMMA CountsNothing ==
  ASSUME OneProcess, CountInv, SafeInv', NEW p \in Procs,
         UNCHANGED rows, Counted(p)'
  PROVE  CountInv'
<1>1. UNCHANGED OpenOrderCount
  BY DEF OpenOrderCount
<1>2. Recorded'
  BY DEF CountInv, Recorded
<1>3. \A q \in Procs : q = p
  BY DEF OneProcess
<1> QED BY <1>1, <1>2, <1>3 DEF CountInv

\* It has written the row of the intent in hand.
LEMMA CountsOne ==
  ASSUME OneProcess, CountInv, SafeInv', NEW p \in Procs, NEW c \in Intents,
         \A j \in Intents \ {c} : rows'[j] = rows[j],
         rows'[c].hasId => ReachedBroker(rows'[c].status),
         Counted(p)', OpenOrderCount' <= MaxOpenOrders
  PROVE  CountInv'
<1>1. Recorded'
  BY DEF CountInv, Recorded
<1>2. \A q \in Procs : q = p
  BY DEF OneProcess
<1> QED BY <1>1, <1>2 DEF CountInv

LEMMA CountInvNext ==
  ASSUME OneProcess
  PROVE  CountInv /\ [Next]_vars => CountInv'
<1> SUFFICES ASSUME CountInv, [Next]_vars PROVE CountInv'
  OBVIOUS
<1>1. /\ SafeInv /\ SafeInv' /\ TypeInv /\ TypeInv' /\ Recorded
      /\ OpenOrderCount \in Nat /\ OpenOrderCount' \in Nat
  <2>1. SafeInv /\ SafeInv' /\ TypeInv /\ TypeInv' /\ Recorded
    BY OneProcessOwns, SafeInvNext DEF CountInv, SafeInv
  <2>2. OpenOrderCount' \in Nat
    <3>1. \A S \in SUBSET Intents : Cardinality(S) \in Nat
      BY FS_Subset, FS_CardinalityType
    <3> QED BY <3>1 DEF OpenOrderCount
  <2> QED BY <2>1, <2>2, CountsAreNat
<1>2. ASSUME NEW p \in Procs, UNCHANGED <<rows, wire>>, pc'[p] \in {"down", "idle", "validated"}
      PROVE  CountInv'
  <2>1. Counted(p)'
    BY <1>2 DEF Counted
  <2> QED BY <1>1, <1>2, <2>1, CountsNothing
<1>3. ASSUME NEW p \in Procs,
             \/ Start(p) \/ Stop(p) \/ Drop(p) \/ SuppressDuplicate(p)
             \/ \E i \in Intents : Accept(p, i) \/ Reject(p, i)
      PROVE  CountInv'
  <2>1. UNCHANGED <<rows, wire>> /\ pc'[p] \in {"down", "idle", "validated"}
    BY <1>1, <1>3 DEF Start, Stop, Drop, SuppressDuplicate, Accept, Reject, Offered, BackTo,
                      TypeInv, TypeOK
  <2> QED BY <1>2, <2>1
<1>4. ASSUME NEW p \in Procs, BuildContext(p) PROVE CountInv'
  <2>1. UNCHANGED <<rows, wire>> /\ pc'[p] = "sized"
    BY <1>1, <1>4 DEF BuildContext, TypeInv, TypeOK
  <2>2. ctx'[p].open = OpenOrderCount
    BY <1>1, <1>4 DEF BuildContext, TypeInv, TypeOK
  <2>3. OpenOrderCount' = OpenOrderCount
    BY <2>1 DEF OpenOrderCount
  <2>4. Counted(p)'
    BY <2>1, <2>2, <2>3 DEF Counted
  <2> QED BY <1>1, <2>1, <2>4, CountsNothing
<1>5. ASSUME NEW p \in Procs, ReuseStoredOrder(p) PROVE CountInv'
  <2>1. /\ UNCHANGED <<rows, wire, cur, ctx>> /\ pc[p] = "sized" /\ pc'[p] = "built"
        /\ order'[p] = rows[cur[p]]
    BY <1>1, <1>5 DEF ReuseStoredOrder, TypeInv, TypeOK
  <2>2. OpenOrderCount' = OpenOrderCount
    BY <2>1 DEF OpenOrderCount
  <2>3. Counted(p)'
    BY <2>1, <2>2 DEF CountInv, Counted
  <2> QED BY <1>1, <2>1, <2>3, CountsNothing
<1>6. ASSUME NEW p \in Procs, RiskApprove(p) PROVE CountInv'
  <2>1. /\ UNCHANGED <<rows, wire, cur, ctx, order>> /\ pc[p] = "built" /\ pc'[p] = "approved"
        /\ ctx[p].open < MaxOpenOrders
    BY <1>1, <1>6 DEF RiskApprove, TypeInv, TypeOK
  <2>2. OpenOrderCount' = OpenOrderCount
    BY <2>1 DEF OpenOrderCount
  <2>3. Counted(p)'
    BY <2>1, <2>2 DEF CountInv, Counted
  <2> QED BY <1>1, <2>1, <2>3, CountsNothing
<1>7. ASSUME NEW p \in Procs, PlaceFails(p) PROVE CountInv'
  <2>1. /\ UNCHANGED <<rows, wire, cur, order>> /\ pc[p] = "pending" /\ pc'[p] = "answered"
    BY <1>1, <1>7 DEF PlaceFails, TypeInv, TypeOK
  <2>2. UNCHANGED OpenIntents
    BY <2>1 DEF OpenIntents
  <2>3. Counted(p)'
    BY <2>1, <2>2 DEF CountInv, Counted
  <2> QED BY <1>1, <2>1, <2>3, CountsNothing
<1>8. ASSUME NEW p \in Procs, PlaceOrder(p) PROVE CountInv'
  <2>1. UNCHANGED <<rows, cur, order>> /\ pc[p] = "pending" /\ pc'[p] = "answered"
    BY <1>1, <1>8 DEF PlaceOrder, TypeInv, TypeOK
  <2>2. UNCHANGED OpenIntents
    BY <2>1 DEF OpenIntents
  <2>3. Counted(p)'
    BY <2>1, <2>2 DEF CountInv, Counted
  <2> QED BY <1>1, <2>1, <2>3, CountsNothing
<1>9. ASSUME NEW p \in Procs, InsertOrder(p) PROVE CountInv'
  <2>1. /\ UNCHANGED <<wire, cur, ctx>> /\ pc[p] = "sized" /\ pc'[p] = "built"
        /\ rows[cur[p]] = Absent /\ order'[p] = NewOrder(ctx[p].qty)
        /\ rows' = [rows EXCEPT ![cur[p]] = NewOrder(ctx[p].qty)]
    BY <1>1, <1>9 DEF InsertOrder, TypeInv, TypeOK
  <2>2. PICK c \in Intents : c = cur[p]
    BY <1>1, <2>1 DEF TypeInv, InHand, Busy, Steps
  <2>3. rows'[c] = NewOrder(ctx[p].qty) /\ \A j \in Intents \ {c} : rows'[j] = rows[j]
    BY <1>1, <2>1, <2>2 DEF TypeInv, TypeOK
  <2>4. /\ NewOrder(ctx[p].qty).status \notin OpenStatuses /\ Absent.status \notin OpenStatuses
        /\ ~ NewOrder(ctx[p].qty).hasId
    BY DEF NewOrder, Absent, OpenStatuses
  <2>5. OpenOrderCount' = OpenOrderCount
    <3>1. rows[c].status \notin OpenStatuses /\ rows'[c].status \notin OpenStatuses
      BY <2>1, <2>2, <2>3, <2>4
    <3>3. \A j \in Intents \ {c} : rows'[j] = rows[j]
      BY <2>3
    <3>4. /\ OpenOrderCount' = Cardinality(OpenIntents \ {c})
          /\ OpenOrderCount = Cardinality(OpenIntents \ {c})
      BY <3>1, <3>3, Counting
    <3> QED BY <3>4
  <2>6. Counted(p)'
    BY <2>1, <2>2, <2>3, <2>5 DEF CountInv, Counted
  <2>7. OpenOrderCount' <= MaxOpenOrders
    BY <2>5 DEF CountInv
  <2> QED BY <1>1, <2>1, <2>3, <2>4, <2>6, <2>7, CountsOne
\* A write ends the handling of the intent: what is in memory is forgotten.
<1>10. ASSUME NEW p \in Procs, NEW c \in Intents, c = cur[p],
              pc'[p] = "idle", Writes(p), UNCHANGED wire,
              rows'[c].hasId => ReachedBroker(rows'[c].status),
              \/ rows'[c].status \notin OpenStatuses
              \/ Cardinality(OpenIntents \ {c}) < MaxOpenOrders
       PROVE  CountInv'
  <2>1. \A j \in Intents \ {c} : rows'[j] = rows[j]
    BY <1>1, <1>10 DEF Writes, TypeInv, TypeOK
  <2>2. /\ Cardinality(OpenIntents \ {c}) \in Nat
        /\ Cardinality(OpenIntents \ {c}) <= OpenOrderCount
        /\ OpenOrderCount' <= Cardinality(OpenIntents \ {c}) + 1
        /\ rows'[c].status \notin OpenStatuses =>
             OpenOrderCount' = Cardinality(OpenIntents \ {c})
    BY <1>10, <2>1, Counting
  <2>3. OpenOrderCount' <= MaxOpenOrders
    BY <1>1, <1>10, <2>2, LimitsAreNat DEF CountInv
  <2>5. Counted(p)'
    BY <1>10 DEF Counted
  <2> QED BY <1>1, <1>10, <2>1, <2>3, <2>5, CountsOne
<1>11. ASSUME NEW p \in Procs, Block(p) PROVE CountInv'
  <2>1. pc[p] \in HasOrder /\ pc[p] # "acked" /\ pc'[p] = "idle" /\ UNCHANGED wire
    BY <1>1, <1>11 DEF Block, BackTo, HasOrder, TypeInv, TypeOK
  <2>2. cur[p] \in Intents /\ order[p].hasId = FALSE
    BY <2>1, OrderInHand
  <2>3. /\ Writes(p) /\ rows'[cur[p]].status = "BLOCKED" /\ rows'[cur[p]].hasId = FALSE
    BY <1>1, <1>11, <2>2, BlockWrites
  <2>4. "BLOCKED" \notin OpenStatuses
    BY DEF OpenStatuses
  <2> QED BY <1>10, <2>1, <2>2, <2>3, <2>4
<1>12. ASSUME NEW p \in Procs, RecordFailure(p) PROVE CountInv'
  <2>1. pc[p] \in HasOrder /\ pc[p] # "acked" /\ pc'[p] = "idle" /\ UNCHANGED wire
    BY <1>1, <1>12 DEF RecordFailure, BackTo, HasOrder, TypeInv, TypeOK
  <2>2. cur[p] \in Intents /\ order[p].hasId = FALSE
    BY <2>1, OrderInHand
  <2>3. /\ Writes(p) /\ rows'[cur[p]].status \in {"REJECTED", "ERROR"}
        /\ rows'[cur[p]].hasId = FALSE
    BY <1>1, <1>12, <2>2, RecordFailureWrites
  <2>4. rows'[cur[p]].status \notin OpenStatuses
    BY <2>3 DEF OpenStatuses
  <2> QED BY <1>10, <2>1, <2>2, <2>3, <2>4
<1>13. ASSUME NEW p \in Procs, AwaitStatus(p) PROVE CountInv'
  <2>1. pc[p] = "acked" /\ pc[p] \in HasOrder /\ pc'[p] = "idle" /\ UNCHANGED wire
    BY <1>1, <1>13 DEF AwaitStatus, BackTo, HasOrder, TypeInv, TypeOK
  <2>2. /\ cur[p] \in Intents /\ rows[cur[p]] \in Row
        /\ Cardinality(OpenIntents \ {cur[p]}) < MaxOpenOrders
    BY <2>1, OrderInHand DEF Counted
  <2>3. /\ Writes(p)
        /\ rows'[cur[p]].hasId = rows[cur[p]].hasId
        /\ UNCHANGED rows \/ rows'[cur[p]].status \in BrokerStatuses
    BY <1>1, <1>13, FindsOwnRow
  <2>4. rows'[cur[p]].hasId => ReachedBroker(rows'[cur[p]].status)
    BY <1>1, <2>2, <2>3 DEF Recorded, BrokerStatuses, OpenStatuses, ReachedBroker
  <2> QED BY <1>10, <2>1, <2>2, <2>3, <2>4
<1>14. ASSUME NEW p \in Procs, MarkPending(p) PROVE CountInv'
  <2>1. /\ pc[p] = "approved" /\ pc[p] \in HasOrder /\ pc'[p] = "pending"
        /\ UNCHANGED <<wire, cur, ctx>>
    BY <1>1, <1>14 DEF MarkPending, HasOrder, TypeInv, TypeOK
  <2>2. PICK c \in Intents : c = cur[p]
    BY <2>1, OrderInHand
  <2>3. /\ order[p].hasId = FALSE /\ wire[c].n = 0 /\ ~ WasTransmitted(rows[c])
        /\ OpenOrderCount < MaxOpenOrders
    BY <2>1, <2>2, OrderInHand DEF Counted, InFlight
  <2>4. /\ Writes(p) /\ rows'[c].status = "PENDING_SUBMIT" /\ rows'[c].hasId = FALSE
    BY <1>1, <1>14, <2>2, <2>3, MarkPendingWrites
  <2>5. \A j \in Intents \ {c} : rows'[j] = rows[j]
    BY <1>1, <2>2, <2>4 DEF Writes, TypeInv, TypeOK
  <2>6. /\ (OpenIntents \ {c})' = OpenIntents \ {c}
        /\ Cardinality(OpenIntents \ {c}) \in Nat
        /\ Cardinality(OpenIntents \ {c}) <= OpenOrderCount
        /\ OpenOrderCount' <= Cardinality(OpenIntents \ {c}) + 1
    BY <2>5, Counting
  <2>7. /\ OpenOrderCount' <= MaxOpenOrders
        /\ Cardinality(OpenIntents \ {c}) < MaxOpenOrders
    BY <1>1, <2>3, <2>6, LimitsAreNat
  <2>9. Counted(p)'
    BY <2>1, <2>2, <2>4, <2>6, <2>7 DEF Counted
  <2> QED BY <1>1, <2>1, <2>4, <2>5, <2>7, <2>9, CountsOne
<1>15. ASSUME NEW p \in Procs, RecordAccepted(p) PROVE CountInv'
  <2>1. pc[p] = "answered" /\ pc[p] \in HasOrder /\ UNCHANGED wire
    BY <1>15 DEF RecordAccepted, HasOrder
  <2>2. PICK c \in Intents : c = cur[p]
    BY <2>1, OrderInHand
  <2>3. Cardinality(OpenIntents \ {c}) < MaxOpenOrders
    BY <2>1, <2>2, OrderInHand DEF Counted
  <2>4. /\ Writes(p) /\ rows'[c].status \in AckStatuses
    BY <1>1, <1>15, <2>2, RecordAcceptedWrites
  <2>5. ReachedBroker(rows'[c].status)
    BY <2>4 DEF AckStatuses, ReachedBroker
  <2>6. CASE pc'[p] = "idle"
    BY <1>10, <2>1, <2>2, <2>3, <2>4, <2>5, <2>6
  <2>7. CASE pc'[p] # "idle"
    <3>1. pc'[p] = "acked" /\ cur' = cur
      BY <1>1, <1>15, <2>7 DEF RecordAccepted, BackTo, TypeInv, TypeOK
    <3>2. \A j \in Intents \ {c} : rows'[j] = rows[j]
      BY <1>1, <2>2, <2>4 DEF Writes, TypeInv, TypeOK
    <3>3. /\ (OpenIntents \ {c})' = OpenIntents \ {c}
          /\ Cardinality(OpenIntents \ {c}) \in Nat
          /\ OpenOrderCount' <= Cardinality(OpenIntents \ {c}) + 1
      BY <2>4, <3>2, Counting
    <3>4. OpenOrderCount' <= MaxOpenOrders
      BY <1>1, <2>3, <3>3, LimitsAreNat DEF CountInv
    <3>5. Counted(p)'
      BY <2>2, <2>3, <3>1, <3>3 DEF Counted
    <3> QED BY <1>1, <2>1, <2>5, <3>2, <3>4, <3>5, CountsOne
  <2> QED BY <2>6, <2>7
<1>16. CASE UNCHANGED vars
  <2>1. UNCHANGED <<OpenOrderCount, OpenIntents>>
    BY <1>16 DEF vars, OpenOrderCount, OpenIntents
  <2> QED BY <1>1, <1>16, <2>1 DEF vars, CountInv, Recorded, Counted
<1> QED BY <1>3, <1>4, <1>5, <1>6, <1>7, <1>8, <1>9, <1>11, <1>12, <1>13, <1>14, <1>15, <1>16
        DEF Next

\* The orders at the broker that no row calls finished stay within the limit.
THEOREM OpenLimitHolds == ASSUME OneProcess PROVE Spec => []OpenLimit
<1>1. CountInv => OpenLimit
  <2> SUFFICES ASSUME CountInv PROVE OpenLimit
    OBVIOUS
  <2> DEFINE S == {i \in Intents :
                     /\ wire[i].n > 0
                     /\ rows[i].status \notin {"FILLED", "CANCELLED", "REJECTED", "ERROR"}}
  <2>1. ASSUME NEW i \in S PROVE rows[i].status \in OpenStatuses
    <3>1. ReachedBroker(rows[i].status)
      BY DEF CountInv, SafeInv, NoOrphan, Recorded, ReachedBroker
    <3>2. rows[i].status \in Statuses \cup {"ABSENT"}
      BY DEF CountInv, SafeInv, TypeInv, TypeOK, Row, Absent
    <3> QED BY <3>1, <3>2 DEF Statuses, ReachedBroker
  <2>2. S \subseteq OpenIntents /\ IsFiniteSet(OpenIntents)
    BY <2>1, FS_Subset DEF OpenIntents
  <2>3. /\ Cardinality(S) <= Cardinality(OpenIntents)
        /\ Cardinality(S) \in Nat /\ Cardinality(OpenIntents) \in Nat
    BY <2>2, FS_Subset, FS_CardinalityType
  <2>4. Cardinality(OpenIntents) <= MaxOpenOrders
    BY DEF CountInv, OpenIntents, OpenOrderCount
  <2> QED BY <2>3, <2>4, LimitsAreNat DEF OpenLimit
<1> QED BY CountInvInit, CountInvNext, <1>1, PTL DEF Spec

-----------------------------------------------------------------------------
(* The size, when the validator's memory covers every intent.               *)

RemembersAll == Cardinality(Intents) <= SeedLimit

\* What the validator must know, and the size on its way from context to wire.
Sized(p) ==
  /\ \A i \in Intents : pc[p] # "down" /\ rows[i] # Absent => i \in seen[p]
  /\ pc[p] \in Busy => cur[p] \in signals \cap seen[p]
  /\ pc[p] \in {"validated", "sized"} => rows[cur[p]] = Absent
  /\ pc[p] \in {"built", "approved", "pending"} => order[p].qty = ctx[p].qty
  /\ pc[p] \in {"approved", "pending"} => approvals[cur[p]] = ctx[p].qty

SizeInv ==
  /\ SafeInv
  /\ \A i \in Intents : rows[i] # Absent => i \in signals
  /\ \A p \in Procs : Sized(p)
  /\ SentAsApproved

LEMMA SizeInvInit == Init => SizeInv
  BY SafeInvInit DEF Init, SizeInv, Sized, SentAsApproved, Busy

\* With room for all of them a starting process reads every recorded intent back.
LEMMA ReadsAllBack ==
  ASSUME RemembersAll, TypeInv, NEW known \in SUBSET signals,
         known = signals \/ Cardinality(known) = SeedLimit,
         Cardinality(known) <= SeedLimit
  PROVE  known = signals
<1>1. known \subseteq Intents /\ signals \subseteq Intents /\ IsFiniteSet(Intents)
  BY DEF TypeInv, TypeOK
<1>2. CASE Cardinality(known) = SeedLimit
  <2>1. Cardinality(known) <= Cardinality(Intents) /\ Cardinality(Intents) \in Nat
    BY <1>1, FS_Subset, FS_CardinalityType
  <2>2. Cardinality(Intents) = Cardinality(known)
    BY <1>2, <2>1, LimitsAreNat DEF RemembersAll
  <2>3. Intents = known
    BY <1>1, <2>2, FS_Subset
  <2> QED BY <1>1, <2>3
<1> QED BY <1>2

\* The only process goes back to waiting, having written at most the row in hand.
LEMMA SizeForgets ==
  ASSUME OneProcess, SizeInv, SafeInv', NEW p \in Procs, pc[p] \in Busy, pc'[p] = "idle",
         UNCHANGED <<signals, approvals, seen, wire>>,
         \A j \in Intents \ {cur[p]} : rows'[j] = rows[j]
  PROVE  SizeInv'
<1>1. \A i \in Intents : rows'[i] # Absent => i \in signals /\ i \in seen[p]
  BY DEF SizeInv, Sized, Busy
<1>2. Sized(p)'
  BY <1>1 DEF Sized, Busy
<1>3. \A q \in Procs : q = p
  BY DEF OneProcess
<1>4. SentAsApproved'
  BY DEF SizeInv, SentAsApproved
<1> QED BY <1>1, <1>2, <1>3, <1>4 DEF SizeInv

LEMMA SizeInvNext ==
  ASSUME OneProcess, RemembersAll
  PROVE  SizeInv /\ [Next]_vars => SizeInv'
<1> SUFFICES ASSUME SizeInv, [Next]_vars PROVE SizeInv'
  OBVIOUS
<1>1. SafeInv /\ SafeInv' /\ TypeInv /\ TypeInv' /\ SentAsApproved
  BY OneProcessOwns, SafeInvNext DEF SizeInv, SafeInv
<1>2. \A p, q \in Procs : p = q
  BY DEF OneProcess
<1>3. ASSUME NEW p \in Procs, Start(p) PROVE SizeInv'
  <2>1. /\ UNCHANGED <<rows, signals, approvals, wire>> /\ pc'[p] = "idle"
        /\ \E known \in SUBSET signals :
             /\ known = signals \/ Cardinality(known) = SeedLimit
             /\ Cardinality(known) <= SeedLimit
             /\ seen'[p] = known
    BY <1>1, <1>3 DEF Start, TypeInv, TypeOK
  <2>2. seen'[p] = signals
    BY <1>1, <2>1, ReadsAllBack
  <2>3. Sized(p)'
    BY <2>1, <2>2 DEF SizeInv, Sized, Busy
  <2> QED BY <1>1, <1>2, <2>1, <2>3 DEF SizeInv, SentAsApproved
<1>4. ASSUME NEW p \in Procs, Stop(p) PROVE SizeInv'
  <2>1. UNCHANGED <<rows, signals, approvals, wire>> /\ pc'[p] = "down"
    BY <1>1, <1>4 DEF Stop, BackTo, TypeInv, TypeOK
  <2>2. Sized(p)'
    BY <2>1 DEF Sized, Busy
  <2> QED BY <1>1, <1>2, <2>1, <2>2 DEF SizeInv, SentAsApproved
<1>5. ASSUME NEW p \in Procs, NEW i \in Intents, Accept(p, i) PROVE SizeInv'
  <2>1. /\ UNCHANGED <<rows, approvals, order, ctx, wire>> /\ signals' = signals \cup {i}
        /\ pc[p] = "idle" /\ pc'[p] = "validated" /\ cur'[p] = i /\ i \notin seen[p]
        /\ seen'[p] = seen[p] \cup {i}
    BY <1>1, <1>5 DEF Accept, Offered, TypeInv, TypeOK
  <2>2. rows[i] = Absent
    BY <2>1 DEF SizeInv, Sized
  <2>3. Sized(p)'
    BY <2>1, <2>2 DEF SizeInv, Sized, Busy
  <2> QED BY <1>1, <1>2, <2>1, <2>3 DEF SizeInv, SentAsApproved
<1>6. ASSUME NEW p \in Procs, NEW i \in Intents, Reject(p, i) PROVE SizeInv'
  BY <1>1, <1>2, <1>6 DEF Reject, SizeInv, Sized, SentAsApproved
<1>7. ASSUME NEW p \in Procs, Drop(p) \/ SuppressDuplicate(p) PROVE SizeInv'
  <2>1. /\ UNCHANGED <<rows, signals, approvals, seen, wire>>
        /\ pc[p] \in Busy /\ pc'[p] = "idle"
    BY <1>1, <1>7 DEF Drop, SuppressDuplicate, BackTo, Busy, Steps, TypeInv, TypeOK
  <2> QED BY <1>1, <2>1, SizeForgets
<1>8. ASSUME NEW p \in Procs, BuildContext(p) PROVE SizeInv'
  <2>1. /\ UNCHANGED <<rows, signals, approvals, cur, order, seen, wire>>
        /\ pc[p] = "validated" /\ pc'[p] = "sized"
    BY <1>1, <1>8 DEF BuildContext, TypeInv, TypeOK
  <2>2. Sized(p)'
    BY <2>1 DEF SizeInv, Sized, Busy, Steps
  <2> QED BY <1>1, <1>2, <2>1, <2>2 DEF SizeInv, SentAsApproved
<1>9. ASSUME NEW p \in Procs, InsertOrder(p) PROVE SizeInv'
  <2>1. /\ UNCHANGED <<signals, approvals, cur, ctx, seen, wire>>
        /\ pc[p] = "sized" /\ pc'[p] = "built" /\ order'[p] = NewOrder(ctx[p].qty)
        /\ \A j \in Intents \ {cur[p]} : rows'[j] = rows[j]
    BY <1>1, <1>9 DEF InsertOrder, TypeInv, TypeOK
  <2>2. order'[p].qty = ctx[p].qty /\ cur[p] \in signals \cap seen[p]
    BY <2>1 DEF NewOrder, SizeInv, Sized, Busy, Steps
  <2>3. Sized(p)'
    BY <2>1, <2>2 DEF SizeInv, Sized, Busy, Steps
  <2>4. \A i \in Intents : rows'[i] # Absent => i \in signals
    BY <2>1, <2>2 DEF SizeInv
  <2> QED BY <1>1, <1>2, <2>1, <2>3, <2>4 DEF SizeInv, SentAsApproved
<1>10. ASSUME NEW p \in Procs, ReuseStoredOrder(p) PROVE SizeInv'
  BY <1>10 DEF ReuseStoredOrder, SizeInv, Sized
<1>11. ASSUME NEW p \in Procs, RiskApprove(p) PROVE SizeInv'
  <2>1. /\ UNCHANGED <<rows, signals, cur, order, ctx, seen, wire>>
        /\ pc[p] = "built" /\ pc'[p] = "approved" /\ pc[p] \in HasOrder
        /\ approvals' = [approvals EXCEPT ![cur[p]] = ctx[p].qty]
    BY <1>1, <1>11 DEF RiskApprove, HasOrder, TypeInv, TypeOK
  <2>2. cur[p] \in Intents
    BY <1>1, <2>1, InHandTypes
  <2>3. ~ (wire[cur[p]].n > 0)
    BY <1>1, <2>1, <2>2 DEF SafeInv, InFlight, NoOrphan, WasTransmitted, ReachedBroker
  <2>4. approvals'[cur[p]] = ctx[p].qty
        /\ \A j \in Intents \ {cur[p]} : approvals'[j] = approvals[j]
    BY <1>1, <2>1, <2>2 DEF TypeInv, TypeOK
  <2>5. Sized(p)'
    BY <2>1, <2>4 DEF SizeInv, Sized, Busy, Steps
  <2> QED BY <1>1, <1>2, <2>1, <2>3, <2>4, <2>5 DEF SizeInv, SentAsApproved
<1>12. ASSUME NEW p \in Procs, MarkPending(p) PROVE SizeInv'
  <2>1. /\ UNCHANGED <<signals, approvals, cur, ctx, seen, wire>>
        /\ pc[p] = "approved" /\ pc'[p] = "pending" /\ pc[p] \in HasOrder
        /\ order' = [order EXCEPT ![p] = MarkPendingSubmit(@)]
    BY <1>1, <1>12 DEF MarkPending, HasOrder, TypeInv, TypeOK
  <2>2. cur[p] \in Intents /\ order[p] \in Row
    BY <1>1, <2>1, InHandTypes
  <2>3. order'[p].qty = order[p].qty
    BY <1>1, <2>1, <2>2 DEF MarkPendingSubmit, Row, TypeInv, TypeOK
  <2>4. \A j \in Intents \ {cur[p]} : rows'[j] = rows[j]
    BY <1>1, <1>12, MarkPendingWrites DEF Writes, TypeInv, TypeOK
  <2>5. \A i \in Intents : rows'[i] # Absent => i \in signals /\ i \in seen[p]
    BY <2>1, <2>4 DEF SizeInv, Sized, Busy, Steps
  <2>6. Sized(p)'
    BY <2>1, <2>3, <2>5 DEF SizeInv, Sized, Busy, Steps
  <2> QED BY <1>1, <1>2, <2>1, <2>5, <2>6 DEF SizeInv, SentAsApproved
<1>13. ASSUME NEW p \in Procs, PlaceFails(p) PROVE SizeInv'
  <2>1. /\ UNCHANGED <<rows, signals, approvals, cur, seen, wire>>
        /\ pc[p] = "pending" /\ pc'[p] = "answered"
    BY <1>1, <1>13 DEF PlaceFails, TypeInv, TypeOK
  <2>2. Sized(p)'
    BY <2>1 DEF SizeInv, Sized, Busy, Steps
  <2> QED BY <1>1, <1>2, <2>1, <2>2 DEF SizeInv, SentAsApproved
<1>14. ASSUME NEW p \in Procs, PlaceOrder(p) PROVE SizeInv'
  <2>1. /\ UNCHANGED <<rows, signals, approvals, cur, seen>>
        /\ pc[p] = "pending" /\ pc'[p] = "answered" /\ pc[p] \in HasOrder
        /\ wire' = [wire EXCEPT ![cur[p]] = [n |-> @.n + 1, qty |-> order[p].qty]]
    BY <1>1, <1>14 DEF PlaceOrder, HasOrder, TypeInv, TypeOK
  <2>2. cur[p] \in Intents
    BY <1>1, <2>1, InHandTypes
  <2>3. /\ wire'[cur[p]].qty = order[p].qty
        /\ \A j \in Intents \ {cur[p]} : wire'[j] = wire[j]
    BY <1>1, <2>1, <2>2 DEF TypeInv, TypeOK
  <2>4. order[p].qty = approvals[cur[p]]
    BY <2>1 DEF SizeInv, Sized
  <2>5. SentAsApproved'
    BY <1>1, <2>1, <2>3, <2>4 DEF SentAsApproved
  <2>6. Sized(p)'
    BY <2>1 DEF SizeInv, Sized, Busy, Steps
  <2> QED BY <1>1, <1>2, <2>1, <2>5, <2>6 DEF SizeInv
<1>15. ASSUME NEW p \in Procs, Block(p) \/ RecordFailure(p) \/ AwaitStatus(p) PROVE SizeInv'
  <2>1. /\ UNCHANGED <<signals, approvals, seen, wire>> /\ Writes(p)
        /\ pc[p] \in Busy /\ pc'[p] = "idle"
    BY <1>1, <1>15, BlockWrites, RecordFailureWrites, FindsOwnRow
       DEF Block, RecordFailure, AwaitStatus, BackTo, Busy, Steps, TypeInv, TypeOK
  <2>2. \A j \in Intents \ {cur[p]} : rows'[j] = rows[j]
    BY <1>1, <2>1 DEF Writes, TypeInv, TypeOK
  <2> QED BY <1>1, <2>1, <2>2, SizeForgets
<1>16. ASSUME NEW p \in Procs, RecordAccepted(p) PROVE SizeInv'
  <2>1. /\ UNCHANGED <<signals, approvals, seen, wire>> /\ Writes(p) /\ pc[p] = "answered"
        /\ pc[p] \in Busy
    BY <1>1, <1>16, RecordAcceptedWrites DEF RecordAccepted, Busy, Steps
  <2>2. \A j \in Intents \ {cur[p]} : rows'[j] = rows[j]
    BY <1>1, <2>1 DEF Writes, TypeInv, TypeOK
  <2>3. CASE pc'[p] = "idle"
    BY <1>1, <2>1, <2>2, <2>3, SizeForgets
  <2>4. CASE pc'[p] # "idle"
    <3>1. pc'[p] = "acked" /\ cur' = cur
      BY <1>1, <1>16, <2>4 DEF RecordAccepted, BackTo, TypeInv, TypeOK
    <3>2. \A i \in Intents : rows'[i] # Absent => i \in signals /\ i \in seen[p]
      BY <2>1, <2>2 DEF SizeInv, Sized
    <3>3. Sized(p)'
      BY <2>1, <3>1, <3>2 DEF SizeInv, Sized, Busy
    <3> QED BY <1>1, <1>2, <2>1, <3>2, <3>3 DEF SizeInv, SentAsApproved
  <2> QED BY <2>3, <2>4
<1>17. CASE UNCHANGED vars
  BY <1>1, <1>17 DEF vars, SizeInv, Sized, SentAsApproved
<1> QED BY <1>3, <1>4, <1>5, <1>6, <1>7, <1>8, <1>9, <1>10, <1>11, <1>12, <1>13, <1>14, <1>15,
           <1>16, <1>17 DEF Next

\* What is sent has the size that was approved, so long as the validator remembers every
\* intent and a stored order is never taken up again.
THEOREM SizeIsApproved ==
  ASSUME OneProcess, RemembersAll
  PROVE  Spec => []SentAsApproved
<1>1. SizeInv => SentAsApproved
  BY DEF SizeInv
<1> QED BY SizeInvInit, SizeInvNext, <1>1, PTL DEF Spec

=============================================================================
