-------------------------- MODULE OrderPipeline_hours --------------------------
(***************************************************************************)
(* The hourly limit with any number of processes on one database.  Nothing *)
(* locks the table between a count and the send that rests on it, so every *)
(* process may hold a count that is out of date; this bounds the damage.   *)
(***************************************************************************)
EXTENDS OrderPipeline_limits

USE PipelineAssumption, ProcessAssumption

\* The processes that have counted, found room, and not yet sent.
Permits ==
  {p \in Procs : pc[p] \in {"sized", "built", "approved"} /\ ctx[p].hour < MaxHourlyOrders}

\* The order in hand has the stamp of its row, and has one when it is sent.
Stamped(p) ==
  /\ pc[p] \in {"built", "approved", "pending", "answered"} =>
       order[p].stamped = rows[cur[p]].stamped
  /\ pc[p] = "pending" => rows[cur[p]].stamped
  /\ pc[p] = "approved" => ctx[p].hour < MaxHourlyOrders

\* A permit is given while the count is below the limit and turned into one more stamp,
\* so stamps and permits together stay below the limit and the number of processes.
HourInv ==
  /\ SafeInv
  /\ \A i \in Intents : wire[i].n > 0 => rows[i].stamped
  /\ \A p \in Procs : Stamped(p)
  /\ OrdersLastHour + Cardinality(Permits) < MaxHourlyOrders + Cardinality(Procs)

LEMMA PermitsAreFew ==
  /\ IsFiniteSet(Permits) /\ Cardinality(Permits) \in Nat
  /\ Cardinality(Permits) <= Cardinality(Procs) /\ Cardinality(Procs) \in Nat
  /\ OrdersLastHour \in Nat
<1>1. IsFiniteSet(Procs) /\ Permits \subseteq Procs
  BY DEF Permits
<1> QED BY <1>1, FS_Subset, FS_CardinalityType, CountsAreNat

LEMMA HourInvInit == Init => HourInv
<1> SUFFICES ASSUME Init PROVE HourInv
  OBVIOUS
<1>1. SafeInv
  BY SafeInvInit
<1>2. \A i \in Intents : ~ rows[i].stamped /\ wire[i].n = 0
  BY DEF Init, Absent
<1>3. Permits = {} /\ {i \in Intents : rows[i].stamped} = {}
  BY <1>2 DEF Init, Permits
<1>4. Cardinality(Permits) = 0 /\ OrdersLastHour = 0
  BY <1>3, FS_EmptySet, Zenon DEF OrdersLastHour
<1>5. Cardinality(Procs) > 0
  BY PermitsAreFew, FS_EmptySet
<1>6. OrdersLastHour + Cardinality(Permits) < MaxHourlyOrders + Cardinality(Procs)
  BY <1>4, <1>5, PermitsAreFew, LimitsAreNat
<1>7. \A p \in Procs : Stamped(p)
  BY DEF Init, Stamped
<1> QED BY <1>1, <1>2, <1>6, <1>7 DEF HourInv

-----------------------------------------------------------------------------
(* What a step does to stamps and permits.                                  *)

\* What the writes leave of the time of transmission.
LEMMA Stamping ==
  ASSUME TypeInv, NEW p \in Procs
  PROVE  /\ Block(p) \/ RecordFailure(p) \/ RecordAccepted(p) =>
              rows'[cur[p]].stamped = order[p].stamped
         /\ MarkPending(p) => rows'[cur[p]].stamped /\ order'[p].stamped
<1>1. ASSUME pc[p] \in HasOrder
      PROVE  /\ cur[p] \in Intents /\ order[p] \in Row /\ rows[cur[p]] \in Row
             /\ rows \in [Intents -> Row \cup {Absent}] /\ order \in [Procs -> Row \cup {Absent}]
  BY <1>1, InHandTypes DEF TypeInv, TypeOK
<1>2. ASSUME NEW o \in Row, NEW row \in Row, NEW s
      PROVE  /\ Columns(MarkStatus(o, s), row).stamped = o.stamped
             /\ Columns(MarkSubmitted(o, s), row).stamped = o.stamped
             /\ Columns(MarkPendingSubmit(o), row).stamped
             /\ MarkPendingSubmit(o).stamped
  BY DEF Columns, MarkStatus, MarkSubmitted, MarkPendingSubmit, Row
<1>3. ASSUME Block(p) PROVE rows'[cur[p]].stamped = order[p].stamped
  BY <1>1, <1>2, <1>3 DEF Block, Update, HasOrder
<1>4. ASSUME RecordFailure(p) PROVE rows'[cur[p]].stamped = order[p].stamped
  BY <1>1, <1>2, <1>4 DEF RecordFailure, Update, HasOrder
<1>5. ASSUME RecordAccepted(p) PROVE rows'[cur[p]].stamped = order[p].stamped
  BY <1>1, <1>2, <1>5 DEF RecordAccepted, Update, HasOrder
<1>6. ASSUME MarkPending(p) PROVE rows'[cur[p]].stamped /\ order'[p].stamped
  BY <1>1, <1>2, <1>6 DEF MarkPending, Update, HasOrder
<1> QED BY <1>3, <1>4, <1>5, <1>6

\* A step of p other than the write before the call leaves every stamp as it is.
LEMMA StampsStay ==
  ASSUME HourInv, NEW p \in Procs,
         \/ UNCHANGED rows \/ InsertOrder(p) \/ Block(p)
         \/ RecordFailure(p) \/ RecordAccepted(p) \/ AwaitStatus(p)
  PROVE  \A i \in Intents : rows'[i].stamped = rows[i].stamped
<1>1. TypeInv /\ Stamped(p)
  BY DEF HourInv, SafeInv
<1>2. CASE UNCHANGED rows
  BY <1>2
<1>3. CASE InsertOrder(p)
  <2>1. \A i \in Intents \ {cur[p]} : rows'[i] = rows[i]
    BY <1>1, <1>3 DEF InsertOrder, TypeInv, TypeOK
  <2>2. cur[p] \in Intents => rows[cur[p]] = Absent /\ rows'[cur[p]] = NewOrder(ctx[p].qty)
    BY <1>1, <1>3 DEF InsertOrder, TypeInv, TypeOK
  <2>3. Absent.stamped = FALSE /\ NewOrder(ctx[p].qty).stamped = FALSE
    BY DEF Absent, NewOrder
  <2> QED BY <2>1, <2>2, <2>3, Zenon
<1>4. CASE Block(p) \/ RecordFailure(p) \/ RecordAccepted(p)
  <2>1. order[p].stamped = rows[cur[p]].stamped
    BY <1>1, <1>4 DEF Block, RecordFailure, RecordAccepted, Stamped
  <2>2. rows'[cur[p]].stamped = order[p].stamped
    BY <1>1, <1>4, Stamping
  <2>3. Writes(p)
    BY <1>1, <1>4, BlockWrites, RecordFailureWrites, RecordAcceptedWrites
  <2>4. \A i \in Intents \ {cur[p]} : rows'[i] = rows[i]
    BY <1>1, <2>3 DEF Writes, TypeInv, TypeOK
  <2> QED BY <2>1, <2>2, <2>4
<1>5. CASE AwaitStatus(p)
  <2>1. PICK j \in Intents : /\ rows' = [rows EXCEPT ![j] = rows'[j]]
                             /\ rows'[j].stamped = rows[j].stamped
    BY <1>1, <1>5, AwaitStatusWrites
  <2>2. \A i \in Intents \ {j} : rows'[i] = rows[i]
    BY <1>1, <2>1 DEF TypeInv, TypeOK
  <2> QED BY <2>1, <2>2
<1> QED BY <1>2, <1>3, <1>4, <1>5

\* Without new permits or stamps the sum does not grow.
LEMMA SumStays ==
  ASSUME HourInv, \A i \in Intents : rows'[i].stamped = rows[i].stamped,
         Permits' \subseteq Permits
  PROVE  OrdersLastHour' + Cardinality(Permits') < MaxHourlyOrders + Cardinality(Procs)
<1>1. OrdersLastHour' = OrdersLastHour
  BY DEF OrdersLastHour
<1>2. Cardinality(Permits') <= Cardinality(Permits) /\ Cardinality(Permits') \in Nat
  BY PermitsAreFew, FS_Subset, FS_CardinalityType
<1> QED BY <1>1, <1>2, PermitsAreFew, LimitsAreNat DEF HourInv

\* The processes other than p stand where they stood.
Alone(p) ==
  \A q \in Procs \ {p} : /\ pc'[q] = pc[q] /\ ctx'[q] = ctx[q]
                         /\ order'[q] = order[q] /\ cur'[q] = cur[q]

\* A step of p that leaves the stamps is looked at where p stands.
LEMMA HourFrame ==
  ASSUME HourInv, SafeInv', NEW p \in Procs, Alone(p),
         \A i \in Intents : rows'[i].stamped = rows[i].stamped,
         \A i \in Intents : wire'[i].n > 0 => rows[i].stamped,
         Stamped(p)', p \in Permits' => p \in Permits
  PROVE  HourInv'
<1>1. Permits' \subseteq Permits
  BY DEF Permits, Alone
<1>2. ASSUME NEW q \in Procs \ {p} PROVE Stamped(q)'
  <2>1. Stamped(q) /\ TypeInv
    BY DEF HourInv, SafeInv
  <2>2. pc[q] \in {"built", "approved", "pending", "answered"} => cur[q] \in Intents
    BY <2>1, InHandTypes DEF HasOrder
  <2>3. /\ pc'[q] = pc[q] /\ ctx'[q] = ctx[q] /\ order'[q] = order[q] /\ cur'[q] = cur[q]
    BY DEF Alone
  <2> QED BY <2>1, <2>2, <2>3 DEF Stamped
<1> QED BY <1>1, <1>2, SumStays DEF HourInv

-----------------------------------------------------------------------------
(* The steps.                                                               *)

LEMMA HourInvNext ==
  ASSUME OwnIntents
  PROVE  HourInv /\ [Next]_vars => HourInv'
<1> SUFFICES ASSUME HourInv, [Next]_vars PROVE HourInv'
  OBVIOUS
<1>1. /\ SafeInv /\ SafeInv' /\ TypeInv /\ TypeInv'
      /\ \A i \in Intents : wire[i].n > 0 => rows[i].stamped
      /\ \A p \in Procs : Stamped(p)
  BY SafeInvNext DEF HourInv, SafeInv
\* p turns to no order, or away from one.
<1>2. ASSUME NEW p \in Procs, Alone(p), UNCHANGED wire,
             pc'[p] \in {"down", "idle", "validated", "acked"},
             \/ UNCHANGED rows \/ Block(p) \/ RecordFailure(p)
             \/ RecordAccepted(p) \/ AwaitStatus(p)
      PROVE  HourInv'
  <2>1. Stamped(p)' /\ p \notin Permits'
    BY <1>2 DEF Stamped, Permits
  <2>2. \A i \in Intents : rows'[i].stamped = rows[i].stamped
    BY <1>2, StampsStay
  <2> QED BY <1>1, <1>2, <2>1, <2>2, HourFrame
<1>3. ASSUME NEW p \in Procs,
             \/ Start(p) \/ Stop(p) \/ Drop(p) \/ SuppressDuplicate(p)
             \/ \E i \in Intents : Accept(p, i) \/ Reject(p, i)
             \/ Block(p) \/ RecordFailure(p) \/ AwaitStatus(p)
      PROVE  HourInv'
  <2>1. CASE pc'[p] \in {"down", "idle", "validated"}
    <3>1. Alone(p) /\ UNCHANGED wire
      BY <1>1, <1>3 DEF Alone, Start, Stop, Drop, SuppressDuplicate, Accept, Reject, Offered,
                        Block, RecordFailure, AwaitStatus, BackTo, TypeInv, TypeOK
    <3>2. UNCHANGED rows \/ Block(p) \/ RecordFailure(p) \/ RecordAccepted(p) \/ AwaitStatus(p)
      BY <1>3 DEF Start, Stop, Drop, SuppressDuplicate, Accept, Reject
    <3> QED BY <1>2, <2>1, <3>1, <3>2
  <2>2. pc'[p] \in {"down", "idle", "validated"}
    BY <1>1, <1>3 DEF Start, Stop, Drop, SuppressDuplicate, Accept, Reject, Offered,
                      Block, RecordFailure, AwaitStatus, BackTo, TypeInv, TypeOK
  <2> QED BY <2>1, <2>2
<1>4. ASSUME NEW p \in Procs, RecordAccepted(p) PROVE HourInv'
  <2>1. /\ Alone(p) /\ UNCHANGED wire
        /\ pc'[p] \in {"down", "idle", "validated", "acked"}
    BY <1>1, <1>4 DEF Alone, RecordAccepted, BackTo, TypeInv, TypeOK
  <2> QED BY <1>2, <1>4, <2>1
\* The count is below the limit and p is one of Procs, or there is no new permit.
<1>5. ASSUME NEW p \in Procs, BuildContext(p) PROVE HourInv'
  <2>1. /\ UNCHANGED <<rows, wire>> /\ Alone(p) /\ pc'[p] = "sized"
        /\ ctx'[p].hour = OrdersLastHour
    BY <1>1, <1>5 DEF Alone, BuildContext, TypeInv, TypeOK
  <2>2. CASE OrdersLastHour < MaxHourlyOrders
    <3>1. OrdersLastHour' = OrdersLastHour
      BY <2>1 DEF OrdersLastHour
    <3>2. Cardinality(Permits') <= Cardinality(Procs) /\ Cardinality(Permits') \in Nat
      <4>1. Permits' \subseteq Procs
        BY DEF Permits
      <4> QED BY <4>1, FS_Subset, FS_CardinalityType
    <3>3. OrdersLastHour' + Cardinality(Permits') < MaxHourlyOrders + Cardinality(Procs)
      BY <2>2, <3>1, <3>2, PermitsAreFew, LimitsAreNat
    <3>4. \A q \in Procs : Stamped(q)'
      BY <1>1, <2>1 DEF Stamped, Alone
    <3> QED BY <1>1, <2>1, <3>3, <3>4 DEF HourInv
  <2>3. CASE ~ (OrdersLastHour < MaxHourlyOrders)
    <3>1. p \notin Permits'
      BY <2>1, <2>3 DEF Permits
    <3>2. Stamped(p)'
      BY <2>1 DEF Stamped
    <3> QED BY <1>1, <2>1, <3>1, <3>2, HourFrame
  <2> QED BY <2>2, <2>3
<1>6. ASSUME NEW p \in Procs, InsertOrder(p) PROVE HourInv'
  <2>1. /\ Alone(p) /\ UNCHANGED <<wire, cur, ctx>> /\ pc[p] = "sized" /\ pc'[p] = "built"
        /\ order'[p] = NewOrder(ctx[p].qty) /\ rows'[cur[p]] = NewOrder(ctx[p].qty)
    BY <1>1, <1>6 DEF Alone, InsertOrder, TypeInv, TypeOK, InHand, Busy, Steps
  <2>2. Stamped(p)' /\ (p \in Permits' => p \in Permits)
    BY <2>1 DEF Stamped, Permits
  <2> QED BY <1>1, <1>6, <2>1, <2>2, StampsStay, HourFrame
<1>7. ASSUME NEW p \in Procs, ReuseStoredOrder(p) PROVE HourInv'
  <2>1. /\ Alone(p) /\ UNCHANGED <<rows, wire, cur, ctx>> /\ pc[p] = "sized" /\ pc'[p] = "built"
        /\ order'[p] = rows[cur[p]]
    BY <1>1, <1>7 DEF Alone, ReuseStoredOrder, TypeInv, TypeOK
  <2>2. Stamped(p)' /\ (p \in Permits' => p \in Permits)
    BY <2>1 DEF Stamped, Permits
  <2> QED BY <1>1, <2>1, <2>2, HourFrame
<1>8. ASSUME NEW p \in Procs, RiskApprove(p) PROVE HourInv'
  <2>1. /\ Alone(p) /\ UNCHANGED <<rows, wire, cur, ctx, order>>
        /\ pc[p] = "built" /\ pc'[p] = "approved" /\ ctx[p].hour < MaxHourlyOrders
    BY <1>1, <1>8 DEF Alone, RiskApprove, TypeInv, TypeOK
  <2>2. Stamped(p)' /\ (p \in Permits' => p \in Permits)
    BY <1>1, <2>1 DEF Stamped, Permits
  <2> QED BY <1>1, <2>1, <2>2, HourFrame
<1>9. ASSUME NEW p \in Procs, PlaceFails(p) PROVE HourInv'
  <2>1. /\ Alone(p) /\ UNCHANGED <<rows, wire, cur, order>>
        /\ pc[p] = "pending" /\ pc'[p] = "answered"
    BY <1>1, <1>9 DEF Alone, PlaceFails, TypeInv, TypeOK
  <2>2. Stamped(p)' /\ p \notin Permits'
    BY <1>1, <2>1 DEF Stamped, Permits
  <2> QED BY <1>1, <2>1, <2>2, HourFrame
<1>10. ASSUME NEW p \in Procs, PlaceOrder(p) PROVE HourInv'
  <2>1. /\ Alone(p) /\ UNCHANGED <<rows, cur, order>>
        /\ pc[p] = "pending" /\ pc'[p] = "answered"
    BY <1>1, <1>10 DEF Alone, PlaceOrder, TypeInv, TypeOK
  <2>2. Stamped(p)' /\ p \notin Permits' /\ rows[cur[p]].stamped
    BY <1>1, <2>1 DEF Stamped, Permits
  <2>3. \A i \in Intents \ {cur[p]} : wire'[i] = wire[i]
    BY <1>1, <1>10 DEF PlaceOrder, TypeInv, TypeOK
  <2>4. \A i \in Intents : wire'[i].n > 0 => rows[i].stamped
    BY <1>1, <2>2, <2>3
  <2> QED BY <1>1, <2>1, <2>2, <2>4, HourFrame
\* A permit is turned into a stamp.
<1>11. ASSUME NEW p \in Procs, MarkPending(p) PROVE HourInv'
  <2>1. /\ Alone(p) /\ UNCHANGED <<wire, cur, ctx>>
        /\ pc[p] = "approved" /\ pc'[p] = "pending"
    BY <1>1, <1>11 DEF Alone, MarkPending, TypeInv, TypeOK
  <2>2. PICK c \in Intents : c = cur[p]
    BY <1>1, <2>1, InHandTypes DEF HasOrder
  <2>3. /\ \A j \in Intents \ {c} : rows'[j] = rows[j]
        /\ rows'[c].stamped /\ order'[p].stamped
    <3>1. Writes(p)
      BY <1>1, <1>11, MarkPendingWrites
    <3>2. rows'[c].stamped /\ order'[p].stamped
      BY <1>1, <1>11, <2>2, Stamping
    <3> QED BY <1>1, <2>2, <3>1, <3>2 DEF Writes, TypeInv, TypeOK
  <2>4. p \in Permits /\ Permits' \subseteq Permits \ {p}
    BY <1>1, <2>1 DEF Permits, Stamped, Alone
  <2>5. /\ Cardinality(Permits') \in Nat
        /\ Cardinality(Permits') <= Cardinality(Permits) - 1
    <3>1. /\ Cardinality(Permits \ {p}) = Cardinality(Permits) - 1
          /\ IsFiniteSet(Permits \ {p})
      BY <2>4, PermitsAreFew, FS_RemoveElement
    <3> QED BY <2>4, <3>1, FS_Subset, FS_CardinalityType
  <2>6. OrdersLastHour' <= OrdersLastHour + 1 /\ OrdersLastHour' \in Nat
    <3>1. OrdersLastHour' \in Nat
      <4>1. {i \in Intents : rows'[i].stamped} \in SUBSET Intents
        OBVIOUS
      <4> QED BY <4>1, FS_Subset, FS_CardinalityType DEF OrdersLastHour
    <3> QED BY <2>3, <3>1, Counting
  <2>7. OrdersLastHour' + Cardinality(Permits') < MaxHourlyOrders + Cardinality(Procs)
    BY <2>5, <2>6, PermitsAreFew, LimitsAreNat DEF HourInv
  <2>8. \A i \in Intents : wire'[i].n > 0 => rows'[i].stamped
    BY <1>1, <2>1, <2>3
  <2>9. Stamped(p)'
    <3>1. order'[p] \in Row /\ rows'[cur'[p]] \in Row
      BY <1>1, <2>1, InHandTypes DEF TypeInv, InHand, HasOrder
    <3>2. order'[p].stamped = TRUE /\ rows'[cur'[p]].stamped = TRUE
      BY <2>1, <2>2, <2>3, <3>1 DEF Row
    <3> QED BY <2>1, <3>2 DEF Stamped
  <2>10. ASSUME NEW q \in Procs \ {p} PROVE Stamped(q)'
    <3>1. pc[q] \in {"built", "approved", "pending", "answered"} => cur[q] \in Intents \ {c}
      BY <1>1, <2>1, <2>2, Private, InHandTypes DEF HasOrder, Busy, Steps
    <3>2. /\ pc'[q] = pc[q] /\ ctx'[q] = ctx[q] /\ order'[q] = order[q] /\ cur'[q] = cur[q]
      BY <2>1 DEF Alone
    <3> QED BY <1>1, <2>3, <3>1, <3>2 DEF Stamped
  <2> QED BY <1>1, <2>7, <2>8, <2>9, <2>10 DEF HourInv
<1>12. CASE UNCHANGED vars
  <2>1. UNCHANGED <<OrdersLastHour, Permits>> /\ \A p \in Procs : Stamped(p)'
    BY <1>1, <1>12 DEF vars, OrdersLastHour, Permits, Stamped
  <2> QED BY <1>1, <1>12, <2>1 DEF vars, HourInv
<1> QED BY <1>3, <1>4, <1>5, <1>6, <1>7, <1>8, <1>9, <1>10, <1>11, <1>12 DEF Next

\* No more orders leave in the hour than the limit allows and the further processes let
\* through, whatever crashes; with one process that is the limit itself.
THEOREM HourlyLimitHolds == ASSUME OwnIntents PROVE Spec => []HourlyLimit
<1>1. HourInv => HourlyLimit
  <2> SUFFICES ASSUME HourInv PROVE HourlyLimit
    OBVIOUS
  <2> DEFINE S == {i \in Intents : wire[i].n > 0}
  <2>1. S \subseteq StampedIntents /\ IsFiniteSet(StampedIntents)
    BY FS_Subset DEF HourInv, StampedIntents
  <2>2. Cardinality(S) <= Cardinality(StampedIntents) /\ Cardinality(S) \in Nat
    BY <2>1, FS_Subset, FS_CardinalityType
  <2>3. Cardinality(StampedIntents) = OrdersLastHour
    BY DEF StampedIntents, OrdersLastHour
  <2> QED BY <2>2, <2>3, PermitsAreFew, LimitsAreNat DEF HourInv, HourlyLimit
<1>2. HourInv /\ [Next]_vars => HourInv'
  BY HourInvNext
<1> QED BY HourInvInit, <1>1, <1>2, PTL DEF Spec

=============================================================================
