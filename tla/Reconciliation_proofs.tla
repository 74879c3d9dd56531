----------------------- MODULE Reconciliation_proofs -----------------------
(***************************************************************************)
(* What holds of reconciliation for every set of processes, every number   *)
(* of orders and every limit.  Of any processes: types, that a fill moves  *)
(* one book once, that orders are sent as TransmitOnce promises.  Of one   *)
(* process: that READY means no order's fate is in doubt and the book      *)
(* can be trusted; with one open order at a time, that the position limit  *)
(* holds; in one life, that the book is the sum of the fills.              *)
(***************************************************************************)
EXTENDS Reconciliation, FiniteSetTheorems, WellFoundedInduction, TLAPS

Sending == {"sending", "sent", "await"}

\* The order in hand is one of the orders.
TypeInv == TypeOK /\ \A p \in Procs : pc[p] \in Sending => hand[p] \in Orders

\* A reconciliation's reads, as records.
Snapshot == [account : BOOLEAN, position : Int, live : SUBSET Orders,
             fills : SUBSET Orders]

LEMMA NothingReadType == NothingRead \in Snapshot
  BY DEF NothingRead, Snapshot

LEMMA TypeInit == Init => TypeInv
  BY NothingReadType, ReconciliationAssumption
     DEF Init, TypeInv, TypeOK, WorkStates, RowStates, Steps, Sending, Snapshot

LEMMA TypeNext == TypeInv /\ [Next]_vars => TypeInv'
<1> SUFFICES ASSUME TypeInv, [Next]_vars PROVE TypeInv'
  OBVIOUS
<1> USE ReconciliationAssumption, NothingReadType
    DEF TypeInv, TypeOK, Sending, Snapshot, vars, broker, database
<1>1. ASSUME NEW p \in Procs, Start(p) PROVE TypeInv'
  BY <1>1 DEF Start, Goto, Steps
<1>2. ASSUME NEW p \in Procs, Stop(p) PROVE TypeInv'
  BY <1>2 DEF Stop, Goto, Steps
<1>3. ASSUME NEW p \in Procs, BeginReconcile(p) PROVE TypeInv'
  BY <1>3 DEF BeginReconcile, Goto, Steps
<1>4. ASSUME NEW p \in Procs, ReadAccount(p) PROVE TypeInv'
  BY <1>4 DEF ReadAccount, Goto, Steps
<1>5. ASSUME NEW p \in Procs, AccountFails(p) PROVE TypeInv'
  BY <1>5 DEF AccountFails, Goto, Steps
<1>6. ASSUME NEW p \in Procs, ReadPositions(p) PROVE TypeInv'
  BY <1>6 DEF ReadPositions, Goto, Steps
<1>7. ASSUME NEW p \in Procs, ReadOrders(p) PROVE TypeInv'
  BY <1>7 DEF ReadOrders, Goto, Steps, Live
<1>8. ASSUME NEW p \in Procs, ReadFills(p) PROVE TypeInv'
  BY <1>8 DEF ReadFills, Goto, Steps, Executions
<1>9. ASSUME NEW p \in Procs, ReadFails(p) PROVE TypeInv'
  BY <1>9 DEF ReadFails, Conclude, Goto, Steps
<1>10. ASSUME NEW p \in Procs, Ingest(p) PROVE TypeInv'
  BY <1>10 DEF Ingest, Steps
<1>11. ASSUME NEW p \in Procs, Compare(p) PROVE TypeInv'
  BY <1>11 DEF Compare, Conclude, Goto, Steps
<1>12. ASSUME NEW p \in Procs, Submit(p) PROVE TypeInv'
  BY <1>12 DEF Submit, Goto, Steps, NextOrder, RowStates
<1>13. ASSUME NEW p \in Procs, Send(p) PROVE TypeInv'
  BY <1>13 DEF Send, Goto, Steps, WorkStates
<1>14. ASSUME NEW p \in Procs, SendFails(p) PROVE TypeInv'
  BY <1>14 DEF SendFails, Finish, Goto, Steps, RowStates
<1>15. ASSUME NEW p \in Procs, Acknowledge(p) PROVE TypeInv'
  BY <1>15 DEF Acknowledge, Finish, Goto, Steps, RowStates
<1>16. ASSUME NEW p \in Procs, AwaitStatus(p) PROVE TypeInv'
  BY <1>16 DEF AwaitStatus, Goto, Steps, RowStates
<1>17. ASSUME NEW p \in Procs, AwaitTimesOut(p) PROVE TypeInv'
  BY <1>17 DEF AwaitTimesOut, Goto, Steps
<1>18. ASSUME NEW o \in Orders, Fill(o) PROVE TypeInv'
  BY <1>18 DEF Fill, WorkStates
<1>19. ASSUME NEW o \in Orders, Cancel(o) PROVE TypeInv'
  BY <1>19 DEF Cancel, WorkStates
<1>20. CASE UNCHANGED vars
  BY <1>20
<1> QED
  BY <1>1, <1>2, <1>3, <1>4, <1>5, <1>6, <1>7, <1>8, <1>9, <1>10, <1>11, <1>12, <1>13,
     <1>14, <1>15, <1>16, <1>17, <1>18, <1>19, <1>20 DEF Next, Reconcile, Trade

\* Type correctness: in particular the book, the saved position and every order's
\* size stay whole numbers, and what is in hand is an order.
THEOREM TypeCorrect == Spec => []TypeOK
<1>1. TypeInv => TypeOK
  BY DEF TypeInv
<1> QED BY <1>1, TypeInit, TypeNext, PTL DEF Spec

-----------------------------------------------------------------------------
\* Orders the broker works on are in an open row of the database.
Recorded(o) == work[o] = "live" => row[o] \in {"pending", "open"}

\* An order the database does not know has not been sent.  The one in hand is pending,
\* and unsent until Send; a broker that fills at once leaves nothing working.
Unsent(o) == row[o] = "none" => work[o] = "none"
HandIs(p) ==
  /\ pc[p] \in {"sending", "sent"} => row[hand[p]] = "pending"
  /\ pc[p] = "sending" => work[hand[p]] = "none"
  /\ pc[p] = "sent" /\ InstantFill => work[hand[p]] # "live"

\* Between the reading of the orders and the comparison the broker takes on no order
\* of the process, so what works at the comparison was working when it was read.
ReadAll(p) == pc[p] \in {"fills", "ingest"} => Live \subseteq snap[p].live

\* Nothing is in doubt when a process may trade, and while it sends only what it sends.
Resolved(p) == \A o \in Orders :
  /\ pc[p] = "idle" /\ verdict[p] => row[o] # "pending"
  /\ pc[p] \in {"sending", "sent"} /\ o # hand[p] => row[o] # "pending"

SafeInv ==
  /\ \A o \in Orders : Recorded(o) /\ Unsent(o)
  /\ \A p \in Procs : HandIs(p) /\ ReadAll(p) /\ Resolved(p)

\* One process on the database.
OneProcess == \A p, q \in Procs : p = q

LEMMA SafeInit == Init => SafeInv
  BY DEF Init, SafeInv, Recorded, Unsent, HandIs, ReadAll, Resolved, Live

LEMMA SafeNext ==
  ASSUME OneProcess
  PROVE  TypeInv /\ SafeInv /\ [Next]_vars => SafeInv'
<1> SUFFICES ASSUME TypeInv, SafeInv, [Next]_vars PROVE SafeInv'
  OBVIOUS
<1> USE OneProcess
    DEF OneProcess, TypeInv, TypeOK, Sending, Snapshot, SafeInv, Recorded, Unsent,
        HandIs, ReadAll, Resolved, Live, vars, broker, database
<1>1. ASSUME NEW p \in Procs, Start(p) PROVE SafeInv'
  BY <1>1 DEF Start, Goto
<1>2. ASSUME NEW p \in Procs, Stop(p) PROVE SafeInv'
  BY <1>2 DEF Stop, Goto
<1>3. ASSUME NEW p \in Procs, BeginReconcile(p) PROVE SafeInv'
  BY <1>3 DEF BeginReconcile, Goto
<1>4. ASSUME NEW p \in Procs, ReadAccount(p) PROVE SafeInv'
  BY <1>4 DEF ReadAccount, Goto
<1>5. ASSUME NEW p \in Procs, AccountFails(p) PROVE SafeInv'
  BY <1>5 DEF AccountFails, Goto
<1>6. ASSUME NEW p \in Procs, ReadPositions(p) PROVE SafeInv'
  BY <1>6 DEF ReadPositions, Goto
<1>7. ASSUME NEW p \in Procs, ReadOrders(p) PROVE SafeInv'
  BY <1>7 DEF ReadOrders, Goto
<1>8. ASSUME NEW p \in Procs, ReadFills(p) PROVE SafeInv'
  BY <1>8 DEF ReadFills, Goto
<1>9. ASSUME NEW p \in Procs, ReadFails(p) PROVE SafeInv'
  BY <1>9 DEF ReadFails, Conclude, Goto
<1>10. ASSUME NEW p \in Procs, Ingest(p) PROVE SafeInv'
  BY <1>10 DEF Ingest
<1>11. ASSUME NEW p \in Procs, Compare(p) PROVE SafeInv'
  BY <1>11 DEF Compare, Conclude, Goto, OrdersAgree
<1>12. ASSUME NEW p \in Procs, Submit(p) PROVE SafeInv'
  BY <1>12 DEF Submit, Ready, Goto, NextOrder
<1>13. ASSUME NEW p \in Procs, Send(p) PROVE SafeInv'
  BY <1>13 DEF Send, Goto
<1>14. ASSUME NEW p \in Procs, SendFails(p) PROVE SafeInv'
  BY <1>14 DEF SendFails, Finish, Goto
<1>15. ASSUME NEW p \in Procs, Acknowledge(p) PROVE SafeInv'
  BY <1>15 DEF Acknowledge, Finish, Goto
<1>16. ASSUME NEW p \in Procs, AwaitStatus(p) PROVE SafeInv'
  BY <1>16 DEF AwaitStatus, Goto
<1>17. ASSUME NEW p \in Procs, AwaitTimesOut(p) PROVE SafeInv'
  BY <1>17 DEF AwaitTimesOut, Goto
<1>18. ASSUME NEW o \in Orders, Fill(o) PROVE SafeInv'
  BY <1>18 DEF Fill
<1>19. ASSUME NEW o \in Orders, Cancel(o) PROVE SafeInv'
  BY <1>19 DEF Cancel
<1>20. CASE UNCHANGED vars
  BY <1>20
<1> QED
  BY <1>1, <1>2, <1>3, <1>4, <1>5, <1>6, <1>7, <1>8, <1>9, <1>10, <1>11, <1>12, <1>13,
     <1>14, <1>15, <1>16, <1>17, <1>18, <1>19, <1>20 DEF Next, Reconcile, Trade

\* A process alone on its database that may trade knows the fate of every order,
\* whatever crashed before: nothing is stuck in PENDING_SUBMIT and nothing works at
\* the broker outside its open rows.
THEOREM ReadyKnowsEveryFate ==
  ASSUME OneProcess
  PROVE  Spec => []ReadyMeansResolved
<1>1. TypeInv /\ SafeInv => ReadyMeansResolved
  BY DEF SafeInv, ReadyMeansResolved, Recorded, Resolved, Ready, Live
<1> QED BY <1>1, TypeInit, TypeNext, SafeInit, SafeNext, PTL DEF Spec

-----------------------------------------------------------------------------
(* The position limit, where it can be relied on: one process, one open    *)
(* order at a time, a broker that does not fill before place_order is      *)
(* answered.  The argument: while no row is open nothing works at the      *)
(* broker, so the position read is the position, and stays it until the    *)
(* next order is sent.                                                     *)

OneOrder == OneProcess /\ ~ InstantFill /\ MaxOpenOrders = 1

Limits == -MaxPosition .. MaxPosition
Open(o) == row[o] \in {"pending", "open"}
NoneOpen == \A o \in Orders : ~ Open(o)

\* Where the book, or what was read for it, is the position at the broker.
BookIs(p) ==
  /\ pc[p] \in {"orders", "fills", "ingest"} /\ NoneOpen => snap[p].position = position
  /\ pc[p] = "idle" /\ verdict[p] /\ NoneOpen => book[p] = position
  /\ pc[p] = "sending" => verdict[p] /\ book[p] = position /\ book[p] + size[hand[p]] \in Limits

LimitInv ==
  /\ position \in Limits
  /\ \A o \in Orders : work[o] = "live" => position + size[o] \in Limits
  /\ \A a, b \in Orders : Open(a) /\ Open(b) => a = b
  /\ \A p \in Procs : BookIs(p)

LEMMA LimitInit == Init => LimitInv
  BY ReconciliationAssumption
     DEF Init, LimitInv, Limits, Open, BookIs, NoneOpen

\* The check on the number of open orders lets an order through only if none is open.
LEMMA OnlyWhenNoneOpen ==
  ASSUME MaxOpenOrders = 1, NEW target, WithinLimits(target)
  PROVE  NoneOpen
<1>1. IsFiniteSet(Orders)
  BY FS_Interval, ReconciliationAssumption DEF Orders
<1>2. IsFiniteSet(OpenRows) /\ Cardinality(OpenRows) \in Nat
  BY <1>1, FS_Subset, FS_CardinalityType DEF OpenRows
<1>3. Cardinality(OpenRows) = 0
  BY <1>2 DEF WithinLimits
<1>4. OpenRows = {}
  BY <1>2, <1>3, FS_EmptySet
<1> QED BY <1>4 DEF OpenRows, NoneOpen, Open

LEMMA LimitNext ==
  ASSUME OneOrder
  PROVE  TypeInv /\ SafeInv /\ LimitInv /\ [Next]_vars => LimitInv'
<1> SUFFICES ASSUME TypeInv, SafeInv, LimitInv, [Next]_vars PROVE LimitInv'
  OBVIOUS
<1> USE OneOrder, ReconciliationAssumption
    DEF OneOrder, OneProcess, TypeInv, TypeOK, Sending, Snapshot, SafeInv, Recorded,
        Unsent, HandIs, LimitInv, Limits, Open, NoneOpen, BookIs, vars, broker, database
<1>1. ASSUME NEW p \in Procs, Start(p) PROVE LimitInv'
  BY <1>1 DEF Start, Goto
<1>2. ASSUME NEW p \in Procs, Stop(p) PROVE LimitInv'
  BY <1>2 DEF Stop, Goto
<1>3. ASSUME NEW p \in Procs, BeginReconcile(p) PROVE LimitInv'
  BY <1>3 DEF BeginReconcile, Goto
<1>4. ASSUME NEW p \in Procs, ReadAccount(p) PROVE LimitInv'
  BY <1>4 DEF ReadAccount, Goto
<1>5. ASSUME NEW p \in Procs, AccountFails(p) PROVE LimitInv'
  BY <1>5 DEF AccountFails, Goto
<1>6. ASSUME NEW p \in Procs, ReadPositions(p) PROVE LimitInv'
  BY <1>6 DEF ReadPositions, Goto
<1>7. ASSUME NEW p \in Procs, ReadOrders(p) PROVE LimitInv'
  BY <1>7 DEF ReadOrders, Goto
<1>8. ASSUME NEW p \in Procs, ReadFills(p) PROVE LimitInv'
  BY <1>8 DEF ReadFills, Goto
<1>9. ASSUME NEW p \in Procs, ReadFails(p) PROVE LimitInv'
  BY <1>9 DEF ReadFails, Conclude, Goto
<1>10. ASSUME NEW p \in Procs, Ingest(p) PROVE LimitInv'
  BY <1>10 DEF Ingest
<1>11. ASSUME NEW p \in Procs, Compare(p) PROVE LimitInv'
  BY <1>11 DEF Compare, Conclude, Goto
<1>12. ASSUME NEW p \in Procs, Submit(p) PROVE LimitInv'
  <2>1. PICK target \in Targets, o \in NextOrder :
          /\ WithinLimits(target)
          /\ size' = [size EXCEPT ![o] = target - book[p]]
          /\ row' = [row EXCEPT ![o] = "pending"]
          /\ hand' = [hand EXCEPT ![p] = o]
    BY <1>12 DEF Submit
  <2>2. NoneOpen
    BY <2>1, OnlyWhenNoneOpen
  <2>3. /\ o \in Orders /\ row[o] = "none"
        /\ target \in Int /\ target \in Limits
    BY <2>1 DEF NextOrder, WithinLimits
  <2>4. /\ pc[p] = "idle" /\ verdict[p] /\ pc' = [pc EXCEPT ![p] = "sending"]
        /\ UNCHANGED <<work, position, fills, saved, book, snap, verdict, starts>>
    BY <1>12 DEF Submit, Ready, Goto
  <2>5. book[p] = position
    BY <2>2, <2>4
  <2>6. size'[o] = target - book[p] /\ book[p] + size'[o] = target
    BY <2>1, <2>3
  <2>7. \A x \in Orders : work[x] # "live"
    BY <2>2
  <2>8. \A x \in Orders : Open(x)' => x = o
    BY <2>1, <2>2, <2>3
  <2>9. \A q \in Procs : BookIs(q)'
    BY <2>1, <2>3, <2>4, <2>5, <2>6
  <2> QED BY <2>4, <2>7, <2>8, <2>9
<1>13. ASSUME NEW p \in Procs, Send(p) PROVE LimitInv'
  BY <1>13 DEF Send, Goto
<1>14. ASSUME NEW p \in Procs, SendFails(p) PROVE LimitInv'
  BY <1>14 DEF SendFails, Finish, Goto
<1>15. ASSUME NEW p \in Procs, Acknowledge(p) PROVE LimitInv'
  BY <1>15 DEF Acknowledge, Finish, Goto
<1>16. ASSUME NEW p \in Procs, AwaitStatus(p) PROVE LimitInv'
  BY <1>16 DEF AwaitStatus, Goto
<1>17. ASSUME NEW p \in Procs, AwaitTimesOut(p) PROVE LimitInv'
  BY <1>17 DEF AwaitTimesOut, Goto
<1>18. ASSUME NEW o \in Orders, Fill(o) PROVE LimitInv'
  BY <1>18 DEF Fill
<1>19. ASSUME NEW o \in Orders, Cancel(o) PROVE LimitInv'
  BY <1>19 DEF Cancel
<1>20. CASE UNCHANGED vars
  BY <1>20
<1> QED
  BY <1>1, <1>2, <1>3, <1>4, <1>5, <1>6, <1>7, <1>8, <1>9, <1>10, <1>11, <1>12, <1>13,
     <1>14, <1>15, <1>16, <1>17, <1>18, <1>19, <1>20 DEF Next, Reconcile, Trade

\* With one process, one open order at a time and IBKR's way of filling, the projected
\* position risk checks is the position the order leads to, so the limit holds.
THEOREM PositionStaysLimited ==
  ASSUME OneOrder
  PROVE  Spec => []PositionLimit
<1>1. LimitInv => PositionLimit
  BY DEF LimitInv, Limits, PositionLimit
<1>2. OneProcess
  BY DEF OneOrder
<1> QED BY <1>1, <1>2, TypeInit, TypeNext, SafeInit, SafeNext, LimitInit, LimitNext,
           PTL DEF Spec

-----------------------------------------------------------------------------
(* The sum of the executions.  Total is defined by recursion over the      *)
(* orders, so what it does takes induction.                                *)

\* f is the partial sums of q, from 0 to n.
Adds(f, q, n) == f = [k \in 0 .. n |-> IF k = 0 THEN 0 ELSE f[k - 1] + q[k]]

\* Every set of numbers has a first element.
LEMMA Least ==
  ASSUME NEW T, T \subseteq Nat, T # {}
  PROVE  \E n \in T : \A k \in T : n <= k
<1>1. PICK n \in T : \A k \in T : <<k, n>> \notin OpToRel(<, Nat)
  BY NatLessThanWellFounded, WFMin
<1>2. \A k \in T : ~ (k < n)
  BY <1>1, Zenon DEF OpToRel
<1> QED BY <1>2

\* A set of numbers without 0 that no step enters has no first element: induction, as a
\* fact about sets.
LEMMA NoFirst ==
  ASSUME NEW T, T \subseteq Nat, 0 \notin T,
         \A n \in Nat : n \notin T => n + 1 \notin T
  PROVE  T = {}
<1> SUFFICES ASSUME T # {} PROVE FALSE
  OBVIOUS
<1>1. PICK n \in T : \A k \in T : n <= k
  BY Least
<1>2. n - 1 \in Nat /\ n - 1 \notin T
  BY <1>1
<1> QED BY <1>2

\* The recursive definition of Total defines something: up to n + 1, it is what it is
\* up to n and one sum more.
LEMMA AddsExists == ASSUME NEW q PROVE \E f : Adds(f, q, NOrders)
<1> DEFINE T == {n \in Nat : ~ \E f : Adds(f, q, n)}
<1>1. 0 \notin T
  <2>1. Adds([k \in 0 .. 0 |-> 0], q, 0)
    BY DEF Adds
  <2> QED BY <2>1
<1>2. ASSUME NEW n \in Nat, n \notin T PROVE n + 1 \notin T
  <2>1. PICK f : Adds(f, q, n)
    BY <1>2
  <2> DEFINE g == [k \in 0 .. n + 1 |-> IF k = n + 1 THEN f[n] + q[n + 1] ELSE f[k]]
  <2>2. ASSUME NEW k \in 0 .. n + 1
        PROVE  g[k] = IF k = 0 THEN 0 ELSE g[k - 1] + q[k]
    <3>1. f = [j \in 0 .. n |-> IF j = 0 THEN 0 ELSE f[j - 1] + q[j]]
      BY <2>1 DEF Adds
    <3>2. CASE k = n + 1
      BY <3>2
    <3>3. CASE k # n + 1 /\ k # 0
      BY <3>1, <3>3
    <3>4. CASE k # n + 1 /\ k = 0
      BY <3>1, <3>4
    <3> QED BY <3>2, <3>3, <3>4
  <2>3. Adds(g, q, n + 1)
    BY <2>2 DEF Adds
  <2> QED BY <2>3
<1>3. T = {}
  <2> HIDE DEF T
  <2>1. T \subseteq Nat
    BY DEF T
  <2> QED BY <1>1, <1>2, <2>1, NoFirst
<1> QED BY <1>3, ReconciliationAssumption

\* So Total is the last of the partial sums.
LEMMA TotalAdds ==
  ASSUME NEW q
  PROVE  \E f : Adds(f, q, NOrders) /\ Total(q) = f[NOrders]
<1> DEFINE f == CHOOSE f : Adds(f, q, NOrders)
<1>1. Adds(f, q, NOrders)
  BY AddsExists
<1>2. Total(q) = f[NOrders]
  BY DEF Total, Adds
<1> QED BY <1>1, <1>2

\* Sums of whole numbers are whole numbers.
LEMMA AddsInt ==
  ASSUME NEW q \in [Orders -> Int], NEW f, Adds(f, q, NOrders)
  PROVE  \A n \in 0 .. NOrders : f[n] \in Int
<1> DEFINE T == {n \in 0 .. NOrders : f[n] \notin Int}
<1>0. \A n \in 0 .. NOrders : f[n] = IF n = 0 THEN 0 ELSE f[n - 1] + q[n]
  BY DEF Adds
<1>1. 0 \notin T
  BY <1>0, ReconciliationAssumption
<1>2. ASSUME NEW n \in Nat, n \notin T PROVE n + 1 \notin T
  BY <1>0, <1>2, ReconciliationAssumption DEF Orders
<1>3. T = {}
  <2> HIDE DEF T
  <2>1. T \subseteq Nat
    BY ReconciliationAssumption DEF T
  <2> QED BY <1>1, <1>2, <2>1, NoFirst
<1> QED BY <1>3

LEMMA TotalInt ==
  ASSUME NEW q \in [Orders -> Int]
  PROVE  Total(q) \in Int
  BY TotalAdds, AddsInt, ReconciliationAssumption

\* More of one order is as much more in all.
LEMMA TotalMore ==
  ASSUME NEW q \in [Orders -> Int], NEW o \in Orders, NEW d \in Int
  PROVE  Total([q EXCEPT ![o] = @ + d]) = Total(q) + d
<1> DEFINE r == [q EXCEPT ![o] = @ + d]
<1>1. PICK f : Adds(f, q, NOrders) /\ Total(q) = f[NOrders]
  BY TotalAdds
<1>2. PICK g : Adds(g, r, NOrders) /\ Total(r) = g[NOrders]
  BY TotalAdds
<1>3. r \in [Orders -> Int]
  OBVIOUS
<1>4. \A n \in 0 .. NOrders : f[n] \in Int /\ g[n] \in Int
  BY <1>1, <1>2, <1>3, AddsInt
<1>5. \A n \in 0 .. NOrders :
        /\ f[n] = IF n = 0 THEN 0 ELSE f[n - 1] + q[n]
        /\ g[n] = IF n = 0 THEN 0 ELSE g[n - 1] + r[n]
  BY <1>1, <1>2 DEF Adds
<1> DEFINE T == {n \in 0 .. NOrders : g[n] # f[n] + (IF n < o THEN 0 ELSE d)}
<1>6. 0 \notin T
  BY <1>5, ReconciliationAssumption DEF Orders
<1>7. ASSUME NEW n \in Nat, n \notin T PROVE n + 1 \notin T
  <2> SUFFICES ASSUME n + 1 \in 0 .. NOrders
               PROVE  g[n + 1] = f[n + 1] + (IF n + 1 < o THEN 0 ELSE d)
    OBVIOUS
  <2>1. n \in 0 .. NOrders /\ n + 1 \in Orders /\ n + 1 # 0 /\ (n + 1) - 1 = n
    BY ReconciliationAssumption DEF Orders
  <2>2. f[n + 1] = f[n] + q[n + 1] /\ g[n + 1] = g[n] + r[n + 1]
    BY <1>5, <2>1
  <2>3. g[n] = f[n] + (IF n < o THEN 0 ELSE d)
    BY <1>7, <2>1
  <2>4. r[n + 1] = IF n + 1 = o THEN q[n + 1] + d ELSE q[n + 1]
    BY <2>1
  <2>5. o \in Nat /\ q[n + 1] \in Int /\ f[n] \in Int
    BY <2>1, <1>4 DEF Orders
  <2> QED BY <2>2, <2>3, <2>4, <2>5
<1>8. T = {}
  <2> HIDE DEF T
  <2>1. T \subseteq Nat
    BY ReconciliationAssumption DEF T
  <2> QED BY <1>6, <1>7, <2>1, NoFirst
<1>9. g[NOrders] = f[NOrders] + d
  BY <1>8, ReconciliationAssumption DEF Orders
<1> QED BY <1>1, <1>2, <1>9

\* Nothings add up to nothing.
LEMMA TotalZero ==
  ASSUME NEW q, \A o \in Orders : q[o] = 0
  PROVE  Total(q) = 0
<1>1. PICK f : Adds(f, q, NOrders) /\ Total(q) = f[NOrders]
  BY TotalAdds
<1>2. \A n \in 0 .. NOrders : f[n] = IF n = 0 THEN 0 ELSE f[n - 1] + q[n]
  BY <1>1 DEF Adds
<1> DEFINE T == {n \in 0 .. NOrders : f[n] # 0}
<1>3. 0 \notin T
  BY <1>2, ReconciliationAssumption
<1>4. ASSUME NEW n \in Nat, n \notin T PROVE n + 1 \notin T
  BY <1>2, <1>4, ReconciliationAssumption DEF Orders
<1>5. T = {}
  <2> HIDE DEF T
  <2>1. T \subseteq Nat
    BY ReconciliationAssumption DEF T
  <2> QED BY <1>3, <1>4, <2>1, NoFirst
<1> QED BY <1>1, <1>5, ReconciliationAssumption

\* One order more adds its quantity.
LEMMA SumMore ==
  ASSUME NEW z \in [Orders -> Int], NEW S, NEW o \in Orders, o \notin S
  PROVE  Total([x \in Orders |-> IF x \in S \cup {o} THEN z[x] ELSE 0])
           = Total([x \in Orders |-> IF x \in S THEN z[x] ELSE 0]) + z[o]
<1> DEFINE q == [x \in Orders |-> IF x \in S THEN z[x] ELSE 0]
           r == [x \in Orders |-> IF x \in S \cup {o} THEN z[x] ELSE 0]
<1>1. q \in [Orders -> Int] /\ z[o] \in Int
  OBVIOUS
<1>2. r = [q EXCEPT ![o] = @ + z[o]]
  <2>1. \A x \in Orders : r[x] = [q EXCEPT ![o] = @ + z[o]][x]
    <3> TAKE x \in Orders
    <3>1. CASE x = o
      BY <1>1, <3>1
    <3>2. CASE x # o
      BY <3>2
    <3> QED BY <3>1, <3>2
  <2> QED BY <2>1
<1> HIDE DEF q, r
<1>3. Total(r) = Total(q) + z[o]
  BY <1>1, <1>2, TotalMore
<1> QED BY <1>3 DEF q, r

LEMMA SumInt == TypeOK => Sum(fills) \in Int
<1> SUFFICES ASSUME TypeOK PROVE Sum(fills) \in Int
  OBVIOUS
<1>1. [o \in Orders |-> IF o \in fills THEN size[o] ELSE 0] \in [Orders -> Int]
  BY DEF TypeOK
<1> QED BY <1>1, TotalInt DEF Sum

-----------------------------------------------------------------------------
(* Orders, whoever sends them: any number of processes, any crashes.       *)

\* What was sent, recorded or read is an order the database knows; those have a
\* quantity; and no two processes are about to send the same.
Known(o) == row[o] # "none"
OrderInv ==
  /\ \A o \in Orders : work[o] # "none" \/ o \in fills => Known(o)
  /\ \A o \in Orders : Known(o) => size[o] # 0
  /\ \A p \in Procs : \A o \in snap[p].fills : Known(o)
  /\ \A p \in Procs : pc[p] \in Sending => Known(hand[p])
  /\ \A p, q \in Procs : pc[p] = "sending" /\ pc[q] = "sending" /\ hand[p] = hand[q] => p = q

LEMMA OrderInit == Init => OrderInv
  BY DEF Init, OrderInv, Known, NothingRead, Sending

LEMMA OrderNext == TypeInv /\ OrderInv /\ [Next]_vars => OrderInv'
<1> SUFFICES ASSUME TypeInv, OrderInv, [Next]_vars PROVE OrderInv'
  OBVIOUS
<1> USE ReconciliationAssumption
    DEF TypeInv, TypeOK, Sending, Snapshot, OrderInv, Known, vars, broker, database
<1>1. ASSUME NEW p \in Procs, Start(p) PROVE OrderInv'
  BY <1>1 DEF Start, Goto
<1>2. ASSUME NEW p \in Procs, Stop(p) PROVE OrderInv'
  BY <1>2 DEF Stop, Goto, NothingRead
<1>3. ASSUME NEW p \in Procs, BeginReconcile(p) PROVE OrderInv'
  BY <1>3 DEF BeginReconcile, Goto
<1>4. ASSUME NEW p \in Procs, ReadAccount(p) PROVE OrderInv'
  BY <1>4 DEF ReadAccount, Goto, NothingRead
<1>5. ASSUME NEW p \in Procs, AccountFails(p) PROVE OrderInv'
  BY <1>5 DEF AccountFails, Goto, NothingRead
<1>6. ASSUME NEW p \in Procs, ReadPositions(p) PROVE OrderInv'
  BY <1>6 DEF ReadPositions, Goto
<1>7. ASSUME NEW p \in Procs, ReadOrders(p) PROVE OrderInv'
  BY <1>7 DEF ReadOrders, Goto
<1>8. ASSUME NEW p \in Procs, ReadFills(p) PROVE OrderInv'
  BY <1>8 DEF ReadFills, Goto, Executions
<1>9. ASSUME NEW p \in Procs, ReadFails(p) PROVE OrderInv'
  BY <1>9 DEF ReadFails, Conclude, Goto, NothingRead
<1>10. ASSUME NEW p \in Procs, Ingest(p) PROVE OrderInv'
  BY <1>10 DEF Ingest
<1>11. ASSUME NEW p \in Procs, Compare(p) PROVE OrderInv'
  BY <1>11 DEF Compare, Conclude, Goto, NothingRead
<1>12. ASSUME NEW p \in Procs, Submit(p) PROVE OrderInv'
  <2>1. PICK target \in Targets \ {book[p]}, o \in NextOrder :
          /\ size' = [size EXCEPT ![o] = target - book[p]]
          /\ row' = [row EXCEPT ![o] = "pending"]
          /\ hand' = [hand EXCEPT ![p] = o]
    BY <1>12 DEF Submit
  <2>2. /\ o \in Orders /\ row[o] = "none"
        /\ target - book[p] \in Int /\ target - book[p] # 0
    <3>1. target \in Int /\ target # book[p] /\ book[p] \in Int
      BY <2>1
    <3>2. \A a, b \in Int : a # b => a - b # 0
      OBVIOUS
    <3>3. target - book[p] # 0
      BY <3>1, <3>2, Zenon
    <3> QED BY <2>1, <3>1, <3>3 DEF NextOrder
  <2>3. pc' = [pc EXCEPT ![p] = "sending"] /\ UNCHANGED <<work, fills, snap>>
    BY <1>12 DEF Submit, Goto
  <2>4. \A x \in Orders : Known(x)' <=> Known(x) \/ x = o
    BY <2>1, <2>2
  <2>5. \A x \in Orders : size'[x] = IF x = o THEN target - book[p] ELSE size[x]
    BY <2>1, <2>2
  <2>6. \A q \in Procs : hand'[q] = IF q = p THEN o ELSE hand[q]
    BY <2>1
  <2>7. \A q \in Procs : q # p /\ pc[q] \in Sending => hand[q] # o /\ pc'[q] = pc[q]
    BY <2>2, <2>3
  <2> HIDE DEF Known
  <2>8. \A x \in Orders : Known(x)' => size'[x] # 0
    BY <2>2, <2>4, <2>5
  <2>9. \A q \in Procs : pc'[q] \in Sending => Known(hand[q])'
    BY <2>2, <2>3, <2>4, <2>6, <2>7
  <2>10. \A q \in Procs : \A x \in snap'[q].fills : Known(x)'
    BY <2>3, <2>4
  <2> QED BY <2>2, <2>3, <2>4, <2>6, <2>7, <2>8, <2>9, <2>10
<1>13. ASSUME NEW p \in Procs, Send(p) PROVE OrderInv'
  BY <1>13 DEF Send, Goto
<1>14. ASSUME NEW p \in Procs, SendFails(p) PROVE OrderInv'
  BY <1>14 DEF SendFails, Finish, Goto
<1>15. ASSUME NEW p \in Procs, Acknowledge(p) PROVE OrderInv'
  BY <1>15 DEF Acknowledge, Finish, Goto
<1>16. ASSUME NEW p \in Procs, AwaitStatus(p) PROVE OrderInv'
  BY <1>16 DEF AwaitStatus, Goto
<1>17. ASSUME NEW p \in Procs, AwaitTimesOut(p) PROVE OrderInv'
  BY <1>17 DEF AwaitTimesOut, Goto
<1>18. ASSUME NEW o \in Orders, Fill(o) PROVE OrderInv'
  BY <1>18 DEF Fill
<1>19. ASSUME NEW o \in Orders, Cancel(o) PROVE OrderInv'
  BY <1>19 DEF Cancel
<1>20. CASE UNCHANGED vars
  BY <1>20
<1> QED
  BY <1>1, <1>2, <1>3, <1>4, <1>5, <1>6, <1>7, <1>8, <1>9, <1>10, <1>11, <1>12, <1>13,
     <1>14, <1>15, <1>16, <1>17, <1>18, <1>19, <1>20 DEF Next, Reconcile, Trade

-----------------------------------------------------------------------------
(* Which steps move a book.                                                *)

\* Every step but Ingest leaves the recorded executions alone, and the book of every
\* process it does not start or stop: an adoption finds in the book what it puts there.
LEMMA OnlyIngestMovesBooks ==
  ASSUME TypeInv, [Next]_vars, \A p \in Procs : ~ Ingest(p)
  PROVE  /\ fills' = fills
         /\ \A q \in Procs : pc[q] # "down" /\ pc'[q] # "down" => book'[q] = book[q]
<1> DEFINE Kept == /\ fills' = fills
                   /\ \A q \in Procs : pc[q] # "down" /\ pc'[q] # "down" => book'[q] = book[q]
<1> SUFFICES Kept
  OBVIOUS
<1> USE DEF TypeInv, TypeOK, vars, broker, database
<1>1. ASSUME NEW p \in Procs, Start(p) PROVE Kept
  BY <1>1 DEF Start, Goto
<1>2. ASSUME NEW p \in Procs, Stop(p) PROVE Kept
  BY <1>2 DEF Stop, Goto
<1>3. ASSUME NEW p \in Procs, BeginReconcile(p) PROVE Kept
  BY <1>3 DEF BeginReconcile, Goto
<1>4. ASSUME NEW p \in Procs, ReadAccount(p) PROVE Kept
  BY <1>4 DEF ReadAccount, Goto
<1>5. ASSUME NEW p \in Procs, AccountFails(p) PROVE Kept
  BY <1>5 DEF AccountFails, Goto
<1>6. ASSUME NEW p \in Procs, ReadPositions(p) PROVE Kept
  BY <1>6 DEF ReadPositions, Goto
<1>7. ASSUME NEW p \in Procs, ReadOrders(p) PROVE Kept
  BY <1>7 DEF ReadOrders, Goto
<1>8. ASSUME NEW p \in Procs, ReadFills(p) PROVE Kept
  BY <1>8 DEF ReadFills, Goto
<1>9. ASSUME NEW p \in Procs, ReadFails(p) PROVE Kept
  BY <1>9 DEF ReadFails, Conclude, Goto
<1>10. ASSUME NEW p \in Procs, Ingest(p) PROVE Kept
  BY <1>10
<1>11. ASSUME NEW p \in Procs, Compare(p) PROVE Kept
  BY <1>11 DEF Compare, Conclude, Goto, PositionsAgree
<1>12. ASSUME NEW p \in Procs, Submit(p) PROVE Kept
  BY <1>12 DEF Submit, Goto
<1>13. ASSUME NEW p \in Procs, Send(p) PROVE Kept
  BY <1>13 DEF Send, Goto
<1>14. ASSUME NEW p \in Procs, SendFails(p) PROVE Kept
  BY <1>14 DEF SendFails, Finish, Goto
<1>15. ASSUME NEW p \in Procs, Acknowledge(p) PROVE Kept
  BY <1>15 DEF Acknowledge, Finish, Goto
<1>16. ASSUME NEW p \in Procs, AwaitStatus(p) PROVE Kept
  BY <1>16 DEF AwaitStatus, Goto
<1>17. ASSUME NEW p \in Procs, AwaitTimesOut(p) PROVE Kept
  BY <1>17 DEF AwaitTimesOut, Goto
<1>18. ASSUME NEW o \in Orders, Fill(o) PROVE Kept
  BY <1>18 DEF Fill
<1>19. ASSUME NEW o \in Orders, Cancel(o) PROVE Kept
  BY <1>19 DEF Cancel
<1>20. CASE UNCHANGED vars
  BY <1>20
<1> QED
  BY <1>1, <1>2, <1>3, <1>4, <1>5, <1>6, <1>7, <1>8, <1>9, <1>10, <1>11, <1>12, <1>13,
     <1>14, <1>15, <1>16, <1>17, <1>18, <1>19, <1>20 DEF Next, Reconcile, Trade

\* What Ingest does to the book of its process, and to no other.
LEMMA IngestMovesOne ==
  ASSUME TypeInv, OrderInv, NEW p \in Procs, Ingest(p)
  PROVE  /\ pc' = pc /\ pc[p] # "down" /\ size' = size
         /\ \A q \in Procs : q # p => book'[q] = book[q]
         /\ book'[p] - book[p] = Sum(fills)' - Sum(fills)
         /\ fills' # fills => book'[p] # book[p]
<1> USE DEF TypeInv, TypeOK, Snapshot
<1>1. PICK o \in snap[p].fills :
        /\ fills' = fills \cup {o}
        /\ book' = [book EXCEPT ![p] = IF o \in fills THEN @ ELSE @ + size[o]]
  BY DEF Ingest
<1>2. pc' = pc /\ pc[p] = "ingest" /\ size' = size
  BY DEF Ingest
<1>3. o \in Orders /\ size[o] \in Int /\ size[o] # 0
  <2>1. o \in Orders
    BY <1>1
  <2> QED BY <2>1, <1>1 DEF OrderInv
<1>4. Sum(fills) \in Int
  BY SumInt
<1>5. Sum(fills)' = Total([x \in Orders |-> IF x \in fills \cup {o} THEN size[x] ELSE 0])
  BY <1>1, <1>2 DEF Sum
<1>6. CASE o \in fills
  <2>1. fills \cup {o} = fills
    BY <1>6
  <2>2. Sum(fills)' = Sum(fills)
    BY <1>5, <2>1 DEF Sum
  <2>3. book'[p] = book[p]
    BY <1>1, <1>6
  <2> QED BY <1>1, <1>2, <1>4, <2>1, <2>2, <2>3
<1>7. CASE o \notin fills
  <2>1. Sum(fills)' = Sum(fills) + size[o]
    BY <1>3, <1>5, <1>7, SumMore DEF Sum
  <2>2. book'[p] = book[p] + size[o] /\ book[p] \in Int
    BY <1>1, <1>2, <1>7
  <2>3. book'[p] - book[p] = Sum(fills)' - Sum(fills) /\ book'[p] # book[p]
    BY <1>3, <1>4, <2>1, <2>2
  <2> QED BY <1>1, <1>2, <2>3
<1> QED BY <1>6, <1>7

\* An execution moves the book of the process that records it, by its quantity and at
\* most once, and nothing else moves the book of a running process: for any number of
\* processes on the database, whatever crashes.
THEOREM FillsMoveOneBookOnce == Spec => FillsMoveOneBook
<1>1. TypeInv /\ OrderInv /\ [Next]_vars => OneBookMoves
  <2> SUFFICES ASSUME TypeInv, OrderInv, [Next]_vars PROVE OneBookMoves
    OBVIOUS
  <2>1. CASE \A p \in Procs : ~ Ingest(p)
    <3>1. Moved = {} /\ fills' = fills
      BY <2>1, OnlyIngestMovesBooks DEF Moved
    <3> QED BY <3>1 DEF OneBookMoves
  <2>2. CASE \E p \in Procs : Ingest(p)
    <3>1. PICK p \in Procs : Ingest(p)
      BY <2>2
    <3>2. Moved \subseteq {p}
      BY <3>1, IngestMovesOne DEF Moved
    <3>3. \A q \in Moved : book'[q] - book[q] = Sum(fills)' - Sum(fills)
      BY <3>1, <3>2, IngestMovesOne
    <3>4. fills' # fills => Moved = {p}
      BY <3>1, <3>2, IngestMovesOne DEF Moved
    <3>5. Cardinality({p}) = 1
      BY FS_Singleton
    <3> QED BY <3>3, <3>4, <3>5 DEF OneBookMoves
  <2> QED BY <2>1, <2>2
<1> QED BY <1>1, TypeInit, TypeNext, OrderInit, OrderNext, PTL DEF Spec, FillsMoveOneBook

-----------------------------------------------------------------------------
(* Refinement: every step is a step of TransmitOnce, or leaves what        *)
(* TransmitOnce sees unchanged.                                            *)

LEMMA OnceInit == Init => Once!Init
  BY DEF Init, Once!Init, fate, sent

\* Nothing TransmitOnce sees has moved if the same orders are known, in hand, and sent.
LEMMA OnceStutters ==
  ASSUME \A o \in Orders : /\ Known(o)' <=> Known(o)
                           /\ InHand(o)' <=> InHand(o)
                           /\ work'[o] # "none" <=> work[o] # "none"
  PROVE  UNCHANGED Once!vars
<1>1. UNCHANGED fate
  BY DEF fate, Known
<1>2. UNCHANGED sent
  BY DEF sent
<1> QED BY <1>1, <1>2 DEF Once!vars

\* The fate of one order moves, and nothing is sent but perhaps that order.
LEMMA OnceMoves ==
  ASSUME NEW o \in Orders,
         \A x \in Orders \ {o} : (Known(x)' <=> Known(x)) /\ (InHand(x)' <=> InHand(x))
  PROVE  fate' = [fate EXCEPT ![o] = fate'[o]]
<1>1. \A x \in Orders \ {o} : fate'[x] = fate[x]
  BY DEF fate, Known
<1>2. DOMAIN fate = Orders /\ DOMAIN fate' = Orders
  BY DEF fate
<1>3. fate' = [x \in Orders |-> fate'[x]] /\ fate = [x \in Orders |-> fate[x]]
  BY DEF fate
<1> QED BY <1>1, <1>2, <1>3

\* Taking the order in hand out of it: SendFails, Send and a crash settle it.
LEMMA LettingGo ==
  ASSUME TypeInv, OrderInv, NEW p \in Procs, pc[p] = "sending", pc'[p] # "sending",
         \A q \in Procs \ {p} : pc'[q] = pc[q] /\ hand'[q] = hand[q],
         \A o \in Orders : Known(o)' <=> Known(o)
  PROVE  /\ hand[p] \in Orders /\ fate[hand[p]] = "committed"
         /\ fate' = [fate EXCEPT ![hand[p]] = "settled"]
<1>1. PICK o \in Orders : o = hand[p]
  BY DEF TypeInv, Sending
<1>2. Known(o) /\ InHand(o)
  BY <1>1 DEF OrderInv, Sending, InHand
<1>3. \A q \in Procs \ {p} : pc[q] = "sending" => hand[q] # o
  BY <1>1 DEF OrderInv
<1>4. ~ InHand(o)'
  BY <1>3 DEF InHand
<1>5. \A x \in Orders \ {o} : InHand(x)' <=> InHand(x)
  <2>1. \A x \in Orders \ {o} :
          InHand(x) => \E q \in Procs \ {p} : pc[q] = "sending" /\ hand[q] = x
    BY <1>1 DEF InHand
  <2> QED BY <2>1 DEF InHand
<1>6. fate[o] = "committed" /\ fate'[o] = "settled"
  BY <1>2, <1>4 DEF fate, Known
<1>7. fate' = [fate EXCEPT ![o] = fate'[o]]
  BY <1>5, OnceMoves
<1> QED BY <1>1, <1>6, <1>7

LEMMA OnceNext ==
  TypeInv /\ OrderInv /\ [Next]_vars => [Once!Next]_(Once!vars)
<1> SUFFICES ASSUME TypeInv, OrderInv, [Next]_vars PROVE [Once!Next]_(Once!vars)
  OBVIOUS
<1> USE DEF vars, broker, database
<1>1. ASSUME NEW p \in Procs,
             \/ Start(p) \/ BeginReconcile(p) \/ ReadAccount(p) \/ AccountFails(p)
             \/ ReadPositions(p) \/ ReadOrders(p) \/ ReadFills(p) \/ ReadFails(p)
             \/ Ingest(p) \/ Compare(p) \/ AwaitTimesOut(p)
      PROVE  UNCHANGED Once!vars
  <2>1. /\ UNCHANGED <<work, row, hand>>
        /\ \A q \in Procs : pc'[q] = "sending" <=> pc[q] = "sending"
    BY <1>1 DEF TypeInv, TypeOK, Start, BeginReconcile, ReadAccount, AccountFails, ReadPositions,
       ReadOrders, ReadFills, ReadFails, Ingest, Compare, AwaitTimesOut, Conclude, Goto
  <2> QED BY <2>1, OnceStutters DEF Known, InHand
<1>2. ASSUME NEW p \in Procs, Acknowledge(p) \/ AwaitStatus(p) PROVE UNCHANGED Once!vars
  <2>1. /\ UNCHANGED work
        /\ \A o \in Orders : Known(o)' <=> Known(o)
    BY <1>2 DEF TypeInv, TypeOK, Sending, OrderInv, Acknowledge, AwaitStatus, Known
  <2>2. /\ \A q \in Procs : pc'[q] = "sending" <=> pc[q] = "sending"
        /\ \A q \in Procs : pc[q] = "sending" => hand'[q] = hand[q]
    BY <1>2 DEF TypeInv, TypeOK, Acknowledge, AwaitStatus, Finish, Goto
  <2> QED BY <2>1, <2>2, OnceStutters DEF InHand
<1>3. ASSUME NEW p \in Procs, Submit(p) PROVE Once!Next
  <2>1. PICK o \in NextOrder : /\ row' = [row EXCEPT ![o] = "pending"]
                               /\ hand' = [hand EXCEPT ![p] = o]
    BY <1>3 DEF Submit
  <2>2. /\ o \in Orders /\ row[o] = "none" /\ UNCHANGED work
        /\ pc[p] = "idle" /\ pc' = [pc EXCEPT ![p] = "sending"]
    BY <1>3, <2>1 DEF Submit, Ready, Goto, NextOrder
  <2>3. \A x \in Orders \ {o} : (Known(x)' <=> Known(x)) /\ (InHand(x)' <=> InHand(x))
    <3>1. \A x \in Orders \ {o} : Known(x)' <=> Known(x)
      BY <2>1 DEF Known, TypeInv, TypeOK
    <3>2. \A q \in Procs \ {p} : pc'[q] = pc[q] /\ hand'[q] = hand[q]
      BY <2>1, <2>2 DEF TypeInv, TypeOK
    <3>3. hand'[p] = o
      BY <2>1 DEF TypeInv, TypeOK
    <3> QED BY <2>2, <3>1, <3>2, <3>3 DEF InHand
  <2>4. fate[o] = "open" /\ fate'[o] = "committed"
    <3>1. Known(o)' /\ InHand(o)'
      BY <2>1, <2>2 DEF Known, InHand, TypeInv, TypeOK
    <3> QED BY <2>2, <3>1 DEF fate, Known
  <2>5. UNCHANGED sent
    BY <2>2 DEF sent
  <2> QED BY <2>2, <2>3, <2>4, <2>5, OnceMoves DEF Once!Next, Once!Commit
<1>4. ASSUME NEW p \in Procs, SendFails(p) PROVE Once!Next
  <2>1. /\ pc[p] = "sending" /\ pc'[p] # "sending"
        /\ \A q \in Procs \ {p} : pc'[q] = pc[q] /\ hand'[q] = hand[q]
        /\ \A o \in Orders : Known(o)' <=> Known(o)
        /\ UNCHANGED sent
    BY <1>4 DEF SendFails, Finish, Goto, TypeInv, TypeOK, Sending, OrderInv, Known, sent
  <2> QED BY <2>1, LettingGo DEF Once!Next, Once!Abandon
<1>5. ASSUME NEW p \in Procs, Send(p) PROVE Once!Next
  <2>1. /\ pc[p] = "sending" /\ pc'[p] # "sending"
        /\ \A q \in Procs \ {p} : pc'[q] = pc[q] /\ hand'[q] = hand[q]
        /\ \A o \in Orders : Known(o)' <=> Known(o)
    BY <1>5 DEF Send, Goto, TypeInv, TypeOK, Known
  <2>2. hand[p] \in Orders
    BY <2>1 DEF TypeInv, Sending
  <2>3. \A o \in Orders : work'[o] # "none" <=> work[o] # "none" \/ o = hand[p]
    BY <1>5, <2>2 DEF Send, TypeInv, TypeOK
  <2>4. sent' = sent \cup {hand[p]}
    BY <2>2, <2>3 DEF sent
  <2> QED BY <2>1, <2>4, LettingGo DEF Once!Next, Once!Deliver
<1>6. ASSUME NEW p \in Procs, Stop(p) PROVE [Once!Next]_(Once!vars)
  <2>1. /\ pc'[p] = "down" /\ UNCHANGED <<work, row>>
        /\ \A q \in Procs \ {p} : pc'[q] = pc[q] /\ hand'[q] = hand[q]
    BY <1>6 DEF Stop, Goto, TypeInv, TypeOK
  <2>2. /\ UNCHANGED sent
        /\ \A o \in Orders : Known(o)' <=> Known(o)
    BY <2>1 DEF sent, Known
  <2>3. CASE pc[p] = "sending"
    BY <2>1, <2>2, <2>3, LettingGo DEF Once!Next, Once!Abandon
  <2>4. CASE pc[p] # "sending"
    <3>1. \A o \in Orders : InHand(o)' <=> InHand(o)
      BY <2>1, <2>4 DEF InHand
    <3> QED BY <2>1, <2>2, <3>1, OnceStutters
  <2> QED BY <2>3, <2>4
<1>7. ASSUME NEW o \in Orders, Fill(o) \/ Cancel(o) PROVE UNCHANGED Once!vars
  <2>1. /\ UNCHANGED <<row, pc, hand>>
        /\ \A x \in Orders : work'[x] # "none" <=> work[x] # "none"
    BY <1>7 DEF Fill, Cancel, TypeInv, TypeOK
  <2> QED BY <2>1, OnceStutters DEF Known, InHand
<1>8. CASE UNCHANGED vars
  BY <1>8, OnceStutters DEF Known, InHand
<1> QED
  BY <1>1, <1>2, <1>3, <1>4, <1>5, <1>6, <1>7, <1>8 DEF Next, Reconcile, Trade

\* Reconciliation and the orders sized from its book implement TransmitOnce, for any
\* number of processes on the database and whatever crashes: the promise OrderPipeline
\* keeps, seen from the book's side.
THEOREM ImplementsTransmitOnce == Spec => SendsOnce
  BY TypeInit, TypeNext, OrderInit, OrderNext, OnceInit, OnceNext, PTL
     DEF Spec, SendsOnce, Once!Spec

-----------------------------------------------------------------------------
(* The book against the recorded executions: one process, one life.  A     *)
(* second process, or a restart between recording and adopting, loses a    *)
(* fill (run recon_restart), so the assumption is needed.                  *)

OneLife == OneProcess /\ MaxStarts = 1

\* Before its only start a process is down, and nothing is recorded or adopted; after
\* it, its book is the sum of the recorded executions.
BookInv ==
  /\ \A p \in Procs : starts[p] = 0 => pc[p] = "down" /\ fills = {} /\ saved = 0
  /\ BookReflectsFills

LEMMA BookInit == Init => BookInv
  BY DEF Init, BookInv, BookReflectsFills

\* What is added up does not change while no execution is recorded and no order that
\* has one is resized.
LEMMA SameSum ==
  ASSUME fills' = fills, \A o \in Orders : o \in fills => size'[o] = size[o]
  PROVE  Sum(fills)' = Sum(fills)
<1>1. [o \in Orders |-> IF o \in fills' THEN size'[o] ELSE 0]
        = [o \in Orders |-> IF o \in fills THEN size[o] ELSE 0]
  OBVIOUS
<1> QED BY <1>1 DEF Sum

\* Only an order without a row gets a size, and none of those has an execution.
LEMMA SizesStay ==
  ASSUME TypeInv, OrderInv, [Next]_vars
  PROVE  \A o \in Orders : o \in fills => size'[o] = size[o]
<1> DEFINE Stay == \A o \in Orders : o \in fills => size'[o] = size[o]
<1> SUFFICES Stay
  OBVIOUS
<1> USE DEF TypeInv, TypeOK, OrderInv, Known, vars, broker, database
<1>1. ASSUME NEW p \in Procs, Start(p) PROVE Stay
  BY <1>1 DEF Start, Goto
<1>2. ASSUME NEW p \in Procs, Stop(p) PROVE Stay
  BY <1>2 DEF Stop, Goto
<1>3. ASSUME NEW p \in Procs, BeginReconcile(p) PROVE Stay
  BY <1>3 DEF BeginReconcile, Goto
<1>4. ASSUME NEW p \in Procs, ReadAccount(p) PROVE Stay
  BY <1>4 DEF ReadAccount, Goto
<1>5. ASSUME NEW p \in Procs, AccountFails(p) PROVE Stay
  BY <1>5 DEF AccountFails, Goto
<1>6. ASSUME NEW p \in Procs, ReadPositions(p) PROVE Stay
  BY <1>6 DEF ReadPositions, Goto
<1>7. ASSUME NEW p \in Procs, ReadOrders(p) PROVE Stay
  BY <1>7 DEF ReadOrders, Goto
<1>8. ASSUME NEW p \in Procs, ReadFills(p) PROVE Stay
  BY <1>8 DEF ReadFills, Goto
<1>9. ASSUME NEW p \in Procs, ReadFails(p) PROVE Stay
  BY <1>9 DEF ReadFails, Conclude, Goto
<1>10. ASSUME NEW p \in Procs, Ingest(p) PROVE Stay
  BY <1>10 DEF Ingest
<1>11. ASSUME NEW p \in Procs, Compare(p) PROVE Stay
  BY <1>11 DEF Compare, Conclude, Goto
<1>12. ASSUME NEW p \in Procs, Submit(p) PROVE Stay
  BY <1>12 DEF Submit, Goto, NextOrder
<1>13. ASSUME NEW p \in Procs, Send(p) PROVE Stay
  BY <1>13 DEF Send, Goto
<1>14. ASSUME NEW p \in Procs, SendFails(p) PROVE Stay
  BY <1>14 DEF SendFails, Finish, Goto
<1>15. ASSUME NEW p \in Procs, Acknowledge(p) PROVE Stay
  BY <1>15 DEF Acknowledge, Finish, Goto
<1>16. ASSUME NEW p \in Procs, AwaitStatus(p) PROVE Stay
  BY <1>16 DEF AwaitStatus, Goto
<1>17. ASSUME NEW p \in Procs, AwaitTimesOut(p) PROVE Stay
  BY <1>17 DEF AwaitTimesOut, Goto
<1>18. ASSUME NEW o \in Orders, Fill(o) PROVE Stay
  BY <1>18 DEF Fill
<1>19. ASSUME NEW o \in Orders, Cancel(o) PROVE Stay
  BY <1>19 DEF Cancel
<1>20. CASE UNCHANGED vars
  BY <1>20
<1> QED
  BY <1>1, <1>2, <1>3, <1>4, <1>5, <1>6, <1>7, <1>8, <1>9, <1>10, <1>11, <1>12, <1>13,
     <1>14, <1>15, <1>16, <1>17, <1>18, <1>19, <1>20 DEF Next, Reconcile, Trade

LEMMA BookNext ==
  ASSUME OneLife
  PROVE  TypeInv /\ OrderInv /\ BookInv /\ [Next]_vars => BookInv'
<1> SUFFICES ASSUME TypeInv, OrderInv, BookInv, [Next]_vars PROVE BookInv'
  OBVIOUS
<1>a. \A p, q \in Procs : p = q
  BY DEF OneLife, OneProcess
<1>1. CASE \E p \in Procs : Ingest(p)
  <2>1. PICK p \in Procs : Ingest(p)
    BY <1>1
  <2>2. /\ pc' = pc /\ pc[p] # "down"
        /\ book'[p] - book[p] = Sum(fills)' - Sum(fills)
    BY <2>1, IngestMovesOne
  <2>3. book[p] = Sum(fills)
    BY <2>2 DEF BookInv, BookReflectsFills
  <2>4. book'[p] \in Int /\ Sum(fills)' \in Int /\ Sum(fills) \in Int
    <3>1. TypeOK /\ TypeOK'
      BY TypeNext DEF TypeInv
    <3>2. [o \in Orders |-> IF o \in fills' THEN size'[o] ELSE 0] \in [Orders -> Int]
      BY <3>1 DEF TypeOK
    <3>3. Sum(fills)' \in Int
      BY <3>2, TotalInt DEF Sum
    <3> QED BY <3>1, <3>3, SumInt DEF TypeOK
  <2>5. book'[p] = Sum(fills)'
    BY <2>2, <2>3, <2>4
  <2>6. starts' = starts
    BY <2>1 DEF Ingest
  <2> QED BY <1>a, <2>2, <2>5, <2>6 DEF BookInv, BookReflectsFills
<1>2. ASSUME \A p \in Procs : ~ Ingest(p) PROVE BookInv'
  <2>1. /\ fills' = fills
        /\ \A q \in Procs : pc[q] # "down" /\ pc'[q] # "down" => book'[q] = book[q]
    BY <1>2, OnlyIngestMovesBooks
  <2>2. Sum(fills)' = Sum(fills)
    BY <2>1, SizesStay, SameSum
  <2>3. \A p \in Procs : starts'[p] = 0 => starts[p] = 0 /\ pc'[p] = pc[p] /\ saved' = saved
    <3>1. ASSUME NEW p \in Procs, Start(p) PROVE starts'[p] # 0
      BY <3>1 DEF Start, TypeInv, TypeOK
    <3>2. ASSUME NEW p \in Procs, pc[p] = "down", ~ Start(p)
          PROVE  starts' = starts /\ pc'[p] = pc[p] /\ saved' = saved
      <4> USE <1>a, <3>2 DEF vars, broker, database
      <4>1. ASSUME NEW o \in Orders, Fill(o) \/ Cancel(o)
            PROVE  starts' = starts /\ pc'[p] = pc[p] /\ saved' = saved
        BY <4>1 DEF Fill, Cancel
      <4>2. ~ Stop(p) /\ ~ Reconcile(p) /\ ~ Trade(p)
        BY DEF Stop, Reconcile, BeginReconcile, ReadAccount, AccountFails, ReadPositions,
           ReadOrders, ReadFills, ReadFails, Ingest, Compare, Trade, Submit, Ready, Send,
           SendFails, Acknowledge, AwaitStatus, AwaitTimesOut
      <4> QED BY <4>1, <4>2 DEF Next
    <3>3. \A p \in Procs : ~ Start(p) => starts' = starts
      <4> USE <1>a DEF vars, broker, database
      <4> QED
        BY DEF Next, Fill, Cancel, Stop, Reconcile, BeginReconcile, ReadAccount, AccountFails,
           ReadPositions, ReadOrders, ReadFills, ReadFails, Ingest, Compare, Conclude, Trade,
           Submit, Send, SendFails, Acknowledge, AwaitStatus, AwaitTimesOut
    <3> QED BY <3>1, <3>2, <3>3 DEF BookInv
  <2>4. \A p \in Procs : pc[p] = "down" /\ pc'[p] # "down" => book'[p] = Sum(fills)
    <3> SUFFICES ASSUME NEW p \in Procs, pc[p] = "down", pc'[p] # "down"
                 PROVE  book'[p] = Sum(fills)
      OBVIOUS
    <3>1. Start(p)
      <4> USE <1>a DEF vars, broker, database
      <4> QED
        BY DEF Next, Fill, Cancel, Stop, Reconcile, BeginReconcile, ReadAccount, AccountFails,
           ReadPositions, ReadOrders, ReadFills, ReadFails, Ingest, Compare, Trade,
           Submit, Ready, Send, SendFails, Acknowledge, AwaitStatus, AwaitTimesOut
    <3>2. starts[p] = 0 /\ book'[p] = saved
      BY <3>1 DEF Start, OneLife, TypeInv, TypeOK
    <3>3. fills = {} /\ saved = 0
      BY <3>2 DEF BookInv
    <3>4. Sum(fills) = 0
      <4>1. \A o \in Orders : [x \in Orders |-> IF x \in fills THEN size[x] ELSE 0][o] = 0
        BY <3>3
      <4> QED BY <4>1, TotalZero DEF Sum
    <3> QED BY <3>2, <3>3, <3>4
  <2> QED BY <2>1, <2>2, <2>3, <2>4 DEF BookInv, BookReflectsFills
<1> QED BY <1>1, <1>2

\* "Already known; the book already reflects it" (_ingest_fills) is true of one process
\* in one life: its book is at all times the sum of the executions in the fills table,
\* whatever fails, for every number and size of orders.
THEOREM BookIsTheFills ==
  ASSUME OneLife
  PROVE  Spec => []BookReflectsFills
<1>1. BookInv => BookReflectsFills
  BY DEF BookInv
<1> QED BY <1>1, TypeInit, TypeNext, OrderInit, OrderNext, BookInit, BookNext, PTL DEF Spec

-----------------------------------------------------------------------------
(* The book against the broker, across restarts: one process, IBKR's way   *)
(* of filling, any number of open orders.                                  *)

TrustedProcess == OneProcess /\ ~ InstantFill

\* Nothing else is open than the order in hand.
NoneOpenBut(o) == \A x \in Orders \ {o} : ~ Open(x)

\* The position read stays the position while no row is open, and so does the book
\* from its adoption on; a send that fails leaves nothing else open than there was.
Trust(p) ==
  /\ pc[p] \in {"orders", "fills", "ingest"} /\ NoneOpen => snap[p].position = position
  /\ pc[p] = "idle" /\ verdict[p] /\ NoneOpen => book[p] = position
  /\ pc[p] = "sending" /\ NoneOpenBut(hand[p]) => book[p] = position

TrustInv == \A p \in Procs : Trust(p)

LEMMA TrustInit == Init => TrustInv
  BY DEF Init, TrustInv, Trust

LEMMA TrustNext ==
  ASSUME TrustedProcess
  PROVE  TypeInv /\ SafeInv /\ TrustInv /\ [Next]_vars => TrustInv'
<1> SUFFICES ASSUME TypeInv, SafeInv, TrustInv, [Next]_vars PROVE TrustInv'
  OBVIOUS
<1> USE DEF TrustedProcess, OneProcess, TypeInv, TypeOK, Sending, Snapshot, SafeInv, Recorded,
        Unsent, HandIs, TrustInv, Trust, NoneOpen, NoneOpenBut, Open, vars, broker, database
<1>1. ASSUME NEW p \in Procs, Start(p) PROVE TrustInv'
  BY <1>1 DEF Start, Goto
<1>2. ASSUME NEW p \in Procs, Stop(p) PROVE TrustInv'
  BY <1>2 DEF Stop, Goto
<1>3. ASSUME NEW p \in Procs, BeginReconcile(p) PROVE TrustInv'
  BY <1>3 DEF BeginReconcile, Goto
<1>4. ASSUME NEW p \in Procs, ReadAccount(p) PROVE TrustInv'
  BY <1>4 DEF ReadAccount, Goto
<1>5. ASSUME NEW p \in Procs, AccountFails(p) PROVE TrustInv'
  BY <1>5 DEF AccountFails, Goto
<1>6. ASSUME NEW p \in Procs, ReadPositions(p) PROVE TrustInv'
  BY <1>6 DEF ReadPositions, Goto
<1>7. ASSUME NEW p \in Procs, ReadOrders(p) PROVE TrustInv'
  BY <1>7 DEF ReadOrders, Goto
<1>8. ASSUME NEW p \in Procs, ReadFills(p) PROVE TrustInv'
  BY <1>8 DEF ReadFills, Goto
<1>9. ASSUME NEW p \in Procs, ReadFails(p) PROVE TrustInv'
  BY <1>9 DEF ReadFails, Conclude, Goto
<1>10. ASSUME NEW p \in Procs, Ingest(p) PROVE TrustInv'
  BY <1>10 DEF Ingest
<1>11. ASSUME NEW p \in Procs, Compare(p) PROVE TrustInv'
  <2>1. PICK ok \in BOOLEAN :
          /\ verdict' = [verdict EXCEPT ![p] = ok]
          /\ book' = [book EXCEPT ![p] = IF ok THEN snap[p].position ELSE @]
    BY <1>11 DEF Compare, Conclude
  <2>2. /\ pc[p] = "ingest" /\ UNCHANGED <<position, row>>
        /\ pc'[p] \in {"idle", "exit"}
    BY <1>11 DEF Compare, Conclude, Goto
  <2>3. verdict'[p] /\ NoneOpen => book'[p] = position
    BY <2>1, <2>2
  <2> QED BY <2>2, <2>3
<1>12. ASSUME NEW p \in Procs, Submit(p) PROVE TrustInv'
  BY <1>12 DEF Submit, Goto, Ready, NextOrder
<1>13. ASSUME NEW p \in Procs, Send(p) PROVE TrustInv'
  BY <1>13 DEF Send, Goto
<1>14. ASSUME NEW p \in Procs, SendFails(p) PROVE TrustInv'
  BY <1>14 DEF SendFails, Finish, Goto
<1>15. ASSUME NEW p \in Procs, Acknowledge(p) PROVE TrustInv'
  BY <1>15 DEF Acknowledge, Finish, Goto
<1>16. ASSUME NEW p \in Procs, AwaitStatus(p) PROVE TrustInv'
  BY <1>16 DEF AwaitStatus, Goto
<1>17. ASSUME NEW p \in Procs, AwaitTimesOut(p) PROVE TrustInv'
  BY <1>17 DEF AwaitTimesOut, Goto
<1>18. ASSUME NEW o \in Orders, Fill(o) PROVE TrustInv'
  BY <1>18 DEF Fill
<1>19. ASSUME NEW o \in Orders, Cancel(o) PROVE TrustInv'
  BY <1>19 DEF Cancel
<1>20. CASE UNCHANGED vars
  BY <1>20
<1> QED
  BY <1>1, <1>2, <1>3, <1>4, <1>5, <1>6, <1>7, <1>8, <1>9, <1>10, <1>11, <1>12, <1>13,
     <1>14, <1>15, <1>16, <1>17, <1>18, <1>19, <1>20 DEF Next, Reconcile, Trade

\* A process alone on its database that may trade and lists no open order believes in
\* the position the broker holds: for any number of orders open at a time, any limits,
\* and whatever fill an earlier life recorded and lost.
THEOREM BookCanBeTrusted ==
  ASSUME TrustedProcess
  PROVE  Spec => []TrustedBook
<1>1. TrustInv => TrustedBook
  BY DEF TrustInv, Trust, TrustedBook, Ready, OpenRows, NoneOpen, Open
<1>2. OneProcess
  BY DEF TrustedProcess
<1> QED BY <1>1, <1>2, TypeInit, TypeNext, SafeInit, SafeNext, TrustInit, TrustNext, PTL DEF Spec

=============================================================================
