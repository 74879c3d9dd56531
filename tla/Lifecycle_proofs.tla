-------------------------- MODULE Lifecycle_proofs --------------------------
(***************************************************************************)
(* What holds of the trading process for every configuration, any number   *)
(* of sessions and any number of restarts.                                 *)
(***************************************************************************)
EXTENDS Lifecycle, TLAPS

\* What is not a flag; the attempt number grows only on the way into a connect.
Values ==
  /\ state \in States /\ pc \in Steps /\ caller \in {"connect", "timer"}
  /\ attempt \in 0 .. MaxExponent + 2 /\ session \in 0 .. MaxSessions
  /\ pc \notin {"connect", "stopped"} => attempt <= MaxExponent + 1
  /\ recon \in {"none", "ok", "failed"} /\ reconOf \in 0 .. MaxSessions
  /\ quote \in [of : 0 .. MaxSessions, fresh : BOOLEAN] /\ asked \in 0 .. MaxSessions
  /\ late \in 0 .. 2 /\ starts \in 0 .. MaxStarts

\* READY is left before a reconciliation may take its grounds away, and between
\* a success and the state it leads to the grounds are there.
Earned ==
  /\ ReadyIsEarned
  /\ pc \in {"account", "reads"} => state = "RECONCILING"
  /\ pc \in {"resolve", "subscribe"} => recon = "ok" /\ account

\* A successful reconciliation is of this session except while the next one runs.
Trusting ==
  /\ recon = "ok" /\ pc \notin {"account", "reads", "stopped"} => reconOf = session
  /\ pc = "place" => recon = "ok"
  /\ pc \in {"intent", "place"} => quote.of = session

\* The one late order was the one in hand when the switch was latched.
Latched == late = 0 \/ (late = 1 /\ latch /\ pc # "place")

LEMMA ReadyStates == ReadyState \in {"HALTED", "SAFE", "READY"}
  BY DEF ReadyState

-----------------------------------------------------------------------------
LEMMA Bounds == {MaxExponent, MaxSessions, MaxStarts} \subseteq Nat
  BY LifecycleAssumption

LEMMA FlagsInit == Init => Flags
  BY Zenon DEF Init, Flags

LEMMA FlagsNext == Flags /\ [Next]_vars => Flags'
<1> SUFFICES ASSUME Flags, [Next]_vars PROVE Flags'
  OBVIOUS
<1> USE DEF Flags, conn, trust, market, switch
<1>1. CASE Connecting
  BY <1>1, Zenon DEF Connecting, LoopConnects, LoopStaysConnected, ConnectSucceeds,
              ConnectFails
<1>2. CASE Reconciling
  BY <1>2, Zenon DEF Reconciling, TimerNotDue, BeginPeriodic, AccountRead, AccountFails,
              ReconcileFails, ReconcileSucceeds, Resolve, ResolveFails, FirstPoll
<1>3. CASE Ticking
  BY <1>3, Zenon DEF Ticking, TickDisconnected, TickBegins, TickPolls, Approve, Refuse,
              Place, PlaceFails
<1>4. CASE World
  BY <1>4, Zenon DEF World, Drop, TimerExpires, QuoteAges, LatchSwitch, LatchUnreadable,
              Stop, Fatal, Restart
<1>5. CASE UNCHANGED vars
  BY <1>5, Zenon DEF vars
<1> QED BY <1>1, <1>2, <1>3, <1>4, <1>5 DEF Next, Loop

LEMMA ValuesInit == Init => Values
  BY Bounds DEF Init, Values, States, Steps, NoQuote

\* The two outcomes of a poll keep the market data well typed.
LEMMA PollTypes ==
  ASSUME Values, Price \/ NoPrice
  PROVE  /\ quote' \in [of : 0 .. MaxSessions, fresh : BOOLEAN]
         /\ asked' \in 0 .. MaxSessions
<1>1. CASE Price
  <2>1. quote' = [of |-> session, fresh |-> TRUE] /\ asked' \in {session, asked}
    BY <1>1, Zenon DEF Price
  <2> QED BY <2>1 DEF Values
<1>2. CASE NoPrice
  <2>1. quote' = quote /\ asked' \in {0, session, asked}
    BY <1>2, Zenon DEF NoPrice, AskedAfter
  <2> QED BY <2>1, Bounds DEF Values
<1> QED BY <1>1, <1>2

LEMMA ValuesNext == Values /\ [Next]_vars => Values'
<1> SUFFICES ASSUME Values, [Next]_vars PROVE Values'
  OBVIOUS
<1> USE Bounds DEF Values, States, Steps, conn, trust, market, switch
<1>1. CASE Connecting
  BY <1>1 DEF Connecting, LoopConnects, LoopStaysConnected, ConnectSucceeds,
              ConnectFails
<1>2. CASE Reconciling
  <2>1. CASE TimerNotDue \/ BeginPeriodic \/ AccountRead \/ AccountFails
    BY <2>1 DEF TimerNotDue, BeginPeriodic, AccountRead, AccountFails
  <2>2. CASE ReconcileFails \/ ReconcileSucceeds
    BY <2>2, ReadyStates DEF ReconcileFails, ReconcileSucceeds
  <2>3. CASE Resolve \/ ResolveFails
    BY <2>3, ReadyStates DEF Resolve, ResolveFails
  <2>4. CASE FirstPoll
    BY <2>4, ReadyStates, PollTypes DEF FirstPoll
  <2> QED BY <1>2, <2>1, <2>2, <2>3, <2>4 DEF Reconciling
<1>3. CASE Ticking
  <2>1. CASE TickDisconnected
    BY <2>1 DEF TickDisconnected, NoQuote
  <2>2. CASE TickBegins \/ Approve \/ Refuse \/ PlaceFails
    BY <2>2 DEF TickBegins, Approve, Refuse, PlaceFails, NextIntent
  <2>3. CASE TickPolls
    <3>1. pc' \in {"intent", "top"} /\ state' \in States
      BY <2>3 DEF TickPolls
    <3> QED BY <2>3, <3>1, PollTypes DEF TickPolls
  <2>4. CASE Place
    BY <2>4 DEF Place, NextIntent
  <2> QED BY <1>3, <2>1, <2>2, <2>3, <2>4 DEF Ticking
<1>4. CASE World
  <2>1. CASE QuoteAges
    BY <2>1 DEF QuoteAges
  <2>2. CASE Drop \/ TimerExpires \/ LatchSwitch \/ LatchUnreadable \/ Stop \/ Fatal
    BY <2>2 DEF Drop, TimerExpires, LatchSwitch, LatchUnreadable, Stop, Fatal
  <2>3. CASE Restart
    BY <2>3 DEF Restart, NoQuote
  <2> QED BY <1>4, <2>1, <2>2, <2>3 DEF World
<1>5. CASE UNCHANGED vars
  BY <1>5 DEF vars
<1> QED BY <1>1, <1>2, <1>3, <1>4, <1>5 DEF Next, Loop

\* Type correctness: every variable, and the attempt number that may take the backoff
\* delay out of range, stays where the loop can handle it.
THEOREM TypeCorrect == Spec => []TypeOK
<1>1. Flags /\ Values => TypeOK
  BY DEF Values, TypeOK
<1> QED BY <1>1, FlagsInit, FlagsNext, ValuesInit, ValuesNext, PTL DEF Spec

-----------------------------------------------------------------------------
LEMMA EarnedNext == Earned /\ [Next]_vars => Earned'
<1> SUFFICES ASSUME Earned, [Next]_vars PROVE Earned'
  OBVIOUS
<1> USE DEF Earned, ReadyIsEarned, conn, trust, market, switch
<1>1. CASE Connecting
  BY <1>1 DEF Connecting, LoopConnects, LoopStaysConnected, ConnectSucceeds,
              ConnectFails
<1>2. CASE Reconciling
  <2>1. CASE TimerNotDue \/ BeginPeriodic \/ AccountRead \/ AccountFails
    BY <2>1 DEF TimerNotDue, BeginPeriodic, AccountRead, AccountFails
  <2>2. CASE ReconcileFails \/ ReconcileSucceeds
    BY <2>2 DEF ReconcileFails, ReconcileSucceeds
  <2>3. CASE Resolve \/ ResolveFails \/ FirstPoll
    BY <2>3 DEF Resolve, ResolveFails, FirstPoll
  <2> QED BY <1>2, <2>1, <2>2, <2>3 DEF Reconciling
<1>3. CASE Ticking
  <2>1. CASE TickPolls
    <3>1. pc' \in {"intent", "top"} /\ state' \in {state, "HALTED"}
      BY <2>1 DEF TickPolls
    <3> QED BY <2>1, <3>1 DEF TickPolls
  <2>2. CASE Ticking /\ ~ TickPolls
    BY <2>2 DEF Ticking, TickDisconnected, TickBegins, Approve, Refuse, Place,
                PlaceFails, NextIntent
  <2> QED BY <1>3, <2>1, <2>2
<1>4. CASE World
  BY <1>4 DEF World, Drop, TimerExpires, QuoteAges, LatchSwitch, LatchUnreadable, Stop,
              Fatal, Restart
<1>5. CASE UNCHANGED vars
  BY <1>5 DEF vars
<1> QED BY <1>1, <1>2, <1>3, <1>4, <1>5 DEF Next, Loop

\* READY is only ever shown, and risk only ever sees it, on the grounds of a
\* reconciliation that succeeded and an account summary that is still there.
THEOREM ReadyAlwaysEarned == Spec => []ReadyIsEarned
<1>1. Init => Earned
  BY DEF Init, Earned, ReadyIsEarned
<1>2. Earned => ReadyIsEarned
  BY DEF Earned
<1> QED BY <1>1, <1>2, EarnedNext, PTL DEF Spec

-----------------------------------------------------------------------------
LEMMA TrustingNext == Trusting /\ [Next]_vars => Trusting'
<1> SUFFICES ASSUME Trusting, [Next]_vars PROVE Trusting'
  OBVIOUS
<1> USE DEF Trusting, conn, trust, market, switch
<1>1. CASE Connecting
  BY <1>1 DEF Connecting, LoopConnects, LoopStaysConnected, ConnectSucceeds,
              ConnectFails
<1>2. CASE Reconciling
  BY <1>2 DEF Reconciling, TimerNotDue, BeginPeriodic, AccountRead, AccountFails,
              ReconcileFails, ReconcileSucceeds, Resolve, ResolveFails, FirstPoll
<1>3. CASE Ticking
  <2>1. CASE TickPolls
    <3>1. pc' \in {"intent", "top"} /\ (pc' = "intent" => quote'.of = session)
      BY <2>1 DEF TickPolls, Price
    <3> QED BY <2>1, <3>1 DEF TickPolls
  <2>2. CASE Ticking /\ ~ TickPolls
    BY <2>2 DEF Ticking, TickDisconnected, TickBegins, Approve, Refuse, Place,
                PlaceFails, NextIntent
  <2> QED BY <1>3, <2>1, <2>2
<1>4. CASE World
  <2>1. CASE QuoteAges
    BY <2>1 DEF QuoteAges
  <2>2. CASE World /\ ~ QuoteAges
    BY <2>2 DEF World, Drop, TimerExpires, LatchSwitch, LatchUnreadable, Stop,
                Fatal, Restart
  <2> QED BY <1>4, <2>1, <2>2
<1>5. CASE UNCHANGED vars
  BY <1>5 DEF vars
<1> QED BY <1>1, <1>2, <1>3, <1>4, <1>5 DEF Next, Loop

\* Whatever a dropped session left behind, the order about to be sent relies on the
\* reconciliation and on the quote of the session it goes to.
THEOREM AlwaysTrustsThisSession == Spec => []TrustsThisSession
<1>1. Init => Trusting
  BY DEF Init, Trusting
<1>2. Trusting => TrustsThisSession
  BY DEF Trusting, TrustsThisSession
<1> QED BY <1>1, <1>2, TrustingNext, PTL DEF Spec

-----------------------------------------------------------------------------
LEMMA LatchedNext == Latched /\ [Next]_vars => Latched'
<1> SUFFICES ASSUME Latched, [Next]_vars PROVE Latched'
  OBVIOUS
<1> USE DEF Latched, conn, trust, market, switch
<1>1. CASE Connecting
  BY <1>1 DEF Connecting, LoopConnects, LoopStaysConnected, ConnectSucceeds,
              ConnectFails
<1>2. CASE Reconciling
  BY <1>2 DEF Reconciling, TimerNotDue, BeginPeriodic, AccountRead, AccountFails,
              ReconcileFails, ReconcileSucceeds, Resolve, ResolveFails, FirstPoll
<1>3. CASE Ticking
  BY <1>3 DEF Ticking, TickDisconnected, TickBegins, TickPolls, Approve, Engaged,
              Refuse, Place, PlaceFails, NextIntent
<1>4. CASE World
  BY <1>4 DEF World, Drop, TimerExpires, QuoteAges, LatchSwitch, LatchUnreadable, Stop,
              Fatal, Restart
<1>5. CASE UNCHANGED vars
  BY <1>5 DEF vars
<1> QED BY <1>1, <1>2, <1>3, <1>4, <1>5 DEF Next, Loop

\* The kill switch lets out no more than the order in hand, however often the process
\* reconnects or restarts.
THEOREM AtMostOneLateOrder == Spec => []OneLateOrder
<1>1. Init => Latched
  BY DEF Init, Latched
<1>2. Latched => OneLateOrder
  BY DEF Latched, OneLateOrder
<1> QED BY <1>1, <1>2, LatchedNext, PTL DEF Spec

-----------------------------------------------------------------------------
LEMMA ReadyNext == [Next]_vars => (latch /\ state' = "READY" => state = "READY")
<1> SUFFICES ASSUME [Next]_vars, latch PROVE state' = "READY" => state = "READY"
  OBVIOUS
<1>0. ReadyState # "READY"
  BY DEF ReadyState, Engaged
<1>1. CASE Connecting
  BY <1>1 DEF Connecting, LoopConnects, LoopStaysConnected, ConnectSucceeds,
              ConnectFails
<1>2. CASE Reconciling
  BY <1>0, <1>2 DEF Reconciling, TimerNotDue, BeginPeriodic, AccountRead, AccountFails,
              ReconcileFails, ReconcileSucceeds, Resolve, ResolveFails, FirstPoll
<1>3. CASE Ticking
  BY <1>3 DEF Ticking, TickDisconnected, TickBegins, TickPolls, Approve, Refuse, Place,
              PlaceFails
<1>4. CASE World
  BY <1>4 DEF World, Drop, TimerExpires, QuoteAges, LatchSwitch, LatchUnreadable, Stop,
              Fatal, Restart
<1>5. CASE UNCHANGED vars
  BY <1>5 DEF vars
<1> QED BY <1>1, <1>2, <1>3, <1>4, <1>5 DEF Next, Loop

\* Once the kill switch is latched no reconciliation, reconnection, timer or restart
\* makes the process READY again.
THEOREM LatchKeepsFromReady == Spec => NoReadyAfterLatch
  BY ReadyNext, PTL DEF Spec, NoReadyAfterLatch

-----------------------------------------------------------------------------
(* The loop implements TradingSession.                                     *)

\* What the steps of the loop need to be steps of TradingSession.
Serving == Trusting /\ Latched

LEMMA SessionInit == Init => Session!Init
  BY DEF Init, NoQuote, Session!Init

\* Before the order: knowledge is gained of this session, or lost.
LEMMA SessionLearns ==
  ASSUME pc # "place", pc' # "place", session' = session, latch' = latch, late' = late,
         reconOf' \in {reconOf, session, 0}, quote'.of \in {quote.of, session, 0}
  PROVE  Session!Learn
  BY DEF Session!Learn

LEMMA SessionNext == Serving /\ [Next]_vars => [Session!Next]_(Session!vars)
<1> SUFFICES ASSUME Serving, [Next]_vars PROVE [Session!Next]_(Session!vars)
  OBVIOUS
<1> USE DEF conn, trust, market, switch
<1>1. CASE ConnectSucceeds
  <2>1. Session!Connect
    BY <1>1 DEF ConnectSucceeds, Session!Connect
  <2> QED BY <2>1 DEF Session!Next
<1>2. CASE \/ LoopConnects \/ LoopStaysConnected \/ ConnectFails \/ TimerNotDue
           \/ BeginPeriodic \/ AccountRead \/ AccountFails \/ ReconcileFails
           \/ ReconcileSucceeds \/ Resolve \/ ResolveFails
  <2>1. Session!Learn
    BY <1>2, SessionLearns
       DEF LoopConnects, LoopStaysConnected, ConnectFails, TimerNotDue, BeginPeriodic,
           AccountRead, AccountFails, ReconcileFails, ReconcileSucceeds, Resolve,
           ResolveFails
  <2> QED BY <2>1 DEF Session!Next
<1>3. CASE FirstPoll \/ TickPolls \/ TickDisconnected \/ TickBegins \/ Refuse
  <2>1. pc # "place" /\ pc' # "place"
    BY <1>3 DEF FirstPoll, TickPolls, TickDisconnected, TickBegins, Refuse, NextIntent
  <2>2. session' = session /\ latch' = latch /\ late' = late
    BY <1>3 DEF FirstPoll, TickPolls, TickDisconnected, TickBegins, Refuse
  <2>3. reconOf' \in {reconOf, 0}
    BY <1>3 DEF FirstPoll, TickPolls, TickDisconnected, TickBegins, Refuse
  <2>4. quote'.of \in {quote.of, session, 0}
    BY <1>3 DEF FirstPoll, TickPolls, TickDisconnected, TickBegins, Refuse, Price,
                NoPrice, NoQuote
  <2>5. Session!Learn
    BY <2>1, <2>2, <2>3, <2>4, SessionLearns
  <2> QED BY <2>5 DEF Session!Next
<1>4. CASE Approve
  <2>1. reconOf = session /\ quote.of = session
    BY <1>4 DEF Approve, Serving, Trusting
  <2>2. Session!Approve
    BY <1>4, <2>1 DEF Approve, Engaged, Session!Approve
  <2> QED BY <2>2 DEF Session!Next
<1>5. CASE Place
  <2>1. late = 0
    BY <1>5 DEF Place, Serving, Latched
  <2>2. Session!HandOver
    BY <1>5, <2>1 DEF Place, NextIntent, Session!HandOver
  <2> QED BY <2>2 DEF Session!Next
<1>6. CASE PlaceFails
  <2>1. Session!Withdraw
    BY <1>6 DEF PlaceFails, NextIntent, Session!Withdraw
  <2> QED BY <2>1 DEF Session!Next
<1>7. CASE Fatal \/ Restart
  <2>1. /\ pc' # "place" /\ session' = session /\ latch' = latch /\ late' = late
        /\ reconOf' \in {reconOf, 0} /\ quote'.of \in {quote.of, 0}
    BY <1>7 DEF Fatal, Restart, NoQuote
  <2>2. CASE pc = "place"
    BY <2>1, <2>2 DEF Session!Withdraw, Session!Next
  <2>3. CASE pc # "place"
    BY <2>1, <2>3, SessionLearns DEF Session!Next
  <2> QED BY <2>2, <2>3
<1>8. CASE LatchSwitch
  <2>1. Session!Latch
    BY <1>8 DEF LatchSwitch, Session!Latch
  <2> QED BY <2>1 DEF Session!Next
\* What happens under an order in hand leaves what it was approved on alone.
<1>9. CASE Drop \/ TimerExpires \/ LatchUnreadable \/ QuoteAges \/ UNCHANGED vars
  BY <1>9 DEF Drop, TimerExpires, LatchUnreadable, QuoteAges, vars, Session!vars
<1>10. CASE Stop
  <2>1. Session!Learn
    BY <1>10, SessionLearns DEF Stop
  <2> QED BY <2>1 DEF Session!Next
<1> QED BY <1>1, <1>2, <1>3, <1>4, <1>5, <1>6, <1>7, <1>8, <1>9, <1>10
        DEF Next, Loop, Connecting, Reconciling, Ticking, World

\* Every order the process sends is approved on the books and the quote of the session it
\* goes to and handed over to that session, with one at most after the latch: the loop is
\* an implementation of the abstract trading session.
THEOREM ImplementsTradingSession == Spec => ServesOneSession
<1>1. Init => Serving
  BY DEF Init, Serving, Trusting, Latched
<1>2. Serving /\ [Next]_vars => Serving'
  BY TrustingNext, LatchedNext DEF Serving
<1> QED BY <1>1, <1>2, SessionInit, SessionNext, PTL
        DEF Spec, ServesOneSession, Session!Spec

=============================================================================
