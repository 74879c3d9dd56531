----------------------------- MODULE Lifecycle -----------------------------
(***************************************************************************)
(* The trading process as a state machine: TradingApplication's main loop  *)
(* (connect, reconcile, resolve and subscribe, the reconcile timer, the    *)
(* tick), the flags a trade depends on, and the world that changes under   *)
(* it: the broker session drops, another process latches the kill switch,  *)
(* quotes age, the process dies.                                           *)
(*                                                                         *)
(* One coroutine runs the loop, so the code between two awaits is one      *)
(* step.  What a reconciliation compares is Reconciliation's subject, what *)
(* an order goes through OrderPipeline's; here they succeed or fail.  Any  *)
(* trading mode but disabled, which has no broker and no steps.            *)
(***************************************************************************)
EXTENDS Integers

CONSTANTS
  Ibkr,             \* the IBKR adapter (it remembers subscriptions) or the mock
  TransmitAllowed,  \* ALLOW_ORDER_TRANSMIT
  ReconcileTimer,   \* RECONCILE_INTERVAL_SECONDS > 0
  MaxAttempts,      \* RECONNECT_MAX_ATTEMPTS, 0 for no limit
  MaxExponent,      \* the last power of the backoff multiplier a float holds
  MaxSessions,      \* bound: broker sessions explored
  MaxStarts         \* bound: process starts explored

ASSUME LifecycleAssumption ==
  /\ Ibkr \in BOOLEAN /\ TransmitAllowed \in BOOLEAN /\ ReconcileTimer \in BOOLEAN
  /\ MaxAttempts \in Nat /\ MaxExponent \in Nat
  /\ MaxSessions \in Nat /\ MaxStarts \in Nat

VARIABLES
  state,       \* ApplicationState
  pc,          \* where the loop stands
  caller,      \* who runs _reconcile: "connect" or "timer"
  attempt,     \* _connect_attempt
  session,     \* broker sessions so far: the number of the latest one
  up,          \* broker.is_connected()
  account,     \* self.account is not None
  recon,       \* self.reconciliation: never run, succeeded, failed
  reconOf,     \* history: the session whose state it succeeded against
  contract,    \* self.contract is not None
  resolved,    \* ContractResolver's cache has it
  subscribed,  \* MarketDataManager._subscribed has it
  quote,       \* MarketDataManager._quotes: session it came from (0: none), freshness
  asked,       \* IBKRBroker._market_data_requests: session it was asked in (0: none)
  due,         \* the reconcile deadline has passed
  latch,       \* the kill switch is latched in the database, or configured
  readable,    \* the latch can be read
  late,        \* history: orders sent after the latch (two stands for more)
  starts       \* process starts so far

conn == <<attempt, session, up>>
trust == <<account, recon, reconOf>>
market == <<contract, resolved, subscribed, quote, asked>>
switch == <<latch, readable>>
vars == <<state, pc, caller, conn, trust, market, due, switch, late, starts>>

-----------------------------------------------------------------------------
States == {"STARTING", "CONNECTING", "DISCONNECTED", "RECONCILING", "SAFE",
           "HALTED", "READY", "ERROR"}

Steps == {"top", "connect", "account", "reads", "resolve", "subscribe", "timer",
          "tick", "poll", "intent", "place", "stopped"}

NoQuote == [of |-> 0, fresh |-> FALSE]

Flags ==
  /\ up \in BOOLEAN /\ account \in BOOLEAN /\ due \in BOOLEAN
  /\ contract \in BOOLEAN /\ resolved \in BOOLEAN /\ subscribed \in BOOLEAN
  /\ latch \in BOOLEAN /\ readable \in BOOLEAN

TypeOK ==
  /\ Flags
  /\ state \in States /\ pc \in Steps /\ caller \in {"connect", "timer"}
  /\ attempt \in 0 .. MaxExponent + 2 /\ session \in 0 .. MaxSessions
  /\ recon \in {"none", "ok", "failed"} /\ reconOf \in 0 .. MaxSessions
  /\ quote \in [of : 0 .. MaxSessions, fresh : BOOLEAN] /\ asked \in 0 .. MaxSessions
  /\ late \in 0 .. 2 /\ starts \in 0 .. MaxStarts

Init ==
  /\ state = "STARTING" /\ pc = "top" /\ caller = "connect"
  /\ attempt = 0 /\ session = 0 /\ up = FALSE
  /\ account = FALSE /\ recon = "none" /\ reconOf = 0
  /\ contract = FALSE /\ resolved = FALSE /\ subscribed = FALSE
  /\ quote = NoQuote /\ asked = 0
  /\ due = FALSE /\ latch \in BOOLEAN /\ readable = TRUE
  /\ late = 0 /\ starts = 0

\* KillSwitch.engaged: a latch that cannot be read counts as engaged.
Engaged == latch \/ ~ readable

\* _compute_ready_state after a reconciliation that succeeded.
ReadyState_IgnoresSwitch == IF ~ TransmitAllowed THEN "SAFE" ELSE "READY"
ReadyState == IF Engaged THEN "HALTED" ELSE IF ~ TransmitAllowed THEN "SAFE" ELSE "READY"

-----------------------------------------------------------------------------
(* Connecting.                                                             *)

LoopConnects ==
  /\ pc = "top" /\ ~ up
  /\ state' = "CONNECTING" /\ pc' = "connect"
  /\ attempt' = attempt + 1
  /\ UNCHANGED <<caller, session, up, trust, market, due, switch, late, starts>>

LoopStaysConnected ==
  /\ pc = "top" /\ up
  /\ pc' = "timer"
  /\ UNCHANGED <<state, caller, conn, trust, market, due, switch, late, starts>>

\* The new session is reconciled at once (_after_connect).
ConnectSucceeds_KeepsAttempt ==
  /\ pc = "connect" /\ session < MaxSessions
  /\ session' = session + 1 /\ up' = TRUE
  /\ state' = "RECONCILING" /\ pc' = "account" /\ caller' = "connect"
  /\ UNCHANGED <<attempt, trust, market, due, switch, late, starts>>

ConnectSucceeds_TrustsLast ==
  /\ pc = "connect" /\ session < MaxSessions
  /\ session' = session + 1 /\ up' = TRUE /\ attempt' = 0
  /\ IF recon = "ok" THEN state' = ReadyState /\ pc' = "timer" /\ UNCHANGED caller
                     ELSE state' = "RECONCILING" /\ pc' = "account" /\ caller' = "connect"
  /\ UNCHANGED <<trust, market, due, switch, late, starts>>

ConnectSucceeds ==
  /\ pc = "connect" /\ session < MaxSessions
  /\ session' = session + 1 /\ up' = TRUE /\ attempt' = 0
  /\ state' = "RECONCILING" /\ pc' = "account" /\ caller' = "connect"
  /\ UNCHANGED <<trust, market, due, switch, late, starts>>

\* A BrokerError.  (Neither adapter refuses a connection for permission reasons, so the
\* branch for that is not reachable and not here.)  A session that got as far as the
\* handshake is torn down, which forgets the subscriptions.  The delay is a power of the
\* attempt number, computed before the limit is looked at; past the range of a float it
\* is an exception, which ends run().
ConnectFails ==
  /\ pc = "connect"
  /\ asked' \in {asked, 0}
  /\ \/ /\ attempt - 1 <= MaxExponent
        /\ state' = "DISCONNECTED"
        /\ pc' = IF MaxAttempts # 0 /\ attempt >= MaxAttempts THEN "stopped" ELSE "top"
     \/ /\ attempt - 1 > MaxExponent
        /\ state' = "ERROR" /\ pc' = "stopped"
  /\ UNCHANGED <<caller, conn, trust, contract, resolved, subscribed, quote, due,
                 switch, late, starts>>

-----------------------------------------------------------------------------
(* _reconcile, from _after_connect or from the timer.                      *)

TimerNotDue ==
  /\ pc = "timer" /\ ~ due
  /\ pc' = "tick"
  /\ UNCHANGED <<state, caller, conn, trust, market, due, switch, late, starts>>

BeginPeriodic_KeepsState ==
  /\ pc = "timer" /\ due
  /\ due' = FALSE
  /\ pc' = "account" /\ caller' = "timer"
  /\ UNCHANGED <<state, conn, trust, market, switch, late, starts>>

BeginPeriodic ==
  /\ pc = "timer" /\ due
  /\ due' = FALSE
  /\ state' = "RECONCILING" /\ pc' = "account" /\ caller' = "timer"
  /\ UNCHANGED <<conn, trust, market, switch, late, starts>>

AccountRead ==
  /\ pc = "account" /\ up
  /\ account' = TRUE /\ pc' = "reads"
  /\ UNCHANGED <<state, caller, conn, recon, reconOf, market, due, switch, late, starts>>

AccountFails ==
  /\ pc = "account"
  /\ account' = FALSE /\ pc' = "reads"
  /\ UNCHANGED <<state, caller, conn, recon, reconOf, market, due, switch, late, starts>>

\* A read failed, there is no account summary, or the two sides disagree.
ReconcileFails ==
  /\ pc = "reads"
  /\ recon' = "failed" /\ reconOf' = 0
  /\ state' = "SAFE"
  /\ pc' = IF caller = "connect" THEN "timer" ELSE "tick"
  /\ UNCHANGED <<caller, conn, account, market, due, switch, late, starts>>

ReconcileSucceeds_OnlyFromSafe ==
  /\ pc = "reads" /\ up /\ account
  /\ recon' = "ok" /\ reconOf' = session
  /\ IF caller = "connect" THEN pc' = "resolve" /\ UNCHANGED state
     ELSE pc' = "tick" /\ state' = IF state = "SAFE" THEN ReadyState ELSE state
  /\ UNCHANGED <<caller, conn, account, market, due, switch, late, starts>>

ReconcileSucceeds ==
  /\ pc = "reads" /\ up /\ account
  /\ recon' = "ok" /\ reconOf' = session
  /\ IF caller = "connect" THEN pc' = "resolve" /\ UNCHANGED state
                           ELSE pc' = "tick" /\ state' = ReadyState
  /\ UNCHANGED <<caller, conn, account, market, due, switch, late, starts>>

-----------------------------------------------------------------------------
(* _resolve_contract and the first poll.                                   *)

Resolve ==
  /\ pc = "resolve" /\ (resolved \/ up)
  /\ contract' = TRUE /\ resolved' = TRUE /\ subscribed' = TRUE
  /\ IF subscribed THEN pc' = "timer" /\ state' = ReadyState
                   ELSE pc' = "subscribe" /\ UNCHANGED state
  /\ UNCHANGED <<caller, conn, trust, quote, asked, due, switch, late, starts>>

\* The state is computed all the same.
ResolveFails ==
  /\ pc = "resolve" /\ ~ resolved
  /\ contract' = FALSE
  /\ pc' = "timer" /\ state' = ReadyState
  /\ UNCHANGED <<caller, conn, trust, resolved, subscribed, quote, asked, due, switch,
                 late, starts>>

\* What request_market_data leaves in the adapter when it brings no price: its request
\* id, or none when that id was refused.  The id of an earlier session is taken for one
\* of this (where it may have been refused as the id of some other request).
AskedAfter ==
  IF Ibkr /\ up THEN {0, IF asked = 0 THEN session ELSE asked} ELSE {asked}

CanPrice == up /\ (Ibkr => asked \in {0, session})
Price ==
  /\ CanPrice
  /\ quote' = [of |-> session, fresh |-> TRUE]
  /\ asked' = IF Ibkr THEN session ELSE asked

NoPrice == asked' \in AskedAfter /\ UNCHANGED quote

FirstPoll ==
  /\ pc = "subscribe"
  /\ Price \/ NoPrice
  /\ pc' = "timer" /\ state' = ReadyState
  /\ UNCHANGED <<caller, conn, trust, contract, resolved, subscribed, due, switch, late,
                 starts>>

-----------------------------------------------------------------------------
(* _tick.                                                                  *)

\* _handle_disconnect.
TickDisconnected ==
  /\ pc = "tick" /\ ~ up
  /\ state' = "SAFE" /\ recon' = "none" /\ reconOf' = 0 /\ account' = FALSE
  /\ quote' = NoQuote /\ subscribed' = FALSE /\ contract' = FALSE
  /\ pc' = "top"
  /\ UNCHANGED <<caller, conn, resolved, asked, due, switch, late, starts>>

TickBegins ==
  /\ pc = "tick" /\ up
  /\ pc' = IF contract THEN "poll" ELSE "top"
  /\ UNCHANGED <<state, caller, conn, trust, market, due, switch, late, starts>>

TickPolls_OldQuote ==
  /\ pc = "poll"
  /\ \/ Price /\ pc' \in IF Engaged THEN {"top"} ELSE {"intent", "top"}
     \/ /\ NoPrice
        /\ pc' \in IF Engaged \/ ~ quote.fresh THEN {"top"} ELSE {"intent", "top"}
  /\ state' = IF Engaged THEN "HALTED" ELSE state
  /\ UNCHANGED <<caller, conn, trust, contract, resolved, subscribed, due, switch, late,
                 starts>>

\* poll_all, the kill switch, and the strategy if there is a quote to show it.
TickPolls ==
  /\ pc = "poll"
  /\ \/ Price /\ pc' \in IF Engaged THEN {"top"} ELSE {"intent", "top"}
     \/ NoPrice /\ pc' = "top"
  /\ state' = IF Engaged THEN "HALTED" ELSE state
  /\ UNCHANGED <<caller, conn, trust, contract, resolved, subscribed, due, switch, late,
                 starts>>

\* After an intent, the next one of the same tick or the end of it.
NextIntent == pc' \in {"intent", "top"}

\* Risk and gate, as far as they depend on what is modelled here.
Approve_NoSwitch ==
  /\ pc = "intent"
  /\ state = "READY" /\ up /\ account /\ recon = "ok" /\ contract
  /\ quote.fresh /\ TransmitAllowed
  /\ pc' = "place"
  /\ UNCHANGED <<state, caller, conn, trust, market, due, switch, late, starts>>

Approve ==
  /\ pc = "intent"
  /\ state = "READY" /\ up /\ account /\ recon = "ok" /\ contract
  /\ quote.fresh /\ TransmitAllowed /\ ~ Engaged
  /\ pc' = "place"
  /\ UNCHANGED <<state, caller, conn, trust, market, due, switch, late, starts>>

\* For one of the above or for any other reason.
Refuse ==
  /\ pc = "intent" /\ NextIntent
  /\ UNCHANGED <<state, caller, conn, trust, market, due, switch, late, starts>>

Place ==
  /\ pc = "place" /\ up
  /\ late' = IF latch /\ late < 2 THEN late + 1 ELSE late
  /\ NextIntent
  /\ UNCHANGED <<state, caller, conn, trust, market, due, switch, starts>>

PlaceFails ==
  /\ pc = "place" /\ NextIntent
  /\ UNCHANGED <<state, caller, conn, trust, market, due, switch, late, starts>>

-----------------------------------------------------------------------------
(* What the process does not control.                                      *)

Drop ==
  /\ up /\ session < MaxSessions
  /\ up' = FALSE
  /\ UNCHANGED <<state, pc, caller, attempt, session, trust, market, due, switch, late,
                 starts>>

TimerExpires ==
  /\ ReconcileTimer /\ ~ due
  /\ due' = TRUE
  /\ UNCHANGED <<state, pc, caller, conn, trust, market, switch, late, starts>>

QuoteAges ==
  /\ quote.fresh
  /\ quote' = [of |-> quote.of, fresh |-> FALSE]
  /\ UNCHANGED <<state, pc, caller, conn, trust, contract, resolved, subscribed, asked,
                 due, switch, late, starts>>

\* The kill-switch-on command, from another process; there is no way back.
LatchSwitch ==
  /\ ~ latch
  /\ latch' = TRUE
  /\ UNCHANGED <<state, pc, caller, conn, trust, market, due, readable, late, starts>>

LatchUnreadable ==
  /\ readable' = ~ readable
  /\ UNCHANGED <<state, pc, caller, conn, trust, market, due, latch, late, starts>>

\* SIGTERM, noticed at the top of the loop.
Stop ==
  /\ pc = "top"
  /\ pc' = "stopped"
  /\ UNCHANGED <<state, caller, conn, trust, market, due, switch, late, starts>>

\* An exception nobody expected (the database, while fills are ingested, the contract
\* is stored or an intent is handled) ends run().
Fatal ==
  /\ pc \in {"reads", "resolve", "intent", "place"}
  /\ state' = "ERROR" /\ pc' = "stopped"
  /\ UNCHANGED <<caller, conn, trust, market, due, switch, late, starts>>

\* After any end, or a crash at any point: a new process.
Restart ==
  /\ starts < MaxStarts /\ session < MaxSessions
  /\ starts' = starts + 1
  /\ state' = "STARTING" /\ pc' = "top" /\ caller' = "connect"
  /\ attempt' = 0 /\ up' = FALSE
  /\ account' = FALSE /\ recon' = "none" /\ reconOf' = 0
  /\ contract' = FALSE /\ resolved' = FALSE /\ subscribed' = FALSE
  /\ quote' = NoQuote /\ asked' = 0 /\ due' = FALSE
  /\ UNCHANGED <<session, switch, late>>

-----------------------------------------------------------------------------
Connecting ==
  LoopConnects \/ LoopStaysConnected \/ ConnectSucceeds \/ ConnectFails
Reconciling ==
  \/ TimerNotDue \/ BeginPeriodic \/ AccountRead \/ AccountFails
  \/ ReconcileFails \/ ReconcileSucceeds \/ Resolve \/ ResolveFails \/ FirstPoll
Ticking ==
  TickDisconnected \/ TickBegins \/ TickPolls \/ Approve \/ Refuse \/ Place \/ PlaceFails
Loop == Connecting \/ Reconciling \/ Ticking

World ==
  Drop \/ TimerExpires \/ QuoteAges \/ LatchSwitch \/ LatchUnreadable \/ Stop \/ Fatal
  \/ Restart

Next == Loop \/ World

Spec == Init /\ [][Next]_vars

\* The loop runs (every await in it has a timeout or ends by itself) and the clock
\* reaches the reconcile deadline.
Fairness == WF_vars(Loop) /\ WF_vars(TimerExpires)

\* A poll that could bring a price and does not.
Quiet == pc \in {"subscribe", "poll"} /\ pc' # pc /\ CanPrice /\ ~ quote'.fresh

\* The broker and the database are not for ever in the way.  (Drop and Restart are
\* bounded.)
TroubleEnds ==
  <>[][/\ ~ ConnectFails /\ ~ AccountFails /\ ~ ReconcileFails /\ ~ ResolveFails
       /\ ~ LatchUnreadable /\ ~ Fatal /\ ~ Quiet]_vars

FairSpec == Spec /\ Fairness /\ TroubleEnds

-----------------------------------------------------------------------------
(* Properties.                                                             *)

\* READY is earned: a reconciliation succeeded, with an account summary, and nothing
\* since has thrown either away (_reconcile, _handle_disconnect and the two places
\* that compute the state).
ReadyIsEarned == state = "READY" => recon = "ok" /\ account

\* An order about to be sent relies on a reconciliation with, and a quote from, the
\* session it goes to, although a drop noticed at the top of the loop leaves the
\* results of the session before in place.
TrustsThisSession == pc = "place" => reconOf = session /\ quote.of = session

\* After the kill switch is latched one order may still leave, the one whose risk
\* decision was already taken; no restart and no reconnection lets out another.
OneLateOrder == late <= 1

\* Once the switch is latched no reconciliation, reconnection, timer or restart makes the
\* process READY again, wherever in the loop the latch caught it (_compute_ready_state
\* at the end of _after_connect and of _maybe_reconcile).
NoReadyAfterLatch == [][latch /\ state' = "READY" => state = "READY"]_vars

Session == INSTANCE TradingSession
  WITH trusted <- reconOf, seen <- quote.of, order <- (pc = "place")

\* The loop implements TradingSession: what an order is approved on still holds when it
\* is handed over, for only the loop replaces it, and the loop is busy with the order.
ServesOneSession == Session!Spec

Running == pc # "stopped"

\* Recovery is automatic: a process that keeps running with the switch off is READY
\* again and again, once the broker stops failing (_maybe_reconcile).
RecoversToReady == []<>(state = "READY") \/ <>[](~ Running \/ Engaged)

\* A latched kill switch ends READY for good in a running process, whatever the loop
\* is doing.
HaltEndsReady == [](latch => <>[](Running => state # "READY"))

\* With no limit on attempts the process keeps trying to connect.
NeverGivesUp == [][MaxAttempts = 0 /\ pc = "connect" => pc' # "stopped"]_vars

\* A process that is READY again and again gets its contract.
ReadyGetsContract == []<>(Running /\ state = "READY") => <>contract

\* And if it has the contract, it sees fresh quotes again and again.
FeedResumes == []<>(Running /\ state = "READY" /\ contract) => []<>(quote.fresh)

=============================================================================
