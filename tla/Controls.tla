------------------------------ MODULE Controls ------------------------------
(***************************************************************************)
(* The pure part of the safety controls: what the environment is read as   *)
(* (Config.from_env), and the decisions taken from it: the risk manager,   *)
(* the transmit gate, the deployment posture and the preconditions of the  *)
(* read-only checkout.  Deployment puts them into a running system.        *)
(*                                                                         *)
(* Each check of the code is one operator, TRUE when it adds no reason.    *)
(***************************************************************************)
EXTENDS Integers

-----------------------------------------------------------------------------
(* The environment and the configuration.  A text is "absent", one of those *)
(* that mean something, or "garbage" for all the others.  The text of a     *)
(* number is the number; a negative one stands for all that is refused, and *)
(* 0 for absent as well, 0 being every default.                             *)

Modes == {"disabled", "mock", "paper", "live"}
Switches == {"ALLOW_ORDER_TRANSMIT", "LIVE_TRADING_ENABLED", "KILL_SWITCH",
             "SOL_FUTURES_PERMISSION_READY", "STRATEGY_ENABLED"}
Limits == {"MAX_POSITION_CONTRACTS", "MAX_ORDER_SIZE", "MAX_DAILY_LOSS_USD",
           "MAX_ORDERS_PER_HOUR", "MAX_OPEN_ORDERS", "MAX_NOTIONAL_EXPOSURE_USD"}
Numbers == Limits \cup {"MARKET_DATA_MAX_AGE_SECONDS"}

ModeTexts == Modes \cup {"absent", "garbage"}
SwitchTexts == {"absent", "true", "false", "garbage"}

Environment == [mode : ModeTexts, switch : [Switches -> SwitchTexts], number : [Numbers -> Int]]
Config == [mode : Modes, on : [Switches -> BOOLEAN], number : [Numbers -> Nat]]

\* The value of an absent switch.
\* Mutant: an absent kill switch is off.
Default_Bug(v) == v = "STRATEGY_ENABLED"
Default(v) == v \in {"KILL_SWITCH", "STRATEGY_ENABLED"}

ParseMode(text) == IF text = "absent" THEN "disabled" ELSE text
ParseBool(text, default) == IF text = "absent" THEN default ELSE text = "true"

\* Mutant: a mode nobody knows is let through.
Parses_Bug(env) ==
  /\ \A v \in Switches : env.switch[v] # "garbage"
  /\ \A v \in Numbers : env.number[v] >= 0

\* Every text can be read: otherwise ConfigError, and the process does not start.
Parses(env) ==
  /\ env.mode # "garbage"
  /\ \A v \in Switches : env.switch[v] # "garbage"
  /\ \A v \in Numbers : env.number[v] >= 0

FromEnv(env) ==
  [mode   |-> ParseMode(env.mode),
   on     |-> [v \in Switches |-> ParseBool(env.switch[v], Default(v))],
   number |-> env.number]

\* Config.validate refuses what is half armed.
\* Mutant: only one half of it.
Validate_Bug(c) == c.on["LIVE_TRADING_ENABLED"] => c.mode = "live"
Validate(c) == c.on["LIVE_TRADING_ENABLED"] <=> c.mode = "live"

Starts(env) == Parses(env) /\ Validate(FromEnv(env))

UsesIBKR(c) == c.mode \in {"paper", "live"}

-----------------------------------------------------------------------------
(* What the application knows when an intent is handled: the two contexts   *)
(* are built from it.  late is the time between the two readings of the age *)
(* of the quote, price that of one contract.                                *)

AccountTypes == {"SIMULATED", "PAPER", "LIVE", "UNKNOWN"}
Observation ==
  [app_state : {"READY", "SAFE", "HALTED"}, connected : BOOLEAN,
   account_type : AccountTypes, account_available : BOOLEAN,
   positions_reconciled : BOOLEAN, open_orders_reconciled : BOOLEAN,
   contract : {"none", "dated", "continuous", "unnumbered"},
   quoted : BOOLEAN, age : Int, late : Nat, is_delayed : BOOLEAN, price : Nat,
   broker_permission_ready : BOOLEAN, strategy_enabled : BOOLEAN,
   open_orders_count : Nat, orders_last_hour : Nat,
   current_position : Int, side : {1, -1}, quantity : Nat]

Abs(n) == IF n < 0 THEN -n ELSE n
ProjectedPosition(x) == x.current_position + x.side * x.quantity
Exposure(x) == Abs(ProjectedPosition(x)) * x.price

\* performance.get().total_pnl: the row of the day, all zeros when there is none, and
\* nothing in the program ever writes one.
DailyPnl == 0

ExpectedAccountType(mode) ==
  CASE mode = "mock"  -> "SIMULATED"
    [] mode = "paper" -> "PAPER"
    [] mode = "live"  -> "LIVE"
    [] OTHER          -> "none"

-----------------------------------------------------------------------------
(* The risk manager.                                                        *)

MasterControls(c, x, latched) ==
  /\ ~ latched /\ ~ c.on["KILL_SWITCH"]
  /\ c.on["ALLOW_ORDER_TRANSMIT"]
  /\ c.mode # "disabled"
  /\ c.on["STRATEGY_ENABLED"] /\ x.strategy_enabled

SystemState(x) ==
  /\ x.app_state = "READY" /\ x.connected
  /\ x.positions_reconciled /\ x.open_orders_reconciled

Account(c, x) ==
  /\ x.account_available
  /\ x.account_type # "UNKNOWN"
  /\ c.mode # "disabled" => x.account_type = ExpectedAccountType(c.mode)

Contract(x) == x.contract = "dated"

MarketData(c, x) ==
  /\ c.number["MARKET_DATA_MAX_AGE_SECONDS"] > 0
  /\ x.quoted /\ x.age >= 0
  /\ x.age <= c.number["MARKET_DATA_MAX_AGE_SECONDS"]

Permissions(c, x) ==
  /\ UsesIBKR(c) => c.on["SOL_FUTURES_PERMISSION_READY"]
  /\ x.broker_permission_ready

\* check_order_size ... check_notional_exposure: a limit of 0 permits nothing.
\* Mutant: the size of a short position is not looked at.
NumericLimits_Bug(c, x) ==
  /\ x.quantity > 0
  /\ \A l \in Limits : c.number[l] > 0
  /\ x.quantity <= c.number["MAX_ORDER_SIZE"]
  /\ ProjectedPosition(x) <= c.number["MAX_POSITION_CONTRACTS"]
  /\ DailyPnl > - c.number["MAX_DAILY_LOSS_USD"]
  /\ x.orders_last_hour < c.number["MAX_ORDERS_PER_HOUR"]
  /\ x.open_orders_count < c.number["MAX_OPEN_ORDERS"]
  /\ x.contract # "none" /\ x.quoted /\ x.price > 0
  /\ Exposure(x) <= c.number["MAX_NOTIONAL_EXPOSURE_USD"]

\* Mutant: a position limit of 0 is none.
NumericLimits_ZeroIsNone(c, x) ==
  /\ x.quantity > 0
  /\ \A l \in Limits \ {"MAX_POSITION_CONTRACTS"} : c.number[l] > 0
  /\ x.quantity <= c.number["MAX_ORDER_SIZE"]
  /\ \/ c.number["MAX_POSITION_CONTRACTS"] = 0
     \/ Abs(ProjectedPosition(x)) <= c.number["MAX_POSITION_CONTRACTS"]
  /\ DailyPnl > - c.number["MAX_DAILY_LOSS_USD"]
  /\ x.orders_last_hour < c.number["MAX_ORDERS_PER_HOUR"]
  /\ x.open_orders_count < c.number["MAX_OPEN_ORDERS"]
  /\ x.contract # "none" /\ x.quoted /\ x.price > 0
  /\ Exposure(x) <= c.number["MAX_NOTIONAL_EXPOSURE_USD"]

NumericLimits(c, x) ==
  /\ x.quantity > 0
  /\ \A l \in Limits : c.number[l] > 0
  /\ x.quantity <= c.number["MAX_ORDER_SIZE"]
  /\ Abs(ProjectedPosition(x)) <= c.number["MAX_POSITION_CONTRACTS"]
  /\ DailyPnl > - c.number["MAX_DAILY_LOSS_USD"]
  /\ x.orders_last_hour < c.number["MAX_ORDERS_PER_HOUR"]
  /\ x.open_orders_count < c.number["MAX_OPEN_ORDERS"]
  /\ x.contract # "none" /\ x.quoted /\ x.price > 0
  /\ Exposure(x) <= c.number["MAX_NOTIONAL_EXPOSURE_USD"]

RiskApproves(c, x, latched) ==
  /\ MasterControls(c, x, latched) /\ SystemState(x) /\ Account(c, x) /\ Contract(x)
  /\ MarketData(c, x) /\ Permissions(c, x) /\ NumericLimits(c, x)

-----------------------------------------------------------------------------
(* The transmit gate.  It has its own list, which knows nothing of the      *)
(* latched kill switch and of the limits; risk_approved is the constant     *)
(* TRUE in the context it is given.                                         *)

GateMode(c) ==
  /\ c.mode # "disabled"
  /\ c.mode = "live" => c.on["LIVE_TRADING_ENABLED"]

\* Mutant: an account whose type cannot be told passes.
GateAccount_Bug(c, x) ==
  x.account_type # "UNKNOWN" =>
    (c.mode # "disabled" => x.account_type = ExpectedAccountType(c.mode))
GateAccount(c, x) ==
  /\ x.account_type # "UNKNOWN"
  /\ c.mode # "disabled" => x.account_type = ExpectedAccountType(c.mode)

\* contract_qualified and contract_is_continuous of the context.
GateContract(x) == x.contract \in {"dated", "continuous"} /\ x.contract # "continuous"

GateMarketData(c, x) ==
  /\ c.number["MARKET_DATA_MAX_AGE_SECONDS"] > 0
  /\ x.quoted /\ ~ x.is_delayed
  /\ x.age + x.late >= 0
  /\ x.age + x.late <= c.number["MARKET_DATA_MAX_AGE_SECONDS"]

GateAllows(c, x) ==
  /\ ~ c.on["KILL_SWITCH"] /\ c.on["ALLOW_ORDER_TRANSMIT"]
  /\ GateMode(c) /\ GateAccount(c, x)
  /\ x.app_state = "READY" /\ x.connected /\ x.account_available
  /\ GateContract(x)
  /\ x.positions_reconciled /\ x.open_orders_reconciled
  /\ GateMarketData(c, x)
  /\ Permissions(c, x)
  /\ c.on["STRATEGY_ENABLED"] /\ x.strategy_enabled

-----------------------------------------------------------------------------
(* The deployment posture.                                                  *)

CanTransmitLive(c, engaged) ==
  c.mode = "live" /\ c.on["LIVE_TRADING_ENABLED"] /\ c.on["ALLOW_ORDER_TRANSMIT"] /\ ~ engaged

\* verify: every interlock has its approved value, every limit is zero.
Halted(c, engaged) ==
  /\ c.mode = "mock" /\ engaged
  /\ \A v \in {"ALLOW_ORDER_TRANSMIT", "LIVE_TRADING_ENABLED",
               "SOL_FUTURES_PERMISSION_READY"} : ~ c.on[v]
  /\ \A l \in Limits : c.number[l] = 0
  /\ ~ CanTransmitLive(c, engaged)

\* verify --posture armed.
ArmedNotLive(c, engaged) ==
  ~ c.on["LIVE_TRADING_ENABLED"] /\ ~ CanTransmitLive(c, engaged) /\ c.mode # "live"

-----------------------------------------------------------------------------
(* The read-only checkout: its preconditions and the reports it may end     *)
(* with.  A report gives every probe a status, "none" when it is not in it. *)

\* Preconditions of the read-only checkout.
Preconditions(c) ==
  /\ ~ c.on["ALLOW_ORDER_TRANSMIT"]
  /\ c.mode # "live" /\ ~ c.on["LIVE_TRADING_ENABLED"]
  /\ c.mode = "paper"
  /\ c.on["KILL_SWITCH"]

\* The session the checkout's last probe makes up: everything as green as can be, the
\* age of the quote 0.
AllGreen ==
  [app_state |-> "READY", connected |-> TRUE, account_type |-> "PAPER",
   account_available |-> TRUE, positions_reconciled |-> TRUE,
   open_orders_reconciled |-> TRUE, contract |-> "dated", quoted |-> TRUE, age |-> 0,
   late |-> 0, is_delayed |-> FALSE, price |-> 1, broker_permission_ready |-> TRUE,
   strategy_enabled |-> TRUE, open_orders_count |-> 0, orders_last_hour |-> 0,
   current_position |-> 0, side |-> 1, quantity |-> 1]

Reads == {"ACCOUNT_SUMMARY", "POSITIONS_READABLE", "OPEN_ORDERS_EMPTY", "FILLS_READABLE"}
Probes == Reads \cup
  {"PRECONDITIONS", "SOCKET_CONNECT", "ACCOUNT_TYPE_IS_PAPER", "CONTRACT_QUALIFIES",
   "CONTRACT_MONTHS_AVAILABLE", "MARKET_DATA", "GATE_REFUSES_WHEN_EVERYTHING_ELSE_IS_GREEN"}
Statuses == {"PASS", "FAIL", "SKIP"}

\* A read is answered (for the open orders: with none), or it is not.
\* Mutant: a read that is refused is reported as skipped.
ReadStatuses_Bug == {"PASS", "SKIP"}
ReadStatuses == {"PASS", "FAIL"}

\* Contract, months and market data.  The months are listed if no contract was
\* qualified (not when it could not even be named); market data need a contract.
ContractFindings ==
  {[contract |-> "PASS", months |-> "none", data |-> d] : d \in {"PASS", "FAIL"}}
    \cup {[contract |-> "FAIL", months |-> m, data |-> "SKIP"] : m \in {"PASS", "FAIL", "none"}}
    \cup {[contract |-> "SKIP", months |-> m, data |-> "SKIP"] : m \in {"PASS", "FAIL"}}

GateProbe(c) == IF GateAllows(c, AllGreen) THEN "FAIL" ELSE "PASS"

\* The probes of a session, which connect gives to a paper account only.
SessionReport(c, read, finding) ==
  [n \in Probes |->
     CASE n \in Reads -> read[n]
       [] n = "CONTRACT_QUALIFIES" -> finding.contract
       [] n = "CONTRACT_MONTHS_AVAILABLE" -> finding.months
       [] n = "MARKET_DATA" -> finding.data
       [] n = "GATE_REFUSES_WHEN_EVERYTHING_ELSE_IS_GREEN" -> GateProbe(c)
       [] OTHER -> "PASS"]

\* run_checkout: preconditions, then connect; when either fails nothing else is asked.
Reports(c) ==
  IF ~ Preconditions(c)
    THEN {[n \in Probes |-> IF n = "PRECONDITIONS" THEN "FAIL" ELSE "none"]}
    ELSE {[n \in Probes |-> CASE n = "PRECONDITIONS" -> "PASS" [] n = "SOCKET_CONNECT" -> "FAIL"
                              [] OTHER -> "SKIP"]}
         \cup {SessionReport(c, read, finding) :
                 read \in [Reads -> ReadStatuses], finding \in ContractFindings}

\* CheckoutReport.ok: something was observed, and nothing failed.
Passed(report) ==
  /\ \E n \in Probes : report[n] # "none"
  /\ \A n \in Probes : report[n] # "FAIL"

=============================================================================
